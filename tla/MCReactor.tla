------------------------------ MODULE MCReactor ------------------------------
(* Instances of Reactor for TLC.                                            *)
EXTENDS Reactor, TLC

CONSTANTS a, b, n1, n2

Sym == Permutations(Spawned) \cup Permutations(Nios)
=============================================================================
