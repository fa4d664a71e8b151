------------------------------ MODULE MCByteBuf ------------------------------
(* Instances of ByteBuf for TLC. *)
EXTENDS ByteBuf
=============================================================================
