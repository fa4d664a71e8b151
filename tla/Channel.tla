------------------------------ MODULE Channel ------------------------------
(***************************************************************************)
(* What `ruyi::sync::spsc::sync_channel` promises its two users, with no   *)
(* ring, no shadow indices and no awakener: a bounded FIFO queue between   *)
(* one sender and one receiver, whose content is destroyed when both ends  *)
(* have gone.  Spsc implements it (PROPERTY ImplementsChannel).            *)
(***************************************************************************)
EXTENDS Naturals, Sequences, FiniteSets, SequencesExt

CONSTANTS
    Cap,        \* the capacity given to sync_channel
    Msgs        \* the messages the sender may send

VARIABLES
    queue,      \* messages sent and not yet taken, oldest first
    taken,      \* messages the receiver has taken, in that order
    lost,       \* messages destroyed with the channel
    ends        \* which of the two ends is still alive

cvars == <<queue, taken, lost, ends>>

ChannelInit ==
    /\ queue = <<>>
    /\ taken = <<>>
    /\ lost = {}
    /\ ends = {"tx", "rx"}

\* A message enters only through a living sender, and only below capacity.
Put(m) ==
    /\ "tx" \in ends
    /\ Len(queue) < Cap
    /\ m \notin Range(queue) \cup Range(taken) \cup lost
    /\ queue' = Append(queue, m)
    /\ UNCHANGED <<taken, lost, ends>>

Take ==
    /\ "rx" \in ends
    /\ queue # <<>>
    /\ taken' = Append(taken, Head(queue))
    /\ queue' = Tail(queue)
    /\ UNCHANGED <<lost, ends>>

\* The second end to go takes the remaining messages with it.
Close(e) ==
    /\ e \in ends
    /\ ends' = ends \ {e}
    /\ IF ends' = {}
         THEN lost' = lost \cup Range(queue) /\ queue' = <<>>
         ELSE UNCHANGED <<lost, queue>>
    /\ UNCHANGED taken

ChannelNext ==
    \/ \E m \in Msgs : Put(m)
    \/ Take
    \/ \E e \in {"tx", "rx"} : Close(e)

ChannelSpec == ChannelInit /\ [][ChannelNext]_cvars
=============================================================================
