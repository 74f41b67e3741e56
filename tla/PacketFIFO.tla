----------------------------- MODULE PacketFIFO -----------------------------
(***************************************************************************)
(* What a packet queue promises, without its ring, its locks and its       *)
(* wake-ups: a bounded first-in first-out queue.                           *)
(***************************************************************************)
EXTENDS Integers, Sequences

CONSTANTS Capacity, Readers, Packet

VARIABLES
  dropNew,  \* a full queue refuses new packets instead of dropping old ones; never changes
  queue,
  received  \* reader -> the batches it got, in order

vars == <<dropNew, queue, received>>

Init == dropNew \in BOOLEAN /\ queue = <<>> /\ received = [r \in Readers |-> <<>>]

\* A packet enters at the end; a full queue makes room, or refuses it.
Put ==
  /\ \/ Len(queue) < Capacity /\ \E packet \in Packet : queue' = Append(queue, packet)
     \/ /\ Len(queue) = Capacity /\ ~dropNew
        /\ \E packet \in Packet : queue' = Append(Tail(queue), packet)
  /\ UNCHANGED received

\* A reader gets packets from the front, in order.
Get(r) ==
  \E count \in 1..Len(queue) :
    /\ received' = [received EXCEPT ![r] = Append(@, SubSeq(queue, 1, count))]
    /\ queue' = SubSeq(queue, count + 1, Len(queue))

\* Close throws the rest away.
Clear == queue' = <<>> /\ UNCHANGED received

Next == UNCHANGED dropNew /\ (Put \/ Clear \/ \E r \in Readers : Get(r))

Spec == Init /\ [][Next]_vars
=============================================================================
