---------------------------- MODULE ReplayFilter ----------------------------
(***************************************************************************)
(* What a replay window promises, without its bitmap and its clock: which  *)
(* packets it accepts, as a function of what it accepted before.           *)
(***************************************************************************)
EXTENDS Integers

CONSTANTS
  WindowSize,   \* --replay-window, 0 for strictly monotonic ids
  TimeWindow,   \* 0: packets never get too old
  PacketIDs,    \* the ids packets carry
  Timestamps    \* the timestamps of long-form packets; {0} for the short form

VARIABLES
  epoch,    \* the newest timestamp, -1 before the first packet
  top,      \* the newest id of that timestamp
  floor,    \* ids below it are too old
  accepts,  \* how often each packet was accepted
  verdict   \* the last packet and whether it was accepted

vars == <<epoch, top, floor, accepts, verdict>>

Pairs == Timestamps \X PacketIDs
NoVerdict == <<>>

Init ==
  /\ epoch = -1 /\ top = 0 /\ floor = 0
  /\ accepts = [pair \in Pairs |-> 0]
  /\ verdict = NoVerdict

\* A packet that opens a new sequence.
Opens(timestamp, id) ==
  /\ timestamp > epoch
  /\ WindowSize = 0 => id = 1 \/ (epoch = -1 /\ timestamp = 0)

\* A packet that belongs to the current sequence.
Continues(timestamp, id, lowest) ==
  /\ timestamp = epoch
  /\ IF WindowSize = 0
     THEN id = top + 1
     ELSE \/ id > top
          \/ id >= lowest /\ top - id < WindowSize /\ accepts[<<timestamp, id>>] = 0

\* Time may make too old the ids up to one that was accepted, and no others.
Expire ==
  \/ floor' = floor
  \/ /\ TimeWindow > 0 /\ WindowSize > 0
     /\ floor' > floor
     /\ <<epoch, floor' - 1>> \in Pairs
     /\ accepts[<<epoch, floor' - 1>>] > 0

Accept(timestamp, id) ==
  /\ id # 0
  /\ \/ Opens(timestamp, id) /\ epoch' = timestamp /\ top' = id /\ floor' = 0
     \/ /\ Expire
        /\ Continues(timestamp, id, floor')
        /\ epoch' = epoch
        /\ top' = IF id > top THEN id ELSE top
  /\ accepts' = [accepts EXCEPT ![<<timestamp, id>>] = @ + 1]
  /\ verdict' = <<timestamp, id, TRUE>>

Reject(timestamp, id) ==
  /\ Expire
  /\ id # 0 => ~Opens(timestamp, id) /\ ~Continues(timestamp, id, floor')
  /\ verdict' = <<timestamp, id, FALSE>>
  /\ UNCHANGED <<epoch, top, accepts>>

Next ==
  \E timestamp \in Timestamps, id \in PacketIDs :
    Accept(timestamp, id) \/ Reject(timestamp, id)

Step == [Next]_vars

Spec == Init /\ [][Next]_vars

\* No packet is accepted twice: what Accept and AcceptLongForm are there for.
AcceptedOnce == \A pair \in Pairs : accepts[pair] <= 1
=============================================================================
