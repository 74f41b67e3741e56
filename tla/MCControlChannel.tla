-------------------------- MODULE MCControlChannel --------------------------
(***************************************************************************)
(* The reliable layer of a control channel, in four situations, and the    *)
(* retransmission timer of one packet.  An initial state chooses the part; *)
(* the reliable layer rests in its initial state and the timer at Unused   *)
(* when it is not theirs.                                                  *)
(***************************************************************************)
EXTENDS Reliable

CONSTANTS c, s

VARIABLES
  part,
  \* of RetransmissionTimer
  firstSent, deadline, higherPacketAcknowledges, retransmissionCount, waited

timerVars == <<firstSent, deadline, higherPacketAcknowledges, retransmissionCount, waited>>
channelVars == <<part, vars, timerVars>>

Unused == 0

\* The constants of the configuration: the server opens with a reset, and the client answers
\* with an empty packet that carries its wrapped key, then with chunks; the server may be shut down.
WrappedWrites == [p \in {c, s} |-> IF p = c THEN 2 ELSE 0]
One == [p \in {c, s} |-> 1]

\* One end writes three chunks, one more than the receive buffer holds, the other only
\* acknowledges.
OneWay == INSTANCE Reliable WITH
  Writes <- [p \in {c, s} |-> IF p = c THEN 3 ELSE 0], Resetters <- {}, WrappedKeyHolders <- {},
  Closers <- {}, LinkCapacity <- [p \in {c, s} |-> IF p = c THEN 2 ELSE 1]

\* The same with a receiver that is shut down at any moment.
Closing == INSTANCE Reliable WITH
  Writes <- [p \in {c, s} |-> IF p = c THEN 3 ELSE 0], Resetters <- {}, WrappedKeyHolders <- {},
  Closers <- {s}

\* Both ends write, acknowledgments ride on control packets, and one end is shut down.
Duplex == INSTANCE Reliable WITH
  Writes <- One, Resetters <- {}, WrappedKeyHolders <- {}, Closers <- {c},
  LinkCapacity <- [p \in {c, s} |-> 2]

\* Durations of ten bits, and a packet that is sent until the shift has emptied them.  The
\* first timeout is no power of two, as in nanoseconds: a product that has left the width is
\* negative, then positive again, and zero in the end.
Timer == INSTANCE RetransmissionTimer WITH
  InitialRetransmissionTimeout <- 5, MaximumRetransmissionTimeout <- 60,
  FastRetransmissionACKThreshold <- 3, DurationBits <- 10, MaxTransmissions <- 14

NoTimer ==
  /\ firstSent = Unused /\ deadline = Unused /\ higherPacketAcknowledges = Unused
  /\ retransmissionCount = Unused /\ waited = Unused

ChannelInit ==
  \/ part = "wrapped" /\ Init /\ NoTimer
  \/ part = "oneWay" /\ OneWay!Init /\ NoTimer
  \/ part = "closing" /\ Closing!Init /\ NoTimer
  \/ part = "duplex" /\ Duplex!Init /\ NoTimer
  \/ part = "timer" /\ Init /\ Timer!Init

ChannelNext ==
  \/ /\ \/ part = "wrapped" /\ Next
        \/ part = "oneWay" /\ OneWay!Next
        \/ part = "closing" /\ Closing!Next
        \/ part = "duplex" /\ Duplex!Next
     /\ UNCHANGED <<part, timerVars>>
  \/ part = "timer" /\ Timer!Next /\ UNCHANGED <<part, vars>>

ChannelSpec == ChannelInit /\ [][ChannelNext]_channelVars

\* Two chunks over the fair-lossy link, between ends that stay open.
LiveWrites == [p \in {c, s} |-> IF p = c THEN 2 ELSE 0]
LiveInit == part = "live" /\ Init /\ NoTimer
LiveNext == part = "live" /\ Next /\ UNCHANGED <<part, timerVars>>
LiveSpec ==
  /\ LiveInit /\ [][LiveNext]_channelVars
  /\ SenderFairness(c, {1, 2}) /\ ReceiverFairness(s, {1, 2})

-----------------------------------------------------------------------------
\* scheduleForRetransmission computes the interval by a shift that has a width.  runSender sends
\* a packet once with the first tick, whether or not its caller has; it repeats it before the
\* first timeout has passed only when higher packets were acknowledged or the shift has
\* overflowed; and it never repeats it later than a tick after the longest timeout.
TimerPaced ==
  [][part = "timer" => Timer!KeepsPace /\ Timer!RetriedInTime]_channelVars

\* Every chunk with bytes is read by the peer in the end (PacketsReadyToSend).
EveryChunkDelivered == EventuallyDelivered({1, 2})
=============================================================================
