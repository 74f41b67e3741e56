------------------------- MODULE RetransmissionTimer -------------------------
(***************************************************************************)
(* When proto/reliable.go sends a control packet again: the deadline that  *)
(* scheduleForRetransmission computes and PacketsReadyToSend looks at, of  *)
(* one packet in flight.  Reliable lets a packet be sent again at any      *)
(* time; this module is about the time.  runSender looks once a tick.      *)
(***************************************************************************)
EXTENDS Integers

CONSTANTS
  InitialRetransmissionTimeout,    \* in ticks
  MaximumRetransmissionTimeout,
  FastRetransmissionACKThreshold,
  DurationBits,      \* the width of time.Duration, with its sign
  MaxTransmissions   \* bound: how often runSender sends the packet

VARIABLES
  firstSent,                 \* writePacket sent the packet that InsertOutgoingPacket made
  deadline,                  \* ticks to retransmissionDeadline, -1 when it is zero or over
  higherPacketAcknowledges,
  retransmissionCount,
  waited                     \* history: ticks since runSender sent the packet, -1 before

vars == <<firstSent, deadline, higherPacketAcknowledges, retransmissionCount, waited>>

\* InsertOutgoingPacket: the packet is in flight with a zero deadline.
Init ==
  /\ firstSent = FALSE
  /\ deadline = -1
  /\ higherPacketAcknowledges = 0
  /\ retransmissionCount = 0
  /\ waited = -1

\* The caller that inserted the packet sends it itself.  This arms no timer, and
\* a tick may come before it.
WritePacket ==
  /\ ~firstSent
  /\ firstSent' = TRUE
  /\ UNCHANGED <<deadline, higherPacketAcknowledges, retransmissionCount, waited>>

Doubled(count) == InitialRetransmissionTimeout * 2 ^ (count - 1)

\* A product of durations, in two's complement.
Duration(product) ==
  LET modulus == 2 ^ DurationBits
      low == product % modulus
  IN  IF low < modulus \div 2 THEN low ELSE low - modulus

\* Mutant: the interval is not capped.
IntervalUncapped(count) == Duration(Doubled(count))

Interval(count) ==
  IF Duration(Doubled(count)) < MaximumRetransmissionTimeout
  THEN Duration(Doubled(count)) ELSE MaximumRetransmissionTimeout

Overtaken == higherPacketAcknowledges >= FastRetransmissionACKThreshold

\* PacketsReadyToSend of a tick that finds the packet ready, and the time to the
\* next tick.  On the tick of the deadline itself the clock may read either side
\* of it, since runSender reads it a little after the tick.
Transmit ==
  /\ deadline <= 0 \/ Overtaken
  /\ retransmissionCount < MaxTransmissions
  /\ retransmissionCount' = retransmissionCount + 1
  /\ deadline' = LET interval == Interval(retransmissionCount')
                 IN  IF interval > 0 THEN interval - 1 ELSE -1
  /\ waited' = 1
  /\ UNCHANGED <<firstSent, higherPacketAcknowledges>>

\* A tick that does not.
Wait ==
  /\ deadline >= 0 /\ ~Overtaken
  /\ deadline' = deadline - 1
  /\ waited' = waited + 1
  /\ UNCHANGED <<firstSent, higherPacketAcknowledges, retransmissionCount>>

\* OnIncomingPacket with an acknowledgment of a higher packet.  The counter is
\* never set back.
HigherAcknowledged ==
  /\ ~Overtaken
  /\ higherPacketAcknowledges' = higherPacketAcknowledges + 1
  /\ UNCHANGED <<firstSent, deadline, retransmissionCount, waited>>

Next == WritePacket \/ Transmit \/ Wait \/ HigherAcknowledged

Spec == Init /\ [][Next]_vars

-----------------------------------------------------------------------------
\* The shift has left the width of a duration.
Overflowed(count) == Doubled(count) >= 2 ^ (DurationBits - 1)

\* runSender repeats a packet before the first timeout has passed for two reasons
\* only: three higher packets were acknowledged, or its interval left the width
\* of a duration, after which the interval may be negative and every tick sends.
KeepsPace ==
  Transmit /\ waited # -1 /\ ~Overtaken /\ ~Overflowed(retransmissionCount)
    => waited >= InitialRetransmissionTimeout

\* However often it was sent, overflow or not, the next time is at most a tick
\* later than the longest timeout; and a packet that runSender has not sent yet
\* does not wait for a timer.
RetriedInTime ==
  /\ waited <= MaximumRetransmissionTimeout + 1
  /\ waited = -1 => deadline = -1
=============================================================================
