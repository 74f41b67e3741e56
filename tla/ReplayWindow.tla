---------------------------- MODULE ReplayWindow ----------------------------
(***************************************************************************)
(* replay_window.go: the window of a data or control key that rejects      *)
(* repeated packet ids.  The bitmap is kept as the code keeps it, an array *)
(* of 64-bit words (a word is the set of its bits); packet ids are         *)
(* unsigned and wrap at MaxPacketID.                                       *)
(***************************************************************************)
EXTENDS Integers

CONSTANTS
  WindowSize,   \* --replay-window
  TimeWindow,   \* the time after which an arrival makes older ids too old; 0: never
  MaxPacketID,  \* 2^32 - 1
  PacketIDs,    \* the ids packets carry
  Timestamps,   \* the timestamps of long-form packets
  LongForm,     \* packets carry a timestamp (AcceptLongForm)
  MaxTime       \* bound: the last moment of the clock

ASSUME WindowAssumption ==
  /\ WindowSize \in Nat /\ TimeWindow \in Nat /\ MaxPacketID \in Nat /\ MaxTime \in Nat
  /\ WindowSize <= MaxPacketID
  /\ PacketIDs \subseteq 0..MaxPacketID
  /\ Timestamps \subseteq 0..MaxPacketID
  /\ LongForm \in BOOLEAN
  /\ ~LongForm => Timestamps = {0}

VARIABLES initialized, highestID, highestTimestamp, bitmap, arrivalTimes, minimumID,
          now,      \* the clock
          accepts,  \* history: how often each packet was accepted
          verdict   \* the last packet and whether it was accepted

vars == <<initialized, highestID, highestTimestamp, bitmap, arrivalTimes, minimumID,
          now, accepts, verdict>>

Pairs == Timestamps \X PacketIDs
NoVerdict == <<>>
Offsets == 0..(WindowSize - 1)
Words == 0..((WindowSize + 63) \div 64 - 1)
NoTime == -1

NoBits == [word \in Words |-> {}]
NoArrivals == [offset \in Offsets |-> NoTime]

Init ==
  /\ initialized = FALSE /\ highestID = 0 /\ highestTimestamp = 0 /\ minimumID = 0
  /\ bitmap = NoBits /\ arrivalTimes = NoArrivals
  /\ now = 0
  /\ accepts = [pair \in Pairs |-> 0]
  /\ verdict = NoVerdict

-----------------------------------------------------------------------------
Bit(bits, offset) == (offset % 64) \in bits[offset \div 64]

SetBit(bits, offset) == [bits EXCEPT ![offset \div 64] = @ \cup {offset % 64}]

\* Mutant: the bits that leave a word are not carried into the next one.
ShiftWithoutCarry(bits, shift) ==
  [target \in Words |->
     LET source == target - (shift \div 64)
     IN  {bit \in 0..63 :
            source >= 0 /\ bit >= shift % 64 /\ bit - (shift % 64) \in bits[source]}]

ShiftReplayBitmap(bits, shift) ==
  LET wordShift == shift \div 64
      bitShift == shift % 64
  IN  [target \in Words |->
         LET source == target - wordShift
         IN  {bit \in 0..63 :
                \/ source >= 0 /\ bit >= bitShift /\ bit - bitShift \in bits[source]
                \/ source >= 1 /\ bit < bitShift /\ bit + 64 - bitShift \in bits[source - 1]}]

ShiftReplayTimes(times, shift) ==
  [offset \in Offsets |-> IF offset < shift THEN NoTime ELSE times[offset - shift]]

\* Mutant: one off, the id after the expired one becomes too old as well.
ReapOneTooMany ==
  LET expired == {offset \in Offsets :
                    arrivalTimes[offset] # NoTime /\ now - arrivalTimes[offset] > TimeWindow}
      after(offset) == (highestID - offset + 2) % (MaxPacketID + 1)
  IN  IF TimeWindow > 0 /\ expired # {}
      THEN \E first \in expired :
             /\ \A other \in expired : first <= other
             /\ minimumID' = IF after(first) > minimumID THEN after(first) ELSE minimumID
      ELSE minimumID' = minimumID

\* The newest id whose arrival is too long ago, and all before it, are too old.
ReapLocked ==
  LET expired == {offset \in Offsets :
                    arrivalTimes[offset] # NoTime /\ now - arrivalTimes[offset] > TimeWindow}
      after(offset) == (highestID - offset + 1) % (MaxPacketID + 1)
  IN  IF TimeWindow > 0 /\ expired # {}
      THEN \E first \in expired :
             /\ \A other \in expired : first <= other
             /\ minimumID' = IF after(first) > minimumID THEN after(first) ELSE minimumID
      ELSE minimumID' = minimumID

-----------------------------------------------------------------------------
InitializeLocked(timestamp, id) ==
  /\ initialized' = TRUE
  /\ highestTimestamp' = timestamp /\ highestID' = id /\ minimumID' = 0
  /\ bitmap' = IF WindowSize > 0 THEN SetBit(NoBits, 0) ELSE NoBits
  /\ arrivalTimes' = IF WindowSize > 0 THEN [NoArrivals EXCEPT ![0] = now] ELSE NoArrivals

\* Mutant: a jump past the window keeps the bits of the old ids.
AdvanceKeepsWords(id) ==
  /\ id > highestID
  /\ highestID' = id
  /\ bitmap' = IF id - highestID >= WindowSize THEN SetBit(bitmap, 0)
               ELSE SetBit(ShiftReplayBitmap(bitmap, id - highestID), 0)
  /\ arrivalTimes' = [ShiftReplayTimes(arrivalTimes, id - highestID) EXCEPT ![0] = now]

\* An id above the newest one moves the window.
Advance(id) ==
  LET shift == id - highestID
  IN  /\ id > highestID
      /\ highestID' = id
      /\ IF shift >= WindowSize
         THEN /\ bitmap' = SetBit(NoBits, 0)
              /\ arrivalTimes' = [NoArrivals EXCEPT ![0] = now]
         ELSE /\ bitmap' = SetBit(ShiftReplayBitmap(bitmap, shift), 0)
              /\ arrivalTimes' = [ShiftReplayTimes(arrivalTimes, shift) EXCEPT ![0] = now]

\* An id inside the window that was not accepted yet.
InGap(id, minimum) ==
  /\ id <= highestID /\ id >= minimum
  /\ highestID - id < WindowSize
  /\ ~Bit(bitmap, highestID - id)

Fill(id) ==
  /\ InGap(id, minimumID')
  /\ bitmap' = SetBit(bitmap, highestID - id)
  /\ arrivalTimes' = [arrivalTimes EXCEPT ![highestID - id] = now]
  /\ highestID' = highestID

AcceptLocked(id) ==
  /\ UNCHANGED <<initialized, highestTimestamp>>
  /\ IF WindowSize = 0
     THEN /\ id = (highestID + 1) % (MaxPacketID + 1)
          /\ highestID' = id
          /\ UNCHANGED <<bitmap, arrivalTimes, minimumID>>
     ELSE /\ ReapLocked
          /\ Advance(id) \/ Fill(id)

\* Mutant: an older timestamp reopens the window.
MayGoBack(timestamp, id) ==
  /\ ~initialized \/ timestamp # highestTimestamp
  /\ LongForm /\ WindowSize = 0 /\ timestamp > 0 => id = 1

\* The conditions of the two entry points, Accept and AcceptLongForm.
MayInitialize(timestamp, id) ==
  /\ ~initialized \/ timestamp > highestTimestamp
  /\ LongForm /\ WindowSize = 0 /\ timestamp > 0 => id = 1

Accepted(timestamp, id) ==
  /\ id # 0
  /\ \/ MayInitialize(timestamp, id) /\ InitializeLocked(timestamp, id)
     \/ initialized /\ timestamp = highestTimestamp /\ AcceptLocked(id)
  /\ accepts' = [accepts EXCEPT ![<<timestamp, id>>] = @ + 1]
  /\ verdict' = <<timestamp, id, TRUE>>

\* A rejected packet may still have reaped the window.
Rejected(timestamp, id) ==
  LET tested == id # 0 /\ initialized /\ timestamp = highestTimestamp
      passes == IF WindowSize = 0
                THEN id = (highestID + 1) % (MaxPacketID + 1)
                ELSE id > highestID \/ InGap(id, minimumID')
  IN  /\ IF tested /\ WindowSize > 0 THEN ReapLocked ELSE UNCHANGED minimumID
      /\ id # 0 => ~MayInitialize(timestamp, id)
      /\ tested => ~passes
      /\ verdict' = <<timestamp, id, FALSE>>
      /\ UNCHANGED <<initialized, highestID, highestTimestamp, bitmap, arrivalTimes, accepts>>

Packet(timestamp, id) ==
  (Accepted(timestamp, id) \/ Rejected(timestamp, id)) /\ now' = now

Tick ==
  /\ now < MaxTime
  /\ now' = now + 1
  /\ UNCHANGED <<initialized, highestID, highestTimestamp, bitmap, arrivalTimes, minimumID,
                 accepts, verdict>>

Next ==
  \/ \E timestamp \in Timestamps, id \in PacketIDs : Packet(timestamp, id)
  \/ Tick

Spec == Init /\ [][Next]_vars

-----------------------------------------------------------------------------
(* Properties *)

TypeOK ==
  /\ initialized \in BOOLEAN
  /\ highestID \in 0..MaxPacketID /\ minimumID \in 0..MaxPacketID
  /\ highestTimestamp \in 0..MaxPacketID
  /\ bitmap \in [Words -> SUBSET (0..63)]
  /\ arrivalTimes \in [Offsets -> Nat \cup {NoTime}]
  /\ now \in Nat
  /\ accepts \in [Pairs -> Nat]
  /\ verdict \in (Timestamps \X PacketIDs \X BOOLEAN) \cup {NoVerdict}

\* No packet passes the window twice, whatever order packets arrive in and
\* however the words of the bitmap are shifted (acceptLocked).
AcceptedOnce == \A pair \in Pairs : accepts[pair] <= 1

\* The bitmap knows exactly the accepted ids of the window, and nothing newer
\* than the newest id was accepted.
BitmapTrue ==
  initialized =>
    /\ highestID >= 1
    /\ WindowSize > 0 => \A offset \in Offsets :
         Bit(bitmap, offset) <=>
           /\ offset < highestID
           /\ <<highestTimestamp, highestID - offset>> \in Pairs
           /\ accepts[<<highestTimestamp, highestID - offset>>] > 0
    /\ \A timestamp \in Timestamps, id \in PacketIDs :
         accepts[<<timestamp, id>>] > 0 =>
           timestamp < highestTimestamp \/ (timestamp = highestTimestamp /\ id <= highestID)

\* Only accepted ids have an arrival time.
ArrivalsTrue ==
  initialized /\ WindowSize > 0 =>
    \A offset \in Offsets : arrivalTimes[offset] # NoTime => Bit(bitmap, offset)

NothingBefore == ~initialized => \A pair \in Pairs : accepts[pair] = 0

\* The inductive invariant behind AcceptedOnce and FilterSpec.
WindowInv == TypeOK /\ AcceptedOnce /\ BitmapTrue /\ ArrivalsTrue /\ NothingBefore

\* The window implements the filter: it accepts exactly the packets the filter
\* accepts, and only the passing of time may make it stricter.
Filter == INSTANCE ReplayFilter WITH
  epoch <- IF initialized THEN highestTimestamp ELSE -1,
  top <- highestID,
  floor <- minimumID
FilterSpec == Filter!Spec
=============================================================================
