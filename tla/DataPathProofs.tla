--------------------------- MODULE DataPathProofs ---------------------------
(***************************************************************************)
(* What a data packet meets on its way in, for every value of the          *)
(* constants.  The replay window accepts exactly what its filter accepts,  *)
(* each packet once.  The queue that hands packets to readers loses no     *)
(* wake-up, for any number of pushers and readers: a reader goes to wait   *)
(* only when the ring is empty; whoever makes it non-empty signals, and    *)
(* the token that a signal leaves is passed on by the reader who takes it. *)
(* Every packet handed to the queue is in one place until it is released,  *)
(* and released once.  The ring, with its head that goes around, is a      *)
(* bounded first-in first-out queue.                                       *)
(***************************************************************************)
EXTENDS ReplayWindow, DataQueue, FiniteSetTheorems, TLAPS

\* The prover of a leaf that names none.
USE Zenon

(* The replay window *)

\* Every offset of the window has its bit in one of the words (newReplayWindow
\* rounds the number of words up).
LEMMA OffsetInWords ==
  ASSUME NEW offset \in Offsets
  PROVE  /\ offset \in Nat /\ offset < WindowSize /\ WindowSize \in Nat
         /\ offset \div 64 \in Words /\ offset % 64 \in 0..63
         /\ offset = 64 * (offset \div 64) + (offset % 64)
BY WindowAssumption, SMT DEF Offsets, Words

\* Setting one bit changes no other bit of the window.
LEMMA SetBitBit ==
  ASSUME NEW bits \in [Words -> SUBSET (0..63)], NEW set \in Offsets, NEW offset \in Offsets
  PROVE  /\ SetBit(bits, set) \in [Words -> SUBSET (0..63)]
         /\ Bit(SetBit(bits, set), offset) <=> offset = set \/ Bit(bits, offset)
<1>1. /\ set \div 64 \in Words /\ set % 64 \in 0..63 /\ set = 64 * (set \div 64) + (set % 64)
      /\ offset \div 64 \in Words /\ offset = 64 * (offset \div 64) + (offset % 64)
  BY OffsetInWords, SMT
<1>2. SetBit(bits, set) \in [Words -> SUBSET (0..63)]
  BY <1>1, SMT DEF SetBit
<1>3. CASE offset \div 64 = set \div 64
  <2>1. SetBit(bits, set)[offset \div 64] = bits[offset \div 64] \cup {set % 64}
    BY <1>1, <1>3 DEF SetBit
  <2>2. offset = set <=> offset % 64 = set % 64
    BY <1>1, <1>3
  <2> QED BY <1>2, <2>1, <2>2 DEF Bit
<1>4. CASE offset \div 64 # set \div 64
  <2>1. SetBit(bits, set)[offset \div 64] = bits[offset \div 64]
    BY <1>1, <1>4 DEF SetBit
  <2>2. offset # set
    BY <1>4
  <2> QED BY <1>2, <2>1, <2>2 DEF Bit
<1> QED BY <1>3, <1>4

\* shiftReplayBitmap moves every bit of the window by shift, across the words.
LEMMA ShiftBit ==
  ASSUME NEW bits \in [Words -> SUBSET (0..63)], NEW shift \in Nat, NEW offset \in Offsets
  PROVE  /\ ShiftReplayBitmap(bits, shift) \in [Words -> SUBSET (0..63)]
         /\ Bit(ShiftReplayBitmap(bits, shift), offset)
              <=> offset >= shift /\ Bit(bits, offset - shift)
<1> DEFINE t == offset \div 64
           b == offset % 64
           ws == shift \div 64
           bs == shift % 64
<1>1. /\ offset \in Nat /\ t \in Words /\ t \in Nat /\ b \in 0..63 /\ offset = 64 * t + b
      /\ ws \in Nat /\ bs \in 0..63 /\ shift = 64 * ws + bs
  <2>1. offset \in Nat /\ t \in Words /\ b \in 0..63 /\ offset = 64 * t + b
    BY OffsetInWords
  <2>2. t \in Nat
    BY <2>1, SMT
  <2>3. ws \in Nat /\ bs \in 0..63 /\ shift = 64 * ws + bs
    BY SMT
  <2> QED BY <2>1, <2>2, <2>3
<1>2. ShiftReplayBitmap(bits, shift) \in [Words -> SUBSET (0..63)]
  BY DEF ShiftReplayBitmap
<1>3. Bit(ShiftReplayBitmap(bits, shift), offset) <=>
        \/ t - ws >= 0 /\ b >= bs /\ b - bs \in bits[t - ws]
        \/ t - ws >= 1 /\ b < bs /\ b + 64 - bs \in bits[t - ws - 1]
  BY <1>1 DEF Bit, ShiftReplayBitmap
<1>4. CASE b >= bs
  <2>1. offset >= shift <=> t - ws >= 0
    BY <1>1, <1>4, SMT
  <2>2. ASSUME offset >= shift
        PROVE  (offset - shift) \div 64 = t - ws /\ (offset - shift) % 64 = b - bs
    BY <1>1, <1>4, <2>2, SMT
  <2>3. CASE offset >= shift
    <3>1. Bit(bits, offset - shift) <=> b - bs \in bits[t - ws]
      BY <2>2, <2>3 DEF Bit
    <3> HIDE DEF t, b, ws, bs
    <3> QED BY <1>1, <1>2, <1>3, <1>4, <2>1, <2>3, <3>1, SMT
  <2>4. CASE ~(offset >= shift)
    <3> HIDE DEF t, b, ws, bs
    <3> QED BY <1>1, <1>2, <1>3, <1>4, <2>1, <2>4, SMT
  <2> QED BY <2>3, <2>4
<1>5. CASE b < bs
  <2>1. offset >= shift <=> t - ws >= 1
    BY <1>1, <1>5, SMT
  <2>2. ASSUME offset >= shift
        PROVE  (offset - shift) \div 64 = t - ws - 1 /\ (offset - shift) % 64 = b + 64 - bs
    BY <1>1, <1>5, <2>2, SMT
  <2>3. CASE offset >= shift
    <3>1. Bit(bits, offset - shift) <=> b + 64 - bs \in bits[t - ws - 1]
      BY <2>2, <2>3 DEF Bit
    <3> HIDE DEF t, b, ws, bs
    <3> QED BY <1>1, <1>2, <1>3, <1>5, <2>1, <2>3, <3>1, SMT
  <2>4. CASE ~(offset >= shift)
    <3> HIDE DEF t, b, ws, bs
    <3> QED BY <1>1, <1>2, <1>3, <1>5, <2>1, <2>4, SMT
  <2> QED BY <2>3, <2>4
<1>6. b >= bs \/ b < bs
  BY <1>1, SMT
<1> QED BY <1>2, <1>4, <1>5, <1>6

\* Ids and timestamps are unsigned integers.
LEMMA Unsigned ==
  /\ WindowSize \in Nat /\ MaxPacketID \in Nat
  /\ \A id \in PacketIDs : id \in Nat /\ id <= MaxPacketID
  /\ \A timestamp \in Timestamps : timestamp \in Nat /\ timestamp <= MaxPacketID
BY WindowAssumption, SMT

\* An accepted packet is counted, and no other.
LEMMA Counted ==
  ASSUME accepts \in [Pairs -> Nat], NEW timestamp \in Timestamps, NEW id \in PacketIDs,
         accepts' = [accepts EXCEPT ![<<timestamp, id>>] = @ + 1]
  PROVE  /\ accepts' \in [Pairs -> Nat]
         /\ accepts'[<<timestamp, id>>] = accepts[<<timestamp, id>>] + 1
         /\ \A pair \in Pairs : pair # <<timestamp, id>> => accepts'[pair] = accepts[pair]
<1>1. <<timestamp, id>> \in Pairs
  BY DEF Pairs
<1> QED BY <1>1, SMT

\* A packet that passes the tests of Accept or AcceptLongForm was never accepted.
LEMMA AcceptedIsNew ==
  ASSUME WindowInv, NEW timestamp \in Timestamps, NEW id \in PacketIDs,
         Accepted(timestamp, id)
  PROVE  accepts[<<timestamp, id>>] = 0
<1>1. <<timestamp, id>> \in Pairs /\ accepts[<<timestamp, id>>] \in Nat
  BY DEF Pairs, WindowInv, TypeOK
<1>2. /\ id \in Nat /\ id # 0 /\ id <= MaxPacketID /\ timestamp \in Nat
      /\ highestID \in Nat /\ highestID <= MaxPacketID /\ highestTimestamp \in Nat
      /\ MaxPacketID \in Nat
  BY Unsigned, SMT DEF Accepted, WindowInv, TypeOK
<1>3. CASE ~initialized
  BY <1>1, <1>3 DEF WindowInv, NothingBefore
<1>4. CASE initialized /\ timestamp > highestTimestamp
  BY <1>1, <1>2, <1>4, SMT DEF WindowInv, BitmapTrue
<1>5. CASE initialized /\ timestamp = highestTimestamp /\ AcceptLocked(id)
  <2>1. CASE id > highestID
    BY <1>1, <1>2, <1>5, <2>1, SMT DEF WindowInv, BitmapTrue
  <2>2. CASE WindowSize = 0
    <3>1. id = (highestID + 1) % (MaxPacketID + 1)
      BY <1>5, <2>2 DEF AcceptLocked
    <3>2. CASE highestID < MaxPacketID
      <4>1. id = highestID + 1
        BY <1>2, <3>1, <3>2, SMT
      <4> QED BY <1>2, <2>1, <4>1, SMT
    <3>3. CASE highestID = MaxPacketID
      BY <1>2, <3>1, <3>3, SMT
    <3> QED BY <1>2, <3>2, <3>3, SMT
  <2>3. CASE WindowSize # 0 /\ Fill(id)
    <3> DEFINE offset == highestID - id
    <3>1. id <= highestID /\ offset < WindowSize /\ ~Bit(bitmap, offset)
      BY <2>3 DEF Fill, InGap
    <3>2. offset \in Offsets /\ offset < highestID /\ highestID - offset = id /\ WindowSize > 0
      BY <1>2, <2>3, <3>1, Unsigned, SMT DEF Offsets
    <3> HIDE DEF offset
    <3>3. ~(accepts[<<highestTimestamp, highestID - offset>>] > 0)
      BY <1>1, <1>5, <3>1, <3>2 DEF WindowInv, BitmapTrue
    <3> QED BY <1>1, <1>5, <3>2, <3>3, SMT
  <2>4. CASE WindowSize # 0 /\ Advance(id)
    BY <2>1, <2>4 DEF Advance
  <2> QED BY <1>5, <2>2, <2>3, <2>4 DEF AcceptLocked
<1> QED BY <1>3, <1>4, <1>5 DEF Accepted, MayInitialize

\* The words and arrival times keep their shape when the window moves.
LEMMA WindowTypes ==
  ASSUME TypeOK, WindowSize > 0
  PROVE  /\ 0 \in Offsets
         /\ NoBits \in [Words -> SUBSET (0..63)]
         /\ NoArrivals \in [Offsets -> Nat \cup {NoTime}]
         /\ \A shift \in Nat :
              ShiftReplayTimes(arrivalTimes, shift) \in [Offsets -> Nat \cup {NoTime}]
<1>1. 0 \in Offsets
  BY Unsigned, SMT DEF Offsets
<1>2. NoBits \in [Words -> SUBSET (0..63)] /\ NoArrivals \in [Offsets -> Nat \cup {NoTime}]
  BY DEF NoBits, NoArrivals
<1>3. ASSUME NEW shift \in Nat
      PROVE  ShiftReplayTimes(arrivalTimes, shift) \in [Offsets -> Nat \cup {NoTime}]
  <2>1. ASSUME NEW offset \in Offsets, ~(offset < shift) PROVE offset - shift \in Offsets
    BY <2>1, Unsigned, SMT DEF Offsets
  <2> QED BY <2>1 DEF ShiftReplayTimes, TypeOK
<1> QED BY <1>1, <1>2, <1>3

\* A window without bits knows no offset.
LEMMA NoBit ==
  ASSUME NEW offset \in Offsets
  PROVE  ~Bit(NoBits, offset)
BY OffsetInWords DEF Bit, NoBits

\* reapLocked keeps minimumID an unsigned integer.
LEMMA ReapType ==
  ASSUME TypeOK, ReapLocked
  PROVE  minimumID' \in 0..MaxPacketID
<1>1. \A x \in Int : x % (MaxPacketID + 1) \in 0..MaxPacketID
  BY Unsigned, SMT
<1>2. \A offset \in Offsets : highestID - offset + 1 \in Int
  BY Unsigned, SMT DEF Offsets, TypeOK
<1> QED BY <1>1, <1>2 DEF ReapLocked, TypeOK

\* The initial window satisfies the invariant.
LEMMA WindowInit == Init => WindowInv
<1> SUFFICES ASSUME Init PROVE WindowInv
  OBVIOUS
<1>1. TypeOK
  <2>1. bitmap \in [Words -> SUBSET (0..63)] /\ arrivalTimes \in [Offsets -> Nat \cup {NoTime}]
    BY DEF Init, NoBits, NoArrivals
  <2>2. /\ initialized \in BOOLEAN /\ now \in Nat /\ accepts \in [Pairs -> Nat]
        /\ verdict \in (Timestamps \X PacketIDs \X BOOLEAN) \cup {NoVerdict}
    BY DEF Init
  <2>3. highestID \in 0..MaxPacketID /\ minimumID \in 0..MaxPacketID /\ highestTimestamp \in 0..MaxPacketID
    BY Unsigned, SMT DEF Init
  <2> QED BY <2>1, <2>2, <2>3 DEF TypeOK
<1>2. AcceptedOnce /\ NothingBefore /\ BitmapTrue /\ ArrivalsTrue
  BY SMT DEF Init, AcceptedOnce, NothingBefore, BitmapTrue, ArrivalsTrue
<1> QED BY <1>1, <1>2 DEF WindowInv

\* Every step keeps the types (Accept, AcceptLongForm).
LEMMA WindowTypeStep ==
  ASSUME TypeOK, [Next]_vars
  PROVE  TypeOK'
<1>1. CASE UNCHANGED vars
  BY <1>1 DEF vars, TypeOK
<1>2. CASE Tick
  BY <1>2, SMT DEF Tick, TypeOK
<1>3. ASSUME NEW timestamp \in Timestamps, NEW id \in PacketIDs, Packet(timestamp, id)
      PROVE  TypeOK'
  <2>1. now' \in Nat /\ now \in Nat
    BY <1>3 DEF Packet, TypeOK
  <2>2. timestamp \in 0..MaxPacketID /\ id \in 0..MaxPacketID /\ 0 \in 0..MaxPacketID
    BY Unsigned, SMT
  <2>3. CASE Rejected(timestamp, id)
    <3>1. minimumID' \in 0..MaxPacketID
      BY <2>3, ReapType DEF Rejected, TypeOK
    <3>2. verdict' \in (Timestamps \X PacketIDs \X BOOLEAN) \cup {NoVerdict}
      BY <2>3 DEF Rejected
    <3>3. UNCHANGED <<initialized, highestID, highestTimestamp, bitmap, arrivalTimes, accepts>>
      BY <2>3 DEF Rejected
    <3> QED BY <2>1, <3>1, <3>2, <3>3 DEF TypeOK
  <2>4. CASE Accepted(timestamp, id)
    <3>1. verdict' \in (Timestamps \X PacketIDs \X BOOLEAN) \cup {NoVerdict}
      BY <2>4 DEF Accepted
    <3>2. accepts' \in [Pairs -> Nat]
      BY <2>4, Counted DEF Accepted, TypeOK
    <3>3. CASE InitializeLocked(timestamp, id)
      <4>1. /\ initialized' = TRUE /\ highestTimestamp' = timestamp
            /\ highestID' = id /\ minimumID' = 0
        BY <3>3 DEF InitializeLocked
      <4>2. /\ bitmap' \in [Words -> SUBSET (0..63)]
            /\ arrivalTimes' \in [Offsets -> Nat \cup {NoTime}]
        <5>1. CASE WindowSize > 0
          BY <2>1, <3>3, <5>1, WindowTypes, SetBitBit DEF InitializeLocked
        <5>2. CASE ~(WindowSize > 0)
          BY <3>3, <5>2 DEF InitializeLocked, NoBits, NoArrivals
        <5> QED BY <5>1, <5>2
      <4> QED BY <2>1, <2>2, <3>1, <3>2, <4>1, <4>2 DEF TypeOK
    <3>4. CASE AcceptLocked(id) /\ WindowSize = 0
      <4>1. /\ UNCHANGED <<initialized, highestTimestamp, bitmap, arrivalTimes, minimumID>>
            /\ highestID' = id
        BY <3>4 DEF AcceptLocked
      <4> QED BY <2>1, <2>2, <3>1, <3>2, <4>1 DEF TypeOK
    <3>5. CASE AcceptLocked(id) /\ WindowSize # 0
      <4>1. UNCHANGED <<initialized, highestTimestamp>> /\ minimumID' \in 0..MaxPacketID
        BY <3>5, ReapType DEF AcceptLocked
      <4>2. WindowSize > 0 /\ highestID \in Nat /\ id \in Nat
        BY <3>5, Unsigned, SMT DEF TypeOK
      <4>3. CASE Advance(id)
        <5>1. id - highestID \in Nat /\ highestID' = id
          BY <4>2, <4>3, SMT DEF Advance
        <5>2. /\ bitmap' \in [Words -> SUBSET (0..63)]
              /\ arrivalTimes' \in [Offsets -> Nat \cup {NoTime}]
          <6>1. ShiftReplayBitmap(bitmap, id - highestID) \in [Words -> SUBSET (0..63)]
            BY <4>2, <5>1, ShiftBit, WindowTypes DEF TypeOK
          <6>2. /\ 0 \in Offsets /\ NoBits \in [Words -> SUBSET (0..63)]
                /\ NoArrivals \in [Offsets -> Nat \cup {NoTime}]
                /\ ShiftReplayTimes(arrivalTimes, id - highestID) \in [Offsets -> Nat \cup {NoTime}]
            BY <4>2, <5>1, WindowTypes
          <6>3. bitmap' = SetBit(NoBits, 0) \/ bitmap' = SetBit(ShiftReplayBitmap(bitmap, id - highestID), 0)
            BY <4>3 DEF Advance
          <6>4. \/ arrivalTimes' = [NoArrivals EXCEPT ![0] = now]
                \/ arrivalTimes' = [ShiftReplayTimes(arrivalTimes, id - highestID) EXCEPT ![0] = now]
            BY <4>3 DEF Advance
          <6>5. bitmap' \in [Words -> SUBSET (0..63)]
            BY <6>1, <6>2, <6>3, SetBitBit, SMT
          <6>6. arrivalTimes' \in [Offsets -> Nat \cup {NoTime}]
            BY <2>1, <6>2, <6>4
          <6> QED BY <6>5, <6>6
        <5> QED BY <2>1, <2>2, <3>1, <3>2, <4>1, <5>1, <5>2 DEF TypeOK
      <4>4. CASE Fill(id)
        <5>1. highestID - id \in Offsets
          BY <4>2, <4>4, Unsigned, SMT DEF Fill, InGap, Offsets
        <5>2. /\ bitmap' \in [Words -> SUBSET (0..63)]
              /\ arrivalTimes' \in [Offsets -> Nat \cup {NoTime}]
              /\ highestID' = highestID
          BY <2>1, <4>4, <5>1, SetBitBit DEF Fill, TypeOK
        <5> QED BY <2>1, <3>1, <3>2, <4>1, <5>2 DEF TypeOK
      <4> QED BY <3>5, <4>3, <4>4 DEF AcceptLocked
    <3> QED BY <2>4, <3>3, <3>4, <3>5 DEF Accepted
  <2> QED BY <1>3, <2>3, <2>4 DEF Packet
<1> QED BY <1>1, <1>2, <1>3 DEF Next

\* An accepted packet keeps AcceptedOnce: it is counted for the first time.
LEMMA OnceStep ==
  ASSUME WindowInv, NEW timestamp \in Timestamps, NEW id \in PacketIDs,
         Accepted(timestamp, id)
  PROVE  AcceptedOnce'
<1>1. accepts[<<timestamp, id>>] = 0
  BY AcceptedIsNew
<1>2. accepts \in [Pairs -> Nat] /\ accepts' = [accepts EXCEPT ![<<timestamp, id>>] = @ + 1]
  BY DEF Accepted, WindowInv, TypeOK
<1>3. /\ accepts'[<<timestamp, id>>] = accepts[<<timestamp, id>>] + 1
      /\ \A pair \in Pairs : pair # <<timestamp, id>> => accepts'[pair] = accepts[pair]
  BY <1>2, Counted
<1>4. \A pair \in Pairs : accepts[pair] <= 1
  BY DEF WindowInv, AcceptedOnce
<1>5. \A pair \in Pairs : accepts'[pair] <= 1
  BY <1>1, <1>3, <1>4, SMT
<1> QED BY <1>5 DEF AcceptedOnce

\* After an accepted packet nothing newer than the newest id was accepted.
LEMMA NewestStep ==
  ASSUME WindowInv, NEW timestamp \in Timestamps, NEW id \in PacketIDs,
         Accepted(timestamp, id)
  PROVE  /\ initialized' /\ highestID' >= 1
         /\ \A t \in Timestamps, i \in PacketIDs : accepts'[<<t, i>>] > 0 =>
              t < highestTimestamp' \/ (t = highestTimestamp' /\ i <= highestID')
<1>1. accepts \in [Pairs -> Nat] /\ accepts' = [accepts EXCEPT ![<<timestamp, id>>] = @ + 1]
  BY DEF Accepted, WindowInv, TypeOK
<1>2. \A pair \in Pairs : pair # <<timestamp, id>> => accepts'[pair] = accepts[pair]
  BY <1>1, Counted
<1>3. /\ id \in Nat /\ id >= 1 /\ timestamp \in Nat
      /\ highestID \in Nat /\ highestTimestamp \in Nat
  BY Unsigned, SMT DEF Accepted, WindowInv, TypeOK
<1>4. \A t \in Timestamps, i \in PacketIDs :
        /\ <<t, i>> \in Pairs /\ t \in Nat /\ i \in Nat /\ accepts[<<t, i>>] \in Nat
        /\ <<t, i>> = <<timestamp, id>> => t = timestamp /\ i = id
  BY <1>1, Unsigned DEF Pairs
<1>5. initialized => \A t \in Timestamps, i \in PacketIDs : accepts[<<t, i>>] > 0 =>
        t < highestTimestamp \/ (t = highestTimestamp /\ i <= highestID)
  BY DEF WindowInv, BitmapTrue
<1>6. ~initialized => \A pair \in Pairs : accepts[pair] = 0
  BY DEF WindowInv, NothingBefore
<1>7. CASE MayInitialize(timestamp, id) /\ InitializeLocked(timestamp, id)
  <2>1. initialized' /\ highestTimestamp' = timestamp /\ highestID' = id
    BY <1>7 DEF InitializeLocked
  <2>2. ~initialized \/ timestamp > highestTimestamp
    BY <1>7 DEF MayInitialize
  <2> QED BY <1>2, <1>3, <1>4, <1>5, <1>6, <2>1, <2>2, SMT
<1>8. CASE initialized /\ timestamp = highestTimestamp /\ AcceptLocked(id)
  <2>1. initialized' = initialized /\ highestTimestamp' = highestTimestamp
    BY <1>8 DEF AcceptLocked
  <2>2. highestID' \in Nat /\ highestID' >= highestID /\ highestID' >= id
    <3>1. CASE WindowSize = 0
      <4>1. id = (highestID + 1) % (MaxPacketID + 1) /\ highestID' = id
        BY <1>8, <3>1 DEF AcceptLocked
      <4>2. highestID <= MaxPacketID /\ MaxPacketID \in Nat
        BY <1>3, Unsigned, SMT DEF WindowInv, TypeOK
      <4>3. highestID # MaxPacketID
        BY <1>3, <4>1, <4>2, SMT
      <4>4. id = highestID + 1
        BY <1>3, <4>1, <4>2, <4>3, SMT
      <4> QED BY <1>3, <4>1, <4>4, SMT
    <3>2. CASE WindowSize # 0 /\ Advance(id)
      BY <1>3, <3>2, SMT DEF Advance
    <3>3. CASE WindowSize # 0 /\ Fill(id)
      BY <1>3, <3>3, SMT DEF Fill, InGap
    <3> QED BY <1>8, <3>1, <3>2, <3>3 DEF AcceptLocked
  <2> QED BY <1>2, <1>3, <1>4, <1>5, <1>8, <2>1, <2>2, SMT
<1> QED BY <1>7, <1>8 DEF Accepted

\* After an accepted packet the bitmap knows exactly the accepted ids of the window,
\* and only they have an arrival time.
LEMMA BitsStep ==
  ASSUME WindowInv, WindowSize > 0, NEW timestamp \in Timestamps, NEW id \in PacketIDs,
         Accepted(timestamp, id), NEW offset \in Offsets
  PROVE  /\ Bit(bitmap', offset) <=>
              /\ offset < highestID'
              /\ <<highestTimestamp', highestID' - offset>> \in Pairs
              /\ accepts'[<<highestTimestamp', highestID' - offset>>] > 0
         /\ arrivalTimes'[offset] # NoTime => Bit(bitmap', offset)
<1> DEFINE known(t, i) == <<t, i>> \in Pairs /\ accepts[<<t, i>>] > 0
           knownAfter(t, i) == <<t, i>> \in Pairs /\ accepts'[<<t, i>>] > 0
<1>1. /\ id \in Nat /\ id >= 1 /\ timestamp \in Nat /\ offset \in Nat /\ offset < WindowSize
      /\ highestID \in Nat /\ highestTimestamp \in Nat /\ WindowSize \in Nat
  BY Unsigned, OffsetInWords, SMT DEF Accepted, WindowInv, TypeOK
<1>2. /\ bitmap \in [Words -> SUBSET (0..63)] /\ NoBits \in [Words -> SUBSET (0..63)]
      /\ arrivalTimes \in [Offsets -> Nat \cup {NoTime}]
      /\ NoArrivals \in [Offsets -> Nat \cup {NoTime}] /\ 0 \in Offsets
  BY WindowTypes DEF WindowInv, TypeOK
<1>3. \A t, i : knownAfter(t, i) <=> (t = timestamp /\ i = id) \/ known(t, i)
  <2>1. accepts \in [Pairs -> Nat] /\ accepts' = [accepts EXCEPT ![<<timestamp, id>>] = @ + 1]
    BY DEF Accepted, WindowInv, TypeOK
  <2>2. /\ accepts'[<<timestamp, id>>] = accepts[<<timestamp, id>>] + 1
        /\ \A pair \in Pairs : pair # <<timestamp, id>> => accepts'[pair] = accepts[pair]
    BY <2>1, Counted
  <2>3. <<timestamp, id>> \in Pairs /\ accepts[<<timestamp, id>>] \in Nat
    BY <2>1 DEF Pairs
  <2>4. accepts'[<<timestamp, id>>] > 0
    BY <2>2, <2>3, SMT
  <2>5. ASSUME NEW t, NEW i, <<t, i>> # <<timestamp, id>>
        PROVE  knownAfter(t, i) <=> known(t, i)
    BY <2>2, <2>5
  <2>6. \A t, i : <<t, i>> = <<timestamp, id>> <=> (t = timestamp /\ i = id)
    OBVIOUS
  <2>7. knownAfter(timestamp, id)
    BY <2>3, <2>4
  <2> HIDE DEF known, knownAfter
  <2> QED BY <2>5, <2>6, <2>7
<1>4. ASSUME initialized, NEW t, NEW i, known(t, i)
      PROVE  /\ t \in Nat /\ i \in Nat
             /\ t < highestTimestamp \/ (t = highestTimestamp /\ i <= highestID)
  <2>1. t \in Timestamps /\ i \in PacketIDs
    BY <1>4 DEF Pairs
  <2> QED BY <1>4, <2>1, Unsigned DEF WindowInv, BitmapTrue
<1>5. ASSUME ~initialized, NEW t, NEW i PROVE ~known(t, i)
  BY <1>5, SMT DEF WindowInv, NothingBefore
<1>6. ASSUME initialized, NEW o \in Offsets
      PROVE  /\ Bit(bitmap, o) <=> o < highestID /\ known(highestTimestamp, highestID - o)
             /\ arrivalTimes[o] # NoTime => Bit(bitmap, o)
  BY <1>6 DEF WindowInv, BitmapTrue, ArrivalsTrue
<1> SUFFICES /\ Bit(bitmap', offset) <=>
                  offset < highestID' /\ knownAfter(highestTimestamp', highestID' - offset)
             /\ arrivalTimes'[offset] # NoTime => Bit(bitmap', offset)
  OBVIOUS
<1> HIDE DEF known, knownAfter
<1>7. CASE MayInitialize(timestamp, id) /\ InitializeLocked(timestamp, id)
  <2>1. /\ highestTimestamp' = timestamp /\ highestID' = id
        /\ bitmap' = SetBit(NoBits, 0) /\ arrivalTimes' = [NoArrivals EXCEPT ![0] = now]
    BY <1>7 DEF InitializeLocked
  <2>2. Bit(bitmap', offset) <=> offset = 0
    BY <1>2, <2>1, SetBitBit, NoBit
  <2>3. arrivalTimes'[offset] # NoTime => offset = 0
    BY <1>2, <2>1 DEF NoArrivals
  <2>4. ~known(timestamp, id - offset)
    <3>1. CASE ~initialized
      BY <1>5, <3>1
    <3>2. CASE initialized /\ timestamp > highestTimestamp
      BY <1>1, <1>4, <3>2, SMT
    <3> QED BY <1>7, <3>1, <3>2 DEF MayInitialize
  <2>5. offset < id /\ knownAfter(timestamp, id - offset) <=> offset = 0
    BY <1>1, <1>3, <2>4, SMT
  <2> QED BY <2>1, <2>2, <2>3, <2>5
<1>8. CASE initialized /\ timestamp = highestTimestamp /\ AcceptLocked(id)
  <2>1. highestTimestamp' = timestamp
    BY <1>8 DEF AcceptLocked
  <2>2. CASE Advance(id)
    <3> DEFINE shift == id - highestID
    <3>1. shift \in Nat /\ shift > 0 /\ id > highestID /\ highestID' = id
      BY <1>1, <2>2, SMT DEF Advance
    <3>2. CASE shift >= WindowSize
      <4>1. bitmap' = SetBit(NoBits, 0) /\ arrivalTimes' = [NoArrivals EXCEPT ![0] = now]
        BY <2>2, <3>2 DEF Advance
      <4>2. Bit(bitmap', offset) <=> offset = 0
        BY <1>2, <4>1, SetBitBit, NoBit
      <4>3. arrivalTimes'[offset] # NoTime => offset = 0
        BY <1>2, <4>1 DEF NoArrivals
      <4>4. ~known(timestamp, id - offset)
        BY <1>1, <1>4, <1>8, <3>1, <3>2, SMT
      <4>5. offset < id /\ knownAfter(timestamp, id - offset) <=> offset = 0
        BY <1>1, <1>3, <4>4, SMT
      <4> QED BY <2>1, <3>1, <4>2, <4>3, <4>5
    <3>3. CASE ~(shift >= WindowSize)
      <4>1. /\ bitmap' = SetBit(ShiftReplayBitmap(bitmap, shift), 0)
            /\ arrivalTimes' = [ShiftReplayTimes(arrivalTimes, shift) EXCEPT ![0] = now]
        BY <2>2, <3>3 DEF Advance
      <4> HIDE DEF shift
      <4>2. Bit(bitmap', offset) <=> offset = 0 \/ (offset >= shift /\ Bit(bitmap, offset - shift))
        BY <1>2, <3>1, <4>1, SetBitBit, ShiftBit
      <4>3. arrivalTimes'[offset] # NoTime =>
              offset = 0 \/ (offset >= shift /\ arrivalTimes[offset - shift] # NoTime)
        <5>1. ShiftReplayTimes(arrivalTimes, shift) \in [Offsets -> Nat \cup {NoTime}]
          BY <3>1, WindowTypes DEF WindowInv
        <5>2. offset # 0 => arrivalTimes'[offset] = ShiftReplayTimes(arrivalTimes, shift)[offset]
          BY <1>2, <4>1, <5>1
        <5> QED BY <1>1, <3>1, <5>2, SMT DEF ShiftReplayTimes
      <4>4. CASE offset >= shift
        <5>1. offset - shift \in Offsets /\ highestID - (offset - shift) = id - offset
          BY <1>1, <3>1, <4>4, SMT DEF Offsets, shift
        <5>2. offset - shift < highestID <=> offset < id
          BY <1>1, <3>1, SMT DEF shift
        <5>3. Bit(bitmap, offset - shift) <=> offset < id /\ known(timestamp, id - offset)
          BY <1>6, <1>8, <5>1, <5>2
        <5>4. arrivalTimes[offset - shift] # NoTime => Bit(bitmap, offset - shift)
          BY <1>6, <1>8, <5>1
        <5>5. offset # 0 /\ id - offset # id
          BY <1>1, <3>1, <4>4, SMT
        <5> QED BY <1>3, <2>1, <3>1, <4>2, <4>3, <4>4, <5>3, <5>4, <5>5
      <4>5. CASE ~(offset >= shift)
        <5>1. ~known(timestamp, id - offset)
          BY <1>1, <1>4, <1>8, <3>1, <4>5, SMT DEF shift
        <5>2. offset < id /\ knownAfter(timestamp, id - offset) <=> offset = 0
          BY <1>1, <1>3, <5>1, SMT
        <5> QED BY <2>1, <3>1, <4>2, <4>3, <4>5, <5>2
      <4> QED BY <4>4, <4>5
    <3> QED BY <3>2, <3>3
  <2>3. CASE Fill(id)
    <3> DEFINE filled == highestID - id
    <3>1. /\ filled \in Offsets /\ highestID' = highestID
          /\ bitmap' = SetBit(bitmap, filled)
          /\ arrivalTimes' = [arrivalTimes EXCEPT ![filled] = now]
      BY <1>1, <2>3, SMT DEF Fill, InGap, Offsets
    <3>2. offset = filled <=> highestID - offset = id
      BY <1>1, SMT
    <3>3. offset = filled => offset < highestID
      BY <1>1, SMT
    <3> HIDE DEF filled
    <3>4. Bit(bitmap', offset) <=> offset = filled \/ Bit(bitmap, offset)
      BY <1>2, <3>1, SetBitBit
    <3>5. arrivalTimes'[offset] # NoTime => offset = filled \/ arrivalTimes[offset] # NoTime
      BY <1>2, <3>1
    <3> QED BY <1>3, <1>6, <1>8, <2>1, <3>1, <3>2, <3>3, <3>4, <3>5
  <2> QED BY <1>1, <1>8, <2>2, <2>3, SMT DEF AcceptLocked
<1> QED BY <1>7, <1>8 DEF Accepted

\* A step that leaves the window and the counts alone keeps the invariant.
LEMMA WindowUnchanged ==
  ASSUME WindowInv, TypeOK',
         UNCHANGED <<initialized, highestID, highestTimestamp, bitmap, arrivalTimes, accepts>>
  PROVE  WindowInv'
BY SMT DEF WindowInv, AcceptedOnce, BitmapTrue, ArrivalsTrue, NothingBefore, Bit

\* WindowInv is inductive.
LEMMA WindowStep ==
  ASSUME WindowInv, [Next]_vars
  PROVE  WindowInv'
<1>1. TypeOK'
  BY WindowTypeStep DEF WindowInv
<1>2. CASE UNCHANGED vars
  BY <1>1, <1>2, WindowUnchanged DEF vars
<1>3. CASE Tick
  BY <1>1, <1>3, WindowUnchanged DEF Tick
<1>4. ASSUME NEW timestamp \in Timestamps, NEW id \in PacketIDs, Packet(timestamp, id)
      PROVE  WindowInv'
  <2>1. CASE Rejected(timestamp, id)
    BY <1>1, <2>1, WindowUnchanged DEF Rejected
  <2>2. CASE Accepted(timestamp, id)
    <3>1. AcceptedOnce'
      BY <2>2, OnceStep
    <3>2. /\ initialized' /\ highestID' >= 1
          /\ \A t \in Timestamps, i \in PacketIDs : accepts'[<<t, i>>] > 0 =>
               t < highestTimestamp' \/ (t = highestTimestamp' /\ i <= highestID')
      BY <2>2, NewestStep
    <3>3. BitmapTrue'
      <4>1. WindowSize > 0 => \A offset \in Offsets :
              Bit(bitmap', offset) <=>
                /\ offset < highestID'
                /\ <<highestTimestamp', highestID' - offset>> \in Pairs
                /\ accepts'[<<highestTimestamp', highestID' - offset>>] > 0
        BY <2>2, BitsStep
      <4> QED BY <3>2, <4>1 DEF BitmapTrue, Bit
    <3>4. ArrivalsTrue'
      <4>1. WindowSize > 0 => \A offset \in Offsets :
              arrivalTimes'[offset] # NoTime => Bit(bitmap', offset)
        BY <2>2, BitsStep
      <4> QED BY <4>1 DEF ArrivalsTrue, Bit
    <3>5. NothingBefore'
      BY <3>2 DEF NothingBefore
    <3> QED BY <1>1, <3>1, <3>3, <3>4, <3>5 DEF WindowInv
  <2> QED BY <1>4, <2>1, <2>2 DEF Packet
<1> QED BY <1>2, <1>3, <1>4 DEF Next

\* The window always knows exactly the accepted ids it covers, for every size of
\* the window and every number of words (acceptLocked, shiftReplayBitmap).
THEOREM WindowInvariant == Spec => []WindowInv
BY WindowInit, WindowStep, PTL DEF Spec

\* No packet passes the window twice (Accept, AcceptLongForm).
THEOREM AcceptedOnceHolds == Spec => []AcceptedOnce
<1>1. WindowInv => AcceptedOnce
  BY DEF WindowInv
<1> QED BY <1>1, WindowInvariant, PTL

-----------------------------------------------------------------------------
(* The window implements the filter. *)

\* The epoch of the filter, as the window keeps it.
Epoch == IF initialized THEN highestTimestamp ELSE -1

\* reapLocked makes too old only the ids up to one that was accepted.
LEMMA ReapExpires ==
  ASSUME WindowInv, initialized, WindowSize > 0, ReapLocked
  PROVE  Filter!Expire
<1>1. CASE minimumID' = minimumID
  BY <1>1 DEF Filter!Expire
<1>2. CASE minimumID' # minimumID
  <2>1. PICK first \in Offsets :
          /\ TimeWindow > 0 /\ arrivalTimes[first] # NoTime
          /\ minimumID' = (highestID - first + 1) % (MaxPacketID + 1)
          /\ minimumID' > minimumID
    BY <1>2 DEF ReapLocked
  <2>2. /\ first < highestID /\ <<highestTimestamp, highestID - first>> \in Pairs
        /\ accepts[<<highestTimestamp, highestID - first>>] > 0
    BY <2>1 DEF WindowInv, ArrivalsTrue, BitmapTrue
  <2>3. /\ first \in Nat /\ highestID \in Nat /\ highestID <= MaxPacketID
        /\ MaxPacketID \in Nat /\ minimumID \in Nat
    BY Unsigned, OffsetInWords, SMT DEF WindowInv, TypeOK
  <2>4. highestID - first + 1 # MaxPacketID + 1
    BY <2>1, <2>3, SMT
  <2>5. minimumID' = highestID - first + 1
    BY <2>1, <2>2, <2>3, <2>4, SMT
  <2>6. minimumID' - 1 = highestID - first
    BY <2>3, <2>5, SMT
  <2> QED BY <2>1, <2>2, <2>6 DEF Filter!Expire, Filter!Pairs, Pairs
<1> QED BY <1>1, <1>2

\* A packet opens a sequence of the filter when Accept or AcceptLongForm
\* initializes the window.
LEMMA OpensInitializes ==
  ASSUME WindowInv, NEW timestamp \in Timestamps, NEW id \in PacketIDs
  PROVE  Filter!Opens(timestamp, id) <=> MayInitialize(timestamp, id)
<1>1. timestamp \in Nat /\ highestTimestamp \in Nat
  BY Unsigned, SMT DEF WindowInv, TypeOK
<1>2. LongForm \in BOOLEAN /\ (~LongForm => timestamp = 0)
  BY WindowAssumption
<1>3. Filter!Opens(timestamp, id) <=>
        /\ timestamp > Epoch
        /\ WindowSize = 0 => id = 1 \/ (Epoch = -1 /\ timestamp = 0)
  BY DEF Filter!Opens, Epoch
<1>4. timestamp > Epoch <=> ~initialized \/ timestamp > highestTimestamp
  BY <1>1, SMT DEF Epoch
<1>5. ~initialized => Epoch = -1
  BY DEF Epoch
<1>6. timestamp > Epoch /\ timestamp = 0 => Epoch = -1
  BY <1>1, SMT DEF Epoch
<1> QED BY <1>1, <1>2, <1>3, <1>4, <1>5, <1>6, SMT DEF MayInitialize

\* A packet continues the sequence of the filter when it passes acceptLocked.
LEMMA ContinuesPasses ==
  ASSUME WindowInv, NEW timestamp \in Timestamps, NEW id \in PacketIDs, id # 0, NEW lowest
  PROVE  Filter!Continues(timestamp, id, lowest) <=>
           /\ initialized /\ timestamp = highestTimestamp
           /\ IF WindowSize = 0
              THEN id = (highestID + 1) % (MaxPacketID + 1)
              ELSE id > highestID \/ InGap(id, lowest)
<1>1. /\ timestamp \in Nat /\ highestTimestamp \in Nat /\ id \in Nat /\ id <= MaxPacketID
      /\ highestID \in Nat /\ highestID <= MaxPacketID /\ MaxPacketID \in Nat
      /\ WindowSize \in Nat
  BY Unsigned, SMT DEF WindowInv, TypeOK
<1>2. timestamp = Epoch <=> initialized /\ timestamp = highestTimestamp
  BY <1>1, SMT DEF Epoch
<1>3. id = (highestID + 1) % (MaxPacketID + 1) <=> id = highestID + 1
  <2>1. CASE highestID = MaxPacketID
    BY <1>1, <2>1, SMT
  <2>2. CASE highestID # MaxPacketID
    <3>1. (highestID + 1) % (MaxPacketID + 1) = highestID + 1
      BY <1>1, <2>2, SMT
    <3> QED BY <3>1
  <2> QED BY <2>1, <2>2
<1>4. ASSUME initialized, timestamp = highestTimestamp, WindowSize # 0,
             id <= highestID, highestID - id < WindowSize
      PROVE  Bit(bitmap, highestID - id) <=> accepts[<<timestamp, id>>] # 0
  <2>1. <<timestamp, id>> \in Pairs /\ accepts[<<timestamp, id>>] \in Nat
    BY DEF WindowInv, TypeOK, Pairs
  <2>2. highestID - id \in Offsets /\ highestID - id < highestID
    BY <1>1, <1>4, SMT DEF Offsets
  <2>3. highestID - (highestID - id) = id
    BY <1>1, SMT
  <2>4. Bit(bitmap, highestID - id) <=> accepts[<<timestamp, id>>] > 0
    BY <1>1, <1>4, <2>1, <2>2, <2>3, SMT DEF WindowInv, BitmapTrue
  <2> QED BY <2>1, <2>4, SMT
<1>5. Filter!Continues(timestamp, id, lowest) <=>
        /\ timestamp = Epoch
        /\ IF WindowSize = 0
           THEN id = highestID + 1
           ELSE \/ id > highestID
                \/ /\ id >= lowest /\ highestID - id < WindowSize
                   /\ accepts[<<timestamp, id>>] = 0
  BY DEF Filter!Continues, Epoch
<1> QED BY <1>1, <1>2, <1>3, <1>4, <1>5, SMT DEF InGap

\* Every step of the window is a step of the filter or leaves the filter alone.
LEMMA FilterStep ==
  ASSUME WindowInv, [Next]_vars
  PROVE  [Filter!Next]_(Filter!vars)
<1>1. CASE UNCHANGED vars
  BY <1>1 DEF vars, Filter!vars
<1>2. CASE Tick
  BY <1>2 DEF Tick, Filter!vars
<1>3. ASSUME NEW timestamp \in Timestamps, NEW id \in PacketIDs, Rejected(timestamp, id)
      PROVE  Filter!Reject(timestamp, id)
  <2>1. Filter!Expire
    <3>1. CASE id # 0 /\ initialized /\ timestamp = highestTimestamp /\ WindowSize > 0
      BY <1>3, <3>1, ReapExpires DEF Rejected
    <3>2. CASE ~(id # 0 /\ initialized /\ timestamp = highestTimestamp /\ WindowSize > 0)
      BY <1>3, <3>2 DEF Rejected, Filter!Expire
    <3> QED BY <3>1, <3>2
  <2>2. id # 0 => ~Filter!Opens(timestamp, id)
    BY <1>3, OpensInitializes DEF Rejected
  <2>3. id # 0 => ~Filter!Continues(timestamp, id, minimumID')
    BY <1>3, ContinuesPasses DEF Rejected
  <2>4. /\ verdict' = <<timestamp, id, FALSE>>
        /\ UNCHANGED <<initialized, highestID, highestTimestamp, accepts>>
    BY <1>3 DEF Rejected
  <2> QED BY <2>1, <2>2, <2>3, <2>4 DEF Filter!Reject
<1>4. ASSUME NEW timestamp \in Timestamps, NEW id \in PacketIDs, Accepted(timestamp, id)
      PROVE  Filter!Accept(timestamp, id)
  <2>1. /\ id # 0 /\ verdict' = <<timestamp, id, TRUE>>
        /\ accepts' = [accepts EXCEPT ![<<timestamp, id>>] = @ + 1]
    BY <1>4 DEF Accepted
  <2>2. CASE MayInitialize(timestamp, id) /\ InitializeLocked(timestamp, id)
    <3>1. Filter!Opens(timestamp, id)
      BY <2>2, OpensInitializes
    <3>2. initialized' = TRUE /\ highestTimestamp' = timestamp /\ highestID' = id /\ minimumID' = 0
      BY <2>2 DEF InitializeLocked
    <3> QED BY <2>1, <3>1, <3>2 DEF Filter!Accept
  <2>3. CASE initialized /\ timestamp = highestTimestamp /\ AcceptLocked(id)
    <3>1. UNCHANGED <<initialized, highestTimestamp>>
      BY <2>3 DEF AcceptLocked
    <3>2. id \in Nat /\ highestID \in Nat /\ highestID <= MaxPacketID /\ MaxPacketID \in Nat
          /\ WindowSize \in Nat
      BY Unsigned, SMT DEF WindowInv, TypeOK
    <3>3. Filter!Expire
      <4>1. CASE WindowSize = 0
        BY <2>3, <4>1 DEF AcceptLocked, Filter!Expire
      <4>2. CASE WindowSize # 0
        BY <2>3, <3>2, <4>2, ReapExpires, SMT DEF AcceptLocked
      <4> QED BY <4>1, <4>2
    <3>4. IF WindowSize = 0
          THEN id = (highestID + 1) % (MaxPacketID + 1)
          ELSE id > highestID \/ InGap(id, minimumID')
      BY <2>3 DEF AcceptLocked, Advance, Fill
    <3>5. Filter!Continues(timestamp, id, minimumID')
      BY <2>1, <2>3, <3>4, ContinuesPasses
    <3>6. highestID' = IF id > highestID THEN id ELSE highestID
      <4>1. CASE WindowSize = 0
        <5>1. id = (highestID + 1) % (MaxPacketID + 1) /\ highestID' = id
          BY <2>3, <4>1 DEF AcceptLocked
        <5>2. highestID # MaxPacketID
          BY <2>1, <3>2, <5>1, SMT
        <5>3. id = highestID + 1
          BY <3>2, <5>1, <5>2, SMT
        <5> QED BY <3>2, <5>1, <5>3, SMT
      <4>2. CASE WindowSize # 0 /\ Advance(id)
        BY <4>2 DEF Advance
      <4>3. CASE WindowSize # 0 /\ Fill(id)
        BY <3>2, <4>3, SMT DEF Fill, InGap
      <4> QED BY <2>3, <4>1, <4>2, <4>3 DEF AcceptLocked
    <3> QED BY <2>1, <3>1, <3>3, <3>5, <3>6 DEF Filter!Accept
  <2> QED BY <1>4, <2>2, <2>3 DEF Accepted
<1> QED BY <1>1, <1>2, <1>3, <1>4 DEF Next, Packet, Filter!Next

\* The window of words, bits and arrival times accepts exactly the packets the
\* filter accepts, for every size of the window (replay_window.go as a whole).
THEOREM WindowImplementsFilter == Spec => FilterSpec
<1>1. Init => Filter!Init
  BY DEF Init, Filter!Init, Pairs, Filter!Pairs, NoVerdict, Filter!NoVerdict
<1>2. WindowInv /\ [Next]_vars => [Filter!Next]_(Filter!vars)
  BY FilterStep
<1> QED BY <1>1, <1>2, WindowInvariant, PTL DEF Spec, FilterSpec, Filter!Spec

-----------------------------------------------------------------------------
(* The queue *)

PushSteps == {"idle", "lock", "push", "signal"}
ReadSteps == {"idle", "check", "pop", "signal", "wait"}

Pushing == [step : PushSteps, hand : Seq(QueuePacket)]

\* The types of what the wake-ups depend on.
QueueTypes ==
  /\ use \in Uses
  /\ length \in 0..Capacity
  /\ pushing \in [Pushers -> Pushing]
  /\ pushed \in 0..LastPacket
  /\ wasEmpty \in [Pushers -> BOOLEAN]
  /\ reading \in [Readers -> ReadSteps]

QueueInv == QueueTypes /\ LocksHeld /\ FirstSignals /\ NoLostWakeup

\* PopCount: some of the packets, and none only when there are none.
LEMMA PopTakes ==
  ASSUME length \in Nat, NEW max \in Nat
  PROVE  /\ PopCount(max) \in 0..length /\ (PopCount(max) = 0 => length = 0)
         /\ PeerConnection => \A i \in 1..PopCount(max) : Queue[i][2] = Queue[1][2]
<1> DEFINE limit == IF max > 0 /\ max < length THEN max ELSE length
           sameRun(n) == PeerConnection => \A i \in 1..n : Queue[i][2] = Queue[1][2]
           S == {n \in 1..limit : sameRun(n)}
<1>1. limit \in 0..length /\ (limit = 0 => length = 0)
  BY SMT
<1>2. length > 0 => 1 \in S
  <2>1. sameRun(1)
    BY SMT
  <2> HIDE DEF sameRun
  <2> QED
    BY <1>1, <2>1, SMT
<1>3. IsFiniteSet(1..limit) /\ Cardinality(1..limit) = limit
  <2> HIDE DEF limit
  <2>1. limit \in Nat
    BY <1>1, SMT
  <2>2. IF 1 > limit THEN Cardinality(1..limit) = 0 ELSE Cardinality(1..limit) = limit - 1 + 1
    BY <2>1, FS_Interval, SMT
  <2> QED
    BY <2>1, <2>2, FS_Interval, SMT
<1>4. IsFiniteSet(S) /\ Cardinality(S) <= limit /\ Cardinality(S) \in Nat
  <2> HIDE DEF sameRun, limit
  <2>1. S \subseteq 1..limit
    OBVIOUS
  <2> HIDE DEF S
  <2> QED
    BY <1>3, <2>1, FS_Subset, FS_CardinalityType
<1>5. PopCount(max) = Cardinality(S)
  BY DEF PopCount
<1> HIDE DEF S, limit
<1>6. Cardinality(S) = 0 => S = {}
  BY <1>4, FS_EmptySet
<1>7. sameRun(PopCount(max))
  <2> DEFINE c == PopCount(max)
  <2>1. c \in Nat /\ c = Cardinality(S)
    BY <1>4, <1>5
  <2> HIDE DEF c
  <2>2. CASE c = 0
    BY <2>2, SMT DEF c
  <2>3. CASE c > 0 /\ ~sameRun(c)
    <3>1. S \subseteq 1..(c - 1)
      <4> SUFFICES ASSUME NEW n \in S, n >= c PROVE FALSE
        BY <1>1, <2>1, SMT DEF S
      <4>1. n \in Nat /\ sameRun(n)
        BY <1>1, SMT DEF S
      <4>2. sameRun(c)
        BY <2>1, <4>1, SMT
      <4> QED
        BY <2>3, <4>2
    <3>2. IsFiniteSet(1..(c - 1)) /\ Cardinality(1..(c - 1)) = c - 1
      <4>1. PICK d \in Nat : d = c - 1
        BY <2>1, <2>3, SMT
      <4>2. IF 1 > d THEN Cardinality(1..d) = 0 ELSE Cardinality(1..d) = d - 1 + 1
        BY FS_Interval, SMT
      <4>3. IsFiniteSet(1..d) /\ Cardinality(1..d) = d
        BY <4>2, FS_Interval, SMT
      <4> QED
        BY <4>1, <4>3
    <3>3. Cardinality(S) <= c - 1
      <4>1. Cardinality(S) <= Cardinality(1..(c - 1))
        BY <3>1, <3>2, FS_Subset
      <4> QED
        BY <3>2, <4>1
    <3> QED
      BY <2>1, <3>3, SMT
  <2> QED
    BY <2>1, <2>2, <2>3, SMT DEF c
<1> QED
  BY <1>1, <1>2, <1>4, <1>5, <1>6, <1>7, SMT

\* What the uses of a ring allow.
LEMMA UseTyped ==
  ASSUME use \in Uses
  PROVE  /\ PeerConnection \in BOOLEAN /\ MaxPackets \subseteq Nat
         /\ Sources \subseteq Addresses /\ Batches \subseteq Nat \ {0}
<1>1. use \in [peerConnection : BOOLEAN, maxPackets : SUBSET Nat,
               sources : SUBSET Addresses, batches : SUBSET (Nat \ {0})]
  BY QueueAssumption
<1> QED
  BY <1>1 DEF PeerConnection, MaxPackets, Sources, Batches

\* The initial state: nobody pushes or reads.
LEMMA InitInv == QueueInit => QueueInv
<1> SUFFICES ASSUME QueueInit PROVE QueueInv
  OBVIOUS
<1>1. QueueTypes
  BY QueueAssumption, SMT DEF QueueInit, QueueTypes, Pushing, PushSteps, ReadSteps
<1>2. LocksHeld /\ FirstSignals /\ NoLostWakeup
  BY DEF QueueInit, LocksHeld, FirstSignals, NoLostWakeup, Resting, PeerConnection
<1> QED
  BY <1>1, <1>2 DEF QueueInv

\* A batch that arrives: new packets, numbered from pushed on.
LEMMA BatchTyped ==
  ASSUME use \in Uses, pushed \in 0..LastPacket, NEW from \in Arrivals
  PROVE  LET batch == [i \in DOMAIN from |-> <<pushed + i, from[i]>>]
         IN  \E n \in Nat \ {0} :
               /\ pushed + n <= LastPacket /\ batch \in Seq(QueuePacket) /\ Len(batch) = n
               /\ \A i \in 1..n : batch[i][1] = pushed + i
<1> DEFINE batch == [i \in DOMAIN from |-> <<pushed + i, from[i]>>]
<1>1. PICK n \in Batches : pushed + n <= LastPacket /\ from \in [1..n -> Sources]
  BY DEF Arrivals
<1>2. n \in Nat \ {0} /\ pushed \in Nat /\ LastPacket \in Nat /\ Sources \subseteq Addresses
  BY QueueAssumption, UseTyped, SMT
<1>3. \A i \in 1..n : pushed + i \in 1..LastPacket
  BY <1>1, <1>2, SMT
<1>4. \A i \in 1..n : <<pushed + i, from[i]>> \in QueuePacket
  BY <1>1, <1>2, <1>3 DEF QueuePacket
<1>5. batch = [i \in 1..n |-> <<pushed + i, from[i]>>]
  BY <1>1
<1>6. \A i \in 1..n : batch[i][1] = pushed + i
  BY <1>5
<1> HIDE DEF batch
<1>7. batch \in Seq(QueuePacket) /\ Len(batch) = n
  BY <1>2, <1>4, <1>5, SMT
<1> QED
  BY <1>1, <1>2, <1>6, <1>7 DEF batch

\* One pusher takes a step.
LEMMA OnePusher ==
  ASSUME pushing \in [Pushers -> Pushing], NEW w \in Pushers, NEW after \in Pushing,
         pushing' = [pushing EXCEPT ![w] = after]
  PROVE  /\ pushing' \in [Pushers -> Pushing]
         /\ pushing'[w] = after
         /\ \A v \in Pushers \ {w} : pushing'[v] = pushing[v]
  OBVIOUS

\* BeginPush: a batch is in hand and nothing else changed.
LEMMA BeginPushInv ==
  ASSUME QueueInv, use' = use, NEW w \in Pushers, NEW from \in Arrivals,
         BeginPush(w, [i \in DOMAIN from |-> <<pushed + i, from[i]>>])
  PROVE  QueueInv'
<1> DEFINE batch == [i \in DOMAIN from |-> <<pushed + i, from[i]>>]
<1>1. PICK n \in Nat \ {0} : /\ pushed + n <= LastPacket /\ batch \in Seq(QueuePacket)
                             /\ Len(batch) = n
  BY BatchTyped DEF QueueInv, QueueTypes
<1>2. n \in Nat /\ pushed \in Nat /\ LastPacket \in Nat
  BY QueueAssumption, SMT DEF QueueInv, QueueTypes
<1>3. batch \in Seq(QueuePacket) /\ Len(batch) = n
  BY <1>1
<1> HIDE DEF batch
<1>4. /\ pushing[w].step = "idle" /\ pushed' = pushed + n
      /\ \/ UNCHANGED pushing
         \/ pushing' = [pushing EXCEPT ![w] = [step |-> "lock", hand |-> batch]]
      /\ UNCHANGED <<length, wake, access, closed, wasEmpty, reading>>
  BY <1>3 DEF BeginPush, ring, batch
<1>5. [step |-> "lock", hand |-> batch] \in Pushing
  BY <1>3 DEF Pushing, PushSteps
<1>6. /\ pushing' \in [Pushers -> Pushing]
      /\ \A v \in Pushers : /\ pushing'[v].step = "push" <=> pushing[v].step = "push"
                            /\ pushing'[v].step = "signal" <=> pushing[v].step = "signal"
  <2>1. CASE UNCHANGED pushing
    BY <2>1 DEF QueueInv, QueueTypes
  <2>2. CASE pushing' = [pushing EXCEPT ![w] = [step |-> "lock", hand |-> batch]]
    <3>1. pushing \in [Pushers -> Pushing]
      BY DEF QueueInv, QueueTypes
    <3>2. /\ pushing' \in [Pushers -> Pushing]
          /\ pushing'[w] = [step |-> "lock", hand |-> batch]
          /\ \A v \in Pushers \ {w} : pushing'[v] = pushing[v]
      BY <2>2, <3>1, <1>5, OnePusher
    <3>3. pushing'[w].step = "lock"
      <4>1. [step |-> "lock", hand |-> batch].step = "lock"
        OBVIOUS
      <4> QED
        BY <3>2, <4>1
    <3>4. ASSUME NEW v \in Pushers
          PROVE  /\ pushing'[v].step = "push" <=> pushing[v].step = "push"
                 /\ pushing'[v].step = "signal" <=> pushing[v].step = "signal"
      <4>1. CASE v = w
        BY <1>4, <3>3, <4>1
      <4>2. CASE v # w
        BY <3>2, <4>2
      <4> QED
        BY <4>1, <4>2
    <3> QED
      BY <3>2, <3>4
  <2> QED
    BY <1>4, <2>1, <2>2
<1>7. QueueTypes'
  BY <1>1, <1>2, <1>4, <1>6, SMT DEF QueueInv, QueueTypes
<1> QED
  BY <1>4, <1>6, <1>7 DEF QueueInv, LocksHeld, FirstSignals, NoLostWakeup, Resting, PeerConnection

\* Lock: the pusher notes whether the ring is empty.
LEMMA LockInv ==
  ASSUME QueueInv, use' = use, NEW w \in Pushers, Lock(w)
  PROVE  QueueInv'
<1>1. /\ pushing[w].step = "lock" /\ ~access /\ access' = TRUE
      /\ pushing' = [pushing EXCEPT ![w].step = "push"]
      /\ wasEmpty' = [wasEmpty EXCEPT ![w] = length = 0]
      /\ UNCHANGED <<length, wake, closed, reading, pushed>>
  BY DEF Lock, ring
<1>2. /\ pushing'[w].step = "push"
      /\ \A v \in Pushers \ {w} : pushing'[v] = pushing[v] /\ wasEmpty'[v] = wasEmpty[v]
      /\ wasEmpty'[w] = (length = 0)
      /\ \A v \in Pushers : pushing[v].step # "push"
  BY <1>1, SMT DEF QueueInv, QueueTypes, LocksHeld
<1>3. QueueTypes'
  BY <1>1 DEF QueueInv, QueueTypes, Pushing, PushSteps
<1>4. LocksHeld'
  <2>1. access'
    BY <1>1
  <2> QED
    BY <2>1, <1>1, <1>2, SMT DEF QueueInv, LocksHeld, Resting, PeerConnection
<1>6. FirstSignals'
  BY <1>1, <1>2 DEF FirstSignals
<1>5. NoLostWakeup'
  BY <1>1, <1>2 DEF QueueInv, NoLostWakeup
<1> QED
  BY <1>3, <1>4, <1>5, <1>6 DEF QueueInv

\* PushItem: the pusher that puts the first packet into the ring found it empty.
LEMMA PushItemInv ==
  ASSUME QueueInv, use' = use, NEW w \in Pushers, PushItem(w)
  PROVE  QueueInv'
<1>1. /\ pushing[w].step = "push" /\ pushing[w].hand # <<>>
      /\ pushing' = [pushing EXCEPT ![w].hand = Tail(@)]
      /\ length' \in {length, length + 1} /\ length' <= Capacity
      /\ UNCHANGED <<wake, access, closed, wasEmpty, reading, pushed>>
  BY QueueAssumption, SMT DEF QueueInv, QueueTypes, PushItem, Store, ring
<1>2. /\ \A v \in Pushers : pushing'[v].step = pushing[v].step
      /\ pushing' \in [Pushers -> Pushing]
  <2> DEFINE after == [pushing[w] EXCEPT !.hand = Tail(@)]
  <2>1. pushing[w] \in Pushing /\ pushing \in [Pushers -> Pushing]
    BY DEF QueueInv, QueueTypes
  <2>2. Tail(pushing[w].hand) \in Seq(QueuePacket)
    BY <1>1, <2>1, SMT DEF Pushing
  <2>3. after \in Pushing /\ after.step = pushing[w].step
    BY <2>1, <2>2 DEF Pushing
  <2>4. pushing' = [pushing EXCEPT ![w] = after]
    BY <1>1
  <2> HIDE DEF after
  <2> QED
    BY <2>1, <2>3, <2>4, OnePusher
<1>3. QueueTypes'
  <2>1. length' \in 0..Capacity
    BY <1>1, QueueAssumption, SMT DEF QueueInv, QueueTypes
  <2> QED
    BY <1>1, <1>2, <2>1 DEF QueueInv, QueueTypes
<1>4. LocksHeld'
  BY <1>1, <1>2 DEF QueueInv, LocksHeld, Resting, PeerConnection
<1>5. length' = 0 => length = 0
  BY <1>1, SMT DEF QueueInv, QueueTypes
<1>6. FirstSignals'
  BY <1>1, <1>2, <1>5 DEF QueueInv, FirstSignals
<1>7. NoLostWakeup'
  <2>1. CASE length = 0
    BY <2>1, <1>1, <1>2 DEF QueueInv, FirstSignals, NoLostWakeup
  <2>2. CASE length # 0
    <3>1. length > 0
      BY <2>2, SMT DEF QueueInv, QueueTypes
    <3> QED
      BY <3>1, <1>1, <1>2 DEF QueueInv, NoLostWakeup
  <2> QED
    BY <2>1, <2>2
<1> QED
  BY <1>3, <1>4, <1>6, <1>7 DEF QueueInv

\* Unlock: who found the ring empty goes on to signal.
LEMMA UnlockInv ==
  ASSUME QueueInv, use' = use, NEW w \in Pushers, Unlock(w)
  PROVE  QueueInv'
<1> DEFINE next == IF wasEmpty[w] THEN "signal" ELSE "idle"
           after == [pushing[w] EXCEPT !.step = next]
<1>1. /\ pushing[w].step = "push" /\ access' = FALSE
      /\ pushing' = [pushing EXCEPT ![w] = after]
      /\ UNCHANGED <<length, wake, closed, wasEmpty, reading, pushed>>
  BY DEF Unlock, ring
<1>2. pushing \in [Pushers -> Pushing] /\ pushing[w] \in Pushing
  BY DEF QueueInv, QueueTypes
<1>3. /\ after \in Pushing /\ after.step = next /\ next # "push"
      /\ wasEmpty[w] => next = "signal"
  BY <1>2 DEF Pushing, PushSteps
<1> HIDE DEF after, next
<1>4. /\ pushing' \in [Pushers -> Pushing] /\ pushing'[w] = after
      /\ \A v \in Pushers \ {w} : pushing'[v] = pushing[v]
  BY <1>1, <1>2, <1>3, OnePusher
<1>5. QueueTypes'
  BY <1>1, <1>4 DEF QueueInv, QueueTypes
<1>6. \A v \in Pushers : pushing'[v].step # "push"
  BY <1>1, <1>3, <1>4 DEF QueueInv, LocksHeld
<1>7. LocksHeld'
  <2>1. ~access'
    BY <1>1
  <2> QED
    BY <2>1, <1>1, <1>6 DEF QueueInv, LocksHeld, Resting, PeerConnection
<1>8. FirstSignals'
  BY <1>6 DEF FirstSignals
<1>9. NoLostWakeup'
  BY <1>1, <1>3, <1>4 DEF QueueInv, NoLostWakeup
<1> QED
  BY <1>5, <1>7, <1>8, <1>9 DEF QueueInv

\* SignalPush: the token is there.
LEMMA SignalPushInv ==
  ASSUME QueueInv, use' = use, NEW w \in Pushers, SignalPush(w)
  PROVE  QueueInv'
<1> DEFINE after == [pushing[w] EXCEPT !.step = "idle"]
<1>1. /\ pushing[w].step = "signal" /\ wake' = TRUE
      /\ pushing' = [pushing EXCEPT ![w] = after]
      /\ UNCHANGED <<length, access, closed, wasEmpty, reading, pushed>>
  BY DEF SignalPush, ring
<1>2. pushing \in [Pushers -> Pushing] /\ pushing[w] \in Pushing
  BY DEF QueueInv, QueueTypes
<1>3. after \in Pushing /\ after.step = "idle"
  BY <1>2 DEF Pushing, PushSteps
<1> HIDE DEF after
<1>4. /\ pushing' \in [Pushers -> Pushing] /\ pushing'[w] = after
      /\ \A v \in Pushers \ {w} : pushing'[v] = pushing[v]
  BY <1>1, <1>2, <1>3, OnePusher
<1>5. QueueTypes'
  BY <1>1, <1>4 DEF QueueInv, QueueTypes
<1>6. \A v \in Pushers : pushing'[v].step = "push" <=> pushing[v].step = "push"
  BY <1>1, <1>3, <1>4
<1>7. LocksHeld' /\ FirstSignals'
  BY <1>1, <1>6 DEF QueueInv, LocksHeld, FirstSignals, Resting, PeerConnection
<1>8. NoLostWakeup'
  <2>1. wake'
    BY <1>1
  <2> QED
    BY <2>1 DEF NoLostWakeup
<1> QED
  BY <1>5, <1>7, <1>8 DEF QueueInv

\* The steps of a reader that leave the ring alone.
LEMMA ReaderInv ==
  ASSUME QueueInv, use' = use, NEW r \in Readers,
         Call(r) \/ CheckClosed(r) \/ SignalPop(r) \/ Wake(r) \/ SeeClosed(r) \/ GiveUp(r)
  PROVE  QueueInv'
<1>1. PICK to \in ReadSteps :
        /\ reading' = [reading EXCEPT ![r] = to]
        /\ UNCHANGED <<length, access, closed, pushing, wasEmpty, pushed>>
        /\ \/ /\ reading[r] = "idle" /\ to = "check" /\ UNCHANGED wake
              /\ PeerConnection => \A q \in Readers : Resting(q)
           \/ reading[r] = "check" /\ to = "pop" /\ UNCHANGED wake
           \/ reading[r] # "idle" /\ to = "idle" /\ closed /\ UNCHANGED wake
           \/ reading[r] # "idle" /\ to = "idle" /\ wake'
           \/ reading[r] = "wait" /\ to = "check"
           \/ reading[r] = "wait" /\ to = "idle" /\ UNCHANGED wake
           \/ reading[r] # "idle" /\ to = "idle" /\ PeerConnection /\ UNCHANGED wake
  BY DEF Call, CheckClosed, SignalPop, Wake, SeeClosed, GiveUp, ReadSteps, Resting, ring
<1>2. /\ reading' \in [Readers -> ReadSteps] /\ reading'[r] = to
      /\ \A q \in Readers \ {r} : reading'[q] = reading[q]
  BY <1>1 DEF QueueInv, QueueTypes
<1>3. QueueTypes'
  BY <1>1, <1>2 DEF QueueInv, QueueTypes
<1>4. FirstSignals'
  BY <1>1 DEF QueueInv, FirstSignals
<1>5. LocksHeld'
  BY <1>1, <1>2 DEF QueueInv, LocksHeld, Resting, PeerConnection
<1>6. NoLostWakeup'
  <2> SUFFICES ASSUME NEW q \in Readers, reading'[q] = "wait", length > 0, ~closed
               PROVE  \/ wake'
                      \/ \E w \in Pushers : pushing[w].step \in {"push", "signal"} /\ wasEmpty[w]
                      \/ \E x \in Readers : reading'[x] \in {"check", "pop", "signal"}
    BY <1>1 DEF NoLostWakeup
  <2>1. q # r /\ reading[q] = "wait"
    BY <1>1, <1>2
  <2>2. \/ wake
        \/ \E w \in Pushers : pushing[w].step \in {"push", "signal"} /\ wasEmpty[w]
        \/ \E x \in Readers : reading[x] \in {"check", "pop", "signal"}
    BY <2>1 DEF QueueInv, NoLostWakeup
  <2>3. PeerConnection => reading[r] = "idle"
    BY <2>1 DEF QueueInv, LocksHeld, Resting, PeerConnection
  <2>4. CASE to \in {"check", "pop"}
    BY <2>4, <1>2
  <2>5. CASE wake'
    BY <2>5
  <2>6. CASE reading[r] = "wait" /\ to = "idle" /\ UNCHANGED wake
    BY <2>2, <2>6, <1>2
  <2> QED
    BY <2>3, <2>4, <2>5, <2>6, <1>1
<1> QED
  BY <1>3, <1>4, <1>5, <1>6 DEF QueueInv

\* Pop: a reader waits only for an empty ring, and signals when it leaves packets.
LEMMA PopInv ==
  ASSUME QueueInv, use' = use, NEW r \in Readers, NEW max \in MaxPackets, Pop(r, max)
  PROVE  QueueInv'
<1> DEFINE count == PopCount(max)
           to == IF count = 0 THEN "wait" ELSE IF length > count THEN "signal" ELSE "idle"
<1>1. /\ reading[r] = "pop" /\ ~access
      /\ length' = length - count
      /\ reading' = [reading EXCEPT ![r] = to]
      /\ UNCHANGED <<wake, access, closed, pushing, wasEmpty, pushed>>
  BY DEF Pop, Take
<1>2. length \in Nat /\ Capacity \in Nat /\ length <= Capacity /\ max \in Nat
  BY QueueAssumption, UseTyped, SMT DEF QueueInv, QueueTypes
<1>3. count \in 0..length /\ (count = 0 => length = 0)
  BY <1>2, PopTakes
<1> HIDE DEF count
<1>4. /\ to \in ReadSteps /\ length' \in 0..Capacity
      /\ length' > 0 => to = "signal"
  BY <1>1, <1>2, <1>3, SMT DEF ReadSteps
<1> HIDE DEF to
<1>5. /\ reading' \in [Readers -> ReadSteps] /\ reading'[r] = to
      /\ \A q \in Readers \ {r} : reading'[q] = reading[q]
  BY <1>1, <1>4 DEF QueueInv, QueueTypes
<1>6. QueueTypes'
  BY <1>1, <1>4, <1>5 DEF QueueInv, QueueTypes
<1>7. LocksHeld' /\ FirstSignals'
  BY <1>1, <1>5 DEF QueueInv, LocksHeld, FirstSignals, Resting, PeerConnection
<1>8. NoLostWakeup'
  BY <1>4, <1>5 DEF NoLostWakeup
<1> QED
  BY <1>6, <1>7, <1>8 DEF QueueInv

\* Close: the ring is emptied under its lock.
LEMMA CloseInv ==
  ASSUME QueueInv, use' = use, BeginClose \/ SessionsGone \/ Drain
  PROVE  QueueInv'
<1>1. CASE BeginClose
  <2>1. closed' /\ UNCHANGED <<length, wake, access, pushing, wasEmpty, reading, pushed>>
    BY <1>1 DEF BeginClose, ring
  <2> QED
    BY <2>1 DEF QueueInv, QueueTypes, LocksHeld, FirstSignals, NoLostWakeup, Resting, PeerConnection
<1>2. CASE SessionsGone
  <2>1. UNCHANGED <<length, wake, access, closed, pushing, wasEmpty, reading, pushed>>
    BY <1>2 DEF SessionsGone, ring
  <2> QED
    BY <2>1 DEF QueueInv, QueueTypes, LocksHeld, FirstSignals, NoLostWakeup, Resting, PeerConnection
<1>3. CASE Drain
  <2>1. /\ ~access /\ length' = length - length
        /\ UNCHANGED <<wake, access, closed, pushing, wasEmpty, reading, pushed>>
    BY <1>3 DEF Drain, Take
  <2>2. length' = 0 /\ length' \in 0..Capacity
    BY <2>1, QueueAssumption, SMT DEF QueueInv, QueueTypes
  <2>3. QueueTypes'
    BY <2>1, <2>2 DEF QueueInv, QueueTypes
  <2>4. LocksHeld' /\ FirstSignals'
    BY <2>1 DEF QueueInv, LocksHeld, FirstSignals, Resting, PeerConnection
  <2>5. NoLostWakeup'
    BY <2>2, SMT DEF NoLostWakeup
  <2> QED
    BY <2>3, <2>4, <2>5 DEF QueueInv
<1> QED
  BY <1>1, <1>2, <1>3

\* The invariant holds in every state.
THEOREM QueueInvariance == QueueSpec => []QueueInv
<1>1. QueueInv /\ [QueueNext]_queueVars => QueueInv'
  <2> SUFFICES ASSUME QueueInv, [QueueNext]_queueVars PROVE QueueInv'
    OBVIOUS
  <2>1. ASSUME use' = use, NEW w \in Pushers, Push(w) PROVE QueueInv'
    BY <2>1, BeginPushInv, LockInv, PushItemInv, UnlockInv, SignalPushInv DEF Push
  <2>2. ASSUME use' = use, NEW r \in Readers, Read(r) PROVE QueueInv'
    BY <2>2, ReaderInv, PopInv DEF Read
  <2>3. CASE UNCHANGED queueVars
    BY <2>3 DEF queueVars, QueueInv, QueueTypes, LocksHeld, FirstSignals, NoLostWakeup, Resting, PeerConnection
  <2> QED
    BY <2>1, <2>2, <2>3, CloseInv DEF QueueNext
<1> QED
  BY <1>1, InitInv, PTL DEF QueueSpec

\* PushBatch, Pop and their signals after the lock is gone: no reader waits for packets
\* that are there, for any number of pushers and readers.
THEOREM NoWakeupLost == QueueSpec => []NoLostWakeup
<1>1. QueueInv => NoLostWakeup
  BY DEF QueueInv
<1> QED
  BY <1>1, QueueInvariance, PTL

-----------------------------------------------------------------------------
(* The ring *)

RingTypes ==
  /\ items \in [Places -> QueuePacket \cup {NoItem}] /\ head \in Places
  /\ length \in 0..Capacity

\* The place after the last is the first.
LEMMA Wrap ==
  ASSUME NEW a \in Nat, a < 2 * Capacity
  PROVE  a % Capacity = IF a < Capacity THEN a ELSE a - Capacity
<1>1. Capacity \in Nat /\ Capacity > 0
  BY QueueAssumption, SMT
<1>2. CASE a < Capacity
  BY <1>1, <1>2, SMT
<1>3. CASE a >= Capacity
  BY <1>1, <1>3, SMT
<1> QED
  BY <1>1, <1>2, <1>3, SMT

\* The place of an offset.
LEMMA AtIs ==
  ASSUME head \in Places, NEW offset \in 0..Capacity
  PROVE  /\ At(offset) = IF head + offset < Capacity THEN head + offset
                         ELSE head + offset - Capacity
         /\ At(offset) \in Places
<1>1. Capacity \in Nat /\ Capacity > 0
  BY QueueAssumption, SMT
<1>2. head + offset \in Nat /\ head + offset < 2 * Capacity
  BY <1>1, SMT DEF Places
<1>3. At(offset) = IF head + offset < Capacity THEN head + offset ELSE head + offset - Capacity
  <2>1. PICK a \in Nat : a = head + offset
    BY <1>2
  <2>2. a % Capacity = IF a < Capacity THEN a ELSE a - Capacity
    BY <1>2, <2>1, Wrap
  <2> QED
    BY <1>1, <2>1, <2>2, SMT DEF At, Places
<1> QED
  BY <1>1, <1>3, SMT DEF Places

\* Two offsets have two places.
LEMMA AtOnce ==
  ASSUME head \in Places, NEW i \in Places, NEW j \in Places, At(i) = At(j)
  PROVE  i = j
<1>1. Capacity \in Nat /\ Capacity > 0 /\ i \in 0..Capacity /\ j \in 0..Capacity
  BY QueueAssumption, SMT DEF Places
<1> QED
  BY <1>1, AtIs, SMT DEF Places

\* The offsets after the head moved.
LEMMA Turned ==
  ASSUME head \in Places, NEW count \in 0..Capacity, head' = At(count), NEW j \in Places
  PROVE  /\ head' \in Places
         /\ At(j)' = At(IF count + j < Capacity THEN count + j ELSE count + j - Capacity)
<1>1. Capacity \in Nat /\ Capacity > 0 /\ j \in 0..(Capacity - 1)
  BY QueueAssumption, SMT DEF Places
<1> DEFINE k == IF count + j < Capacity THEN count + j ELSE count + j - Capacity
<1>2. k \in 0..Capacity
  BY <1>1, SMT
<1>3. head' = IF head + count < Capacity THEN head + count ELSE head + count - Capacity
  BY AtIs
<1>4. head' \in Places
  BY AtIs
<1>5. At(j)' = (head' + j) % Capacity
  BY DEF At
<1>6. head' + j \in Nat /\ head' + j < 2 * Capacity
  BY <1>1, <1>4, SMT DEF Places
<1>7. (head' + j) % Capacity = IF head' + j < Capacity THEN head' + j ELSE head' + j - Capacity
  <2>1. PICK a \in Nat : a = head' + j
    BY <1>6
  <2>2. a % Capacity = IF a < Capacity THEN a ELSE a - Capacity
    BY <1>6, <2>1, Wrap
  <2> QED
    BY <1>1, <1>4, <2>1, <2>2, SMT DEF Places
<1>8. At(k) = IF head + k < Capacity THEN head + k ELSE head + k - Capacity
  <2> HIDE DEF k
  <2> QED
    BY <1>2, AtIs
<1> QED
  BY <1>1, <1>3, <1>4, <1>5, <1>7, <1>8, SMT DEF Places

\* A packet is something.
LEMMA PacketIsItem ==
  ASSUME NEW item \in QueuePacket
  PROVE  item # NoItem
BY SMT DEF QueuePacket, NoItem

\* The packets of the ring as a sequence.
LEMMA QueueTyped ==
  ASSUME RingTypes, RingTrue
  PROVE  /\ Queue \in Seq(QueuePacket) /\ Len(Queue) = length
         /\ \A i \in 1..length : Queue[i] = items[At(i - 1)] /\ Queue[i] \in QueuePacket
<1>1. Capacity \in Nat /\ Capacity > 0 /\ length \in Nat /\ length <= Capacity
  BY QueueAssumption, SMT DEF RingTypes
<1>2. ASSUME NEW i \in 1..length PROVE items[At(i - 1)] \in QueuePacket
  <2>1. i - 1 \in Places /\ i - 1 \in 0..Capacity /\ i - 1 < length
    BY <1>1, SMT DEF Places
  <2>2. items[At(i - 1)] # NoItem
    BY <2>1 DEF RingTrue
  <2>3. At(i - 1) \in Places
    BY <2>1, AtIs DEF RingTypes
  <2> QED
    BY <2>2, <2>3 DEF RingTypes
<1> QED
  BY <1>1, <1>2, SMT DEF Queue

QueueIs ==
  /\ Queue \in Seq(QueuePacket) /\ Len(Queue) = length
  /\ \A i \in 1..length : Queue[i] = items[At(i - 1)] /\ Queue[i] \in QueuePacket

\* The same in the next state.
LEMMA QueueTypedNext == RingTypes' /\ RingTrue' => QueueIs'
<1>1. RingTypes /\ RingTrue => QueueIs
  BY QueueTyped DEF QueueIs
<1> QED
  BY <1>1, PTL

\* A packet is stored behind the last one.
LEMMA StoreEnd ==
  ASSUME RingTypes, RingTrue, length < Capacity, NEW item \in QueuePacket,
         items' = [items EXCEPT ![At(length)] = item], length' = length + 1, head' = head
  PROVE  RingTypes' /\ RingTrue' /\ Queue' = Append(Queue, item)
<1>1. /\ Capacity \in Nat /\ Capacity > 0 /\ length \in Places /\ length \in 0..Capacity
      /\ length \in Nat /\ head \in Places
  BY QueueAssumption, SMT DEF RingTypes, Places
<1>2. At(length) \in Places
  BY <1>1, AtIs
<1>3. RingTypes'
  BY <1>1, <1>2, SMT DEF RingTypes
<1>4. \A offset \in Places : At(offset)' = At(offset) /\ At(offset) \in Places
  <2>1. \A offset \in Places : offset \in 0..Capacity
    BY <1>1, SMT DEF Places
  <2>2. \A offset \in Places : At(offset)' = At(offset)
    BY DEF At
  <2> QED
    BY <1>1, <2>1, <2>2, AtIs
<1>5. \A offset \in Places :
        items'[At(offset)] = IF offset = length THEN item ELSE items[At(offset)]
  BY <1>1, <1>2, <1>4, AtOnce DEF RingTypes
<1>6. RingTrue'
  <2> SUFFICES ASSUME NEW offset \in Places
               PROVE  items'[At(offset)'] # NoItem <=> offset < length + 1
    BY DEF RingTrue
  <2>1. items'[At(offset)'] = IF offset = length THEN item ELSE items[At(offset)]
    BY <1>4, <1>5
  <2>2. items[At(offset)] # NoItem <=> offset < length
    BY DEF RingTrue
  <2> QED
    BY <1>1, <2>1, <2>2, PacketIsItem, SMT DEF Places
<1>7. Queue' = Append(Queue, item)
  <2>1. /\ Queue \in Seq(QueuePacket) /\ Len(Queue) = length
        /\ \A i \in 1..length : Queue[i] = items[At(i - 1)]
    BY QueueTyped
  <2>2. /\ Queue' \in Seq(QueuePacket) /\ Len(Queue') = length + 1
        /\ \A i \in 1..(length + 1) : Queue'[i] = items'[At(i - 1)']
    BY <1>3, <1>6, QueueTypedNext DEF QueueIs
  <2> SUFFICES ASSUME NEW i \in 1..(length + 1)
               PROVE  Queue'[i] = Append(Queue, item)[i]
    BY <1>1, <2>1, <2>2, SMT
  <2>3. i - 1 \in Places /\ (i - 1 = length <=> i = length + 1)
    BY <1>1, SMT DEF Places
  <2>4. Queue'[i] = IF i = length + 1 THEN item ELSE items[At(i - 1)]
    BY <1>4, <1>5, <2>2, <2>3
  <2>5. Append(Queue, item)[i] = IF i = length + 1 THEN item ELSE Queue[i]
    BY <1>1, <2>1, SMT
  <2>6. i # length + 1 => i \in 1..length
    BY <1>1, SMT
  <2> QED
    BY <2>1, <2>4, <2>5, <2>6
<1> QED
  BY <1>3, <1>6, <1>7

\* A full ring loses its oldest packet to the new one, which is then the last.
LEMMA StoreOver ==
  ASSUME RingTypes, RingTrue, length = Capacity, NEW item \in QueuePacket,
         items' = [items EXCEPT ![head] = item], head' = At(1), length' = length
  PROVE  RingTypes' /\ RingTrue' /\ Queue' = Append(Tail(Queue), item)
<1>1. /\ Capacity \in Nat /\ Capacity > 0 /\ length \in Nat /\ 1 \in 0..Capacity
      /\ head \in Places /\ 0 \in Places /\ 0 \in 0..Capacity /\ Capacity - 1 \in Places
  BY QueueAssumption, SMT DEF RingTypes, Places
<1>2. At(0) = head
  BY <1>1, AtIs, SMT DEF Places
<1>3. head' \in Places
  BY <1>1, Turned
<1>4. RingTypes'
  BY <1>1, <1>3 DEF RingTypes
<1>5. \A j \in Places : IF j = Capacity - 1 THEN At(j)' = head
                       ELSE At(j)' = At(j + 1) /\ j + 1 \in Places /\ At(j + 1) # head
  <2> SUFFICES ASSUME NEW j \in Places
               PROVE  IF j = Capacity - 1 THEN At(j)' = head
                      ELSE At(j)' = At(j + 1) /\ j + 1 \in Places /\ At(j + 1) # head
    OBVIOUS
  <2>1. At(j)' = At(IF 1 + j < Capacity THEN 1 + j ELSE 1 + j - Capacity)
    BY <1>1, Turned
  <2>2. CASE j = Capacity - 1
    <3>1. (IF 1 + j < Capacity THEN 1 + j ELSE 1 + j - Capacity) = 0
      BY <1>1, <2>2, SMT
    <3> QED
      BY <1>2, <2>1, <2>2, <3>1
  <2>3. CASE j # Capacity - 1
    <3>1. /\ (IF 1 + j < Capacity THEN 1 + j ELSE 1 + j - Capacity) = j + 1
          /\ j + 1 \in Places /\ j + 1 # 0
      BY <1>1, <2>3, SMT DEF Places
    <3>2. At(j + 1) # head
      BY <1>1, <1>2, <3>1, AtOnce
    <3> QED
      BY <2>1, <2>3, <3>1, <3>2
  <2> QED
    BY <2>2, <2>3
<1>6. \A j \in Places : items'[At(j)'] = IF j = Capacity - 1 THEN item ELSE items[At(j + 1)]
  <2>1. \A j \in Places : At(j) \in Places
    <3>1. \A j \in Places : j \in 0..Capacity
      BY <1>1, SMT DEF Places
    <3> QED
      BY <1>1, <3>1, AtIs
  <2> QED
    BY <1>1, <1>5, <2>1 DEF RingTypes
<1>7. RingTrue'
  <2> SUFFICES ASSUME NEW offset \in Places
               PROVE  items'[At(offset)'] # NoItem <=> offset < length
    BY DEF RingTrue
  <2>1. offset < length
    BY <1>1, SMT DEF Places
  <2>2. CASE offset = Capacity - 1
    BY <1>6, <2>1, <2>2, PacketIsItem
  <2>3. CASE offset # Capacity - 1
    <3>1. offset + 1 \in Places /\ offset + 1 < length
      BY <1>1, <2>3, SMT DEF Places
    <3>2. items[At(offset + 1)] # NoItem
      BY <3>1 DEF RingTrue
    <3> QED
      BY <1>6, <2>1, <2>3, <3>2
  <2> QED
    BY <2>2, <2>3
<1>8. Queue' = Append(Tail(Queue), item)
  <2>1. /\ Queue \in Seq(QueuePacket) /\ Len(Queue) = length
        /\ \A i \in 1..length : Queue[i] = items[At(i - 1)]
    BY QueueTyped
  <2>2. /\ Queue' \in Seq(QueuePacket) /\ Len(Queue') = length
        /\ \A i \in 1..length : Queue'[i] = items'[At(i - 1)']
    BY <1>4, <1>7, QueueTypedNext DEF QueueIs
  <2>3. /\ Tail(Queue) \in Seq(QueuePacket) /\ Len(Tail(Queue)) = length - 1
        /\ \A i \in 1..(length - 1) : Tail(Queue)[i] = Queue[i + 1]
    BY <1>1, <2>1, SMT
  <2>4. /\ Append(Tail(Queue), item) \in Seq(QueuePacket)
        /\ Len(Append(Tail(Queue), item)) = length
        /\ \A i \in 1..length : Append(Tail(Queue), item)[i] =
                                  IF i = length THEN item ELSE Tail(Queue)[i]
    BY <1>1, <2>3, SMT
  <2> SUFFICES ASSUME NEW i \in 1..length
               PROVE  Queue'[i] = Append(Tail(Queue), item)[i]
    BY <1>1, <2>2, <2>4, SMT
  <2>5. i - 1 \in Places /\ (i - 1 = Capacity - 1 <=> i = length) /\ i - 1 + 1 = i
    BY <1>1, SMT DEF Places
  <2>6. Queue'[i] = IF i = length THEN item ELSE items[At(i)]
    BY <1>6, <2>2, <2>5
  <2>7. i # length => i \in 1..(length - 1) /\ i + 1 \in 1..length /\ i + 1 - 1 = i
    BY <1>1, SMT
  <2> QED
    BY <2>1, <2>3, <2>4, <2>6, <2>7, SMT
<1> QED
  BY <1>4, <1>7, <1>8

\* Pop and Drain: the first packets leave, the others stay in order, and the places that were
\* left are cleared.
LEMMA TakeFirst ==
  ASSUME RingTypes, RingTrue, NEW count \in 0..length, Take(count)
  PROVE  RingTypes' /\ RingTrue' /\ Queue' = SubSeq(Queue, count + 1, length)
<1>1. /\ Capacity \in Nat /\ Capacity > 0 /\ length \in Nat /\ length <= Capacity
      /\ count \in 0..Capacity /\ count <= length /\ head \in Places
  BY QueueAssumption, SMT DEF RingTypes, Places
<1>2. /\ head' = At(count) /\ length' = length - count
      /\ items' = [place \in Places |->
                     IF \E i \in 0..(count - 1) : place = At(i) THEN NoItem ELSE items[place]]
  BY DEF Take
<1>3. \A j \in Places : At(j) \in Places
  <2>1. \A j \in Places : j \in 0..Capacity
    BY <1>1, SMT DEF Places
  <2> QED
    BY <1>1, <2>1, AtIs
<1>4. \A j \in Places : items'[At(j)] = IF j < count THEN NoItem ELSE items[At(j)]
  <2> SUFFICES ASSUME NEW j \in Places
               PROVE  items'[At(j)] = IF j < count THEN NoItem ELSE items[At(j)]
    OBVIOUS
  <2>1. (\E i \in 0..(count - 1) : At(j) = At(i)) <=> j < count
    <3>1. \A i \in 0..(count - 1) : i \in Places
      BY <1>1, SMT DEF Places
    <3>2. ASSUME NEW i \in 0..(count - 1), At(j) = At(i) PROVE j < count
      BY <1>1, <3>1, <3>2, AtOnce, SMT
    <3>3. j < count => j \in 0..(count - 1)
      BY <1>1, SMT DEF Places
    <3> QED
      BY <3>2, <3>3
  <2> QED
    BY <1>2, <1>3, <2>1
<1>5. head' \in Places
  BY <1>1, <1>2, Turned
<1>6. RingTypes'
  <2>1. length' \in 0..Capacity
    BY <1>1, <1>2, SMT
  <2>2. items' \in [Places -> QueuePacket \cup {NoItem}]
    BY <1>2 DEF RingTypes
  <2> QED
    BY <1>5, <2>1, <2>2 DEF RingTypes
<1>7. \A j \in Places :
        /\ count + j < Capacity => count + j \in Places /\ At(j)' = At(count + j)
        /\ count + j >= Capacity =>
             /\ count + j - Capacity \in Places /\ count + j - Capacity < count
             /\ At(j)' = At(count + j - Capacity)
  <2> SUFFICES ASSUME NEW j \in Places
               PROVE  /\ count + j < Capacity =>
                           count + j \in Places /\ At(j)' = At(count + j)
                      /\ count + j >= Capacity =>
                           /\ count + j - Capacity \in Places /\ count + j - Capacity < count
                           /\ At(j)' = At(count + j - Capacity)
    OBVIOUS
  <2>1. At(j)' = At(IF count + j < Capacity THEN count + j ELSE count + j - Capacity)
    BY <1>1, <1>2, Turned
  <2>2. CASE count + j < Capacity
    BY <1>1, <2>1, <2>2, SMT DEF Places
  <2>3. CASE count + j >= Capacity
    <3>1. ~(count + j < Capacity)
      BY <1>1, <2>3, SMT DEF Places
    <3>2. At(j)' = At(count + j - Capacity)
      BY <2>1, <3>1
    <3> QED
      BY <1>1, <2>3, <3>1, <3>2, SMT DEF Places
  <2>4. count + j \in Int
    BY <1>1, SMT DEF Places
  <2> QED
    BY <1>1, <2>2, <2>3, <2>4
<1>8. RingTrue'
  <2> SUFFICES ASSUME NEW j \in Places
               PROVE  items'[At(j)'] # NoItem <=> j < length - count
    BY <1>2 DEF RingTrue
  <2>1. CASE count + j < Capacity
    <3>1. items'[At(j)'] = IF count + j < count THEN NoItem ELSE items[At(count + j)]
      BY <1>4, <1>7, <2>1
    <3>2. items[At(count + j)] # NoItem <=> count + j < length
      BY <1>7, <2>1 DEF RingTrue
    <3>3. ~(count + j < count) /\ (count + j < length <=> j < length - count)
      BY <1>1, SMT DEF Places
    <3> QED
      BY <3>1, <3>2, <3>3
  <2>2. CASE count + j >= Capacity
    <3>1. items'[At(j)'] = NoItem
      BY <1>4, <1>7, <2>2
    <3>2. ~(j < length - count)
      BY <1>1, <2>2, SMT DEF Places
    <3> QED
      BY <3>1, <3>2
  <2> QED
    BY <1>1, <2>1, <2>2, SMT DEF Places
<1>9. Queue' = SubSeq(Queue, count + 1, length)
  <2>1. /\ Queue \in Seq(QueuePacket) /\ Len(Queue) = length
        /\ \A i \in 1..length : Queue[i] = items[At(i - 1)]
    BY QueueTyped
  <2>2. /\ Queue' \in Seq(QueuePacket) /\ Len(Queue') = length - count
        /\ \A i \in 1..(length - count) : Queue'[i] = items'[At(i - 1)']
    BY <1>2, <1>6, <1>8, QueueTypedNext DEF QueueIs
  <2> DEFINE rest == SubSeq(Queue, count + 1, length)
  <2>3. /\ rest \in Seq(QueuePacket) /\ Len(rest) = length - count
        /\ \A i \in 1..(length - count) : rest[i] = Queue[count + i]
    BY <1>1, <2>1, SMT
  <2> HIDE DEF rest
  <2> SUFFICES ASSUME NEW i \in 1..(length - count) PROVE Queue'[i] = rest[i]
    <3>1. (\A i \in 1..(length - count) : Queue'[i] = rest[i]) => Queue' = rest
      BY <1>1, <2>2, <2>3, SMT
    <3> QED
      BY <3>1 DEF rest
  <2>4. /\ i - 1 \in Places /\ count + (i - 1) < Capacity /\ ~(count + (i - 1) < count)
        /\ count + i \in 1..length /\ count + i - 1 = count + (i - 1)
    BY <1>1, SMT DEF Places
  <2>5. Queue'[i] = items[At(count + (i - 1))]
    BY <1>4, <1>7, <2>2, <2>4
  <2> QED
    BY <2>1, <2>3, <2>4, <2>5, SMT
<1> QED
  BY <1>6, <1>8, <1>9

-----------------------------------------------------------------------------
(* The buffers: types, locks and what a closed queue holds *)

\* The types that the wake-ups do not need.
BufferTypes ==
  /\ wake \in BOOLEAN /\ access \in BOOLEAN /\ incomingAccess \in BOOLEAN /\ closed \in BOOLEAN
  /\ closing \in {"no", "stop", "drain", "done"}
  /\ received \in [Readers -> Seq(Seq(QueuePacket))]
  /\ released \in [1..LastPacket -> Nat]

\* A pusher that is done has nothing in hand; that of a connection holds incomingAccess; and
\* nobody pushes once Close is about to drain.
HandsInv ==
  /\ \A w \in Pushers : pushing[w].step \in {"idle", "signal"} => pushing[w].hand = <<>>
  /\ PeerConnection =>
       /\ \A w \in Pushers : pushing[w].step # "idle" => incomingAccess
       /\ \A v, w \in Pushers : pushing[v].step # "idle" /\ pushing[w].step # "idle" => v = w
  /\ closing # "no" => closed
  /\ closing \in {"drain", "done"} => \A w \in Pushers : pushing[w].step = "idle"
  /\ closing = "done" => length = 0

BufferInv == RingTypes /\ RingTrue /\ BufferTypes /\ HandsInv /\ OneSource

\* The number of times a packet is counted in a batch.
LEMMA CountTyped ==
  ASSUME NEW S, NEW batch \in Seq(S), NEW n
  PROVE  Count(n, batch) \in Nat
<1> DEFINE found == {i \in 1..Len(batch) : batch[i][1] = n}
<1>1. IsFiniteSet(1..Len(batch))
  BY FS_Interval, SMT
<1>2. found \subseteq 1..Len(batch)
  OBVIOUS
<1>3. Count(n, batch) = Cardinality(found)
  BY DEF Count
<1> HIDE DEF found
<1> QED
  BY <1>1, <1>2, <1>3, FS_Subset, FS_CardinalityType

\* A batch that has the packet at one place, or nowhere.
LEMMA CountOnce ==
  ASSUME NEW S, NEW batch \in Seq(S), NEW n
  PROVE  /\ (\A i \in 1..Len(batch) : batch[i][1] # n) => Count(n, batch) = 0
         /\ \A j \in 1..Len(batch) :
              (\A i \in 1..Len(batch) : batch[i][1] = n <=> i = j) => Count(n, batch) = 1
<1> DEFINE found == {i \in 1..Len(batch) : batch[i][1] = n}
<1>1. Count(n, batch) = Cardinality(found)
  BY DEF Count
<1>2. (\A i \in 1..Len(batch) : batch[i][1] # n) => found = {}
  OBVIOUS
<1>3. \A j \in 1..Len(batch) : (\A i \in 1..Len(batch) : batch[i][1] = n <=> i = j) => found = {j}
  OBVIOUS
<1> HIDE DEF found
<1>4. Cardinality({}) = 0
  BY FS_EmptySet
<1>5. \A j : Cardinality({j}) = 1
  BY FS_Singleton
<1> QED
  BY <1>1, <1>2, <1>3, <1>4, <1>5

\* What a release leaves.
LEMMA ReleaseTyped ==
  ASSUME released \in [1..LastPacket -> Nat], NEW S, NEW batch \in Seq(S), Release(batch)
  PROVE  /\ released' \in [1..LastPacket -> Nat]
         /\ \A n \in 1..LastPacket : released'[n] = released[n] + Count(n, batch)
<1>1. \A n \in 1..LastPacket : Count(n, batch) \in Nat
  BY CountTyped
<1>2. released' = [n \in 1..LastPacket |-> released[n] + Count(n, batch)]
  BY DEF Release
<1>3. \A n \in 1..LastPacket : released[n] + Count(n, batch) \in Nat
  BY <1>1, SMT
<1> QED
  BY <1>2, <1>3

\* A queue that does not move.
LEMMA RingStays ==
  ASSUME UNCHANGED ring
  PROVE  Queue' = Queue /\ (RingTypes => RingTypes') /\ (RingTrue => RingTrue')
BY DEF ring, Queue, At, RingTypes, RingTrue

\* The initial state: the ring is empty and nothing is in hand.
LEMMA BufferInit == QueueInit => BufferInv /\ Queue = <<>>
<1> SUFFICES ASSUME QueueInit PROVE BufferInv /\ Queue = <<>>
  OBVIOUS
<1>1. RingTypes
  BY QueueAssumption, SMT DEF QueueInit, RingTypes, Places
<1>2. RingTrue
  <2> SUFFICES ASSUME NEW offset \in Places PROVE items[At(offset)] = NoItem /\ ~(offset < length)
    BY DEF RingTrue
  <2>1. offset \in 0..Capacity /\ offset >= 0 /\ length = 0
    BY QueueAssumption, SMT DEF Places, QueueInit
  <2>2. At(offset) \in Places
    BY <1>1, <2>1, AtIs DEF RingTypes
  <2> QED
    BY <2>1, <2>2, SMT DEF QueueInit
<1>3. BufferTypes
  <2>1. <<>> \in Seq(Seq(QueuePacket))
    BY SMT
  <2>2. received \in [Readers -> Seq(Seq(QueuePacket))] /\ released \in [1..LastPacket -> Nat]
    BY <2>1 DEF QueueInit
  <2> QED
    BY <2>2 DEF QueueInit, BufferTypes
<1>4. HandsInv /\ OneSource
  BY SMT DEF QueueInit, HandsInv, OneSource
<1>5. Queue = <<>>
  <2>1. Queue \in Seq(QueuePacket) /\ Len(Queue) = 0
    BY <1>1, <1>2, QueueTyped DEF QueueInit
  <2> QED
    BY <2>1, SMT
<1> QED
  BY <1>1, <1>2, <1>3, <1>4, <1>5 DEF BufferInv

\* A step that moves no packet.
Quiet ==
  /\ UNCHANGED <<ring, pushed, received, released>>
  /\ \A v \in Pushers : pushing'[v].hand = pushing[v].hand

LEMMA QuietBuffer ==
  ASSUME BufferInv, use' = use, Quiet, BufferTypes', HandsInv'
  PROVE  BufferInv'
<1>1. RingTypes' /\ RingTrue'
  BY RingStays DEF BufferInv, Quiet
<1>2. OneSource'
  BY DEF BufferInv, Quiet, OneSource, PeerConnection
<1> QED
  BY <1>1, <1>2 DEF BufferInv

\* A pusher takes its locks and lets them go.
LEMMA LocksBuffer ==
  ASSUME QueueInv, BufferInv, use' = use, NEW w \in Pushers,
         Lock(w) \/ Unlock(w) \/ SignalPush(w)
  PROVE  Quiet /\ BufferInv'
<1>1. /\ pushing \in [Pushers -> Pushing] /\ wasEmpty[w] \in BOOLEAN
      /\ BufferTypes /\ HandsInv
  BY DEF QueueInv, QueueTypes, BufferInv
<1>2. PICK to \in PushSteps :
        /\ pushing[w].step # "idle" /\ pushing' = [pushing EXCEPT ![w].step = to]
        /\ to \in {"idle", "signal"} => pushing[w].hand = <<>>
        /\ to # "idle" /\ incomingAccess => incomingAccess'
        /\ wake' \in BOOLEAN /\ access' \in BOOLEAN /\ incomingAccess' \in BOOLEAN
        /\ UNCHANGED <<ring, closed, closing, pushed, received, released>>
  <2>1. CASE Lock(w)
    <3>1. "push" \in PushSteps
      BY DEF PushSteps
    <3> QED
      BY <1>1, <2>1, <3>1 DEF Lock, BufferTypes
  <2>2. CASE Unlock(w)
    <3> DEFINE to == IF wasEmpty[w] THEN "signal" ELSE "idle"
    <3>1. to \in PushSteps /\ (to # "idle" => wasEmpty[w])
      BY DEF PushSteps
    <3>2. /\ pushing[w].step = "push" /\ pushing[w].hand = <<>> /\ access' = FALSE
          /\ pushing' = [pushing EXCEPT ![w].step = to]
          /\ incomingAccess' = (incomingAccess /\ wasEmpty[w])
          /\ UNCHANGED <<ring, wake, closed, closing, pushed, received, released>>
      BY <2>2 DEF Unlock
    <3> HIDE DEF to
    <3>3. /\ to # "idle" /\ incomingAccess => incomingAccess'
          /\ incomingAccess' \in BOOLEAN
      BY <1>1, <3>1, <3>2 DEF BufferTypes
    <3> QED
      BY <1>1, <3>1, <3>2, <3>3 DEF BufferTypes
  <2>3. CASE SignalPush(w)
    <3>1. "idle" \in PushSteps
      BY DEF PushSteps
    <3>2. pushing[w].hand = <<>>
      BY <1>1, <2>3 DEF HandsInv, SignalPush
    <3> QED
      BY <1>1, <2>3, <3>1, <3>2 DEF SignalPush, BufferTypes
  <2> QED
    BY <2>1, <2>2, <2>3
<1>3. /\ pushing'[w].step = to /\ pushing'[w].hand = pushing[w].hand
      /\ \A v \in Pushers \ {w} : pushing'[v] = pushing[v]
  BY <1>1, <1>2 DEF Pushing
<1>4. Quiet
  BY <1>2, <1>3 DEF Quiet
<1>5. BufferTypes'
  BY <1>1, <1>2 DEF BufferTypes
<1>6. HandsInv'
  <2>1. closing' \notin {"drain", "done"} /\ (closing' # "no" => closed')
    BY <1>1, <1>2 DEF HandsInv
  <2>2. \A v \in Pushers : pushing'[v].step \in {"idle", "signal"} => pushing'[v].hand = <<>>
    BY <1>1, <1>2, <1>3 DEF HandsInv
  <2>3. PeerConnection =>
          /\ \A v \in Pushers : pushing'[v].step # "idle" => incomingAccess'
          /\ \A u, v \in Pushers :
               pushing'[u].step # "idle" /\ pushing'[v].step # "idle" => u = v
    BY <1>1, <1>2, <1>3 DEF HandsInv
  <2> QED
    BY <2>1, <2>2, <2>3 DEF HandsInv, PeerConnection
<1> QED
  BY <1>4, <1>5, <1>6, QuietBuffer

\* A reader comes, looks, waits or leaves.
LEMMA ReaderBuffer ==
  ASSUME BufferInv, use' = use, NEW r \in Readers,
         Call(r) \/ CheckClosed(r) \/ SignalPop(r) \/ Wake(r) \/ SeeClosed(r) \/ GiveUp(r)
  PROVE  Quiet /\ BufferInv'
<1>1. BufferTypes /\ HandsInv
  BY DEF BufferInv
<1>2. /\ UNCHANGED <<ring, access, incomingAccess, closed, pushing, closing, pushed, received,
                     released>>
      /\ wake' \in BOOLEAN
  BY <1>1 DEF Call, CheckClosed, SignalPop, Wake, SeeClosed, GiveUp, BufferTypes
<1>3. Quiet
  BY <1>2 DEF Quiet
<1>4. BufferTypes'
  BY <1>1, <1>2 DEF BufferTypes
<1>5. HandsInv'
  BY <1>1, <1>2 DEF HandsInv, PeerConnection, ring
<1> QED
  BY <1>3, <1>4, <1>5, QuietBuffer

\* Close begins, and waits for the sessions.
LEMMA StopBuffer ==
  ASSUME QueueInv, BufferInv, use' = use, BeginClose \/ SessionsGone
  PROVE  Quiet /\ BufferInv'
<1>1. BufferTypes /\ HandsInv /\ PeerConnection \in BOOLEAN
  BY UseTyped DEF BufferInv, QueueInv, QueueTypes
<1>2. CASE BeginClose
  <2>1. /\ closing = "no" /\ ~incomingAccess /\ closed' = TRUE
        /\ closing' = IF PeerConnection THEN "drain" ELSE "stop"
        /\ incomingAccess' = PeerConnection
        /\ UNCHANGED <<ring, wake, access, pushing, pushed, received, released>>
    BY <1>2 DEF BeginClose
  <2>2. Quiet
    BY <2>1 DEF Quiet
  <2>3. BufferTypes'
    BY <1>1, <2>1 DEF BufferTypes
  <2>4. HandsInv'
    <3>1. PeerConnection => \A w \in Pushers : pushing[w].step = "idle"
      BY <1>1, <2>1 DEF HandsInv
    <3>2. closing' # "done" /\ (closing' = "drain" => PeerConnection) /\ closed'
      BY <2>1
    <3> QED
      BY <1>1, <2>1, <3>1, <3>2 DEF HandsInv, PeerConnection
  <2> QED
    BY <2>2, <2>3, <2>4, QuietBuffer
<1>3. CASE SessionsGone
  <2>1. /\ closing = "stop" /\ closing' = "drain" /\ \A w \in Pushers : pushing[w].step = "idle"
        /\ UNCHANGED <<ring, wake, access, incomingAccess, closed, pushing, pushed, received,
                       released>>
    BY <1>3 DEF SessionsGone
  <2>2. Quiet
    BY <2>1 DEF Quiet
  <2>3. BufferTypes'
    BY <1>1, <2>1 DEF BufferTypes
  <2>4. HandsInv'
    BY <1>1, <2>1 DEF HandsInv, PeerConnection
  <2> QED
    BY <2>2, <2>3, <2>4, QuietBuffer
<1> QED
  BY <1>2, <1>3

\* A batch arrives.
LEMMA ArrivalBuffer ==
  ASSUME QueueInv, BufferInv, use' = use, NEW w \in Pushers, NEW batch \in Seq(QueuePacket),
         BeginPush(w, batch)
  PROVE  /\ BufferInv' /\ UNCHANGED <<ring, received>> /\ pushing[w].hand = <<>>
         /\ pushed' = pushed + Len(batch)
         /\ \/ UNCHANGED pushing /\ Release(batch)
            \/ /\ UNCHANGED released
               /\ \A v \in Pushers : pushing'[v].hand = IF v = w THEN batch ELSE pushing[v].hand
<1>1. /\ pushing \in [Pushers -> Pushing] /\ BufferTypes /\ HandsInv /\ PeerConnection \in BOOLEAN
  BY UseTyped DEF QueueInv, QueueTypes, BufferInv
<1>2. /\ pushing[w].step = "idle" /\ pushed' = pushed + Len(batch)
      /\ IF PeerConnection THEN ~incomingAccess ELSE closing \notin {"drain", "done"}
      /\ UNCHANGED <<ring, wake, access, closed, closing, received>>
  BY DEF BeginPush
<1>3. pushing[w].hand = <<>>
  BY <1>1, <1>2 DEF HandsInv
<1>4. RingTypes' /\ RingTrue' /\ OneSource'
  <2>1. RingTypes /\ RingTrue /\ OneSource
    BY DEF BufferInv
  <2>2. RingTypes' /\ RingTrue'
    BY <1>2, <2>1, RingStays
  <2> QED
    BY <1>2, <2>1, <2>2 DEF OneSource, PeerConnection
<1>5. CASE PeerConnection /\ closed
  <2>1. Release(batch) /\ UNCHANGED <<incomingAccess, pushing>>
    BY <1>5 DEF BeginPush
  <2>2. released' \in [1..LastPacket -> Nat]
    BY <1>1, <2>1, ReleaseTyped DEF BufferTypes
  <2>3. BufferTypes'
    BY <1>1, <1>2, <2>1, <2>2 DEF BufferTypes
  <2>4. HandsInv'
    BY <1>1, <1>2, <2>1 DEF HandsInv, PeerConnection, ring
  <2> QED
    BY <1>2, <1>3, <1>4, <2>1, <2>3, <2>4 DEF BufferInv
<1>6. CASE ~(PeerConnection /\ closed)
  <2>1. /\ incomingAccess' = PeerConnection /\ UNCHANGED released
        /\ pushing' = [pushing EXCEPT ![w] = [step |-> "lock", hand |-> batch]]
    BY <1>6 DEF BeginPush
  <2>2. /\ pushing'[w].step = "lock" /\ pushing'[w].hand = batch
        /\ \A v \in Pushers \ {w} : pushing'[v] = pushing[v]
    BY <1>1, <2>1
  <2>3. BufferTypes'
    BY <1>1, <1>2, <2>1 DEF BufferTypes
  <2>4. closing' \notin {"drain", "done"} /\ (closing' # "no" => closed')
    BY <1>1, <1>2, <1>6 DEF HandsInv
  <2>5. HandsInv'
    <3>1. \A v \in Pushers : pushing'[v].step \in {"idle", "signal"} => pushing'[v].hand = <<>>
      BY <1>1, <2>2 DEF HandsInv
    <3>2. PeerConnection => incomingAccess' /\ \A v \in Pushers \ {w} : pushing'[v].step = "idle"
      BY <1>1, <1>2, <2>1, <2>2 DEF HandsInv
    <3> QED
      BY <2>4, <3>1, <3>2 DEF HandsInv, PeerConnection
  <2>6. \A v \in Pushers : pushing'[v].hand = IF v = w THEN batch ELSE pushing[v].hand
    BY <2>2
  <2> QED
    BY <1>2, <1>3, <1>4, <2>1, <2>3, <2>5, <2>6 DEF BufferInv
<1> QED
  BY <1>5, <1>6

\* A packet goes from the hand of its pusher into the ring, or is dropped, or the oldest is.
LEMMA StoreBuffer ==
  ASSUME QueueInv, BufferInv, use' = use, NEW w \in Pushers, PushItem(w)
  PROVE  /\ BufferInv' /\ UNCHANGED <<pushed, received>>
         /\ pushing[w].hand \in Seq(QueuePacket) /\ pushing[w].hand # <<>>
         /\ \A v \in Pushers : pushing'[v].hand = IF v = w THEN Tail(pushing[w].hand)
                                                  ELSE pushing[v].hand
         /\ \/ /\ length = Capacity /\ PeerConnection
               /\ Queue' = Queue /\ Release(<<Head(pushing[w].hand)>>)
            \/ /\ length = Capacity /\ ~PeerConnection
               /\ Queue' = Append(Tail(Queue), Head(pushing[w].hand))
               /\ Release(<<Head(Queue)>>)
            \/ /\ length < Capacity /\ Queue' = Append(Queue, Head(pushing[w].hand))
               /\ UNCHANGED released
<1> DEFINE item == Head(pushing[w].hand)
<1>1. /\ pushing \in [Pushers -> Pushing] /\ BufferTypes /\ HandsInv /\ PeerConnection \in BOOLEAN
      /\ RingTypes /\ RingTrue /\ OneSource
  BY UseTyped DEF QueueInv, QueueTypes, BufferInv
<1>2. /\ pushing[w].step = "push" /\ pushing[w].hand # <<>> /\ Store(item)
      /\ pushing' = [pushing EXCEPT ![w].hand = Tail(@)]
      /\ UNCHANGED <<wake, access, incomingAccess, closed, closing, pushed, received>>
  BY DEF PushItem
<1>3. /\ pushing[w].hand \in Seq(QueuePacket) /\ item \in QueuePacket
      /\ Tail(pushing[w].hand) \in Seq(QueuePacket)
  BY <1>1, <1>2, SMT DEF Pushing
<1> HIDE DEF item
<1>4. /\ pushing'[w].step = "push" /\ pushing'[w].hand = Tail(pushing[w].hand)
      /\ \A v \in Pushers \ {w} : pushing'[v] = pushing[v]
  BY <1>1, <1>2 DEF Pushing
<1>5. HandsInv'
  <2>1. closing' \notin {"drain", "done"} /\ (closing' # "no" => closed')
    BY <1>1, <1>2 DEF HandsInv
  <2>2. \A v \in Pushers : /\ pushing'[v].step = pushing[v].step
                           /\ pushing'[v].step \in {"idle", "signal"} => pushing'[v].hand = <<>>
    BY <1>1, <1>2, <1>4 DEF HandsInv
  <2> QED
    BY <1>1, <1>2, <2>1, <2>2 DEF HandsInv, PeerConnection
<1>6. OneSource'
  BY <1>1, <1>2 DEF OneSource, PeerConnection
<1>7. \A v \in Pushers : pushing'[v].hand = IF v = w THEN Tail(pushing[w].hand)
                                            ELSE pushing[v].hand
  BY <1>4
<1>8. length \in Nat /\ length <= Capacity /\ Capacity \in Nat
  BY <1>1, QueueAssumption, SMT DEF RingTypes
<1>9. CASE length = Capacity /\ PeerConnection
  <2>1. Release(<<item>>) /\ UNCHANGED ring
    BY <1>2, <1>9 DEF Store
  <2>2. Queue' = Queue /\ RingTypes' /\ RingTrue'
    BY <1>1, <2>1, RingStays
  <2>3. <<item>> \in Seq(QueuePacket)
    BY <1>3, SMT
  <2>4. released' \in [1..LastPacket -> Nat]
    BY <1>1, <2>1, <2>3, ReleaseTyped DEF BufferTypes
  <2>5. BufferTypes'
    BY <1>1, <1>2, <2>4 DEF BufferTypes
  <2> QED
    BY <1>2, <1>3, <1>5, <1>6, <1>7, <1>9, <2>1, <2>2, <2>5 DEF BufferInv, item
<1>10. CASE length = Capacity /\ ~PeerConnection
  <2>1. /\ Release(<<items[head]>>) /\ items' = [items EXCEPT ![head] = item]
        /\ head' = At(1) /\ length' = length
    BY <1>2, <1>10 DEF Store
  <2>2. RingTypes' /\ RingTrue' /\ Queue' = Append(Tail(Queue), item)
    BY <1>1, <1>3, <1>10, <2>1, StoreOver
  <2>3. Queue \in Seq(QueuePacket) /\ Len(Queue) = length /\ Queue[1] = items[At(1 - 1)]
    <3>1. 1 \in 1..length
      BY <1>8, <1>10, QueueAssumption, SMT
    <3> QED
      BY <1>1, <3>1, QueueTyped
  <2>4. items[head] = Head(Queue) /\ <<Head(Queue)>> \in Seq(QueuePacket)
    <3>1. At(0) = head
      <4>1. 0 \in 0..Capacity /\ head + 0 = head /\ head < Capacity
        BY <1>1, <1>8, SMT DEF RingTypes, Places
      <4> QED
        BY <1>1, <4>1, AtIs DEF RingTypes
    <3>2. Len(Queue) > 0
      BY <1>8, <1>10, <2>3, QueueAssumption, SMT
    <3> QED
      BY <2>3, <3>1, <3>2, SMT
  <2>5. released' \in [1..LastPacket -> Nat] /\ Release(<<Head(Queue)>>)
    BY <1>1, <2>1, <2>4, ReleaseTyped DEF BufferTypes
  <2>6. BufferTypes'
    BY <1>1, <1>2, <2>5 DEF BufferTypes
  <2> QED
    BY <1>2, <1>3, <1>5, <1>6, <1>7, <1>10, <2>2, <2>5, <2>6 DEF BufferInv, item
<1>11. CASE length < Capacity
  <2>1. /\ items' = [items EXCEPT ![At(length)] = item] /\ length' = length + 1
        /\ head' = head /\ released' = released
    BY <1>2, <1>8, <1>11, SMT DEF Store
  <2>2. RingTypes' /\ RingTrue' /\ Queue' = Append(Queue, item)
    BY <1>1, <1>3, <1>11, <2>1, StoreEnd
  <2>3. BufferTypes'
    BY <1>1, <1>2, <2>1 DEF BufferTypes
  <2> QED
    BY <1>2, <1>3, <1>5, <1>6, <1>7, <1>11, <2>1, <2>2, <2>3 DEF BufferInv, item
<1> QED
  BY <1>1, <1>8, <1>9, <1>10, <1>11, SMTT(30)

\* A reader takes packets of one address.
LEMMA PopBuffer ==
  ASSUME QueueInv, BufferInv, use' = use, NEW r \in Readers, NEW max \in MaxPackets, Pop(r, max)
  PROVE  /\ BufferInv' /\ UNCHANGED <<pushed, pushing, released>>
         /\ \E count \in 0..length :
              /\ Queue' = SubSeq(Queue, count + 1, length)
              /\ count = 0 => length = 0 /\ UNCHANGED received
              /\ count # 0 => received' = [received EXCEPT ![r] = Append(@, SubSeq(Queue, 1, count))]
<1> DEFINE count == PopCount(max)
<1>1. /\ BufferTypes /\ HandsInv /\ RingTypes /\ RingTrue /\ OneSource
      /\ max \in Nat /\ length \in Nat /\ PeerConnection \in BOOLEAN
  BY UseTyped, SMT DEF QueueInv, QueueTypes, BufferInv
<1>2. /\ Take(count)
      /\ received' = IF count = 0 THEN received
                     ELSE [received EXCEPT ![r] = Append(@, SubSeq(Queue, 1, count))]
      /\ UNCHANGED <<wake, access, incomingAccess, closed, pushing, closing, pushed, released>>
  BY DEF Pop
<1>3. /\ count \in 0..length /\ (count = 0 => length = 0)
      /\ PeerConnection => \A i \in 1..count : Queue[i][2] = Queue[1][2]
  BY <1>1, PopTakes
<1> HIDE DEF count
<1>4. RingTypes' /\ RingTrue' /\ Queue' = SubSeq(Queue, count + 1, length)
  BY <1>1, <1>2, <1>3, TakeFirst
<1> DEFINE batch == SubSeq(Queue, 1, count)
<1>5. /\ batch \in Seq(QueuePacket) /\ Len(batch) = count
      /\ \A i \in 1..count : batch[i] = Queue[i]
  <2>1. Queue \in Seq(QueuePacket) /\ Len(Queue) = length
    BY <1>1, QueueTyped
  <2> QED
    BY <1>1, <1>3, <2>1, SMT
<1>6. HandsInv'
  <2>1. length' = length - count
    BY <1>2 DEF Take
  <2>2. length = 0 => length' = 0
    <3>1. length' \in 0..length
      BY <1>1, <1>3, <2>1, SMT
    <3> QED
      BY <1>1, <3>1, SMT
  <2> QED
    BY <1>1, <1>2, <2>2 DEF HandsInv, PeerConnection
<1>7. CASE count = 0
  <2>1. received' = received
    BY <1>2, <1>7
  <2>2. BufferTypes'
    BY <1>1, <1>2, <2>1 DEF BufferTypes
  <2>3. OneSource'
    BY <1>1, <2>1 DEF OneSource, PeerConnection
  <2> QED
    BY <1>2, <1>3, <1>4, <1>6, <1>7, <2>1, <2>2, <2>3 DEF BufferInv
<1>8. CASE count # 0
  <2>1. received' = [received EXCEPT ![r] = Append(@, batch)]
    BY <1>2, <1>8
  <2> HIDE DEF batch
  <2>2. received[r] \in Seq(Seq(QueuePacket)) /\ received \in [Readers -> Seq(Seq(QueuePacket))]
    BY <1>1 DEF BufferTypes
  <2> DEFINE after == Append(received[r], batch)
  <2>3. /\ after \in Seq(Seq(QueuePacket)) /\ Len(after) = Len(received[r]) + 1
        /\ \A b \in 1..Len(after) : after[b] = IF b = Len(received[r]) + 1 THEN batch
                                               ELSE received[r][b]
    BY <1>5, <2>2, SMT
  <2>4. received' = [received EXCEPT ![r] = after]
    BY <2>1
  <2> HIDE DEF after
  <2>5. received' \in [Readers -> Seq(Seq(QueuePacket))]
    BY <2>2, <2>3, <2>4
  <2>6. BufferTypes'
    BY <1>1, <1>2, <2>5 DEF BufferTypes
  <2>7. OneSource'
    <3> SUFFICES ASSUME PeerConnection, NEW q \in Readers, NEW b \in 1..Len(received'[q]),
                        NEW i \in 1..Len(received'[q][b])
                 PROVE  received'[q][b][i][2] = received'[q][b][1][2]
      BY DEF OneSource, PeerConnection
    <3>1. CASE q # r
      BY <1>1, <2>2, <2>4, <3>1 DEF OneSource
    <3>2. CASE q = r /\ b # Len(received[r]) + 1
      <4>1. received'[q][b] = received[r][b] /\ b \in 1..Len(received[r])
        BY <2>2, <2>3, <2>4, <3>2, SMTT(30)
      <4> QED
        <5>1. i \in 1..Len(received[r][b])
          BY <3>2, <4>1
        <5> QED
          BY <1>1, <3>2, <4>1, <5>1 DEF OneSource
    <3>3. CASE q = r /\ b = Len(received[r]) + 1
      <4>1. received'[q][b] = batch
        BY <2>2, <2>3, <2>4, <3>3
      <4>2. i \in 1..count /\ 1 \in 1..count
        BY <1>1, <1>3, <1>5, <4>1, SMT
      <4> QED
        BY <1>3, <1>5, <4>1, <4>2, SMT
    <3> QED
      BY <3>1, <3>2, <3>3
  <2> QED
    BY <1>2, <1>3, <1>4, <1>6, <1>8, <2>1, <2>6, <2>7 DEF BufferInv, batch
<1> QED
  BY <1>7, <1>8

\* Close drains the ring.
LEMMA DrainBuffer ==
  ASSUME QueueInv, BufferInv, use' = use, Drain
  PROVE  /\ BufferInv' /\ UNCHANGED <<pushed, pushing, received>>
         /\ Queue \in Seq(QueuePacket) /\ Queue' = <<>> /\ Release(Queue)
<1>1. /\ BufferTypes /\ HandsInv /\ RingTypes /\ RingTrue /\ OneSource /\ length \in Nat
  BY SMT DEF QueueInv, QueueTypes, BufferInv
<1>2. /\ closing = "drain" /\ Take(length) /\ Release(Queue) /\ closing' = "done"
      /\ incomingAccess' = FALSE
      /\ UNCHANGED <<wake, access, closed, pushing, pushed, received>>
  BY DEF Drain
<1>3. RingTypes' /\ RingTrue' /\ Queue' = SubSeq(Queue, length + 1, length)
  BY <1>1, <1>2, TakeFirst, SMT
<1>4. Queue \in Seq(QueuePacket) /\ Len(Queue) = length
  BY <1>1, QueueTyped
<1>5. length' = 0
  BY <1>1, <1>2, SMT DEF Take
<1>6. Queue' = <<>>
  <2>1. Queue' \in Seq(QueuePacket) /\ Len(Queue') = 0
    BY <1>3, <1>5, QueueTypedNext DEF QueueIs
  <2> QED
    BY <2>1, SMT
<1>7. released' \in [1..LastPacket -> Nat]
  BY <1>1, <1>2, <1>4, ReleaseTyped DEF BufferTypes
<1>8. BufferTypes' /\ OneSource'
  BY <1>1, <1>2, <1>7 DEF BufferTypes, OneSource, PeerConnection
<1>9. HandsInv'
  BY <1>1, <1>2, <1>5 DEF HandsInv, PeerConnection
<1> QED
  BY <1>2, <1>3, <1>4, <1>6, <1>8, <1>9 DEF BufferInv

-----------------------------------------------------------------------------
(* Every packet in one hand *)

\* Packet n is the i-th in the hand of a pusher, of the ring, or of a batch a reader got.
HandAt(n, w, i) == i \in 1..Len(pushing[w].hand) /\ pushing[w].hand[i][1] = n
RingAt(n, i) == i \in 1..Len(Queue) /\ Queue[i][1] = n
BatchAt(n, r, b, i) ==
  /\ b \in 1..Len(received[r]) /\ i \in 1..Len(received[r][b])
  /\ received[r][b][i][1] = n

NotInHand(n) == \A w \in Pushers : \A i \in Nat : ~HandAt(n, w, i)
NotInRing(n) == \A i \in Nat : ~RingAt(n, i)
NotInBatch(n) == \A r \in Readers : \A b, i \in Nat : ~BatchAt(n, r, b, i)

ToCome(n) == released[n] = 0 /\ NotInHand(n) /\ NotInRing(n) /\ NotInBatch(n)
Gone(n) == released[n] = 1 /\ NotInHand(n) /\ NotInRing(n) /\ NotInBatch(n)

OnlyHand(n, w, i) == \A v \in Pushers : \A j \in Nat : HandAt(n, v, j) <=> v = w /\ j = i
OnlyRing(n, i) == \A j \in Nat : RingAt(n, j) <=> j = i
OnlyBatch(n, r, b, i) ==
  \A q \in Readers : \A c, j \in Nat : BatchAt(n, q, c, j) <=> q = r /\ c = b /\ j = i

InOneHand(n) ==
  /\ released[n] = 0 /\ NotInRing(n) /\ NotInBatch(n)
  /\ \E w \in Pushers, i \in Nat : OnlyHand(n, w, i)
InTheRing(n) ==
  /\ released[n] = 0 /\ NotInHand(n) /\ NotInBatch(n)
  /\ \E i \in Nat : OnlyRing(n, i)
InOneBatch(n) ==
  /\ released[n] = 0 /\ NotInHand(n) /\ NotInRing(n)
  /\ \E r \in Readers, b \in Nat, i \in Nat : OnlyBatch(n, r, b, i)

Once(n) ==
  IF n <= pushed THEN Gone(n) \/ InOneHand(n) \/ InTheRing(n) \/ InOneBatch(n) ELSE ToCome(n)

OnceInv == \A n \in 1..LastPacket : Once(n)

\* A packet that does not move.
LEMMA OnceKept ==
  ASSUME NEW n, Once(n), n <= pushed' <=> n <= pushed, released'[n] = released[n],
         \A v \in Pushers : \A j \in Nat : HandAt(n, v, j)' <=> HandAt(n, v, j),
         \A j \in Nat : RingAt(n, j)' <=> RingAt(n, j),
         \A q \in Readers : \A c, j \in Nat : BatchAt(n, q, c, j)' <=> BatchAt(n, q, c, j)
  PROVE  Once(n)'
<1>1. /\ NotInHand(n)' <=> NotInHand(n)
      /\ NotInRing(n)' <=> NotInRing(n)
      /\ NotInBatch(n)' <=> NotInBatch(n)
  BY DEF NotInHand, NotInRing, NotInBatch
<1>2. (Gone(n) => Gone(n)') /\ (ToCome(n) => ToCome(n)')
  BY <1>1 DEF Gone, ToCome
<1>3. InOneHand(n) => InOneHand(n)'
  <2>1. \A w \in Pushers, i \in Nat : OnlyHand(n, w, i)' <=> OnlyHand(n, w, i)
    BY DEF OnlyHand
  <2> QED
    BY <1>1, <2>1 DEF InOneHand
<1>4. InTheRing(n) => InTheRing(n)'
  <2>1. \A i \in Nat : OnlyRing(n, i)' <=> OnlyRing(n, i)
    BY DEF OnlyRing
  <2> QED
    BY <1>1, <2>1 DEF InTheRing
<1>5. InOneBatch(n) => InOneBatch(n)'
  <2>1. \A r \in Readers, b \in Nat, i \in Nat : OnlyBatch(n, r, b, i)' <=> OnlyBatch(n, r, b, i)
    BY SMT DEF OnlyBatch
  <2> QED
    BY <1>1, <2>1 DEF InOneBatch
<1> QED
  BY <1>2, <1>3, <1>4, <1>5 DEF Once

\* A step that moves no packet.
LEMMA QuietOnce ==
  ASSUME Quiet, OnceInv
  PROVE  OnceInv'
<1> SUFFICES ASSUME NEW n \in 1..LastPacket PROVE Once(n)'
  BY DEF OnceInv
<1>1. Once(n) /\ pushed' = pushed /\ released' = released /\ received' = received
  BY DEF OnceInv, Quiet
<1>2. \A v \in Pushers : \A j \in Nat : HandAt(n, v, j)' <=> HandAt(n, v, j)
  BY DEF Quiet, HandAt
<1>3. Queue' = Queue
  BY RingStays DEF Quiet
<1>4. \A j \in Nat : RingAt(n, j)' <=> RingAt(n, j)
  BY <1>3 DEF RingAt
<1>5. \A q \in Readers : \A c, j \in Nat : BatchAt(n, q, c, j)' <=> BatchAt(n, q, c, j)
  BY <1>1 DEF BatchAt
<1> QED
  BY <1>1, <1>2, <1>4, <1>5, OnceKept

\* The numbers next to one.
LEMMA Neighbours ==
  ASSUME NEW i \in Nat
  PROVE  /\ i + 1 \in Nat /\ i + 1 # 0 /\ 0 \in Nat /\ 1 \in Nat /\ 0 + 1 = 1 /\ 0 # 1
         /\ i + 1 = 1 => i = 0
         /\ i # 0 => /\ i - 1 \in Nat /\ (i - 1 = 0 => i = 1)
                     /\ \A j \in Nat : j + 1 = i <=> j = i - 1
         /\ \A j \in Nat : i # 0 /\ i # j + 1 => i - 1 # j
  BY SMT

\* The first packet in the hand of a pusher is stored, or dropped, or displaces the oldest.
LEMMA StoreOnceAt ==
  ASSUME NEW n, NEW w \in Pushers, NEW last \in Nat, Once(n), pushed' = pushed,
         \A v \in Pushers : \A j \in Nat :
           HandAt(n, v, j)' <=> IF v = w THEN j # 0 /\ HandAt(n, w, j + 1) ELSE HandAt(n, v, j),
         ~RingAt(n, 0), ~RingAt(n, last + 1), \A v \in Pushers : ~HandAt(n, v, 0),
         \A q \in Readers : \A c, j \in Nat : BatchAt(n, q, c, j)' <=> BatchAt(n, q, c, j),
         \/ /\ \A j \in Nat : RingAt(n, j)' <=> RingAt(n, j)
            /\ released'[n] = IF HandAt(n, w, 1) THEN released[n] + 1 ELSE released[n]
         \/ /\ last # 0
            /\ \A j \in Nat : RingAt(n, j)' <=> IF j = last THEN HandAt(n, w, 1)
                                                ELSE j # 0 /\ RingAt(n, j + 1)
            /\ released'[n] = IF RingAt(n, 1) THEN released[n] + 1 ELSE released[n]
         \/ /\ \A j \in Nat : RingAt(n, j)' <=> IF j = last + 1 THEN HandAt(n, w, 1)
                                                ELSE RingAt(n, j)
            /\ released'[n] = released[n]
  PROVE  Once(n)'
<1>1. NotInBatch(n)' <=> NotInBatch(n)
  BY DEF NotInBatch
<1>2. NotInHand(n) => NotInHand(n)' /\ ~HandAt(n, w, 1)
  BY Neighbours DEF NotInHand
<1>3. ASSUME ~HandAt(n, w, 1), NotInRing(n)
      PROVE  released'[n] = released[n] /\ NotInRing(n)'
  <2>1. ~RingAt(n, 1) /\ \A j \in Nat : ~RingAt(n, j) /\ ~RingAt(n, j + 1)
    BY <1>3, Neighbours DEF NotInRing
  <2> QED
    BY <1>3, <2>1 DEF NotInRing
<1>4. (Gone(n) => Gone(n)') /\ (ToCome(n) => ToCome(n)')
  BY <1>1, <1>2, <1>3 DEF Gone, ToCome
<1>5. ASSUME InOneBatch(n) PROVE InOneBatch(n)'
  <2>1. NotInHand(n)' /\ NotInRing(n)' /\ released'[n] = 0
    BY <1>2, <1>3, <1>5 DEF InOneBatch
  <2>2. PICK r \in Readers, b \in Nat, i \in Nat : \A q \in Readers : \A c, j \in Nat :
          BatchAt(n, q, c, j) <=> q = r /\ c = b /\ j = i
    BY <1>5 DEF InOneBatch, OnlyBatch
  <2>3. \A q \in Readers : \A c, j \in Nat : BatchAt(n, q, c, j)' <=> q = r /\ c = b /\ j = i
    BY <2>2
  <2>4. OnlyBatch(n, r, b, i)'
    BY <2>3 DEF OnlyBatch
  <2> QED
    BY <2>1, <2>4 DEF InOneBatch
<1>6. ASSUME InTheRing(n) PROVE Gone(n)' \/ InTheRing(n)'
  <2>1. NotInHand(n)' /\ ~HandAt(n, w, 1) /\ NotInBatch(n)' /\ released[n] = 0
    BY <1>1, <1>2, <1>6 DEF InTheRing
  <2>2. PICK i \in Nat : \A j \in Nat : RingAt(n, j) <=> j = i
    BY <1>6 DEF InTheRing, OnlyRing
  <2>3. i # 0 /\ i # last + 1
    BY <2>2
  <2>4. CASE (\A j \in Nat : RingAt(n, j)' <=> j = i) /\ released'[n] = 0
    <3>1. OnlyRing(n, i)'
      BY <2>4 DEF OnlyRing
    <3> QED
      BY <2>1, <2>4, <3>1 DEF InTheRing
  <2>5. CASE /\ last # 0
             /\ \A j \in Nat : RingAt(n, j)' <=> IF j = last THEN HandAt(n, w, 1)
                                                 ELSE j # 0 /\ RingAt(n, j + 1)
             /\ released'[n] = IF RingAt(n, 1) THEN released[n] + 1 ELSE released[n]
    <3>1. CASE i = 1
      <4>1. ASSUME NEW j \in Nat PROVE ~RingAt(n, j)'
        <5>1. j + 1 = i => j = 0
          BY <3>1, Neighbours
        <5>2. j # 0 => ~RingAt(n, j + 1)
          BY <2>2, <5>1, Neighbours
        <5> QED
          BY <2>1, <2>5, <5>2
      <4>2. released'[n] = 1
        <5>1. released'[n] = released[n] + 1
          BY <2>2, <2>5, <3>1
        <5> QED
          BY <2>1, <5>1, Neighbours
      <4> QED
        BY <2>1, <4>1, <4>2 DEF Gone, NotInRing
    <3>2. CASE i # 1
      <4>1. i - 1 \in Nat /\ i - 1 # last /\ i - 1 # 0
        BY <2>3, <3>2, Neighbours
      <4>2. ASSUME NEW j \in Nat PROVE RingAt(n, j)' <=> j = i - 1
        <5>1. RingAt(n, j + 1) <=> j = i - 1
          BY <2>2, <2>3, Neighbours
        <5> QED
          BY <2>1, <2>5, <4>1, <5>1
      <4>3. released'[n] = 0
        BY <2>1, <2>2, <2>5, <3>2
      <4>4. OnlyRing(n, i - 1)'
        BY <4>2 DEF OnlyRing
      <4> QED
        BY <2>1, <4>1, <4>3, <4>4 DEF InTheRing
    <3> QED
      BY <3>1, <3>2
  <2> QED
    BY <2>1, <2>2, <2>3, <2>4, <2>5
<1>7. ASSUME InOneHand(n) PROVE Gone(n)' \/ InTheRing(n)' \/ InOneHand(n)'
  <2>1. NotInRing(n) /\ NotInBatch(n)' /\ released[n] = 0
    BY <1>1, <1>7 DEF InOneHand
  <2>2. PICK u \in Pushers, i \in Nat : \A v \in Pushers : \A j \in Nat :
          HandAt(n, v, j) <=> v = u /\ j = i
    BY <1>7 DEF InOneHand, OnlyHand
  <2>3. i # 0
    BY <2>2
  <2>4. CASE u = w /\ i = 1
    <3>1. NotInHand(n)' /\ HandAt(n, w, 1)
      <4>1. HandAt(n, w, 1)
        BY <2>2, <2>4, Neighbours
      <4>2. ASSUME NEW v \in Pushers, NEW j \in Nat PROVE ~HandAt(n, v, j)'
        <5>1. j # 0 => j + 1 # 1 /\ j + 1 \in Nat
          BY Neighbours
        <5>2. j # 0 => ~HandAt(n, w, j + 1)
          BY <2>2, <2>4, <5>1
        <5>3. v # w => ~HandAt(n, v, j)
          BY <2>2, <2>4
        <5> QED
          BY <5>2, <5>3
      <4> QED
        BY <4>1, <4>2 DEF NotInHand
    <3>2. ~RingAt(n, 1) /\ \A j \in Nat : ~RingAt(n, j) /\ ~RingAt(n, j + 1)
      BY <2>1, Neighbours DEF NotInRing
    <3>3. \/ NotInRing(n)' /\ released'[n] = 1
          \/ (\A j \in Nat : RingAt(n, j)' <=> j = last) /\ released'[n] = 0
          \/ (\A j \in Nat : RingAt(n, j)' <=> j = last + 1) /\ released'[n] = 0
      BY <2>1, <3>1, <3>2, Neighbours DEF NotInRing
    <3>4. \/ NotInRing(n)' /\ released'[n] = 1
          \/ (OnlyRing(n, last)' \/ OnlyRing(n, last + 1)') /\ released'[n] = 0
      BY <3>3 DEF OnlyRing
    <3>5. last + 1 \in Nat
      BY Neighbours
    <3> QED
      BY <2>1, <3>1, <3>4, <3>5 DEF Gone, InTheRing
  <2>5. CASE u # w
    <3>1. ~HandAt(n, w, 1) /\ \A v \in Pushers : \A j \in Nat : HandAt(n, v, j)' <=> v = u /\ j = i
      BY <2>2, <2>5, Neighbours
    <3>2. released'[n] = 0 /\ NotInRing(n)' /\ NotInBatch(n)'
      BY <1>3, <2>1, <3>1
    <3>3. OnlyHand(n, u, i)'
      BY <3>1 DEF OnlyHand
    <3> QED
      BY <3>2, <3>3 DEF InOneHand
  <2>6. CASE u = w /\ i # 1
    <3>1. i - 1 \in Nat /\ i - 1 # 0
      BY <2>3, <2>6, Neighbours
    <3>2. ~HandAt(n, w, 1)
      BY <2>2, <2>6, Neighbours
    <3>3. \A v \in Pushers : \A j \in Nat : HandAt(n, v, j)' <=> v = u /\ j = i - 1
      BY <2>2, <2>3, <2>6, <3>1, Neighbours
    <3>4. OnlyHand(n, u, i - 1)'
      BY <3>3 DEF OnlyHand
    <3>5. released'[n] = 0 /\ NotInRing(n)' /\ NotInBatch(n)'
      BY <1>3, <2>1, <3>2
    <3> QED
      BY <3>1, <3>4, <3>5 DEF InOneHand
  <2> QED
    BY <2>4, <2>5, <2>6
<1> QED
  BY <1>4, <1>5, <1>6, <1>7 DEF Once

\* One packet is released.
LEMMA ReleaseOne ==
  ASSUME released \in [1..LastPacket -> Nat], NEW item \in QueuePacket, Release(<<item>>),
         NEW n \in 1..LastPacket
  PROVE  released'[n] = IF item[1] = n THEN released[n] + 1 ELSE released[n]
<1> DEFINE batch == <<item>>
<1>1. batch \in Seq(QueuePacket) /\ Len(batch) = 1 /\ batch[1] = item
  BY SMT
<1>2. Release(batch)
  OBVIOUS
<1> HIDE DEF batch
<1>3. released'[n] = released[n] + Count(n, batch)
  BY <1>1, <1>2, ReleaseTyped
<1>4. Count(n, batch) = IF item[1] = n THEN 1 ELSE 0
  <2>1. /\ (\A i \in 1..Len(batch) : batch[i][1] # n) => Count(n, batch) = 0
        /\ \A j \in 1..Len(batch) :
             (\A i \in 1..Len(batch) : batch[i][1] = n <=> i = j) => Count(n, batch) = 1
    BY <1>1, CountOnce
  <2>2. 1 \in 1..Len(batch) /\ \A i \in 1..Len(batch) : i = 1
    BY <1>1, SMT
  <2> QED
    BY <1>1, <2>1, <2>2
<1> QED
  BY <1>3, <1>4, SMT

\* PushItem.
LEMMA StoreOnce ==
  ASSUME QueueInv, BufferInv, OnceInv, use' = use, NEW w \in Pushers, PushItem(w)
  PROVE  OnceInv'
<1> SUFFICES ASSUME NEW n \in 1..LastPacket PROVE Once(n)'
  BY DEF OnceInv
<1> DEFINE hand == pushing[w].hand
           item == Head(hand)
<1>1. /\ UNCHANGED <<pushed, received>> /\ hand \in Seq(QueuePacket) /\ hand # <<>>
      /\ \A v \in Pushers : pushing'[v].hand = IF v = w THEN Tail(hand) ELSE pushing[v].hand
      /\ \/ length = Capacity /\ Queue' = Queue /\ Release(<<item>>)
         \/ /\ length = Capacity /\ Queue' = Append(Tail(Queue), item)
            /\ Release(<<Head(Queue)>>)
         \/ Queue' = Append(Queue, item) /\ UNCHANGED released
  BY StoreBuffer
<1>2. /\ Queue \in Seq(QueuePacket) /\ Len(Queue) = length /\ length \in Nat
      /\ Capacity \in Nat \ {0} /\ released \in [1..LastPacket -> Nat] /\ Once(n)
  BY QueueTyped, QueueAssumption, SMT DEF BufferInv, BufferTypes, OnceInv, QueueInv, QueueTypes
<1> HIDE DEF hand
<1>3. /\ Len(hand) \in Nat \ {0} /\ item = hand[1] /\ item \in QueuePacket
      /\ Len(Tail(hand)) = Len(hand) - 1
      /\ \A j \in 1..(Len(hand) - 1) : Tail(hand)[j] = hand[j + 1]
  BY <1>1, SMT
<1> HIDE DEF item
<1>4. HandAt(n, w, 1) <=> item[1] = n
  BY <1>3, SMT DEF HandAt, hand
<1>5. \A v \in Pushers : \A j \in Nat :
        HandAt(n, v, j)' <=> IF v = w THEN j # 0 /\ HandAt(n, w, j + 1) ELSE HandAt(n, v, j)
  <2> SUFFICES ASSUME NEW v \in Pushers, NEW j \in Nat
               PROVE  HandAt(n, v, j)' <=> IF v = w THEN j # 0 /\ HandAt(n, w, j + 1)
                                           ELSE HandAt(n, v, j)
    OBVIOUS
  <2>1. CASE v # w
    BY <1>1, <2>1 DEF HandAt
  <2>2. CASE v = w
    <3>1. HandAt(n, v, j)' <=> j \in 1..(Len(hand) - 1) /\ Tail(hand)[j][1] = n
      BY <1>1, <1>3, <2>2 DEF HandAt
    <3>2. HandAt(n, w, j + 1) <=> j + 1 \in 1..Len(hand) /\ hand[j + 1][1] = n
      BY DEF HandAt, hand
    <3>3. j \in 1..(Len(hand) - 1) <=> j # 0 /\ j + 1 \in 1..Len(hand)
      BY <1>3, SMTT(30)
    <3> QED
      BY <1>3, <2>2, <3>1, <3>2, <3>3
  <2> QED
    BY <2>1, <2>2
<1>6. /\ ~RingAt(n, 0) /\ ~RingAt(n, length + 1) /\ \A v \in Pushers : ~HandAt(n, v, 0)
      /\ \A q \in Readers : \A c, j \in Nat : BatchAt(n, q, c, j)' <=> BatchAt(n, q, c, j)
  BY <1>1, <1>2, SMT DEF RingAt, HandAt, BatchAt
<1>7. CASE length = Capacity /\ Queue' = Queue /\ Release(<<item>>)
  <2>1. \A j \in Nat : RingAt(n, j)' <=> RingAt(n, j)
    BY <1>7 DEF RingAt
  <2>2. released'[n] = IF HandAt(n, w, 1) THEN released[n] + 1 ELSE released[n]
    BY <1>2, <1>3, <1>4, <1>7, ReleaseOne
  <2> QED
    BY <1>1, <1>2, <1>5, <1>6, <2>1, <2>2, StoreOnceAt
<1>8. CASE length = Capacity /\ Queue' = Append(Tail(Queue), item) /\ Release(<<Head(Queue)>>)
  <2>1. /\ length # 0 /\ Head(Queue) = Queue[1] /\ Head(Queue) \in QueuePacket
        /\ Tail(Queue) \in Seq(QueuePacket) /\ Len(Tail(Queue)) = length - 1
        /\ \A j \in 1..(length - 1) : Tail(Queue)[j] = Queue[j + 1]
    BY <1>2, <1>8, SMT
  <2>2. RingAt(n, 1) <=> Head(Queue)[1] = n
    BY <1>2, <2>1, SMT DEF RingAt
  <2>3. released'[n] = IF RingAt(n, 1) THEN released[n] + 1 ELSE released[n]
    BY <1>2, <1>8, <2>1, <2>2, ReleaseOne
  <2>4. \A j \in Nat : RingAt(n, j)' <=> IF j = length THEN HandAt(n, w, 1)
                                        ELSE j # 0 /\ RingAt(n, j + 1)
    <3> SUFFICES ASSUME NEW j \in Nat
                 PROVE  RingAt(n, j)' <=> IF j = length THEN HandAt(n, w, 1)
                                          ELSE j # 0 /\ RingAt(n, j + 1)
      OBVIOUS
    <3>1. /\ Len(Queue') = length
          /\ \A k \in 1..length : Queue'[k] = IF k = length THEN item ELSE Queue[k + 1]
      BY <1>2, <1>3, <1>8, <2>1, SMTT(30)
    <3>2. RingAt(n, j)' <=> j \in 1..length /\ Queue'[j][1] = n
      BY <3>1 DEF RingAt
    <3>3. RingAt(n, j + 1) <=> j + 1 \in 1..length /\ Queue[j + 1][1] = n
      BY <1>2 DEF RingAt
    <3>4. /\ length \in 1..length
          /\ j # length => (j \in 1..length <=> j # 0 /\ j + 1 \in 1..length)
      BY <1>2, <2>1, SMT
    <3> QED
      BY <1>4, <3>1, <3>2, <3>3, <3>4
  <2> QED
    BY <1>1, <1>2, <1>5, <1>6, <2>1, <2>3, <2>4, StoreOnceAt
<1>9. CASE Queue' = Append(Queue, item) /\ UNCHANGED released
  <2>1. \A j \in Nat : RingAt(n, j)' <=> IF j = length + 1 THEN HandAt(n, w, 1) ELSE RingAt(n, j)
    <3> SUFFICES ASSUME NEW j \in Nat
                 PROVE  RingAt(n, j)' <=> IF j = length + 1 THEN HandAt(n, w, 1) ELSE RingAt(n, j)
      OBVIOUS
    <3>1. /\ Len(Queue') = length + 1
          /\ \A k \in 1..(length + 1) : Queue'[k] = IF k = length + 1 THEN item ELSE Queue[k]
      BY <1>2, <1>3, <1>9, SMT
    <3>2. RingAt(n, j)' <=> j \in 1..(length + 1) /\ Queue'[j][1] = n
      BY <3>1 DEF RingAt
    <3>3. RingAt(n, j) <=> j \in 1..length /\ Queue[j][1] = n
      BY <1>2 DEF RingAt
    <3>4. /\ length + 1 \in 1..(length + 1)
          /\ j # length + 1 => (j \in 1..(length + 1) <=> j \in 1..length)
      BY <1>2, SMT
    <3> QED
      BY <1>4, <3>1, <3>2, <3>3, <3>4
  <2>2. released'[n] = released[n]
    BY <1>9
  <2> QED
    BY <1>1, <1>2, <1>5, <1>6, <2>1, <2>2, StoreOnceAt
<1> QED
  BY <1>1, <1>7, <1>8, <1>9

\* BeginPush: the packets of the batch are new.
LEMMA ArrivalOnce ==
  ASSUME QueueInv, BufferInv, OnceInv, use' = use, NEW w \in Pushers, NEW from \in Arrivals,
         BeginPush(w, [i \in DOMAIN from |-> <<pushed + i, from[i]>>])
  PROVE  BufferInv' /\ OnceInv' /\ UNCHANGED <<ring, received>>
<1> DEFINE batch == [i \in DOMAIN from |-> <<pushed + i, from[i]>>]
<1>1. PICK len \in Nat \ {0} :
        /\ pushed + len <= LastPacket /\ batch \in Seq(QueuePacket) /\ Len(batch) = len
        /\ \A i \in 1..len : batch[i][1] = pushed + i
  BY BatchTyped DEF QueueInv, QueueTypes
<1>2. BeginPush(w, batch)
  OBVIOUS
<1> HIDE DEF batch
<1>3. /\ BufferInv' /\ UNCHANGED <<ring, received>> /\ pushing[w].hand = <<>>
      /\ pushed' = pushed + len
      /\ \/ UNCHANGED pushing /\ Release(batch)
         \/ /\ UNCHANGED released
            /\ \A v \in Pushers : pushing'[v].hand = IF v = w THEN batch ELSE pushing[v].hand
  BY <1>1, <1>2, ArrivalBuffer
<1> SUFFICES ASSUME NEW n \in 1..LastPacket PROVE Once(n)'
  BY <1>3 DEF OnceInv
<1>4. /\ pushed \in Nat /\ released \in [1..LastPacket -> Nat] /\ Once(n) /\ n \in Nat
      /\ Queue' = Queue
  BY <1>3, RingStays, SMT DEF QueueInv, QueueTypes, BufferInv, BufferTypes, OnceInv
<1>5. /\ \A j \in Nat : RingAt(n, j)' <=> RingAt(n, j)
      /\ \A q \in Readers : \A c, j \in Nat : BatchAt(n, q, c, j)' <=> BatchAt(n, q, c, j)
  BY <1>3, <1>4 DEF RingAt, BatchAt
<1>6. (NotInRing(n)' <=> NotInRing(n)) /\ (NotInBatch(n)' <=> NotInBatch(n))
  BY <1>5 DEF NotInRing, NotInBatch
<1>7. \A j \in Nat : ~HandAt(n, w, j)
  BY <1>3, SMT DEF HandAt
<1>8. (n > pushed /\ n <= pushed + len) <=> n - pushed \in 1..len
  BY <1>1, <1>4, SMT
<1>9. CASE UNCHANGED pushing /\ Release(batch)
  <2>1. \A v \in Pushers : \A j \in Nat : HandAt(n, v, j)' <=> HandAt(n, v, j)
    BY <1>9 DEF HandAt
  <2>2. released'[n] = released[n] + Count(n, batch)
    BY <1>1, <1>4, <1>9, ReleaseTyped
  <2>3. /\ (\A i \in 1..len : batch[i][1] # n) => Count(n, batch) = 0
        /\ \A j \in 1..len :
             (\A i \in 1..len : batch[i][1] = n <=> i = j) => Count(n, batch) = 1
    BY <1>1, CountOnce
  <2>4. CASE n - pushed \in 1..len
    <3>1. ASSUME NEW i \in 1..len PROVE batch[i][1] = n <=> i = n - pushed
      <4>1. batch[i][1] = pushed + i /\ i \in Nat
        BY <1>1, SMT
      <4> QED
        BY <1>4, <4>1, SMTT(30)
    <3>2. Count(n, batch) = 1
      BY <2>3, <2>4, <3>1
    <3>3. ToCome(n)
      BY <1>4, <1>8, <2>4, SMTT(30) DEF Once
    <3>4. NotInHand(n)' /\ NotInRing(n)' /\ NotInBatch(n)' /\ released'[n] = 1
      BY <1>6, <2>1, <2>2, <3>2, <3>3, SMTT(30) DEF ToCome, NotInHand
    <3>5. n <= pushed'
      BY <1>3, <1>8, <2>4
    <3> QED
      BY <3>4, <3>5 DEF Once, Gone
  <2>5. CASE n - pushed \notin 1..len
    <3>1. \A i \in 1..len : batch[i][1] # n
      BY <1>1, <1>4, <2>5, SMTT(30)
    <3>2. released'[n] = released[n]
      BY <1>4, <2>2, <2>3, <3>1, SMTT(30)
    <3>3. n <= pushed' <=> n <= pushed
      BY <1>1, <1>3, <1>4, <1>8, <2>5, SMTT(30)
    <3> QED
      BY <1>4, <1>5, <2>1, <3>2, <3>3, OnceKept
  <2> QED
    BY <2>4, <2>5
<1>10. CASE /\ UNCHANGED released
            /\ \A v \in Pushers : pushing'[v].hand = IF v = w THEN batch ELSE pushing[v].hand
  <2>1. \A v \in Pushers : \A j \in Nat :
          HandAt(n, v, j)' <=> IF v = w THEN j \in 1..len /\ n = pushed + j ELSE HandAt(n, v, j)
    <3> SUFFICES ASSUME NEW v \in Pushers, NEW j \in Nat
                 PROVE  HandAt(n, v, j)' <=> IF v = w THEN j \in 1..len /\ n = pushed + j
                                             ELSE HandAt(n, v, j)
      OBVIOUS
    <3>1. CASE v # w
      BY <1>10, <3>1 DEF HandAt
    <3>2. CASE v = w
      <4>1. HandAt(n, v, j)' <=> j \in 1..len /\ batch[j][1] = n
        BY <1>1, <1>10, <3>2 DEF HandAt
      <4> QED
        BY <1>1, <3>2, <4>1
    <3> QED
      BY <3>1, <3>2
  <2>2. CASE n - pushed \in 1..len
    <3>1. ToCome(n) /\ n <= pushed'
      BY <1>3, <1>4, <1>8, <2>2, SMTT(30) DEF Once
    <3>2. \A v \in Pushers : \A j \in Nat : HandAt(n, v, j)' <=> v = w /\ j = n - pushed
      <4>1. \A v \in Pushers : \A j \in Nat : ~HandAt(n, v, j)
        BY <3>1 DEF ToCome, NotInHand
      <4>2. \A j \in Nat : j \in 1..len /\ n = pushed + j <=> j = n - pushed
        BY <1>4, <2>2, SMT
      <4> QED
        BY <2>1, <4>1, <4>2
    <3>3. PICK k \in Nat : k = n - pushed
      BY <2>2, SMT
    <3>4. OnlyHand(n, w, k)'
      BY <3>2, <3>3 DEF OnlyHand
    <3>5. released'[n] = 0 /\ NotInRing(n)' /\ NotInBatch(n)'
      BY <1>6, <1>10, <3>1 DEF ToCome
    <3>6. InOneHand(n)'
      BY <3>4, <3>5 DEF InOneHand
    <3> QED
      BY <3>1, <3>6 DEF Once
  <2>3. CASE n - pushed \notin 1..len
    <3>1. \A j \in 1..len : n # pushed + j
      BY <1>4, <2>3, SMT
    <3>2. \A v \in Pushers : \A j \in Nat : HandAt(n, v, j)' <=> HandAt(n, v, j)
      BY <1>7, <2>1, <3>1
    <3>3. n <= pushed' <=> n <= pushed
      BY <1>1, <1>3, <1>4, <1>8, <2>3, SMT
    <3>4. released'[n] = released[n]
      BY <1>10
    <3> QED
      BY <1>4, <1>5, <3>2, <3>3, <3>4, OnceKept
  <2> QED
    BY <2>2, <2>3
<1> QED
  BY <1>3, <1>9, <1>10

\* The numbers after and before count others.
LEMMA Shifted ==
  ASSUME NEW count \in Nat, NEW i \in Nat
  PROVE  /\ i + count \in Nat /\ (i <= count \/ i > count)
         /\ i > count => /\ i - count \in Nat /\ i - count # 0 /\ ~(i <= count)
                         /\ \A j \in Nat : j + count = i <=> j = i - count
         /\ i <= count => \A j \in Nat : j + count = i => j = 0
  BY SMT

\* Packets go from the ring into a new batch of a reader.
LEMMA PopOnceAt ==
  ASSUME NEW n, NEW r \in Readers, NEW count \in Nat, NEW new \in Nat, Once(n),
         pushed' = pushed, released'[n] = released[n], ~RingAt(n, 0),
         \A v \in Pushers : \A j \in Nat : HandAt(n, v, j)' <=> HandAt(n, v, j),
         \A j \in Nat : RingAt(n, j)' <=> j # 0 /\ RingAt(n, j + count),
         \A q \in Readers : \A c, j \in Nat :
           BatchAt(n, q, c, j)' <=> IF q = r /\ c = new THEN j <= count /\ RingAt(n, j)
                                    ELSE BatchAt(n, q, c, j),
         \A j \in Nat : ~BatchAt(n, r, new, j)
  PROVE  Once(n)'
<1>1. NotInHand(n)' <=> NotInHand(n)
  BY DEF NotInHand
<1>2. ASSUME NotInRing(n) PROVE /\ NotInRing(n)'
                                /\ \A q \in Readers : \A c, j \in Nat :
                                     BatchAt(n, q, c, j)' <=> BatchAt(n, q, c, j)
  <2>1. \A j \in Nat : ~RingAt(n, j) /\ ~RingAt(n, j + count)
    BY <1>2, Shifted DEF NotInRing
  <2> QED
    BY <2>1 DEF NotInRing
<1>3. NotInRing(n) => (NotInBatch(n)' <=> NotInBatch(n))
  BY <1>2, ZenonT(60) DEF NotInBatch
<1>4. (Gone(n) => Gone(n)') /\ (ToCome(n) => ToCome(n)')
  BY <1>1, <1>2, <1>3 DEF Gone, ToCome
<1>5. InOneHand(n) => InOneHand(n)'
  <2>1. \A w \in Pushers, i \in Nat : OnlyHand(n, w, i)' <=> OnlyHand(n, w, i)
    BY DEF OnlyHand
  <2> QED
    BY <1>2, <1>3, <2>1 DEF InOneHand
<1>6. ASSUME InOneBatch(n) PROVE InOneBatch(n)'
  <2>1. NotInHand(n)' /\ NotInRing(n) /\ NotInRing(n)' /\ released'[n] = 0
    BY <1>1, <1>2, <1>6 DEF InOneBatch
  <2>2. PICK p \in Readers, b \in Nat, i \in Nat : \A q \in Readers : \A c, j \in Nat :
          BatchAt(n, q, c, j) <=> q = p /\ c = b /\ j = i
    BY <1>6 DEF InOneBatch, OnlyBatch
  <2>3. \A q \in Readers : \A c, j \in Nat : BatchAt(n, q, c, j)' <=> q = p /\ c = b /\ j = i
    <3>1. \A q \in Readers : \A c, j \in Nat : BatchAt(n, q, c, j)' <=> BatchAt(n, q, c, j)
      BY <1>2, <2>1
    <3> TAKE q \in Readers
    <3> TAKE c, j \in Nat
    <3>2. BatchAt(n, q, c, j)' <=> BatchAt(n, q, c, j)
      BY <3>1
    <3>3. BatchAt(n, q, c, j) <=> q = p /\ c = b /\ j = i
      BY <2>2
    <3> QED
      BY <3>2, <3>3
  <2>4. OnlyBatch(n, p, b, i)'
    BY <2>3 DEF OnlyBatch
  <2> QED
    BY <2>1, <2>4 DEF InOneBatch
<1>7. ASSUME InTheRing(n) PROVE InTheRing(n)' \/ InOneBatch(n)'
  <2>1. NotInHand(n)' /\ NotInBatch(n) /\ released'[n] = 0
    BY <1>1, <1>7 DEF InTheRing
  <2>2. PICK i \in Nat : \A j \in Nat : RingAt(n, j) <=> j = i
    BY <1>7 DEF InTheRing, OnlyRing
  <2>3. \A q \in Readers : \A c, j \in Nat : ~BatchAt(n, q, c, j)
    BY <2>1 DEF NotInBatch
  <2>4. CASE i <= count
    <3>1. NotInRing(n)'
      <4> SUFFICES ASSUME NEW j \in Nat, RingAt(n, j)' PROVE FALSE
        BY DEF NotInRing
      <4>1. j # 0 /\ RingAt(n, j + count) /\ j + count \in Nat
        BY Shifted
      <4>2. j + count = i
        BY <2>2, <4>1
      <4> QED
        BY <2>4, <4>1, <4>2, Shifted
    <3>2. \A q \in Readers : \A c, j \in Nat : BatchAt(n, q, c, j)' <=> q = r /\ c = new /\ j = i
      BY <2>2, <2>3, <2>4
    <3>3. OnlyBatch(n, r, new, i)'
      BY <3>2 DEF OnlyBatch
    <3> QED
      BY <2>1, <3>1, <3>3 DEF InOneBatch
  <2>5. CASE i > count
    <3>1. i - count \in Nat /\ i - count # 0
      BY <2>5, Shifted
    <3>2. \A j \in Nat : RingAt(n, j)' <=> j = i - count
      <4> SUFFICES ASSUME NEW j \in Nat PROVE RingAt(n, j)' <=> j = i - count
        OBVIOUS
      <4>1. RingAt(n, j)' <=> j # 0 /\ j + count = i
        <5>1. j + count \in Nat
          BY Shifted
        <5> QED
          BY <2>2, <5>1
      <4> QED
        BY <2>5, <3>1, <4>1, Shifted
    <3>3. NotInBatch(n)'
      <4> SUFFICES ASSUME NEW q \in Readers, NEW c \in Nat, NEW j \in Nat
                   PROVE  ~BatchAt(n, q, c, j)'
        BY DEF NotInBatch
      <4>1. BatchAt(n, q, c, j)' => j <= count /\ RingAt(n, j)
        BY <2>3
      <4> QED
        <5>1. ~(i <= count)
          BY <2>5, Shifted
        <5> QED
          BY <2>2, <4>1, <5>1
    <3>4. OnlyRing(n, i - count)'
      BY <3>2 DEF OnlyRing
    <3> QED
      BY <2>1, <3>1, <3>3, <3>4 DEF InTheRing
  <2> QED
    BY <2>4, <2>5, Shifted
<1> QED
  BY <1>4, <1>5, <1>6, <1>7 DEF Once

\* Pop.
LEMMA PopOnce ==
  ASSUME QueueInv, BufferInv, OnceInv, use' = use, NEW r \in Readers, NEW max \in MaxPackets,
         Pop(r, max)
  PROVE  OnceInv'
<1>1. UNCHANGED <<pushed, pushing, released>>
  BY PopBuffer
<1>2. PICK count \in 0..length :
        /\ Queue' = SubSeq(Queue, count + 1, length)
        /\ count = 0 => length = 0 /\ UNCHANGED received
        /\ count # 0 => received' = [received EXCEPT ![r] = Append(@, SubSeq(Queue, 1, count))]
  BY PopBuffer
<1>3. /\ Queue \in Seq(QueuePacket) /\ Len(Queue) = length /\ length \in Nat /\ count \in Nat
      /\ received \in [Readers -> Seq(Seq(QueuePacket))]
  BY QueueTyped, SMT DEF BufferInv, BufferTypes, QueueInv, QueueTypes
<1> SUFFICES ASSUME NEW n \in 1..LastPacket PROVE Once(n)'
  BY DEF OnceInv
<1>4. Once(n)
  BY DEF OnceInv
<1>5. \A v \in Pushers : \A j \in Nat : HandAt(n, v, j)' <=> HandAt(n, v, j)
  BY <1>1 DEF HandAt
<1>6. ~RingAt(n, 0) /\ \A j \in Nat : RingAt(n, j)' <=> j # 0 /\ RingAt(n, j + count)
  <2> DEFINE rest == SubSeq(Queue, count + 1, length)
  <2>1. Len(rest) = length - count /\ \A j \in 1..(length - count) : rest[j] = Queue[j + count]
    BY <1>3, SMT
  <2>2. Queue' = rest
    BY <1>2
  <2> HIDE DEF rest
  <2> SUFFICES ASSUME NEW j \in Nat PROVE RingAt(n, j)' <=> j # 0 /\ RingAt(n, j + count)
    BY <1>3, SMT DEF RingAt
  <2>3. RingAt(n, j)' <=> j \in 1..(length - count) /\ rest[j][1] = n
    BY <2>1, <2>2 DEF RingAt
  <2>4. RingAt(n, j + count) <=> j + count \in 1..length /\ Queue[j + count][1] = n
    BY <1>3 DEF RingAt
  <2>5. j \in 1..(length - count) <=> j # 0 /\ j + count \in 1..length
    BY <1>3, SMT
  <2> QED
    BY <2>1, <2>3, <2>4, <2>5
<1> DEFINE new == Len(received[r]) + 1
<1>7. new \in Nat /\ \A j \in Nat : ~BatchAt(n, r, new, j)
  BY <1>3, SMT DEF BatchAt
<1>8. CASE count = 0
  <2>1. \A j \in Nat : RingAt(n, j)' <=> RingAt(n, j)
    <3>1. \A j \in Nat : j + count = j
      BY <1>8, SMT
    <3> QED
      BY <1>6, <3>1
  <2>2. \A q \in Readers : \A c, j \in Nat : BatchAt(n, q, c, j)' <=> BatchAt(n, q, c, j)
    BY <1>2, <1>8 DEF BatchAt
  <2> QED
    BY <1>1, <1>4, <1>5, <2>1, <2>2, OnceKept
<1>9. CASE count # 0
  <2> DEFINE batch == SubSeq(Queue, 1, count)
             after == Append(received[r], batch)
  <2>1. batch \in Seq(QueuePacket) /\ Len(batch) = count /\ \A j \in 1..count : batch[j] = Queue[j]
    BY <1>3, SMT
  <2>2. received' = [received EXCEPT ![r] = after]
    BY <1>2, <1>9
  <2> HIDE DEF batch
  <2>3. /\ Len(after) = new
        /\ \A c \in 1..new : after[c] = IF c = new THEN batch ELSE received[r][c]
    BY <1>3, <2>1, SMT
  <2>4. \A q \in Readers : received'[q] = IF q = r THEN after ELSE received[q]
    BY <1>3, <2>2
  <2> HIDE DEF after, new
  <2>5. \A q \in Readers : \A c, j \in Nat :
          BatchAt(n, q, c, j)' <=> IF q = r /\ c = new THEN j <= count /\ RingAt(n, j)
                                   ELSE BatchAt(n, q, c, j)
    <3> SUFFICES ASSUME NEW q \in Readers, NEW c \in Nat, NEW j \in Nat
                 PROVE  BatchAt(n, q, c, j)' <=> IF q = r /\ c = new
                                                 THEN j <= count /\ RingAt(n, j)
                                                 ELSE BatchAt(n, q, c, j)
      OBVIOUS
    <3>1. CASE q # r
      BY <2>4, <3>1 DEF BatchAt
    <3>2. CASE q = r /\ c # new
      <4>1. c \in 1..Len(received'[q]) <=> c \in 1..Len(received[q])
        BY <1>3, <1>7, <2>3, <2>4, <3>2, SMTT(30) DEF new
      <4>2. c \in 1..Len(received[q]) => received'[q][c] = received[q][c]
        BY <2>3, <2>4, <3>2, <4>1
      <4> QED
        BY <3>2, <4>1, <4>2 DEF BatchAt
    <3>3. CASE q = r /\ c = new
      <4>1. c \in 1..Len(received'[q]) /\ received'[q][c] = batch
        BY <1>3, <1>7, <2>3, <2>4, <3>3, SMTT(30) DEF new
      <4>2. BatchAt(n, q, c, j)' <=> j \in 1..count /\ batch[j][1] = n
        BY <2>1, <4>1 DEF BatchAt
      <4>3. RingAt(n, j) <=> j \in 1..length /\ Queue[j][1] = n
        BY <1>3 DEF RingAt
      <4>4. j \in 1..count <=> j <= count /\ j \in 1..length
        BY <1>3, SMT
      <4> QED
        BY <2>1, <3>3, <4>2, <4>3, <4>4
    <3> QED
      BY <3>1, <3>2, <3>3
  <2>6. pushed' = pushed /\ released'[n] = released[n]
    BY <1>1
  <2> QED
    BY <1>3, <1>4, <1>5, <1>6, <1>7, <2>5, <2>6, PopOnceAt
<1> QED
  BY <1>8, <1>9

\* Drain: what is in the ring is released.
LEMMA DrainOnce ==
  ASSUME QueueInv, BufferInv, OnceInv, use' = use, Drain
  PROVE  OnceInv'
<1>1. /\ UNCHANGED <<pushed, pushing, received>>
      /\ Queue \in Seq(QueuePacket) /\ Queue' = <<>> /\ Release(Queue)
  BY DrainBuffer
<1> SUFFICES ASSUME NEW n \in 1..LastPacket PROVE Once(n)'
  BY DEF OnceInv
<1>2. Once(n) /\ released \in [1..LastPacket -> Nat]
  BY DEF OnceInv, BufferInv, BufferTypes
<1>3. /\ \A v \in Pushers : \A j \in Nat : HandAt(n, v, j)' <=> HandAt(n, v, j)
      /\ \A q \in Readers : \A c, j \in Nat : BatchAt(n, q, c, j)' <=> BatchAt(n, q, c, j)
  BY <1>1 DEF HandAt, BatchAt
<1>4. \A j \in Nat : ~RingAt(n, j)'
  BY <1>1, SMT DEF RingAt
<1>5. released'[n] = released[n] + Count(n, Queue)
  BY <1>1, <1>2, ReleaseTyped
<1>6. /\ (\A i \in 1..Len(Queue) : Queue[i][1] # n) => Count(n, Queue) = 0
      /\ \A j \in 1..Len(Queue) :
           (\A i \in 1..Len(Queue) : Queue[i][1] = n <=> i = j) => Count(n, Queue) = 1
  BY <1>1, CountOnce
<1>7. CASE NotInRing(n)
  <2>1. \A i \in 1..Len(Queue) : Queue[i][1] # n
    BY <1>1, <1>7, SMT DEF NotInRing, RingAt
  <2>2. released'[n] = released[n]
    <3>1. Count(n, Queue) = 0
      BY <1>6, <2>1
    <3>2. released[n] \in Nat
      BY <1>2
    <3> QED
      BY <1>5, <3>1, <3>2, SMTT(30)
  <2>3. \A j \in Nat : RingAt(n, j)' <=> RingAt(n, j)
    BY <1>4, <1>7 DEF NotInRing
  <2> QED
    BY <1>1, <1>2, <1>3, <2>2, <2>3, OnceKept
<1>8. CASE InTheRing(n)
  <2>1. PICK i \in Nat : \A j \in Nat : RingAt(n, j) <=> j = i
    BY <1>8 DEF InTheRing, OnlyRing
  <2>2. i \in 1..Len(Queue) /\ \A j \in 1..Len(Queue) : Queue[j][1] = n <=> j = i
    <3>1. \A j \in 1..Len(Queue) : j \in Nat
      BY <1>1, SMT
    <3> QED
      BY <2>1, <3>1 DEF RingAt
  <2>3. Count(n, Queue) = 1
    BY <1>6, <2>2
  <2>4. released'[n] = 1 /\ NotInHand(n)' /\ NotInRing(n)' /\ NotInBatch(n)'
    BY <1>3, <1>4, <1>5, <1>8, <2>3, SMTT(30) DEF InTheRing, NotInHand, NotInRing, NotInBatch
  <2>5. n <= pushed /\ pushed' = pushed
    BY <1>1, <1>2, <1>8, <2>1 DEF Once, ToCome, NotInRing
  <2> QED
    BY <2>4, <2>5 DEF Once, Gone
<1> QED
  BY <1>2, <1>7, <1>8 DEF Once, Gone, ToCome, InOneHand, InOneBatch

\* The initial state: no packet is there yet.
LEMMA OnceInit == QueueInit => OnceInv
<1> SUFFICES ASSUME QueueInit, NEW n \in 1..LastPacket PROVE Once(n)
  BY DEF OnceInv
<1>1. ~(n <= pushed) /\ released[n] = 0
  BY SMT DEF QueueInit
<1>2. NotInHand(n) /\ NotInBatch(n)
  BY SMT DEF QueueInit, NotInHand, NotInBatch, HandAt, BatchAt
<1>3. NotInRing(n)
  <2>1. Queue = <<>>
    BY BufferInit
  <2> QED
    BY <2>1, SMT DEF NotInRing, RingAt
<1> QED
  BY <1>1, <1>2, <1>3 DEF Once, ToCome

\* What a packet's whereabouts are made of.
LEMMA WhereaboutsAre ==
  ASSUME RingTypes, RingTrue, NEW n, NEW x
  PROVE  x \in Whereabouts(n) <=>
           \/ \E w \in Pushers, i \in Nat : HandAt(n, w, i) /\ x = <<"hand", w, 0, i>>
           \/ \E i \in Nat : RingAt(n, i) /\ x = <<"ring", 0, 0, i>>
           \/ \E r \in Readers, b \in Nat, i \in Nat :
                BatchAt(n, r, b, i) /\ x = <<"read", r, b, i>>
<1>1. \A a : \A i \in 1..a : i \in Nat
  BY SMT
<1>2. x \in InHands(n) <=> \E w \in Pushers, i \in Nat : HandAt(n, w, i) /\ x = <<"hand", w, 0, i>>
  <2>1. \A w \in Pushers : \A i : i \in PlacesIn(n, pushing[w].hand) <=> i \in Nat /\ HandAt(n, w, i)
    BY <1>1 DEF PlacesIn, HandAt
  <2> HIDE DEF PlacesIn, HandAt
  <2> QED
    BY <2>1, SMT DEF InHands
<1>3. x \in InRing(n) <=> \E i \in Nat : RingAt(n, i) /\ x = <<"ring", 0, 0, i>>
  <2>1. \A i : i \in PlacesIn(n, Queue) <=> i \in Nat /\ RingAt(n, i)
    BY <1>1 DEF PlacesIn, RingAt
  <2> QED
    BY <2>1 DEF InRing
<1>4. x \in InBatches(n) <=> \E r \in Readers, b \in Nat, i \in Nat :
                             BatchAt(n, r, b, i) /\ x = <<"read", r, b, i>>
  <2>1. \A r \in Readers : \A b \in Nat : \A i :
          (b \in 1..Len(received[r]) /\ i \in PlacesIn(n, received[r][b])) <=>
          (i \in Nat /\ BatchAt(n, r, b, i))
    BY <1>1 DEF PlacesIn, BatchAt
  <2>2. x \in InBatches(n) <=>
          \E r \in Readers : \E b \in 1..Len(received[r]) :
            \E i \in PlacesIn(n, received[r][b]) : x = <<"read", r, b, i>>
    BY SMT DEF InBatches
  <2> QED
    BY <1>1, <2>1, <2>2
<1> QED
  BY <1>2, <1>3, <1>4 DEF Whereabouts

\* A packet that arrived is in one place, or was released once.
LEMMA OnceIsOne ==
  ASSUME RingTypes, RingTrue, NEW n, n <= pushed, Once(n)
  PROVE  released[n] + Cardinality(Whereabouts(n)) = 1
<1>1. Cardinality({}) = 0 /\ \A S : (\E x : S = {x}) => Cardinality(S) = 1
  BY FS_EmptySet, FS_Singleton
<1>2. CASE Gone(n)
  <2>1. Whereabouts(n) = {}
    BY <1>2, WhereaboutsAre DEF Gone, NotInHand, NotInRing, NotInBatch
  <2>2. released[n] = 1
    BY <1>2 DEF Gone
  <2> QED
    BY <1>1, <2>1, <2>2, SMT
<1>3. CASE InOneHand(n)
  <2>1. released[n] = 0 /\ NotInRing(n) /\ NotInBatch(n)
    BY <1>3 DEF InOneHand, OnlyHand
  <2>2. PICK w \in Pushers, i \in Nat : \A v \in Pushers : \A j \in Nat :
          HandAt(n, v, j) <=> v = w /\ j = i
    BY <1>3 DEF InOneHand, OnlyHand
  <2>3. Whereabouts(n) = {<<"hand", w, 0, i>>}
    BY <2>1, <2>2, WhereaboutsAre, SMTT(30) DEF NotInRing, NotInBatch
  <2>4. Cardinality(Whereabouts(n)) = 1
    BY <1>1, <2>3, Zenon
  <2> QED
    BY <2>1, <2>4, SMT
<1>4. CASE InTheRing(n)
  <2>1. released[n] = 0 /\ NotInHand(n) /\ NotInBatch(n)
    BY <1>4 DEF InTheRing, OnlyRing
  <2>2. PICK i \in Nat : \A j \in Nat : RingAt(n, j) <=> j = i
    BY <1>4 DEF InTheRing, OnlyRing
  <2>3. Whereabouts(n) = {<<"ring", 0, 0, i>>}
    BY <2>1, <2>2, WhereaboutsAre, SMT DEF NotInHand, NotInBatch
  <2>4. Cardinality(Whereabouts(n)) = 1
    BY <1>1, <2>3, Zenon
  <2> QED
    BY <2>1, <2>4, SMT
<1>5. CASE InOneBatch(n)
  <2>1. released[n] = 0 /\ NotInHand(n) /\ NotInRing(n)
    BY <1>5 DEF InOneBatch, OnlyBatch
  <2>2. PICK r \in Readers, b \in Nat, i \in Nat : \A q \in Readers : \A c, j \in Nat :
          BatchAt(n, q, c, j) <=> q = r /\ c = b /\ j = i
    BY <1>5 DEF InOneBatch, OnlyBatch
  <2>3. Whereabouts(n) = {<<"read", r, b, i>>}
    BY <2>1, <2>2, WhereaboutsAre, SMT DEF NotInHand, NotInRing
  <2>4. Cardinality(Whereabouts(n)) = 1
    BY <1>1, <2>3, Zenon
  <2> QED
    BY <2>1, <2>4, SMT
<1> QED
  BY <1>2, <1>3, <1>4, <1>5 DEF Once

\* The invariant that PacketsInOneHand and RingIsFIFO rest on.
HandlingInv == QueueInv /\ BufferInv /\ OnceInv

\* It holds in every state.
THEOREM HandlingInvariance == QueueSpec => []HandlingInv
<1>1. QueueInit => HandlingInv
  BY InitInv, BufferInit, OnceInit DEF HandlingInv
<1>2. HandlingInv /\ QueueInv' /\ [QueueNext]_queueVars => HandlingInv'
  <2> SUFFICES ASSUME QueueInv, BufferInv, OnceInv, QueueInv', [QueueNext]_queueVars
               PROVE  BufferInv' /\ OnceInv'
    BY DEF HandlingInv
  <2>1. ASSUME use' = use, NEW w \in Pushers, Push(w) PROVE BufferInv' /\ OnceInv'
    <3>1. CASE Lock(w) \/ Unlock(w) \/ SignalPush(w)
      BY <2>1, <3>1, LocksBuffer, QuietOnce
    <3>2. CASE PushItem(w)
      BY <2>1, <3>2, StoreBuffer, StoreOnce
    <3> QED
      BY <2>1, <3>1, <3>2, ArrivalOnce DEF Push
  <2>2. ASSUME use' = use, NEW r \in Readers, Read(r) PROVE BufferInv' /\ OnceInv'
    <3>1. CASE \E max \in MaxPackets : Pop(r, max)
      BY <2>2, <3>1, PopBuffer, PopOnce
    <3>2. CASE Call(r) \/ CheckClosed(r) \/ SignalPop(r) \/ Wake(r) \/ SeeClosed(r) \/ GiveUp(r)
      BY <2>2, <3>2, ReaderBuffer, QuietOnce
    <3> QED
      BY <2>2, <3>1, <3>2 DEF Read
  <2>3. ASSUME use' = use, BeginClose \/ SessionsGone PROVE BufferInv' /\ OnceInv'
    BY <2>3, StopBuffer, QuietOnce
  <2>4. ASSUME use' = use, Drain PROVE BufferInv' /\ OnceInv'
    BY <2>4, DrainBuffer, DrainOnce
  <2>5. CASE UNCHANGED queueVars
    <3>1. Quiet /\ use' = use
      BY <2>5 DEF queueVars, Quiet, ring
    <3>2. BufferTypes' /\ HandsInv'
      BY <2>5 DEF queueVars, BufferInv, BufferTypes, HandsInv, PeerConnection
    <3> QED
      BY <3>1, <3>2, QuietBuffer, QuietOnce
  <2> QED
    BY <2>1, <2>2, <2>3, <2>4, <2>5 DEF QueueNext
<1> QED
  BY <1>1, <1>2, QueueInvariance, PTL DEF QueueSpec

\* pushPackets, PushBatch, Pop and Drain: every packet that arrived is in one hand or was
\* released once, for any capacity and any number of pushers and readers.
THEOREM AlwaysPacketsInOneHand == QueueSpec => []PacketsInOneHand
<1>1. HandlingInv => PacketsInOneHand
  <2> SUFFICES ASSUME QueueInv, BufferInv, OnceInv PROVE PacketsInOneHand
    BY DEF HandlingInv
  <2>1. QueueTypes /\ RingTypes /\ RingTrue /\ BufferTypes /\ HandsInv /\ OneSource
    BY DEF QueueInv, BufferInv
  <2>2. QueueTypeOK
    BY <2>1 DEF QueueTypeOK, QueueTypes, RingTypes, BufferTypes, Pushing, PushSteps, ReadSteps
  <2>3. HandledOnce
    <3> SUFFICES ASSUME NEW n \in 1..pushed
                 PROVE  released[n] + Cardinality(Whereabouts(n)) = 1
      BY DEF HandledOnce
    <3>1. n \in 1..LastPacket /\ n <= pushed
      BY <2>1, QueueAssumption, SMT DEF QueueTypes
    <3>2. Once(n)
      BY <3>1 DEF OnceInv
    <3> QED
      BY <2>1, <3>1, <3>2, OnceIsOne
  <2>4. ClosedIsEmpty
    BY <2>1 DEF HandsInv, ClosedIsEmpty
  <2> QED
    BY <2>1, <2>2, <2>3, <2>4 DEF PacketsInOneHand
<1> QED
  BY <1>1, HandlingInvariance, PTL

-----------------------------------------------------------------------------
(* The ring is a bounded queue *)

\* A step that does not touch the ring.
LEMMA QuietFIFO ==
  ASSUME use' = use, Queue' = Queue, received' = received
  PROVE  UNCHANGED FIFO!vars
BY DEF FIFO!vars, PeerConnection

\* PushItem puts a packet into the queue, or refuses it.
LEMMA StoreFIFO ==
  ASSUME QueueInv, BufferInv, use' = use, NEW w \in Pushers, PushItem(w)
  PROVE  [FIFO!Next]_(FIFO!vars)
<1> DEFINE hand == pushing[w].hand
           item == Head(hand)
<1>1. /\ UNCHANGED received /\ hand \in Seq(QueuePacket) /\ hand # <<>>
      /\ \/ length = Capacity /\ PeerConnection /\ Queue' = Queue
         \/ length = Capacity /\ ~PeerConnection /\ Queue' = Append(Tail(Queue), item)
         \/ length < Capacity /\ Queue' = Append(Queue, item)
  BY StoreBuffer
<1>2. Len(Queue) = length /\ PeerConnection' = PeerConnection
  BY QueueTyped DEF BufferInv, PeerConnection
<1>3. item \in QueuePacket
  BY <1>1, SMT
<1> HIDE DEF item, hand
<1>4. CASE Queue' = Queue
  BY <1>1, <1>4, QuietFIFO
<1>5. CASE length = Capacity /\ ~PeerConnection /\ Queue' = Append(Tail(Queue), item)
  BY <1>1, <1>2, <1>3, <1>5 DEF FIFO!Next, FIFO!Put
<1>6. CASE length < Capacity /\ Queue' = Append(Queue, item)
  BY <1>1, <1>2, <1>3, <1>6 DEF FIFO!Next, FIFO!Put
<1> QED
  BY <1>1, <1>4, <1>5, <1>6

\* Pop gives a reader packets from the front, or nothing when there are none.
LEMMA PopFIFO ==
  ASSUME QueueInv, BufferInv, use' = use, NEW r \in Readers, NEW max \in MaxPackets, Pop(r, max)
  PROVE  [FIFO!Next]_(FIFO!vars)
<1>1. BufferInv' /\ \E c \in 0..length :
         /\ Queue' = SubSeq(Queue, c + 1, length)
         /\ c = 0 => length = 0 /\ UNCHANGED received
         /\ c # 0 => received' = [received EXCEPT ![r] = Append(@, SubSeq(Queue, 1, c))]
  BY PopBuffer
<1>2. PICK count \in 0..length :
         /\ Queue' = SubSeq(Queue, count + 1, length)
         /\ count = 0 => length = 0 /\ UNCHANGED received
         /\ count # 0 => received' = [received EXCEPT ![r] = Append(@, SubSeq(Queue, 1, count))]
  BY <1>1
<1>3. /\ Queue \in Seq(QueuePacket) /\ Len(Queue) = length /\ length \in Nat
      /\ PeerConnection' = PeerConnection
  BY QueueTyped, SMT DEF BufferInv, PeerConnection, QueueInv, QueueTypes
<1>4. CASE count = 0
  <2>1. Queue = <<>>
    BY <1>2, <1>3, <1>4, SMTT(30)
  <2>2. Queue' \in Seq(QueuePacket) /\ Len(Queue') = 0
    <3>1. Queue' \in Seq(QueuePacket)
      BY <1>1, QueueTypedNext DEF BufferInv, QueueIs
    <3> QED
      BY <1>2, <1>3, <1>4, <3>1, SMTT(30)
  <2>3. Queue' = <<>>
    BY <2>2, SMT
  <2> QED
    BY <1>2, <1>4, <2>1, <2>3, QuietFIFO
<1>5. CASE count # 0
  <2>1. count \in 1..Len(Queue)
    BY <1>2, <1>3, <1>5, SMT
  <2>2. FIFO!Get(r)
    BY <1>2, <1>3, <1>5, <2>1 DEF FIFO!Get
  <2> QED
    BY <1>3, <2>2 DEF FIFO!Next
<1> QED
  BY <1>4, <1>5

\* PushBatch, PushBatchDropNew, Pop and Drain: the ring is a bounded queue, for any capacity
\* and any number of pushers and readers.
THEOREM RingImplementsFIFO == QueueSpec => RingIsFIFO
<1>1. QueueInit => FIFO!Init
  <2> SUFFICES ASSUME QueueInit PROVE FIFO!Init
    OBVIOUS
  <2>1. Queue = <<>>
    BY BufferInit
  <2>2. PeerConnection \in BOOLEAN /\ received = [r \in Readers |-> <<>>]
    BY UseTyped DEF QueueInit
  <2> QED
    BY <2>1, <2>2 DEF FIFO!Init
<1>2. HandlingInv /\ [QueueNext]_queueVars => [FIFO!Next]_(FIFO!vars)
  <2> SUFFICES ASSUME QueueInv, BufferInv, [QueueNext]_queueVars PROVE [FIFO!Next]_(FIFO!vars)
    BY DEF HandlingInv
  <2>1. ASSUME use' = use, UNCHANGED <<ring, received>> PROVE [FIFO!Next]_(FIFO!vars)
    BY <2>1, RingStays, QuietFIFO
  <2>2. ASSUME use' = use, NEW w \in Pushers, Push(w) PROVE [FIFO!Next]_(FIFO!vars)
    <3>1. CASE PushItem(w)
      BY <2>2, <3>1, StoreFIFO
    <3>2. CASE ~PushItem(w)
      BY <2>1, <2>2, <3>2 DEF Push, BeginPush, Lock, Unlock, SignalPush
    <3> QED
      BY <3>1, <3>2
  <2>3. ASSUME use' = use, NEW r \in Readers, Read(r) PROVE [FIFO!Next]_(FIFO!vars)
    <3>1. CASE \E max \in MaxPackets : Pop(r, max)
      BY <2>3, <3>1, PopFIFO
    <3>2. CASE Call(r) \/ CheckClosed(r) \/ SignalPop(r) \/ Wake(r) \/ SeeClosed(r) \/ GiveUp(r)
      BY <2>1, <2>3, <3>2 DEF Call, CheckClosed, SignalPop, Wake, SeeClosed, GiveUp
    <3> QED
      BY <2>3, <3>1, <3>2 DEF Read
  <2>4. ASSUME use' = use, BeginClose \/ SessionsGone PROVE [FIFO!Next]_(FIFO!vars)
    BY <2>1, <2>4 DEF BeginClose, SessionsGone
  <2>5. ASSUME use' = use, Drain PROVE [FIFO!Next]_(FIFO!vars)
    <3>1. Queue' = <<>> /\ UNCHANGED received
      BY <2>5, DrainBuffer
    <3> QED
      BY <2>5, <3>1 DEF FIFO!Next, FIFO!Clear, PeerConnection
  <2>6. CASE UNCHANGED queueVars
    BY <2>1, <2>6 DEF queueVars, ring
  <2> QED
    BY <2>2, <2>3, <2>4, <2>5, <2>6 DEF QueueNext
<1> QED
  BY <1>1, <1>2, HandlingInvariance, PTL DEF QueueSpec, RingIsFIFO, FIFO!Spec

=============================================================================
