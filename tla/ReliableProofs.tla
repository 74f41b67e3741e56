--------------------------- MODULE ReliableProofs ---------------------------
(* Types, the stream and the buffers of the reliable layer, for every size of its buffers. *)
EXTENDS ReliableStreamProofs, FiniteSetTheorems

\* The prover of a leaf that names none.
USE Zenon

\* Packet ids in lists (acknowledgments taken, noted, returned) stay finite sets.
LEMMA IdSubset == ASSUME NEW S \in IdSet, NEW T \in SUBSET S PROVE T \in IdSet
BY Zenon, FS_Subset DEF IdSet

\* Returned acknowledgment ids join the pending ones.
LEMMA IdUnion == ASSUME NEW S \in IdSet, NEW T \in IdSet PROVE S \cup T \in IdSet
BY Zenon, FS_Union DEF IdSet

\* One received packet adds one id to acknowledge.
LEMMA IdSingle == ASSUME NEW i \in Nat PROVE {i} \in IdSet
BY FS_Singleton DEF IdSet

\* Applying acknowledgments (OnIncomingPacket) leaves well-formed tracked packets.
LEMMA AcknowledgeType ==
  ASSUME NEW tracked \in SUBSET Tracked, NEW acks \in IdSet
  PROVE  Acknowledge(tracked, acks) \in SUBSET Tracked
<1> DEFINE h(t) == t.higher + Cardinality({a \in acks : a > t.packet.id})
           bump(t) == IF h(t) > FastRetransmissionACKThreshold
                      THEN FastRetransmissionACKThreshold ELSE h(t)
<1>1. ASSUME NEW t \in tracked PROVE bump(t) \in Nat
  <2>1. Cardinality({a \in acks : a > t.packet.id}) \in Nat
    BY FS_Subset, FS_CardinalityType DEF IdSet
  <2>2. h(t) \in Nat
    BY <2>1, SMT DEF Tracked
  <2> QED BY <2>2, SizeAssumption
<1> HIDE DEF h, bump
<1>2. ASSUME NEW t \in tracked
      PROVE  [packet |-> t.packet, scheduled |-> t.scheduled, higher |-> bump(t)] \in Tracked
  BY <1>1 DEF Tracked
<1>3. Acknowledge(tracked, acks) =
        {[packet |-> t.packet, scheduled |-> t.scheduled, higher |-> bump(t)] :
           t \in {u \in tracked : u.packet.id \notin acks}}
  BY DEF Acknowledge, bump, h
<1> QED BY <1>2, <1>3

\* InsertOutgoingPacket leaves well-formed lists.
LEMMA InsertType ==
  ASSUME TypeOK, NEW p \in Peers, NEW packet \in Packet, NEW maximum,
         InsertOutgoingPacket(p, packet, maximum)
  PROVE  /\ pendingAck' \in [Peers -> IdSet]
         /\ inFlight' \in [Peers -> SUBSET Tracked]
<1>1. pendingAck[p] \ packet.acks \in IdSet
  BY IdSubset DEF TypeOK
<1>2. [packet |-> packet, scheduled |-> FALSE, higher |-> 0] \in Tracked
  BY DEF Tracked
<1> QED BY Zenon, <1>1, <1>2 DEF TypeOK, InsertOutgoingPacket

\* Only packets reach the link.
LEMMA OnLinkType ==
  ASSUME TypeOK, NEW p, NEW packets \in SUBSET Packet, OnLink(p, packets)
  PROVE  link' \in SUBSET Packet
BY DEF TypeOK, OnLink

\* processIncomingControlPacket keeps the types of both reliable states.
LEMMA ReceiveType ==
  ASSUME TypeOK, NEW p \in Peers, NEW packet \in link, ReceivePacket(p, packet),
         link' \subseteq link
  PROVE  TypeOK'
<1> packet \in Packet
  BY DEF TypeOK
<1>1. pendingAck' \in [Peers -> IdSet]
  <2>1. NoteReceived(pendingAck[p], packet) \in IdSet
    BY Zenon, IdSingle, IdUnion DEF NoteReceived, TypeOK, Packet
  <2> QED BY <2>1 DEF ReceivePacket, OnIncomingPacket, TypeOK
<1>2. inFlight' \in [Peers -> SUBSET Tracked]
  <2>1. Acknowledge(inFlight[p], packet.acks) \in SUBSET Tracked
    BY AcknowledgeType DEF TypeOK, Packet
  <2> QED BY <2>1 DEF ReceivePacket, OnIncomingPacket, TypeOK
<1>3. /\ lastConsumed' \in [Peers -> Nat]
      /\ pending' \in [Peers -> SUBSET Chunk]
      /\ ready' \in [Peers -> Seq(Chunk)]
  <2> DEFINE chunk == [id |-> packet.id, payload |-> packet.payload]
             buffered == pending[p] \cup {chunk}
  <2>1. buffered \subseteq Chunk
    BY SMTT(30) DEF TypeOK, Packet, Chunk
  <2>2. CASE UNCHANGED <<lastConsumed, pending, ready>>
    BY <2>2 DEF TypeOK
  <2>3. CASE \E n \in 0..Cardinality(buffered) :
                \E run \in [1..n -> buffered] :
                  /\ NextOrderedSequence(lastConsumed[p], buffered, run)
                  /\ lastConsumed' = [lastConsumed EXCEPT ![p] = @ + n]
                  /\ pending' = [pending EXCEPT ![p] =
                                   {c \in buffered : c.id > lastConsumed[p] + n}]
                  /\ ready' = [ready EXCEPT ![p] = run]
    <3>1. PICK n \in 0..Cardinality(buffered) :
                \E run \in [1..n -> buffered] :
                  /\ NextOrderedSequence(lastConsumed[p], buffered, run)
                  /\ lastConsumed' = [lastConsumed EXCEPT ![p] = @ + n]
                  /\ pending' = [pending EXCEPT ![p] =
                                   {c \in buffered : c.id > lastConsumed[p] + n}]
                  /\ ready' = [ready EXCEPT ![p] = run]
      BY Zenon, <2>3
    <3>2. PICK run \in [1..n -> buffered] :
                  /\ lastConsumed' = [lastConsumed EXCEPT ![p] = @ + n]
                  /\ pending' = [pending EXCEPT ![p] =
                                   {c \in buffered : c.id > lastConsumed[p] + n}]
                  /\ ready' = [ready EXCEPT ![p] = run]
      BY Zenon, <3>1
    <3>3. run \in Seq(Chunk)
      BY <2>1, <3>2, SMT
    <3>4. n \in Nat
      BY SMT
    <3> HIDE DEF buffered
    <3> QED BY <2>1, <3>2, <3>3, <3>4, SMT DEF TypeOK
  <2> QED BY Zenon, <2>2, <2>3, Zenon DEF ReceivePacket
<1> QED BY <1>1, <1>2, <1>3 DEF ReceivePacket, TypeOK

\* A new channel (newTLSControlChannel) has well-typed state.
LEMMA TypeInit == Init => TypeOK
<1> SUFFICES ASSUME Init PROVE TypeOK
  OBVIOUS
<1>1. {} \in IdSet
  BY FS_EmptySet DEF IdSet
<1>2. <<>> \in Seq(Chunk) /\ <<>> \in Seq(Payload \cup {Empty})
  BY SMT
<1> QED BY <1>1, <1>2 DEF Init, TypeOK

\* Every variable keeps its type, whatever the two ends and the link do.
THEOREM TypeCorrect == Spec => []TypeOK
<1>1. Init => TypeOK
  BY TypeInit
<1>2. TypeOK /\ [Next]_vars => TypeOK'
  <2> SUFFICES ASSUME TypeOK, [Next]_vars PROVE TypeOK'
    OBVIOUS
  <2>1. CASE UNCHANGED vars
    BY <2>1 DEF TypeOK, vars
  <2>2. ASSUME NEW p \in Peers, SendInitialSoftReset(p) PROVE TypeOK'
    <3>1. PICK acks \in SUBSET pendingAck[p] :
            LET packet == [from |-> p, opcode |-> "reset", id |-> 0,
                           payload |-> Empty, acks |-> acks]
            IN  /\ InsertOutgoingPacket(p, packet, MaximumAcknowledgmentsPerPacket)
                /\ OnLink(p, {packet})
      BY Zenon, <2>2 DEF SendInitialSoftReset
    <3> DEFINE packet == [from |-> p, opcode |-> "reset", id |-> 0,
                          payload |-> Empty, acks |-> acks]
    <3>2. packet \in Packet
      <4>1. acks \in IdSet
        BY IdSubset, SMT DEF TypeOK
      <4> QED BY <4>1 DEF Packet
    <3> HIDE DEF packet
    <3>3. pendingAck' \in [Peers -> IdSet] /\ inFlight' \in [Peers -> SUBSET Tracked]
      BY <3>1, <3>2, InsertType DEF packet
    <3>4. link' \in SUBSET Packet
      BY <3>1, <3>2, OnLinkType DEF packet
    <3> QED BY Zenon, <2>2, <3>3, <3>4 DEF SendInitialSoftReset, TypeOK, recvVars
  <2>3. ASSUME NEW p \in Peers, NEW v \in Payload, NEW linkError \in BOOLEAN,
               Write(p, v, linkError)
        PROVE  TypeOK'
    <3> DEFINE packet(a) == [from |-> p, opcode |-> "control", id |-> nextID[p],
                             payload |-> v, acks |-> a]
    <3>1. PICK acks \in SUBSET pendingAck[p] :
            /\ InsertOutgoingPacket(p, packet(acks), MaximumAcknowledgmentsPerPacket)
            /\ IF linkError THEN link' = link ELSE OnLink(p, {packet(acks)})
      BY Zenon, <2>3 DEF Write
    <3>2. packet(acks) \in Packet
      <4>1. acks \in IdSet
        <5>1. pendingAck[p] \in IdSet
          BY DEF TypeOK
        <5> QED BY <5>1, IdSubset
      <4> QED BY <4>1 DEF Packet, TypeOK
    <3> HIDE DEF packet
    <3>3. pendingAck' \in [Peers -> IdSet] /\ inFlight' \in [Peers -> SUBSET Tracked]
      BY <3>1, <3>2, InsertType
    <3>4. link' \in SUBSET Packet
      BY Zenon, <3>1, <3>2, OnLinkType DEF TypeOK
    <3>5. Append(written[p], v) \in Seq(Payload \cup {Empty})
      BY SMT DEF TypeOK
    <3>6. /\ written' \in [Peers -> Seq(Payload \cup {Empty})]
          /\ nextID' \in [Peers -> Nat]
          /\ writeFailed' \in [Peers -> BOOLEAN]
      BY SMTT(30), <2>3, <3>5 DEF Write, TypeOK
    <3> QED BY <2>3, <3>3, <3>4, <3>6 DEF Write, TypeOK, recvVars
  <2>4. ASSUME NEW p \in Peers, Read(p) PROVE TypeOK'
    <3>1. Head(readChunks[p]) \in Chunk /\ Tail(readChunks[p]) \in Seq(Chunk)
      BY <2>4, SMT DEF Read, TypeOK
    <3>2. Append(delivered[p], Head(readChunks[p])) \in Seq(Chunk)
      BY <3>1, SMT DEF TypeOK
    <3> QED BY <2>4, <3>1, <3>2 DEF Read, TypeOK, sendVars
  <2>5. ASSUME NEW p \in Peers, NEW packet \in link,
               Receive(p, packet) \/ ReceiveCopy(p, packet)
        PROVE  TypeOK'
    BY <2>5, ReceiveType DEF Receive, ReceiveCopy
  <2>6. ASSUME NEW p \in Peers, PushChunk(p) PROVE TypeOK'
    <3>1. Head(ready[p]) \in Chunk /\ Tail(ready[p]) \in Seq(Chunk)
      BY <2>6, SMT DEF PushChunk, TypeOK
    <3>2. Append(readChunks[p], Head(ready[p])) \in Seq(Chunk)
      BY <3>1, SMT DEF TypeOK
    <3> QED BY Zenon, <2>6, <3>1, <3>2 DEF PushChunk, TypeOK, sendVars
  <2>7. ASSUME NEW p \in Peers, StopReader(p) PROVE TypeOK'
    BY SMTT(30), <2>7 DEF StopReader, TypeOK, sendVars
  <2>8. ASSUME NEW p \in Peers, NEW picked \in SUBSET inFlight[p], Resend(p, picked)
        PROVE  TypeOK'
    <3>1. /\ {[packet |-> t.packet, scheduled |-> TRUE, higher |-> t.higher] : t \in picked}
               \in SUBSET Tracked
          /\ {t.packet : t \in picked} \in SUBSET Packet
      <4>1. picked \subseteq Tracked
        BY DEF TypeOK
      <4>2. ASSUME NEW t \in picked
            PROVE  /\ [packet |-> t.packet, scheduled |-> TRUE, higher |-> t.higher] \in Tracked
                   /\ t.packet \in Packet
        BY SMTT(30), <4>1 DEF Tracked
      <4> QED BY Zenon, <4>2
    <3>2. inFlight' \in [Peers -> SUBSET Tracked]
      BY <2>8, <3>1 DEF Resend, TypeOK
    <3>3. link' \in SUBSET Packet
      BY <2>8, <3>1, OnLinkType DEF Resend
    <3> QED BY SMTT(30), <2>8, <3>2, <3>3 DEF Resend, TypeOK, recvVars
  <2>9. ASSUME NEW p \in Peers, TakeAcknowledgments(p) PROVE TypeOK'
    <3>1. PICK acks \in SUBSET pendingAck[p] :
            /\ ackInHand' = [ackInHand EXCEPT ![p] = acks]
            /\ pendingAck' = [pendingAck EXCEPT ![p] = @ \ acks]
      BY Zenon, <2>9 DEF TakeAcknowledgments
    <3>2. acks \in IdSet /\ pendingAck[p] \ acks \in IdSet
      BY IdSubset, SMT DEF TypeOK
    <3> QED BY <2>9, <3>1, <3>2 DEF TakeAcknowledgments, TypeOK, recvVars
  <2>10. ASSUME NEW p \in Peers, WriteAcknowledgments(p) PROVE TypeOK'
    <3>1. [from |-> p, opcode |-> "ack", id |-> 0, payload |-> Empty,
           acks |-> ackInHand[p]] \in Packet
      BY DEF TypeOK, Packet
    <3>2. link' \in SUBSET Packet
      BY <2>10, <3>1, OnLinkType DEF WriteAcknowledgments
    <3>3. {} \in IdSet
      BY FS_EmptySet DEF IdSet
    <3> QED BY <2>10, <3>2, <3>3 DEF WriteAcknowledgments, TypeOK, recvVars
  <2>11. ASSUME NEW p \in Peers, AcknowledgmentWriteFails(p) PROVE TypeOK'
    <3>1. ReturnAcknowledgmentIDs(pendingAck[p], ackInHand[p]) \in IdSet
      <4>1. ReturnAcknowledgmentIDs(pendingAck[p], ackInHand[p])
              \subseteq pendingAck[p] \cup ackInHand[p]
        BY DEF ReturnAcknowledgmentIDs
      <4>2. pendingAck[p] \cup ackInHand[p] \in IdSet
        BY IdUnion DEF TypeOK
      <4> QED BY <4>1, <4>2, IdSubset
    <3>2. {} \in IdSet
      BY FS_EmptySet DEF IdSet
    <3> QED BY <2>11, <3>1, <3>2 DEF AcknowledgmentWriteFails, TypeOK, recvVars
  <2>12. ASSUME NEW p \in Peers, SendWrappedClientKey(p) PROVE TypeOK'
    <3> DEFINE packet(a) == [from |-> p, opcode |-> "control", id |-> nextID[p],
                             payload |-> Empty, acks |-> a]
    <3>1. PICK acks \in SUBSET pendingAck[p] :
            /\ InsertOutgoingPacket(p, packet(acks), AcknowledgmentSetCapacity)
            /\ OnLink(p, {packet(acks)})
      BY Zenon, <2>12 DEF SendWrappedClientKey
    <3>2. packet(acks) \in Packet
      <4>1. acks \in IdSet
        <5>1. pendingAck[p] \in IdSet
          BY DEF TypeOK
        <5> QED BY <5>1, IdSubset
      <4> QED BY <4>1 DEF Packet, TypeOK
    <3> HIDE DEF packet
    <3>3. pendingAck' \in [Peers -> IdSet] /\ inFlight' \in [Peers -> SUBSET Tracked]
      BY <3>1, <3>2, InsertType
    <3>4. link' \in SUBSET Packet
      BY <3>1, <3>2, OnLinkType
    <3>5. Append(written[p], Empty) \in Seq(Payload \cup {Empty})
      BY SMT DEF TypeOK
    <3>6. /\ written' \in [Peers -> Seq(Payload \cup {Empty})]
          /\ nextID' \in [Peers -> Nat]
      BY SMTT(30), <2>12, <3>5 DEF SendWrappedClientKey, TypeOK
    <3> QED BY Zenon, <2>12, <3>3, <3>4, <3>6 DEF SendWrappedClientKey, TypeOK, recvVars
  <2>13. ASSUME NEW p \in Peers, Shutdown(p) PROVE TypeOK'
    BY <2>13 DEF Shutdown, TypeOK, sendVars, recvVars
  <2> QED
    BY SMTT(30), <2>1, <2>2, <2>3, <2>4, <2>5, <2>6, <2>7, <2>8, <2>9, <2>10, <2>11, <2>12, <2>13
       DEF Next
<1> QED BY <1>1, <1>2, PTL DEF Spec

-----------------------------------------------------------------------------
(* In-order, exactly-once delivery *)

\* The inductive invariant holds of every reachable state.
THEOREM StreamInvariant == Spec => []StreamInv
<1>1. Init => StreamInv
  BY TypeInit, StreamInit
<1>2. StreamInv /\ TypeOK' /\ [Next]_vars => StreamInv'
  BY StreamStep
<1> QED BY <1>1, <1>2, TypeCorrect, PTL DEF Spec

\* Whatever the link does and whatever the sizes of the buffers, each end's TLS
\* stack reads what the other one wrote, in order, without a gap or a repeat.
THEOREM InOrderExactlyOnceHolds == Spec => []InOrderExactlyOnce
<1>1. StreamInv => InOrderExactlyOnce
  BY StreamOrdered
<1> QED BY <1>1, StreamInvariant, PTL

-----------------------------------------------------------------------------
(* An acknowledged packet is held, when the receive buffer covers what is sent *)

\* The buffered packets leave room for one more of the ids that are written.
LEMMA PendingFits ==
  ASSUME StreamInv, NEW q \in Peers, NEW id \in 1..Len(written[Other(q)]),
         \A b \in pending[q] : b.id # id
  PROVE  /\ Cardinality(pending[q]) \in Nat
         /\ Cardinality(pending[q]) <= Len(written[Other(q)]) - 1
<1> DEFINE w == written[Other(q)]
           room == (1..Len(w)) \ {id}
           f == [b \in pending[q] |-> b.id]
<1>0. Len(w) \in Nat
  BY OtherPeer, SMT DEF StreamInv, TypeOK
<1>1. IsFiniteSet(room) /\ Cardinality(room) = Len(w) - 1
  <2>1. \A n \in Nat : IsFiniteSet(1..n) /\ Cardinality(1..n) = n
    <3> TAKE n \in Nat
    <3>1. 1 \in Int /\ n \in Int
      BY SMT
    <3>2. IsFiniteSet(1..n) /\ Cardinality(1..n) = IF 1 > n THEN 0 ELSE n - 1 + 1
      BY <3>1, FS_Interval
    <3> QED BY <3>2, SMT
  <2>2. IsFiniteSet(1..Len(w)) /\ Cardinality(1..Len(w)) = Len(w)
    BY <1>0, <2>1
  <2> QED BY ZenonT(30), <2>2, FS_RemoveElement, SMT
<1>2. f \in Injection(pending[q], room)
  <2>1. \A b \in pending[q] : b \in Chunk /\ TrueChunk(q, b)
    BY DEF StreamInv, TypeOK, ChunksTrue
  <2>2. \A b \in pending[q] : f[b] \in room
    BY <2>1 DEF TrueChunk
  <2>3. \A b, d \in pending[q] : b.id = d.id => b = d
    BY <2>1, SMT DEF TrueChunk, Chunk
  <2> QED BY Zenon, <2>2, <2>3 DEF Injection, IsInjective
<1>3. IsFiniteSet(pending[q]) /\ Cardinality(pending[q]) <= Cardinality(room)
  BY <1>1, <1>2, FS_Injection
<1>4. Cardinality(pending[q]) \in Nat
  BY <1>3, FS_CardinalityType
<1> QED BY <1>1, <1>3, <1>4

\* A received packet is held afterwards (it is buffered, consumed or a repeat),
\* and whatever was held still is.
LEMMA ReceiveHolds ==
  ASSUME StreamInv, BufferInv, Covered, NEW q \in Peers, NEW packet \in link,
         ReceivePacket(q, packet)
  PROVE  /\ packet.opcode # "ack" => Holds(q, packet.id)'
         /\ \A r \in Peers : \A id \in Nat : Holds(r, id) => Holds(r, id)'
<1> DEFINE chunk == [id |-> packet.id, payload |-> packet.payload]
           buffered == pending[q] \cup {chunk}
           last == lastConsumed[q]
           keep == /\ packet.opcode = "control"
                   /\ TryInsertIncomingPacket(last, pending[q], packet)
<1>1. packet \in Packet /\ packet.from = Other(q) /\ packet.id \in Nat /\ last \in Nat
  BY DEF StreamInv, TypeOK, ReceivePacket, Packet
<1>2. CASE keep
  <2>1. PICK n \in 0..Cardinality(buffered) :
          /\ lastConsumed' = [lastConsumed EXCEPT ![q] = @ + n]
          /\ pending' = [pending EXCEPT ![q] = {b \in buffered : b.id > last + n}]
    BY Zenon, <1>2 DEF ReceivePacket
  <2>2. n \in Nat
    BY SMT
  <2>3. /\ lastConsumed'[q] = last + n
        /\ pending'[q] = {b \in buffered : b.id > last + n}
        /\ \A r \in Peers : r # q => lastConsumed'[r] = lastConsumed[r] /\ pending'[r] = pending[r]
    BY <2>1 DEF StreamInv, TypeOK
  <2>4. Holds(q, packet.id)'
    <3>1. chunk \in buffered /\ chunk.id = packet.id
      OBVIOUS
    <3>2. CASE packet.id <= last + n
      BY <2>3, <3>2 DEF Holds
    <3>3. CASE packet.id > last + n
      <4>1. chunk \in pending'[q]
        BY <2>3, <3>1, <3>3
      <4> QED BY <3>1, <4>1 DEF Holds
    <3> QED BY SMTT(40), <1>1, <2>2, <3>2, <3>3
  <2>5. ASSUME NEW r \in Peers, NEW id \in Nat, Holds(r, id) PROVE Holds(r, id)'
    <3>1. CASE r # q
      BY <2>3, <2>5, <3>1 DEF Holds
    <3>2. CASE r = q
      BY SMTT(40), <1>1, <2>2, <2>3, <2>5, <3>2 DEF Holds
    <3> QED BY <3>1, <3>2
  <2> QED BY <2>4, <2>5
<1>3. CASE ~keep
  <2>1. UNCHANGED <<lastConsumed, pending>>
    BY <1>3 DEF ReceivePacket
  <2>2. ASSUME packet.opcode = "control" PROVE Holds(q, packet.id)
    <3>1. /\ packet.id \in 1..Len(written[Other(q)])
          /\ Len(written[Other(q)]) <= ReliableReceiveBufferSize
          /\ Len(written[Other(q)]) \in Nat
      <4>1. packet.id \in 1..Len(written[Other(q)])
        BY <1>1, <2>2 DEF StreamInv, PacketsTrue, TruePacket
      <4> QED BY <4>1, OtherPeer, PeerTypes DEF StreamInv, Covered
    <3>2. SUFFICES ASSUME packet.id > last, \A b \in pending[q] : b.id # packet.id
                   PROVE  FALSE
      BY <1>1, SMT DEF Holds
    <3>3. /\ Cardinality(pending[q]) <= Len(written[Other(q)]) - 1
          /\ Cardinality(pending[q]) \in Nat
      BY <3>1, <3>2, PendingFits
    <3>5. packet.id - (last + 1) < ReliableReceiveBufferSize
      BY <1>1, <3>1, SizeAssumption, SMT
    <3>6. Cardinality(pending[q]) < ReliableReceiveBufferSize
      BY <3>1, <3>3, SizeAssumption, SMT
    <3> QED BY SMTT(30), <1>3, <2>2, <3>2, <3>5, <3>6 DEF TryInsertIncomingPacket
  <2>3. packet.opcode = "reset" => packet.id = 0
    BY DEF BufferInv, OnlyControlIsNumbered
  <2>4. packet.opcode # "ack" => Holds(q, packet.id)
    BY <1>1, <2>2, <2>3, SMT DEF Holds, Packet
  <2> QED BY <2>1, <2>4 DEF Holds
<1> QED BY <1>2, <1>3

\* The receiving sides do not change, and nothing enters the lists of ids to
\* acknowledge that was not in one of them.
LEMMA HeldKept ==
  ASSUME HeldInv, UNCHANGED <<lastConsumed, pending>>,
         \A q \in Peers :
           /\ pendingAck'[q] \subseteq pendingAck[q] \cup ackInHand[q]
           /\ ackInHand'[q] \subseteq pendingAck[q] \cup ackInHand[q]
           /\ \A t \in inFlight'[q] :
                \/ \E u \in inFlight[q] : t.packet = u.packet
                \/ t.packet.acks \subseteq pendingAck[q]
           /\ \A id \in 1..Len(written'[q]) :
                \/ id \in 1..Len(written[q]) /\ \A u \in inFlight[q] :
                     \E t \in inFlight'[q] : t.packet.id = u.packet.id
                \/ \E t \in inFlight'[q] : t.packet.id = id,
         \A m \in link' :
           \/ m \in link
           \/ \E u \in inFlight[m.from] : m.from \in Peers /\ m = u.packet
           \/ m.from \in Peers /\ m.acks \subseteq pendingAck[m.from] \cup ackInHand[m.from]
  PROVE  HeldInv'
<1>1. \A q, id : Holds(q, id)' <=> Holds(q, id)
  BY DEF Holds
<1>2. \A q, acks : AllHeld(q, acks)' <=> AllHeld(q, acks)
  BY <1>1 DEF AllHeld
<1>4. \A q \in Peers : AllHeld(q, pendingAck[q] \cup ackInHand[q])
  BY DEF HeldInv, AllHeld
<1>5. AcknowledgedIsHeld'
  <2> SUFFICES ASSUME NEW q \in Peers, NEW id \in 1..Len(written'[q]),
                      \A t \in inFlight'[q] : t.packet.id # id
               PROVE  Holds(Other(q), id)
    BY <1>1 DEF AcknowledgedIsHeld
  <2>1. id \in 1..Len(written[q]) /\ \A u \in inFlight[q] : u.packet.id # id
    BY SMTT(40)
  <2> QED BY <2>1 DEF HeldInv, AcknowledgedIsHeld
<1>6. \A m \in link' : AllHeld(m.from, m.acks)
  BY SMTT(40), <1>4 DEF HeldInv, AllHeld
<1>7. ASSUME NEW q \in Peers
      PROVE  /\ AllHeld(q, pendingAck'[q]) /\ AllHeld(q, ackInHand'[q])
             /\ \A t \in inFlight'[q] : AllHeld(q, t.packet.acks)
  <2>1. AllHeld(q, pendingAck'[q]) /\ AllHeld(q, ackInHand'[q])
    BY <1>4 DEF AllHeld
  <2>2. ASSUME NEW t \in inFlight'[q]
        PROVE  AllHeld(q, t.packet.acks)
    BY SMTT(40), <1>4 DEF HeldInv, AllHeld
  <2> QED BY <2>1, <2>2
<1> QED BY <1>2, <1>5, <1>6, <1>7 DEF HeldInv

\* One step of either end or of the link keeps every acknowledged packet held.
LEMMA HeldStep ==
  ASSUME StreamInv, TypeOK', BufferInv, Covered, HeldInv, [Next]_vars
  PROVE  HeldInv'
<1>0. \A q \in Peers : /\ Len(written[q]) \in Nat
                       /\ nextID[q] = Len(written[q]) + 1
  BY PeerTypes DEF StreamInv, NextIsFresh
<1>1. CASE UNCHANGED vars
  BY SMTT(30), <1>0, <1>1, HeldKept DEF vars
<1>2. ASSUME NEW p \in Peers, NEW v \in Payload \cup {Empty}, NEW a \in SUBSET pendingAck[p], NEW id \in Nat,
             NEW opcode, NEW maximum, NEW packet,
             packet = [from |-> p, opcode |-> opcode, id |-> id, payload |-> v, acks |-> a],
             \/ opcode = "reset" /\ id = 0 /\ written' = written
             \/ /\ opcode = "control" /\ id = nextID[p]
                /\ written' = [written EXCEPT ![p] = Append(@, v)],
             InsertOutgoingPacket(p, packet, maximum),
             link' = link \/ OnLink(p, {packet}),
             UNCHANGED <<ackInHand, recvVars>>
      PROVE  HeldInv'
  <2> DEFINE new == [packet |-> packet, scheduled |-> FALSE, higher |-> 0]
  <2>1. /\ inFlight'[p] = inFlight[p] \cup {new}
        /\ \A q \in Peers : q # p => inFlight'[q] = inFlight[q]
        /\ \A q \in Peers : pendingAck'[q] \subseteq pendingAck[q]
    BY SMTT(30), <1>2 DEF InsertOutgoingPacket, StreamInv, TypeOK
  <2>2. /\ packet.from = p /\ packet.acks = a /\ packet.id = id
        /\ new.packet = packet
    BY <1>2
  <2>3. link' \subseteq link \cup {packet}
    BY Zenon, <1>2 DEF OnLink
  <2>4. \A q \in Peers : \A k \in 1..Len(written'[q]) :
          \/ k \in 1..Len(written[q])
          \/ q = p /\ k = id
    <3>1. CASE opcode = "reset"
      BY <1>2, <3>1
    <3>2. CASE opcode = "control"
      <4>1. written' = [written EXCEPT ![p] = Append(@, v)] /\ id = Len(written[p]) + 1
        BY <1>0, <1>2, <3>2
      <4>2. \A q \in Peers : q # p => written'[q] = written[q]
        BY <4>1 DEF StreamInv, TypeOK
      <4>3. Len(written'[p]) = Len(written[p]) + 1
        <5>1. written'[p] = Append(written[p], v)
          BY <4>1 DEF StreamInv, TypeOK
        <5> QED BY <5>1, PeerTypes, WrittenAppended DEF StreamInv
      <4> QED BY <1>0, <4>1, <4>2, <4>3, SMT
    <3> QED BY <1>2, <3>1, <3>2
  <2> HIDE DEF new
  <2>6. ASSUME NEW q \in Peers
        PROVE  /\ pendingAck'[q] \subseteq pendingAck[q] \cup ackInHand[q]
               /\ ackInHand'[q] \subseteq pendingAck[q] \cup ackInHand[q]
               /\ \A t \in inFlight'[q] :
                    \/ \E u \in inFlight[q] : t.packet = u.packet
                    \/ t.packet.acks \subseteq pendingAck[q]
               /\ \A k \in 1..Len(written'[q]) :
                    \/ k \in 1..Len(written[q]) /\ \A u \in inFlight[q] :
                         \E t \in inFlight'[q] : t.packet.id = u.packet.id
                    \/ \E t \in inFlight'[q] : t.packet.id = k
    <3>1. \A u \in inFlight[q] : u \in inFlight'[q]
      BY <2>1
    <3>2. \A k \in 1..Len(written'[q]) :
                    \/ k \in 1..Len(written[q]) /\ \A u \in inFlight[q] :
                         \E t \in inFlight'[q] : t.packet.id = u.packet.id
                    \/ \E t \in inFlight'[q] : t.packet.id = k
      BY SMTT(30), <2>1, <2>2, <2>4, <3>1
    <3>3. \A t \in inFlight'[q] : t \in inFlight[q] \/ (q = p /\ t = new)
      BY <2>1
    <3> QED BY <1>2, <2>1, <2>2, <3>2, <3>3
  <2>7. \A m \in link' : \/ m \in link
                         \/ m.from \in Peers /\ m.acks \subseteq pendingAck[m.from]
    BY <1>2, <2>2, <2>3
  <2> QED BY SMTT(30), <1>2, <2>6, <2>7, HeldKept DEF recvVars
<1>3. ASSUME NEW p \in Peers, SendInitialSoftReset(p) PROVE HeldInv'
  <2> DEFINE packet(a) == [from |-> p, opcode |-> "reset", id |-> 0,
                           payload |-> Empty, acks |-> a]
  <2>1. PICK acks \in SUBSET pendingAck[p] :
          /\ InsertOutgoingPacket(p, packet(acks), MaximumAcknowledgmentsPerPacket)
          /\ OnLink(p, {packet(acks)})
    BY ZenonT(30), <1>3 DEF SendInitialSoftReset
  <2> QED BY Zenon, <1>2, <1>3, <2>1 DEF SendInitialSoftReset
<1>4. ASSUME NEW p \in Peers, NEW v \in Payload, NEW linkError \in BOOLEAN,
             Write(p, v, linkError)
      PROVE  HeldInv'
  <2> DEFINE packet(a) == [from |-> p, opcode |-> "control", id |-> nextID[p],
                           payload |-> v, acks |-> a]
  <2>1. PICK acks \in SUBSET pendingAck[p] :
          /\ InsertOutgoingPacket(p, packet(acks), MaximumAcknowledgmentsPerPacket)
          /\ IF linkError THEN link' = link ELSE OnLink(p, {packet(acks)})
    BY Zenon, <1>4 DEF Write
  <2>2. nextID[p] \in Nat
    BY DEF StreamInv, TypeOK
  <2> QED BY Zenon, <1>2, <1>4, <2>1, <2>2 DEF Write
<1>5. ASSUME NEW p \in Peers, SendWrappedClientKey(p) PROVE HeldInv'
  <2> DEFINE packet(a) == [from |-> p, opcode |-> "control", id |-> nextID[p],
                           payload |-> Empty, acks |-> a]
  <2>1. PICK acks \in SUBSET pendingAck[p] :
          /\ InsertOutgoingPacket(p, packet(acks), AcknowledgmentSetCapacity)
          /\ OnLink(p, {packet(acks)})
    BY Zenon, <1>5 DEF SendWrappedClientKey
  <2>2. nextID[p] \in Nat
    BY DEF StreamInv, TypeOK
  <2> QED BY Zenon, <1>2, <1>5, <2>1, <2>2 DEF SendWrappedClientKey
<1>6. ASSUME NEW p \in Peers, Read(p) \/ PushChunk(p) \/ StopReader(p) \/ Shutdown(p)
      PROVE  HeldInv'
  <2>1. UNCHANGED <<inFlight, pendingAck, ackInHand, written, link, lastConsumed, pending>>
    BY SMTT(30), <1>6 DEF Read, PushChunk, StopReader, Shutdown, sendVars, recvVars
  <2> QED BY <1>0, <2>1, HeldKept
<1>7. ASSUME NEW p \in Peers, NEW packet \in link,
             Receive(p, packet) \/ ReceiveCopy(p, packet)
      PROVE  HeldInv'
  <2>1. ReceivePacket(p, packet) /\ link' \subseteq link /\ packet \in Packet
    BY <1>7 DEF Receive, ReceiveCopy, StreamInv, TypeOK
  <2>2. /\ packet.opcode # "ack" => Holds(p, packet.id)'
        /\ \A r \in Peers : \A id \in Nat : Holds(r, id) => Holds(r, id)'
    BY <2>1, ReceiveHolds
  <2>3. \A r \in Peers : \A acks \in IdSet : AllHeld(r, acks) => AllHeld(r, acks)'
    BY SMTT(30), <2>2 DEF AllHeld, IdSet
  <2>4. /\ inFlight'[p] = Acknowledge(inFlight[p], packet.acks)
        /\ pendingAck'[p] = NoteReceived(pendingAck[p], packet)
        /\ \A q \in Peers : q # p => inFlight'[q] = inFlight[q] /\ pendingAck'[q] = pendingAck[q]
        /\ UNCHANGED <<ackInHand, written>>
    BY <2>1 DEF ReceivePacket, OnIncomingPacket, StreamInv, TypeOK
  <2>5. \A q \in Peers : \A t \in inFlight'[q] : \E u \in inFlight[q] : t.packet = u.packet
    <3>1. ASSUME NEW q \in Peers, q # p, NEW t \in inFlight'[q]
          PROVE  \E u \in inFlight[q] : t.packet = u.packet
      BY <2>4, <3>1
    <3>2. \A t \in Acknowledge(inFlight[p], packet.acks) :
            \E u \in inFlight[p] : t.packet = u.packet
      BY AcknowledgeKeeps, SMT
    <3> QED BY ZenonT(30), <2>4, <3>1, <3>2, SMT
  <2>6. \A q \in Peers : \A t \in inFlight[q] : t.packet \in Packet /\ t.packet.acks \in IdSet
    <3>1. \A q \in Peers : \A t \in inFlight[q] : t \in Tracked
      BY DEF StreamInv, TypeOK
    <3>2. \A q \in Peers : \A t \in inFlight[q] : t.packet \in Packet
      BY SMTT(30), <3>1 DEF Tracked
    <3> QED BY <3>2 DEF Packet
  <2>7. ASSUME NEW q \in Peers
        PROVE  /\ AllHeld(q, pendingAck[q])' /\ AllHeld(q, ackInHand[q])'
               /\ \A t \in inFlight'[q] : AllHeld(q, t.packet.acks)'
    <3>1. AllHeld(q, ackInHand[q])'
      BY ZenonT(30), <2>3, <2>4 DEF HeldInv, StreamInv, TypeOK, AllHeld
    <3>2. AllHeld(q, pendingAck[q])'
      <4>1. pendingAck[q] \in IdSet /\ \A id \in pendingAck[q] : Holds(q, id)'
        BY Zenon, <2>3 DEF HeldInv, StreamInv, TypeOK, AllHeld
      <4> QED BY <2>2, <2>4, <4>1 DEF AllHeld, NoteReceived
    <3>3. ASSUME NEW t \in inFlight'[q]
          PROVE  AllHeld(q, t.packet.acks)'
      <4>1. PICK u \in inFlight[q] : t.packet = u.packet
        BY <2>5
      <4>2. \A id \in u.packet.acks : Holds(q, id)'
        BY Zenon, <2>3, <2>6 DEF HeldInv, AllHeld
      <4> QED BY <4>1, <4>2 DEF AllHeld
    <3> QED BY <3>1, <3>2, <3>3
  <2>8. ASSUME NEW m \in link' PROVE AllHeld(m.from, m.acks)'
    <3>1. m \in Packet /\ m \in link
      BY <2>1 DEF StreamInv, TypeOK
    <3> QED BY Zenon, <2>3, <3>1 DEF HeldInv, AllHeld, Packet
  <2>9. AcknowledgedIsHeld'
    <3> SUFFICES ASSUME NEW q \in Peers, NEW id \in 1..Len(written[q]),
                        \A t \in inFlight'[q] : t.packet.id # id
                 PROVE  Holds(Other(q), id)'
      BY <2>4 DEF AcknowledgedIsHeld
    <3>1. SUFFICES Holds(Other(q), id)
      BY <2>2, OtherPeer, SMT
    <3>2. CASE \A u \in inFlight[q] : u.packet.id # id
      BY <3>2 DEF HeldInv, AcknowledgedIsHeld
    <3>3. ASSUME NEW u \in inFlight[q], u.packet.id = id PROVE Holds(Other(q), id)
      <4>1. q = p
        BY <2>4, <3>3
      <4>2. id \in packet.acks
        BY <2>4, <3>3, <4>1, AcknowledgeDrops, SMT
      <4>3. packet.from = Other(q) /\ AllHeld(packet.from, packet.acks)
        BY Zenon, <2>1, <4>1 DEF ReceivePacket, HeldInv
      <4> QED BY <4>2, <4>3 DEF AllHeld
    <3> QED BY <3>2, <3>3
  <2>12. \A q \in Peers : \A t \in inFlight'[q] : AllHeld(q, t.packet.acks)'
    BY Zenon, <2>7
  <2> QED BY SMTT(30), <2>7, <2>8, <2>9, <2>12 DEF HeldInv
<1>8. ASSUME NEW p \in Peers, NEW picked \in SUBSET inFlight[p], Resend(p, picked)
      PROVE  HeldInv'
  <2> DEFINE record(t) == [packet |-> t.packet, scheduled |-> TRUE, higher |-> t.higher]
  <2>1. /\ inFlight'[p] = (inFlight[p] \ picked) \cup {record(t) : t \in picked}
        /\ \A q \in Peers : q # p => inFlight'[q] = inFlight[q]
    BY Zenon, <1>8 DEF Resend, StreamInv, TypeOK
  <2>2. \A t : record(t).packet = t.packet
    BY SMTT(30)
  <2> HIDE DEF record
  <2>3. \A q \in Peers : /\ \A t \in inFlight'[q] : \E u \in inFlight[q] : t.packet = u.packet
                         /\ \A u \in inFlight[q] : \E t \in inFlight'[q] : t.packet = u.packet
    BY SMTT(40), <2>1, <2>2
  <2>4. \A m \in link' : \/ m \in link
                         \/ \E u \in inFlight[m.from] : m.from \in Peers /\ m = u.packet
    <3>1. \A u \in inFlight[p] : u.packet.from = p
      BY DEF StreamInv, PacketsTrue
    <3>2. PICK sent \in SUBSET {t.packet : t \in picked} : link' = link \cup sent
      BY <1>8 DEF Resend, OnLink
    <3>3. \A m \in sent : \E u \in inFlight[p] : m = u.packet
      BY SMTT(30), <3>2
    <3> QED BY <3>1, <3>2, <3>3, SMT
  <2>5. UNCHANGED <<written, pendingAck, ackInHand, lastConsumed, pending>>
    BY <1>8 DEF Resend, recvVars
  <2>6. ASSUME NEW q \in Peers
        PROVE  \A k \in 1..Len(written'[q]) :
                 k \in 1..Len(written[q]) /\ \A u \in inFlight[q] :
                    \E t \in inFlight'[q] : t.packet.id = u.packet.id
    BY SMTT(30), <2>3, <2>5
  <2> QED BY <1>0, <2>3, <2>4, <2>5, <2>6, HeldKept
<1>9. ASSUME NEW p \in Peers, TakeAcknowledgments(p) PROVE HeldInv'
  <2>1. \A q \in Peers : /\ pendingAck'[q] \subseteq pendingAck[q]
                         /\ ackInHand'[q] \subseteq pendingAck[q] \cup ackInHand[q]
    BY <1>9, SMT DEF TakeAcknowledgments, StreamInv, TypeOK
  <2>2. UNCHANGED <<inFlight, written, link, lastConsumed, pending>>
    BY <1>9 DEF TakeAcknowledgments, recvVars
  <2> QED BY SMTT(30), <1>0, <2>1, <2>2, HeldKept
<1>10. ASSUME NEW p \in Peers, WriteAcknowledgments(p) PROVE HeldInv'
  <2> DEFINE packet == [from |-> p, opcode |-> "ack", id |-> 0, payload |-> Empty,
                        acks |-> ackInHand[p]]
  <2>1. link' \subseteq link \cup {packet}
    BY <1>10 DEF WriteAcknowledgments, OnLink
  <2>2. packet.from = p /\ packet.acks = ackInHand[p]
    OBVIOUS
  <2>3. /\ UNCHANGED <<inFlight, pendingAck, written, lastConsumed, pending>>
        /\ \A q \in Peers : ackInHand'[q] \subseteq ackInHand[q]
    BY Zenon, <1>10 DEF WriteAcknowledgments, recvVars, StreamInv, TypeOK
  <2> HIDE DEF packet
  <2> QED BY SMTT(30), <1>0, <2>1, <2>2, <2>3, HeldKept
<1>11. ASSUME NEW p \in Peers, AcknowledgmentWriteFails(p) PROVE HeldInv'
  <2>1. \A q \in Peers : /\ pendingAck'[q] \subseteq pendingAck[q] \cup ackInHand[q]
                         /\ ackInHand'[q] \subseteq ackInHand[q]
    BY <1>11 DEF AcknowledgmentWriteFails, ReturnAcknowledgmentIDs, StreamInv, TypeOK
  <2>2. UNCHANGED <<inFlight, written, link, lastConsumed, pending>>
    BY <1>11 DEF AcknowledgmentWriteFails, recvVars
  <2> QED BY ZenonT(30), <1>0, <2>1, <2>2, HeldKept
<1> QED
  BY SMTT(30), <1>1, <1>3, <1>4, <1>5, <1>6, <1>7, <1>8, <1>9, <1>10, <1>11 DEF Next

-----------------------------------------------------------------------------
(* The buffers stay within their sizes *)

\* InsertOutgoingPacket: a packet with an id of its own joins a send buffer that has room.
LEMMA InsertSound ==
  ASSUME NEW tracked, NEW new, NEW open \in BOOLEAN, NEW opens \in BOOLEAN,
         SendBufferSound(tracked, open), Cardinality(tracked) < ReliableSendBufferSize,
         \A t \in tracked : t.packet.id # new.packet.id,
         OnlyControlIsNumbered(new.packet), open => opens, new.packet.id = 0 => opens
  PROVE  SendBufferSound(tracked \cup {new}, opens)
<1>1. IsFiniteSet(tracked) /\ Cardinality(tracked) \in Nat
  BY FS_CardinalityType DEF SendBufferSound
<1>2. /\ IsFiniteSet(tracked \cup {new})
      /\ Cardinality(tracked \cup {new}) = IF new \in tracked THEN Cardinality(tracked)
                                           ELSE Cardinality(tracked) + 1
  BY <1>1, FS_AddElement
<1>3. Cardinality(tracked \cup {new}) <= ReliableSendBufferSize
  BY <1>1, <1>2, SizeAssumption, SMT
<1>4. \A t, u \in tracked \cup {new} : t.packet.id = u.packet.id => t = u
  BY DEF SendBufferSound
<1>5. \A t \in tracked \cup {new} :
        OnlyControlIsNumbered(t.packet) /\ (t.packet.id = 0 => opens)
  BY Zenon DEF SendBufferSound
<1> QED
  BY <1>2, <1>3, <1>4, <1>5 DEF SendBufferSound

\* Replacing the records of some tracked packets, each by one of the same packet, adds none.
LEMMA ReplacedSound ==
  ASSUME NEW tracked, NEW open, SendBufferSound(tracked, open),
         NEW kept \in SUBSET tracked, NEW f, DOMAIN f = kept,
         \A t \in kept : f[t].packet = t.packet
  PROVE  SendBufferSound({f[t] : t \in kept}, open)
<1> DEFINE image == {f[t] : t \in kept}
<1>1. /\ IsFiniteSet(kept) /\ Cardinality(kept) <= Cardinality(tracked)
      /\ Cardinality(kept) \in Nat /\ Cardinality(tracked) \in Nat
  <2>1. IsFiniteSet(tracked)
    BY DEF SendBufferSound
  <2>2. IsFiniteSet(kept) /\ Cardinality(kept) <= Cardinality(tracked)
    BY <2>1, FS_Subset
  <2> QED BY <2>1, <2>2, FS_CardinalityType
<1>2. [t \in kept |-> f[t]] \in Surjection(kept, image)
  BY DEF Surjection
<1>3. IsFiniteSet(image) /\ Cardinality(image) <= Cardinality(kept)
  BY <1>1, <1>2, FS_Surjection
<1>4. Cardinality(image) \in Nat
  BY <1>3, FS_CardinalityType
<1>5. Cardinality(image) <= ReliableSendBufferSize
  BY <1>1, <1>3, <1>4, SizeAssumption, SMT DEF SendBufferSound
<1>6. \A t, u \in image : t.packet.id = u.packet.id => t = u
  BY SMT DEF SendBufferSound
<1>7. \A t \in image : OnlyControlIsNumbered(t.packet) /\ (t.packet.id = 0 => open)
  BY SMT DEF SendBufferSound
<1> QED BY <1>3, <1>5, <1>6, <1>7 DEF SendBufferSound

\* OnIncomingPacket: acknowledgments only take packets out of the send buffer.
LEMMA AcknowledgeSound ==
  ASSUME NEW tracked, NEW acks, NEW open, SendBufferSound(tracked, open)
  PROVE  SendBufferSound(Acknowledge(tracked, acks), open)
<1> DEFINE h(t) == t.higher + Cardinality({a \in acks : a > t.packet.id})
           bump(t) == IF h(t) > FastRetransmissionACKThreshold
                      THEN FastRetransmissionACKThreshold ELSE h(t)
           kept == {u \in tracked : u.packet.id \notin acks}
           f == [t \in kept |->
                   [packet |-> t.packet, scheduled |-> t.scheduled, higher |-> bump(t)]]
<1>1. Acknowledge(tracked, acks) = {f[t] : t \in kept}
  BY DEF Acknowledge
<1>2. /\ kept \in SUBSET tracked
      /\ DOMAIN f = kept /\ \A t \in kept : f[t].packet = t.packet
  OBVIOUS
<1> HIDE DEF f, kept
<1>3. SendBufferSound({f[t] : t \in kept}, open)
  BY <1>2, ReplacedSound, SMT
<1> QED BY <1>1, <1>3

\* PacketsReadyToSend: sending packets again leaves their number and their ids.
LEMMA ResendSound ==
  ASSUME NEW tracked, NEW picked \in SUBSET tracked, NEW open, SendBufferSound(tracked, open)
  PROVE  SendBufferSound(
           (tracked \ picked) \cup
             {[packet |-> t.packet, scheduled |-> TRUE, higher |-> t.higher] : t \in picked},
           open)
<1> DEFINE record(t) == [packet |-> t.packet, scheduled |-> TRUE, higher |-> t.higher]
           f == [t \in tracked |-> IF t \in picked THEN record(t) ELSE t]
<1>1. \A t : record(t).packet = t.packet
  OBVIOUS
<1> HIDE DEF record
<1>2. (tracked \ picked) \cup {record(t) : t \in picked} = {f[t] : t \in tracked}
  OBVIOUS
<1>3. DOMAIN f = tracked /\ \A t \in tracked : f[t].packet = t.packet
  BY <1>1
<1> HIDE DEF f
<1>4. SendBufferSound({f[t] : t \in tracked}, open)
  BY <1>3, ReplacedSound, SMT
<1> QED BY <1>2, <1>4 DEF record

\* OnIncomingPacket notes one id more, and only while the list has room.
LEMMA NoteBounded ==
  ASSUME NEW ids \in IdSet, NEW packet, Cardinality(ids) <= AcknowledgmentSetCapacity
  PROVE  Cardinality(NoteReceived(ids, packet)) <= AcknowledgmentSetCapacity
<1>1. IsFiniteSet(ids) /\ Cardinality(ids) \in Nat
  BY FS_CardinalityType DEF IdSet
<1>2. Cardinality(ids \cup {packet.id}) =
        IF packet.id \in ids THEN Cardinality(ids) ELSE Cardinality(ids) + 1
  BY <1>1, FS_AddElement
<1> QED BY <1>1, <1>2, SizeAssumption, SMT DEF NoteReceived

\* Ids taken from the list leave fewer.
LEMMA TakenBounded ==
  ASSUME NEW ids \in IdSet, NEW taken, Cardinality(ids) <= AcknowledgmentSetCapacity
  PROVE  Cardinality(ids \ taken) <= AcknowledgmentSetCapacity
<1>1. IsFiniteSet(ids) /\ ids \ taken \in SUBSET ids
  BY DEF IdSet
<1>2. IsFiniteSet(ids \ taken) /\ Cardinality(ids \ taken) <= Cardinality(ids)
  BY <1>1, FS_Subset
<1>3. Cardinality(ids) \in Nat /\ Cardinality(ids \ taken) \in Nat
  BY <1>1, <1>2, FS_CardinalityType
<1> QED BY <1>2, <1>3, SizeAssumption, SMT

\* ReturnAcknowledgmentIDs stops at a full list: each id that goes back finds room after the
\* ones that were there and the smaller ones that went back before it.
LEMMA ReturnBounded ==
  ASSUME NEW ids \in IdSet, NEW acks \in IdSet, Cardinality(ids) <= AcknowledgmentSetCapacity
  PROVE  Cardinality(ReturnAcknowledgmentIDs(ids, acks)) <= AcknowledgmentSetCapacity
<1> DEFINE before(i) == ids \cup {j \in acks : j < i}
           back == {i \in acks \ ids : Cardinality(before(i)) < AcknowledgmentSetCapacity}
           room == Cardinality(ids)..(AcknowledgmentSetCapacity - 1)
           place == [i \in back |-> Cardinality(before(i))]
<1>1. IsFiniteSet(ids) /\ IsFiniteSet(acks) /\ Cardinality(ids) \in Nat
  BY FS_CardinalityType DEF IdSet
<1>2. ASSUME NEW i PROVE IsFiniteSet(before(i)) /\ Cardinality(before(i)) \in Nat
  <2>1. {j \in acks : j < i} \in SUBSET acks
    OBVIOUS
  <2>2. IsFiniteSet({j \in acks : j < i})
    BY <1>1, <2>1, FS_Subset
  <2> QED BY <1>1, <2>2, FS_Union, FS_CardinalityType
<1>3. ReturnAcknowledgmentIDs(ids, acks) = ids \cup back
  BY DEF ReturnAcknowledgmentIDs
<1>4. \A i \in back : i \in Nat /\ i \in acks /\ i \notin ids
                      /\ Cardinality(before(i)) < AcknowledgmentSetCapacity
  BY DEF IdSet
<1>5. ASSUME NEW i \in back PROVE Cardinality(ids) <= Cardinality(before(i))
  <2>1. ids \in SUBSET before(i)
    OBVIOUS
  <2> QED BY <1>2, <2>1, FS_Subset
<1>6. ASSUME NEW i \in back, NEW k \in back, i < k
      PROVE  Cardinality(before(i)) # Cardinality(before(k))
  <2>1. before(i) \in SUBSET before(k)
    <3>1. \A j \in acks : j < i => j < k
      BY <1>4, <1>6, SMT DEF IdSet
    <3> QED BY <3>1
  <2>2. i \in before(k)
    BY <1>4, <1>6
  <2>3. i \notin before(i)
    BY <1>4, SMT
  <2>4. Cardinality(before(k)) = Cardinality(before(i)) => before(k) = before(i)
    BY <1>2, <2>1, FS_Subset
  <2> QED BY <2>2, <2>3, <2>4
<1>7. place \in Injection(back, room)
  <2>1. ASSUME NEW i \in back PROVE Cardinality(before(i)) \in room
    <3>1. /\ Cardinality(before(i)) \in Nat /\ Cardinality(ids) <= Cardinality(before(i))
          /\ Cardinality(before(i)) < AcknowledgmentSetCapacity
      BY <1>2, <1>4, <1>5
    <3>2. AcknowledgmentSetCapacity \in Nat
      BY SizeAssumption
    <3> HIDE DEF before, back
    <3> QED BY <1>1, <3>1, <3>2, SMT
  <2>2. ASSUME NEW i \in back, NEW k \in back,
               Cardinality(before(i)) = Cardinality(before(k))
        PROVE  i = k
    <3>1. i \in Nat /\ k \in Nat
      BY <1>4
    <3>2. ~(i < k) /\ ~(k < i)
      BY <1>6, <2>2
    <3> QED BY <3>1, <3>2, SMT
  <2> HIDE DEF before, room, back
  <2> QED BY <2>1, <2>2 DEF Injection, IsInjective
<1>8. /\ IsFiniteSet(room)
      /\ Cardinality(room) = IF Cardinality(ids) > AcknowledgmentSetCapacity - 1 THEN 0
                             ELSE AcknowledgmentSetCapacity - 1 - Cardinality(ids) + 1
  <2>1. Cardinality(ids) \in Int /\ AcknowledgmentSetCapacity - 1 \in Int
    BY <1>1, SizeAssumption, SMT
  <2> QED BY <2>1, FS_Interval
<1> HIDE DEF before, back, room, place
<1>9. IsFiniteSet(back) /\ Cardinality(back) <= Cardinality(room)
  BY <1>7, <1>8, FS_Injection
<1>10. Cardinality(back) \in Nat
  BY <1>9, FS_CardinalityType
<1>11. ids \cap back = {}
  BY <1>4
<1>12. Cardinality(ids \cap back) = 0
  BY <1>11, FS_EmptySet
<1>13. Cardinality(ids \cup back) = Cardinality(ids) + Cardinality(back) - Cardinality(ids \cap back)
  BY <1>1, <1>9, FS_Union
<1>14. Cardinality(ids \cup back) <= AcknowledgmentSetCapacity
  BY <1>1, <1>8, <1>9, <1>10, <1>12, <1>13, SizeAssumption, SMT
<1> QED BY <1>3, <1>14

\* TryInsertIncomingPacket keeps a packet only while the receive buffer has room.
LEMMA PendingBounded ==
  ASSUME TypeOK, NEW p \in Peers, NEW packet, ReceivePacket(p, packet),
         IsFiniteSet(pending[p]), Cardinality(pending[p]) <= ReliableReceiveBufferSize
  PROVE  /\ IsFiniteSet(pending'[p]) /\ Cardinality(pending'[p]) <= ReliableReceiveBufferSize
         /\ \A q \in Peers : q # p => pending'[q] = pending[q]
<1> DEFINE chunk == [id |-> packet.id, payload |-> packet.payload]
           buffered == pending[p] \cup {chunk}
           keep == /\ packet.opcode = "control"
                   /\ TryInsertIncomingPacket(lastConsumed[p], pending[p], packet)
<1>1. CASE keep
  <2>1. PICK n : pending' = [pending EXCEPT ![p] = {b \in buffered : b.id > lastConsumed[p] + n}]
    BY Zenon, <1>1 DEF ReceivePacket
  <2>2. /\ pending'[p] \in SUBSET buffered
        /\ \A q \in Peers : q # p => pending'[q] = pending[q]
    BY <2>1 DEF TypeOK
  <2>3. Cardinality(pending[p]) < ReliableReceiveBufferSize
    BY <1>1 DEF TryInsertIncomingPacket
  <2> HIDE DEF chunk
  <2>4. /\ IsFiniteSet(buffered)
        /\ Cardinality(buffered) = IF chunk \in pending[p] THEN Cardinality(pending[p])
                                   ELSE Cardinality(pending[p]) + 1
    BY FS_AddElement
  <2>5. Cardinality(pending[p]) \in Nat
    BY FS_CardinalityType
  <2>6. Cardinality(buffered) <= ReliableReceiveBufferSize /\ Cardinality(buffered) \in Nat
    BY <2>3, <2>4, <2>5, SizeAssumption, SMT
  <2> HIDE DEF buffered
  <2>7. IsFiniteSet(pending'[p]) /\ Cardinality(pending'[p]) <= Cardinality(buffered)
    BY <2>2, <2>4, FS_Subset
  <2>8. Cardinality(pending'[p]) \in Nat
    BY <2>7, FS_CardinalityType
  <2> QED BY <2>2, <2>6, <2>7, <2>8, SizeAssumption, SMT
<1>2. CASE ~keep
  <2>1. pending' = pending
    BY <1>2 DEF ReceivePacket
  <2> QED BY <2>1
<1> QED BY <1>1, <1>2

\* One step of either end or of the link leaves every buffer within its size.
LEMMA BufferStep ==
  ASSUME StreamInv, TypeOK', BufferInv, [Next]_vars
  PROVE  BufferInv'
<1> DEFINE Acks(ids) == Cardinality(ids) <= AcknowledgmentSetCapacity
           Buffered(q) == /\ IsFiniteSet(pending[q])
                          /\ Cardinality(pending[q]) <= ReliableReceiveBufferSize
           Chunks(q) == Len(readChunks[q]) <= ReadChunksCapacity
<1>0. /\ TypeOK
      /\ \A packet \in link : OnlyControlIsNumbered(packet)
      /\ \A q \in Peers : /\ SendBufferSound(inFlight[q], opened[q])
                          /\ Acks(pendingAck[q]) /\ Buffered(q) /\ Chunks(q)
  BY DEF BufferInv, StreamInv
<1>1. ASSUME \A packet \in link' : OnlyControlIsNumbered(packet),
             \A q \in Peers : /\ SendBufferSound(inFlight'[q], opened'[q])
                              /\ Acks(pendingAck'[q]) /\ Buffered(q)' /\ Chunks(q)'
      PROVE  BufferInv'
  BY <1>1 DEF BufferInv, OnlyControlIsNumbered, SendBufferSound
<1> HIDE DEF Acks
<1>2. ASSUME NEW p \in Peers, NEW packet, NEW maximum,
             InsertOutgoingPacket(p, packet, maximum),
             link' = link \/ OnLink(p, {packet}),
             \/ /\ packet.opcode = "reset" /\ packet.id = 0 /\ ~opened[p]
                /\ opened' = [opened EXCEPT ![p] = TRUE]
             \/ packet.opcode = "control" /\ packet.id = nextID[p] /\ opened' = opened,
             UNCHANGED recvVars
      PROVE  BufferInv'
  <2> DEFINE new == [packet |-> packet, scheduled |-> FALSE, higher |-> 0]
  <2>1. /\ inFlight'[p] = inFlight[p] \cup {new}
        /\ \A q \in Peers : q # p => inFlight'[q] = inFlight[q]
        /\ Cardinality(inFlight[p]) < ReliableSendBufferSize
        /\ pendingAck'[p] = pendingAck[p] \ packet.acks
        /\ \A q \in Peers : q # p => pendingAck'[q] = pendingAck[q]
    BY <1>0, <1>2 DEF InsertOutgoingPacket, TypeOK
  <2>2. OnlyControlIsNumbered(packet)
    BY <1>2 DEF OnlyControlIsNumbered
  <2>3. \A m \in link' : OnlyControlIsNumbered(m)
    BY <1>0, <1>2, <2>2 DEF OnLink
  <2>4. nextID[p] = Len(written[p]) + 1 /\ Len(written[p]) \in Nat
    BY PeerTypes DEF StreamInv, NextIsFresh
  <2>5. ASSUME NEW t \in inFlight[p] PROVE t.packet.id # packet.id
    <3>1. /\ t.packet.opcode = "control" => t.packet.id \in 1..Len(written[p])
          /\ t.packet.opcode # "control" => t.packet.id = 0
          /\ t.packet.id = 0 => opened[p]
      BY <1>0 DEF StreamInv, PacketsTrue, TruePacket, SendBufferSound, OnlyControlIsNumbered
    <3> QED BY <1>2, <2>4, <3>1, SMT
  <2>6. /\ opened[p] => opened'[p]
        /\ packet.id = 0 => opened'[p]
        /\ \A q \in Peers : q # p => opened'[q] = opened[q]
    BY <1>0, <1>2, <2>4, SMT DEF TypeOK
  <2>7. SendBufferSound(inFlight'[p], opened'[p])
    <3>1. SendBufferSound(inFlight[p], opened[p])
      BY <1>0
    <3>2. Cardinality(inFlight[p]) < ReliableSendBufferSize
      BY <2>1
    <3>3. new.packet = packet
      OBVIOUS
    <3> HIDE DEF new
    <3>4. /\ \A t \in inFlight[p] : t.packet.id # new.packet.id
          /\ OnlyControlIsNumbered(new.packet)
          /\ opened[p] => opened'[p]
          /\ new.packet.id = 0 => opened'[p]
          /\ opened[p] \in BOOLEAN /\ opened'[p] \in BOOLEAN
      BY <1>0, <2>2, <2>5, <2>6, <3>3 DEF TypeOK
    <3>5. SendBufferSound(inFlight[p] \cup {new}, opened'[p])
      BY <3>1, <3>2, <3>4, InsertSound
    <3> QED BY <2>1, <3>5
  <2>8. \A q \in Peers : q # p => SendBufferSound(inFlight'[q], opened'[q])
    BY <1>0, <2>1, <2>6
  <2>9. Acks(pendingAck'[p])
    BY <1>0, <2>1, TakenBounded DEF Acks, TypeOK
  <2>10. \A q \in Peers : q # p => Acks(pendingAck'[q])
    BY <1>0, <2>1
  <2>11. \A q \in Peers : Buffered(q)' /\ Chunks(q)'
    BY <1>0, <1>2 DEF recvVars
  <2> HIDE DEF Buffered, Chunks
  <2> QED BY <1>1, <2>3, <2>7, <2>8, <2>9, <2>10, <2>11
<1>3. ASSUME NEW p \in Peers, SendInitialSoftReset(p) PROVE BufferInv'
  <2> DEFINE packet(a) == [from |-> p, opcode |-> "reset", id |-> 0,
                           payload |-> Empty, acks |-> a]
  <2>1. PICK acks \in SUBSET pendingAck[p] :
          /\ InsertOutgoingPacket(p, packet(acks), MaximumAcknowledgmentsPerPacket)
          /\ OnLink(p, {packet(acks)})
    BY ZenonT(30), <1>3 DEF SendInitialSoftReset
  <2>2. packet(acks).opcode = "reset" /\ packet(acks).id = 0
    OBVIOUS
  <2>3. ~opened[p] /\ opened' = [opened EXCEPT ![p] = TRUE] /\ UNCHANGED recvVars
    BY <1>3 DEF SendInitialSoftReset
  <2> HIDE DEF packet
  <2> QED BY Zenon, <1>2, <2>1, <2>2, <2>3
<1>4. ASSUME NEW p \in Peers, NEW v \in Payload, NEW linkError \in BOOLEAN,
             Write(p, v, linkError)
      PROVE  BufferInv'
  <2> DEFINE packet(a) == [from |-> p, opcode |-> "control", id |-> nextID[p],
                           payload |-> v, acks |-> a]
  <2>1. PICK acks \in SUBSET pendingAck[p] :
          /\ InsertOutgoingPacket(p, packet(acks), MaximumAcknowledgmentsPerPacket)
          /\ IF linkError THEN link' = link ELSE OnLink(p, {packet(acks)})
    BY Zenon, <1>4 DEF Write
  <2>2. packet(acks).opcode = "control" /\ packet(acks).id = nextID[p]
    OBVIOUS
  <2>3. opened' = opened /\ UNCHANGED recvVars
    BY <1>4 DEF Write
  <2> HIDE DEF packet
  <2> QED BY Zenon, <1>2, <2>1, <2>2, <2>3
<1>5. ASSUME NEW p \in Peers, SendWrappedClientKey(p) PROVE BufferInv'
  <2> DEFINE packet(a) == [from |-> p, opcode |-> "control", id |-> nextID[p],
                           payload |-> Empty, acks |-> a]
  <2>1. PICK acks \in SUBSET pendingAck[p] :
          /\ InsertOutgoingPacket(p, packet(acks), AcknowledgmentSetCapacity)
          /\ OnLink(p, {packet(acks)})
    BY Zenon, <1>5 DEF SendWrappedClientKey
  <2>2. packet(acks).opcode = "control" /\ packet(acks).id = nextID[p]
    OBVIOUS
  <2>3. opened' = opened /\ UNCHANGED recvVars
    BY <1>5 DEF SendWrappedClientKey
  <2> HIDE DEF packet
  <2> QED BY Zenon, <1>2, <2>1, <2>2, <2>3
<1>6. CASE UNCHANGED <<opened, inFlight, pendingAck, pending, readChunks, link>>
  BY <1>0, <1>1, <1>6
<1>7. ASSUME NEW p \in Peers, Read(p) PROVE BufferInv'
  <2>1. /\ UNCHANGED <<opened, inFlight, pendingAck, pending, link>>
        /\ \A q \in Peers : q # p => readChunks'[q] = readChunks[q]
        /\ readChunks'[p] = Tail(readChunks[p]) /\ readChunks[p] # <<>>
        /\ readChunks[p] \in Seq(Chunk)
    BY <1>0, <1>7 DEF Read, sendVars, TypeOK
  <2>2. Len(readChunks'[p]) = Len(readChunks[p]) - 1 /\ Len(readChunks[p]) \in Nat
    BY <2>1, SMT
  <2>3. \A q \in Peers : Chunks(q)'
    <3>1. \A q \in Peers : Len(readChunks[q]) <= ReadChunksCapacity
      BY <1>0
    <3>2. ReadChunksCapacity \in Nat
      BY SizeAssumption
    <3>3. Len(readChunks'[p]) <= ReadChunksCapacity
      BY <2>1, <2>2, <3>1, <3>2, SMT
    <3> QED BY <2>1, <3>1, <3>3
  <2> HIDE DEF Chunks
  <2> QED BY <1>0, <1>1, <2>1, <2>3
<1>8. ASSUME NEW p \in Peers, PushChunk(p) PROVE BufferInv'
  <2>1. /\ UNCHANGED <<opened, inFlight, pendingAck, pending, link>>
        /\ \A q \in Peers : q # p => readChunks'[q] = readChunks[q]
        /\ ready[p] # <<>> /\ ready[p] \in Seq(Chunk) /\ readChunks[p] \in Seq(Chunk)
        /\ \/ readChunks'[p] = readChunks[p]
           \/ /\ Len(readChunks[p]) < ReadChunksCapacity
              /\ readChunks'[p] = Append(readChunks[p], Head(ready[p]))
    BY <1>0, <1>8, SMT DEF PushChunk, sendVars, TypeOK
  <2>2. Len(Append(readChunks[p], Head(ready[p]))) = Len(readChunks[p]) + 1
        /\ Len(readChunks[p]) \in Nat
    BY <2>1, SMT
  <2>3. \A q \in Peers : Chunks(q)'
    <3>1. \A q \in Peers : Len(readChunks[q]) <= ReadChunksCapacity
      BY <1>0
    <3>2. ReadChunksCapacity \in Nat
      BY SizeAssumption
    <3>3. Len(readChunks'[p]) <= ReadChunksCapacity
      BY <2>1, <2>2, <3>1, <3>2, SMT
    <3> QED BY <2>1, <3>1, <3>3
  <2> HIDE DEF Chunks
  <2> QED BY <1>0, <1>1, <2>1, <2>3
<1>9. ASSUME NEW p \in Peers, NEW packet \in link,
             Receive(p, packet) \/ ReceiveCopy(p, packet)
      PROVE  BufferInv'
  <2>1. ReceivePacket(p, packet) /\ link' \subseteq link
    BY <1>9 DEF Receive, ReceiveCopy
  <2>2. /\ inFlight'[p] = Acknowledge(inFlight[p], packet.acks)
        /\ pendingAck'[p] = NoteReceived(pendingAck[p], packet)
        /\ \A q \in Peers : q # p => inFlight'[q] = inFlight[q] /\ pendingAck'[q] = pendingAck[q]
        /\ UNCHANGED <<opened, readChunks>>
    BY <1>0, <2>1 DEF ReceivePacket, OnIncomingPacket, TypeOK
  <2>3. /\ IsFiniteSet(pending'[p]) /\ Cardinality(pending'[p]) <= ReliableReceiveBufferSize
        /\ \A q \in Peers : q # p => pending'[q] = pending[q]
    BY <1>0, <2>1, PendingBounded
  <2>4. \A q \in Peers : Buffered(q)' /\ Chunks(q)'
    BY <1>0, <2>2, <2>3
  <2>5. SendBufferSound(inFlight'[p], opened'[p])
    BY <1>0, <2>2, AcknowledgeSound
  <2>6. Acks(pendingAck'[p])
    BY <1>0, <2>2, NoteBounded DEF Acks, TypeOK
  <2>7. \A q \in Peers : q # p => SendBufferSound(inFlight'[q], opened'[q]) /\ Acks(pendingAck'[q])
    BY <1>0, <2>2
  <2>8. \A m \in link' : OnlyControlIsNumbered(m)
    BY <1>0, <2>1
  <2> HIDE DEF Buffered, Chunks
  <2> QED BY <1>1, <2>4, <2>5, <2>6, <2>7, <2>8
<1>10. ASSUME NEW p \in Peers, NEW picked \in SUBSET inFlight[p], Resend(p, picked)
       PROVE  BufferInv'
  <2> DEFINE record(t) == [packet |-> t.packet, scheduled |-> TRUE, higher |-> t.higher]
  <2>1. /\ inFlight'[p] = (inFlight[p] \ picked) \cup {record(t) : t \in picked}
        /\ \A q \in Peers : q # p => inFlight'[q] = inFlight[q]
        /\ UNCHANGED <<opened, pendingAck, pending, readChunks>>
    BY Zenon, <1>0, <1>10 DEF Resend, recvVars, TypeOK
  <2>2. SendBufferSound(inFlight'[p], opened'[p])
    BY <1>0, <2>1, ResendSound, SMT
  <2>3. \A m \in link' : m \in link \/ \E t \in picked : m = t.packet
    BY <1>10 DEF Resend, OnLink
  <2>4. \A m \in link' : OnlyControlIsNumbered(m)
    BY <1>0, <2>3, SMT DEF SendBufferSound
  <2>5. \A q \in Peers : SendBufferSound(inFlight'[q], opened'[q])
    BY <1>0, <2>1, <2>2
  <2>6. \A q \in Peers : Acks(pendingAck'[q]) /\ Buffered(q)' /\ Chunks(q)'
    BY <1>0, <2>1
  <2> HIDE DEF Buffered, Chunks
  <2> QED BY <1>1, <2>4, <2>5, <2>6
<1>11. ASSUME NEW p \in Peers,
              TakeAcknowledgments(p) \/ AcknowledgmentWriteFails(p)
       PROVE  BufferInv'
  <2>1. UNCHANGED <<opened, inFlight, pending, readChunks, link>>
    BY <1>11 DEF TakeAcknowledgments, AcknowledgmentWriteFails, recvVars
  <2>2. /\ \A q \in Peers : q # p => pendingAck'[q] = pendingAck[q]
        /\ \/ \E acks : pendingAck'[p] = pendingAck[p] \ acks
           \/ pendingAck'[p] = ReturnAcknowledgmentIDs(pendingAck[p], ackInHand[p])
    <3>1. \/ \E acks : pendingAck' = [pendingAck EXCEPT ![p] = @ \ acks]
          \/ pendingAck' = [pendingAck EXCEPT ![p] =
                              ReturnAcknowledgmentIDs(@, ackInHand[p])]
      BY Zenon, <1>11 DEF TakeAcknowledgments, AcknowledgmentWriteFails
    <3>2. pendingAck \in [Peers -> IdSet]
      BY <1>0 DEF TypeOK
    <3> QED BY <3>1, <3>2
  <2>3. Acks(pendingAck'[p])
    BY <1>0, <2>2, TakenBounded, ReturnBounded DEF Acks, TypeOK
  <2>4. \A q \in Peers : Acks(pendingAck'[q])
    BY <1>0, <2>2, <2>3
  <2>5. \A q \in Peers : Buffered(q)' /\ Chunks(q)'
    BY <1>0, <2>1
  <2> HIDE DEF Buffered, Chunks
  <2> QED BY <1>0, <1>1, <2>1, <2>4, <2>5
<1>12. ASSUME NEW p \in Peers, WriteAcknowledgments(p) PROVE BufferInv'
  <2> DEFINE packet == [from |-> p, opcode |-> "ack", id |-> 0, payload |-> Empty,
                        acks |-> ackInHand[p]]
  <2>1. /\ UNCHANGED <<opened, inFlight, pendingAck, pending, readChunks>>
        /\ link' \subseteq link \cup {packet}
    BY <1>12 DEF WriteAcknowledgments, OnLink, recvVars
  <2>2. OnlyControlIsNumbered(packet)
    BY DEF OnlyControlIsNumbered
  <2>3. \A m \in link' : OnlyControlIsNumbered(m)
    BY <1>0, <2>1, <2>2
  <2>4. \A q \in Peers : Buffered(q)' /\ Chunks(q)'
    BY <1>0, <2>1
  <2> HIDE DEF Buffered, Chunks
  <2> QED BY <1>0, <1>1, <2>1, <2>3, <2>4
<1>13. ASSUME NEW p \in Peers, StopReader(p) \/ Shutdown(p) PROVE BufferInv'
  <2>1. UNCHANGED <<opened, inFlight, pendingAck, pending, readChunks, link>>
    BY <1>13 DEF StopReader, Shutdown, sendVars, recvVars
  <2> QED BY <1>6, <2>1
<1>14. CASE UNCHANGED vars
  BY <1>6, <1>14 DEF vars
<1> QED
  BY SMTT(30), <1>3, <1>4, <1>5, <1>7, <1>8, <1>9, <1>10, <1>11, <1>12, <1>13, <1>14 DEF Next

\* A new channel has empty buffers.
LEMMA BufferInit ==
  ASSUME Init
  PROVE  BufferInv /\ HeldInv
<1>1. \A q \in Peers : /\ Len(written[q]) = 0 /\ pendingAck[q] = {} /\ ackInHand[q] = {}
                       /\ inFlight[q] = {} /\ pending[q] = {} /\ Len(readChunks[q]) = 0
  BY DEF Init
<1>2. link = {}
  BY DEF Init
<1>3. AcknowledgedIsHeld
  BY <1>1, SMT DEF AcknowledgedIsHeld
<1>4. HeldInv
  BY <1>1, <1>2, <1>3 DEF HeldInv, AllHeld
<1>5. IsFiniteSet({}) /\ Cardinality({}) = 0
  BY FS_EmptySet
<1>6. \A q \in Peers : SendBufferSound(inFlight[q], opened[q])
  <2>1. SendBufferSound({}, TRUE) /\ SendBufferSound({}, FALSE)
    BY <1>5, SizeAssumption, SMT DEF SendBufferSound
  <2> QED BY <1>1, <2>1 DEF SendBufferSound
<1>7. \A q \in Peers : /\ IsFiniteSet(pending[q])
                       /\ Cardinality(pending[q]) <= ReliableReceiveBufferSize
                       /\ Cardinality(pendingAck[q]) <= AcknowledgmentSetCapacity
                       /\ Len(readChunks[q]) <= ReadChunksCapacity
  <2>1. /\ 0 <= ReliableReceiveBufferSize /\ 0 <= AcknowledgmentSetCapacity
        /\ 0 <= ReadChunksCapacity
    BY SizeAssumption, SMT
  <2> QED BY <1>1, <1>5, <2>1
<1>8. BufferInv
  BY <1>2, <1>6, <1>7 DEF BufferInv
<1> QED BY <1>4, <1>8

\* What is written stays written: a history the receive buffer covers was always covered.
LEMMA CoveredBefore ==
  ASSUME StreamInv, TypeOK', [Next]_vars, Covered'
  PROVE  Covered
<1>1. \A q \in Peers : Len(written[q]) \in Nat /\ Len(written'[q]) \in Nat
  BY SMT DEF StreamInv, TypeOK
<1>2. \/ written' = written
      \/ \E p \in Peers, v \in Payload \cup {Empty} :
           written' = [written EXCEPT ![p] = Append(@, v)]
  <2> DEFINE Grows == \E p \in Peers, v \in Payload \cup {Empty} :
                        written' = [written EXCEPT ![p] = Append(@, v)]
  <2>1. ASSUME NEW p \in Peers,
               \/ SendInitialSoftReset(p) \/ Read(p) \/ PushChunk(p) \/ StopReader(p)
               \/ \E packet \in link : Receive(p, packet) \/ ReceiveCopy(p, packet)
               \/ \E picked \in SUBSET inFlight[p] : Resend(p, picked)
               \/ TakeAcknowledgments(p) \/ WriteAcknowledgments(p)
               \/ AcknowledgmentWriteFails(p) \/ Shutdown(p)
        PROVE  written' = written
    BY <2>1 DEF sendVars, SendInitialSoftReset, Read, PushChunk, StopReader, Receive,
       ReceiveCopy, ReceivePacket, Resend, TakeAcknowledgments, WriteAcknowledgments,
       AcknowledgmentWriteFails, Shutdown
  <2>2. ASSUME NEW p \in Peers, NEW v \in Payload, NEW linkError \in BOOLEAN,
               Write(p, v, linkError)
        PROVE  Grows
    <3>1. written' = [written EXCEPT ![p] = Append(@, v)]
      BY <2>2 DEF Write
    <3> QED BY Zenon, <3>1
  <2>3. ASSUME NEW p \in Peers, SendWrappedClientKey(p) PROVE Grows
    <3>1. written' = [written EXCEPT ![p] = Append(@, Empty)]
      BY <2>3 DEF SendWrappedClientKey
    <3> QED BY Zenon, <3>1
  <2>4. UNCHANGED vars => written' = written
    BY DEF vars
  <2> HIDE DEF Grows
  <2>5. written' = written \/ Grows
    BY <2>1, <2>2, <2>3, <2>4 DEF Next
  <2> QED BY <2>5 DEF Grows
<1>3. CASE written' = written
  BY <1>3 DEF Covered
<1>4. ASSUME NEW p \in Peers, NEW v \in Payload \cup {Empty},
             written' = [written EXCEPT ![p] = Append(@, v)]
      PROVE  Covered
  <2>1. \A q \in Peers : q # p => written'[q] = written[q]
    BY <1>4 DEF StreamInv, TypeOK
  <2>2. Len(written'[p]) = Len(written[p]) + 1
    <3>1. written'[p] = Append(written[p], v)
      BY <1>4 DEF StreamInv, TypeOK
    <3> QED BY <3>1, PeerTypes, WrittenAppended DEF StreamInv
  <2> SUFFICES ASSUME NEW q \in Peers PROVE Len(written[q]) <= ReliableReceiveBufferSize
    BY DEF Covered
  <2>3. Len(written'[q]) <= ReliableReceiveBufferSize
    BY DEF Covered
  <2>4. CASE q = p
    BY <1>1, <2>2, <2>3, <2>4, SizeAssumption, SMT
  <2> QED BY <2>1, <2>3, <2>4
<1> QED BY <1>2, <1>3, <1>4

\* Whatever the sizes, no buffer outgrows its own; and as long as the receive buffer covers what
\* an end has written, no acknowledgment promises more than the peer can keep: the bound the
\* violation of AcknowledgedIsHeld in a larger instance breaks.
THEOREM AlwaysHeldWhenCovered == Spec => []HeldWhenCovered
<1> DEFINE Inv == BufferInv /\ (Covered => HeldInv)
<1>1. Init => Inv
  BY BufferInit
<1>2. StreamInv /\ TypeOK' /\ Inv /\ [Next]_vars => Inv'
  BY BufferStep, HeldStep, CoveredBefore
<1>3. Inv => HeldWhenCovered
  BY DEF HeldWhenCovered, BuffersBounded, BufferInv, SendBufferSound
<1> HIDE DEF Inv
<1> QED BY <1>1, <1>2, <1>3, StreamInvariant, TypeCorrect, PTL DEF Spec
=============================================================================
