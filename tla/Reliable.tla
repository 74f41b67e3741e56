------------------------------ MODULE Reliable ------------------------------
(***************************************************************************)
(* The reliable layer of one control channel (one key-id), both ends of   *)
(* it: proto/reliable.go driven by tlsControlChannel (control_channel.go). *)
(*                                                                         *)
(* Each end runs three goroutines: the TLS stack calling Read and Write,   *)
(* runReader, and runSender.  Between them lies a datagram link that       *)
(* loses, duplicates and reorders, and whose writes may fail.              *)
(*                                                                         *)
(* Time is abstracted: a retransmission deadline that was set may pass at  *)
(* any moment.                                                             *)
(***************************************************************************)
EXTENDS Integers, Sequences, FiniteSets

CONSTANTS
  Client, Server,      \* the two ends
  Payload,             \* what a Write may carry (non-empty chunks)
  Empty,               \* the payload of a packet that carries no bytes
  Writes,              \* bound: how many chunks each end's TLS stack writes
  Resetters,           \* the ends that open the key-id with a soft reset
  WrappedKeyHolders,   \* the ends with a tls-crypt-v2 wrapped client key
  Closers,             \* the ends whose channel may be shut down
  ReliableSendBufferSize,
  ReliableReceiveBufferSize,
  MaximumAcknowledgmentsPerPacket,
  AcknowledgmentSetCapacity,
  FastRetransmissionACKThreshold,
  ReadChunksCapacity,  \* capacity of the readChunks channel (32)
  LinkCapacity         \* bound: packets in transit from each end; the rest is lost

Peers == {Client, Server}
Other(p) == IF p = Client THEN Server ELSE Client

ASSUME PeersAssumption == Client # Server
ASSUME PayloadAssumption == Empty \notin Payload
ASSUME SizeAssumption ==
  /\ Writes \in [Peers -> Nat]
  /\ Resetters \subseteq Peers
  /\ WrappedKeyHolders \subseteq Peers
  /\ Closers \subseteq Peers
  /\ ReliableSendBufferSize \in Nat
  /\ ReliableReceiveBufferSize \in Nat
  /\ MaximumAcknowledgmentsPerPacket \in Nat
  /\ AcknowledgmentSetCapacity \in Nat
  /\ FastRetransmissionACKThreshold \in Nat
  /\ ReadChunksCapacity \in Nat
  /\ LinkCapacity \in [Peers -> Nat]

VARIABLES
  opened,       \* the soft reset that opens the key-id was sent, or none is due
  nextID,       \* sessionManager.localControlPacketID
  inFlight,     \* outgoing.inFlightPackets
  pendingAck,   \* outgoing.pendingAcknowledgmentID
  ackInHand,    \* ids of a P_ACK_V1 that runSender built and has not written yet
  writeFailed,  \* a Write returned a link error, which a TLS stack never retries
  lastConsumed, \* incoming.lastConsumedID
  pending,      \* incoming.pendingPackets, keyed by incoming.bufferedID
  ready,        \* ordered packets runReader has not pushed to readChunks yet
  readChunks,   \* the channel between runReader and Read
  stopped,      \* runReader returned
  closed,       \* the closed channel of the control channel is closed
  link,         \* packets on the wire, addressed by their sender
  written,      \* history: the payload of every control packet built, by id
  delivered     \* history: what Read handed to the TLS stack

vars == <<opened, nextID, inFlight, pendingAck, ackInHand, writeFailed,
          lastConsumed, pending, ready, readChunks, stopped, closed, link, written,
          delivered>>

sendVars == <<opened, nextID, inFlight, pendingAck, ackInHand, writeFailed, written>>
recvVars == <<lastConsumed, pending, ready, readChunks, stopped, delivered>>

\* A packet names finitely many ids.
IdSet == {ids \in SUBSET Nat : IsFiniteSet(ids)}

Chunk == [id : Nat, payload : Payload \cup {Empty}]
Packet == [from : Peers, opcode : {"control", "reset", "ack"}, id : Nat,
           payload : Payload \cup {Empty}, acks : IdSet]
Tracked == [packet : Packet, scheduled : BOOLEAN, higher : Nat]

Init ==
  /\ opened = [p \in Peers |-> p \notin Resetters]
  /\ nextID = [p \in Peers |-> 1]
  /\ inFlight = [p \in Peers |-> {}]
  /\ pendingAck = [p \in Peers |-> {}]
  /\ ackInHand = [p \in Peers |-> {}]
  /\ writeFailed = [p \in Peers |-> FALSE]
  /\ lastConsumed = [p \in Peers |-> 0]
  /\ pending = [p \in Peers |-> {}]
  /\ ready = [p \in Peers |-> <<>>]
  /\ readChunks = [p \in Peers |-> <<>>]
  /\ stopped = [p \in Peers |-> FALSE]
  /\ closed = [p \in Peers |-> FALSE]
  /\ link = {}
  /\ written = [p \in Peers |-> <<>>]
  /\ delivered = [p \in Peers |-> <<>>]

-----------------------------------------------------------------------------
(* OutgoingReliableState *)

\* The smallest pending ids, at most maximum of them.
Takes(pendingIDs, maximum, taken) ==
  /\ taken \subseteq pendingIDs
  /\ Cardinality(taken) = IF Cardinality(pendingIDs) < maximum
                          THEN Cardinality(pendingIDs) ELSE maximum
  /\ \A i \in taken, j \in pendingIDs \ taken : i < j

\* The ids that went back to the pending list, smallest first, until it is full.
ReturnAcknowledgmentIDs(pendingIDs, acks) ==
  pendingIDs \cup
    {i \in acks : \/ i \in pendingIDs
                  \/ Cardinality(pendingIDs \cup {j \in acks : j < i})
                       < AcknowledgmentSetCapacity}

\* InsertOutgoingPacket with the packet its callback builds.  A full send
\* buffer takes nothing.
InsertOutgoingPacket(p, packet, maximum) ==
  /\ Cardinality(inFlight[p]) < ReliableSendBufferSize
  /\ Takes(pendingAck[p], maximum, packet.acks)
  /\ pendingAck' = [pendingAck EXCEPT ![p] = @ \ packet.acks]
  /\ inFlight' = [inFlight EXCEPT ![p] = @ \cup
       {[packet |-> packet, scheduled |-> FALSE, higher |-> 0]}]

\* The acknowledged packets leave the send buffer; every other one counts the
\* acknowledgments of ids above its own (only the threshold matters).
Acknowledge(tracked, acks) ==
  LET bump(t) ==
        LET h == t.higher + Cardinality({a \in acks : a > t.packet.id})
        IN  IF h > FastRetransmissionACKThreshold
            THEN FastRetransmissionACKThreshold ELSE h
  IN  {[packet |-> t.packet, scheduled |-> t.scheduled, higher |-> bump(t)] :
         t \in {u \in tracked : u.packet.id \notin acks}}

NoteReceived(pendingIDs, packet) ==
  IF packet.opcode # "ack" /\ Cardinality(pendingIDs) < AcknowledgmentSetCapacity
  THEN pendingIDs \cup {packet.id} ELSE pendingIDs

OnIncomingPacket(p, packet) ==
  /\ pendingAck' = [pendingAck EXCEPT ![p] = NoteReceived(@, packet)]
  /\ inFlight' = [inFlight EXCEPT ![p] = Acknowledge(@, packet.acks)]

\* PacketsReadyToSend must pick the packets never scheduled and those passed by
\* enough acknowledgments; it picks any other whose deadline passed.
MustResend(t) ==
  ~t.scheduled \/ t.higher >= FastRetransmissionACKThreshold

-----------------------------------------------------------------------------
(* IncomingReliableState *)

\* Mutant of TryInsertIncomingPacket: compares with the next expected id.
TryInsertPastNext(last, buffered, packet) ==
  /\ packet.id > last + 1
  /\ \A c \in buffered : c.id # packet.id
  /\ packet.id - (last + 1) < ReliableReceiveBufferSize
  /\ Cardinality(buffered) < ReliableReceiveBufferSize

TryInsertIncomingPacket(last, buffered, packet) ==
  /\ packet.id > last
  /\ \A c \in buffered : c.id # packet.id
  /\ packet.id - (last + 1) < ReliableReceiveBufferSize
  /\ Cardinality(buffered) < ReliableReceiveBufferSize

\* Mutant of NextOrderedSequence: ascending, but ids may be missing in between.
OrderedWithGaps(last, buffered, run) ==
  /\ Len(run) = Cardinality(buffered)
  /\ \A i \in 1..Len(run) : run[i] \in buffered
  /\ \A i, j \in 1..Len(run) : i < j => run[i].id < run[j].id

\* run is the longest run of buffered packets that continues after last.
NextOrderedSequence(last, buffered, run) ==
  /\ \A i \in 1..Len(run) : run[i] \in buffered /\ run[i].id = last + i
  /\ \A c \in buffered : c.id # last + Len(run) + 1

-----------------------------------------------------------------------------
(* The TLS stack *)

\* Some of the packets reach the wire and the others are lost.  To a packet the
\* send buffer holds, a failed link write is the same as a loss.
OnLink(p, packets) ==
  \E sent \in SUBSET packets :
    /\ Cardinality({packet \in link : packet.from = p} \cup sent) <= LinkCapacity[p]
    /\ link' = link \cup sent

\* A renegotiated key-id starts with a soft reset in packet id 0.
SendInitialSoftReset(p) ==
  /\ ~opened[p]
  /\ opened' = [opened EXCEPT ![p] = TRUE]
  /\ \E acks \in SUBSET pendingAck[p] :
       LET packet == [from |-> p, opcode |-> "reset", id |-> 0,
                      payload |-> Empty, acks |-> acks]
       IN  /\ InsertOutgoingPacket(p, packet, MaximumAcknowledgmentsPerPacket)
           /\ OnLink(p, {packet})
  /\ UNCHANGED <<nextID, ackInHand, writeFailed, written, closed, recvVars>>

\* Write: one chunk enters the send buffer and is written to the link.  A link
\* error ends the TLS connection's writing half; the packet stays in flight.
Write(p, payload, linkError) ==
  /\ opened[p] /\ ~writeFailed[p]
  /\ Len(written[p]) < Writes[p]
  /\ \E acks \in SUBSET pendingAck[p] :
       LET packet == [from |-> p, opcode |-> "control", id |-> nextID[p],
                      payload |-> payload, acks |-> acks]
       IN  /\ InsertOutgoingPacket(p, packet, MaximumAcknowledgmentsPerPacket)
           /\ IF linkError THEN link' = link ELSE OnLink(p, {packet})
  /\ nextID' = [nextID EXCEPT ![p] = @ + 1]
  /\ written' = [written EXCEPT ![p] = Append(@, payload)]
  /\ writeFailed' = [writeFailed EXCEPT ![p] = linkError]
  /\ UNCHANGED <<opened, ackInHand, closed, recvVars>>

\* Read hands the next chunk to the TLS stack.
Read(p) ==
  /\ readChunks[p] # <<>>
  /\ delivered' = [delivered EXCEPT ![p] = Append(@, Head(readChunks[p]))]
  /\ readChunks' = [readChunks EXCEPT ![p] = Tail(@)]
  /\ UNCHANGED <<sendVars, lastConsumed, pending, ready, stopped, closed, link>>

-----------------------------------------------------------------------------
(* runReader *)

\* processIncomingControlPacket: the packet is noted and its acknowledgments
\* applied before the receive buffer decides whether to keep it.  runReader looks
\* at closed between two batches of packets only.
ReceivePacket(p, packet) ==
  /\ ~stopped[p] /\ ready[p] = <<>>
  /\ packet.from = Other(p)
  /\ opened[p] \/ packet.opcode = "reset"
  /\ OnIncomingPacket(p, packet)
  /\ LET chunk == [id |-> packet.id, payload |-> packet.payload]
         keep  == /\ packet.opcode = "control"
                  /\ TryInsertIncomingPacket(lastConsumed[p], pending[p], packet)
         buffered == pending[p] \cup {chunk}
     IN  IF keep
         THEN \E n \in 0..Cardinality(buffered) :
                \E run \in [1..n -> buffered] :
                  /\ NextOrderedSequence(lastConsumed[p], buffered, run)
                  /\ lastConsumed' = [lastConsumed EXCEPT ![p] = @ + n]
                  /\ pending' = [pending EXCEPT ![p] =
                                   {c \in buffered : c.id > lastConsumed[p] + n}]
                  /\ ready' = [ready EXCEPT ![p] = run]
         ELSE UNCHANGED <<lastConsumed, pending, ready>>
  /\ UNCHANGED <<opened, nextID, ackInHand, writeFailed, written, readChunks,
                 stopped, closed, delivered>>

\* The network delivers a packet once, or keeps a copy for later.
Receive(p, packet) ==
  /\ packet \in link
  /\ ReceivePacket(p, packet)
  /\ link' = link \ {packet}

ReceiveCopy(p, packet) ==
  /\ packet \in link
  /\ ReceivePacket(p, packet)
  /\ link' = link

\* The next ordered packet enters readChunks as soon as there is room; one that
\* carries no bytes is skipped.
PushChunk(p) ==
  /\ ready[p] # <<>>
  /\ LET chunk == Head(ready[p])
     IN  IF chunk.payload = Empty
         THEN UNCHANGED readChunks
         ELSE /\ Len(readChunks[p]) < ReadChunksCapacity
              /\ readChunks' = [readChunks EXCEPT ![p] = Append(@, chunk)]
  /\ ready' = [ready EXCEPT ![p] = Tail(@)]
  /\ UNCHANGED <<sendVars, lastConsumed, pending, stopped, closed, link, delivered>>

\* A closed channel ends runReader, between two batches or before a chunk it
\* would push.
StopReader(p) ==
  /\ closed[p] /\ ~stopped[p]
  /\ ready[p] # <<>> => Head(ready[p]).payload # Empty
  /\ stopped' = [stopped EXCEPT ![p] = TRUE]
  /\ ready' = [ready EXCEPT ![p] = <<>>]
  /\ UNCHANGED <<sendVars, lastConsumed, pending, readChunks, closed, link, delivered>>

-----------------------------------------------------------------------------
(* runSender *)

\* Mutant of Resend: a packet is sent again once, never twice.
ResendOnce(p, picked) ==
  /\ ~closed[p] /\ picked # {} /\ ackInHand[p] = {}
  /\ picked = {t \in inFlight[p] : ~t.scheduled}
  /\ inFlight' = [inFlight EXCEPT ![p] =
       (@ \ picked) \cup
         {[packet |-> t.packet, scheduled |-> TRUE, higher |-> t.higher] : t \in picked}]
  /\ OnLink(p, {t.packet : t \in picked})
  /\ UNCHANGED <<opened, nextID, pendingAck, ackInHand, writeFailed, written,
                 closed, recvVars>>

\* One tick resends what PacketsReadyToSend picked.
Resend(p, picked) ==
  /\ ~closed[p] /\ picked # {} /\ ackInHand[p] = {}
  /\ picked \subseteq inFlight[p]
  /\ \A t \in inFlight[p] : MustResend(t) => t \in picked
  /\ inFlight' = [inFlight EXCEPT ![p] =
       (@ \ picked) \cup
         {[packet |-> t.packet, scheduled |-> TRUE, higher |-> t.higher] : t \in picked}]
  /\ OnLink(p, {t.packet : t \in picked})
  /\ UNCHANGED <<opened, nextID, pendingAck, ackInHand, writeFailed, written,
                 closed, recvVars>>

CarriesWrappedClientKey(p) == p \in WrappedKeyHolders /\ nextID[p] = 1

\* The dedicated acknowledgment takes its ids before it is written.
TakeAcknowledgments(p) ==
  /\ ~closed[p] /\ ackInHand[p] = {}
  /\ pendingAck[p] # {}
  /\ ~CarriesWrappedClientKey(p)
  /\ \E acks \in SUBSET pendingAck[p] :
       /\ Takes(pendingAck[p], AcknowledgmentSetCapacity, acks)
       /\ ackInHand' = [ackInHand EXCEPT ![p] = acks]
       /\ pendingAck' = [pendingAck EXCEPT ![p] = @ \ acks]
  /\ UNCHANGED <<opened, nextID, inFlight, writeFailed, written, closed, link, recvVars>>

WriteAcknowledgments(p) ==
  /\ ackInHand[p] # {}
  /\ OnLink(p, {[from |-> p, opcode |-> "ack", id |-> 0, payload |-> Empty,
              acks |-> ackInHand[p]]})
  /\ ackInHand' = [ackInHand EXCEPT ![p] = {}]
  /\ UNCHANGED <<opened, nextID, inFlight, pendingAck, writeFailed, written,
                 closed, recvVars>>

\* A link error puts the ids back.
AcknowledgmentWriteFails(p) ==
  /\ ackInHand[p] # {}
  /\ pendingAck' = [pendingAck EXCEPT ![p] =
                      ReturnAcknowledgmentIDs(@, ackInHand[p])]
  /\ ackInHand' = [ackInHand EXCEPT ![p] = {}]
  /\ UNCHANGED <<opened, nextID, inFlight, writeFailed, written, closed, link, recvVars>>

\* While the wrapped client key is due, the acknowledgment is an empty control
\* packet of the send buffer, P_CONTROL_WKC_V1.
SendWrappedClientKey(p) ==
  /\ ~closed[p] /\ ackInHand[p] = {}
  /\ pendingAck[p] # {}
  /\ CarriesWrappedClientKey(p)
  /\ \E acks \in SUBSET pendingAck[p] :
       LET packet == [from |-> p, opcode |-> "control", id |-> nextID[p],
                      payload |-> Empty, acks |-> acks]
       IN  /\ InsertOutgoingPacket(p, packet, AcknowledgmentSetCapacity)
           /\ OnLink(p, {packet})
  /\ nextID' = [nextID EXCEPT ![p] = @ + 1]
  /\ written' = [written EXCEPT ![p] = Append(@, Empty)]
  /\ UNCHANGED <<opened, ackInHand, writeFailed, closed, recvVars>>

-----------------------------------------------------------------------------
Shutdown(p) ==
  /\ p \in Closers /\ ~closed[p]
  /\ closed' = [closed EXCEPT ![p] = TRUE]
  /\ UNCHANGED <<sendVars, recvVars, link>>

Next ==
  \E p \in Peers :
       \/ SendInitialSoftReset(p)
       \/ \E v \in Payload, linkError \in BOOLEAN : Write(p, v, linkError)
       \/ Read(p)
       \/ \E packet \in link : Receive(p, packet)
       \/ \E packet \in link : ReceiveCopy(p, packet)
       \/ PushChunk(p)
       \/ StopReader(p)
       \/ \E picked \in SUBSET inFlight[p] : Resend(p, picked)
       \/ TakeAcknowledgments(p)
       \/ WriteAcknowledgments(p)
       \/ AcknowledgmentWriteFails(p)
       \/ SendWrappedClientKey(p)
       \/ Shutdown(p)

Spec == Init /\ [][Next]_vars

-----------------------------------------------------------------------------
(* Properties *)

\* Every variable has its type.
TypeOK ==
  /\ opened \in [Peers -> BOOLEAN]
  /\ nextID \in [Peers -> Nat]
  /\ inFlight \in [Peers -> SUBSET Tracked]
  /\ pendingAck \in [Peers -> IdSet]
  /\ ackInHand \in [Peers -> IdSet]
  /\ writeFailed \in [Peers -> BOOLEAN]
  /\ lastConsumed \in [Peers -> Nat]
  /\ pending \in [Peers -> SUBSET Chunk]
  /\ ready \in [Peers -> Seq(Chunk)]
  /\ readChunks \in [Peers -> Seq(Chunk)]
  /\ stopped \in [Peers -> BOOLEAN]
  /\ closed \in [Peers -> BOOLEAN]
  /\ link \in SUBSET Packet
  /\ written \in [Peers -> Seq(Payload \cup {Empty})]
  /\ delivered \in [Peers -> Seq(Chunk)]

\* s is what w holds, in order, each chunk once, and no chunk with bytes left
\* out before the last one of s.
IsOrderedPrefix(s, w) ==
  /\ \A i \in 1..Len(s) : s[i].id \in 1..Len(w) /\ s[i].payload = w[s[i].id]
  /\ \A i, j \in 1..Len(s) : i < j => s[i].id < s[j].id
  /\ \A i \in 1..Len(s) : \A k \in 1..s[i].id :
       w[k] # Empty => \E j \in 1..Len(s) : s[j].id = k

\* The TLS stack reads exactly the bytes its peer wrote, in order and once,
\* whatever the link loses, repeats or reorders (NextOrderedSequence and
\* TryInsertIncomingPacket, reliable.go).
InOrderExactlyOnce ==
  \A p \in Peers : IsOrderedPrefix(delivered[p], written[Other(p)])

\* The send buffer forgets a packet only once the peer holds it: an
\* acknowledgment promises that the packet will reach the peer's TLS stack.
Holds(q, id) == id <= lastConsumed[q] \/ \E c \in pending[q] : c.id = id
AcknowledgedIsHeld ==
  \A p \in Peers : \A id \in 1..Len(written[p]) :
    (\A t \in inFlight[p] : t.packet.id # id) => Holds(Other(p), id)

\* No buffer of the reliable layer outgrows its size, and no id is in flight
\* twice: retransmission never multiplies packets in the send buffer.
BuffersBounded ==
  \A p \in Peers :
    /\ Cardinality(inFlight[p]) <= ReliableSendBufferSize
    /\ Cardinality(pending[p]) <= ReliableReceiveBufferSize
    /\ Cardinality(pendingAck[p]) <= AcknowledgmentSetCapacity
    /\ Len(readChunks[p]) <= ReadChunksCapacity
    /\ \A t, u \in inFlight[p] : t.packet.id = u.packet.id => t = u

-----------------------------------------------------------------------------
(* Liveness *)

Bytes(p, id) == id \in 1..Len(written[p]) /\ written[p][id] # Empty
ReadBy(p, id) == \E i \in 1..Len(delivered[p]) : delivered[p][i].id = id

\* The link is fair-lossy for every id: a packet that is sent again and again
\* gets onto the wire, and one that is there again and again arrives.  The
\* goroutines run: the ticker of p's runSender fires, q's TLS stack reads.
SenderFairness(p, ids) ==
  \A id \in ids :
    /\ SF_vars(\E picked \in SUBSET inFlight[p] :
                 /\ Resend(p, picked)
                 /\ \E t \in picked : t.packet.id = id /\ t.packet \in link')
    /\ SF_vars(\E packet \in link : id \in packet.acks /\ Receive(p, packet))

ReceiverFairness(q, ids) ==
  /\ WF_vars(Read(q) \/ PushChunk(q))
  /\ WF_vars(\/ TakeAcknowledgments(q)
             \/ WriteAcknowledgments(q)
             \/ AcknowledgmentWriteFails(q))
  /\ \A id \in ids :
       /\ SF_vars(\E packet \in link :
                    packet.opcode # "ack" /\ packet.id = id /\ Receive(q, packet))
       /\ SF_vars(/\ id \in ackInHand[q]
                  /\ WriteAcknowledgments(q)
                  /\ \E packet \in link' : packet.from = q /\ id \in packet.acks)

\* Every chunk with bytes is read by the peer in the end: retransmission
\* (PacketsReadyToSend) makes up for everything the link loses.
EventuallyDelivered(ids) ==
  \A p \in Peers, id \in ids : Bytes(p, id) ~> ReadBy(Other(p), id)

-----------------------------------------------------------------------------
(* The inductive invariant behind InOrderExactlyOnce *)

Ids(chunks) == {chunks[i].id : i \in 1..Len(chunks)}
Ascending(chunks) ==
  \A i, j \in 1..Len(chunks) : i < j => chunks[i].id < chunks[j].id
Below(chunks, others) ==
  \A i \in 1..Len(chunks), j \in 1..Len(others) : chunks[i].id < others[j].id

NextIsFresh == \A p \in Peers : nextID[p] = Len(written[p]) + 1

TruePacket(packet) ==
  packet.opcode = "control" =>
    /\ packet.id \in 1..Len(written[packet.from])
    /\ packet.payload = written[packet.from][packet.id]

PacketsTrue ==
  /\ \A packet \in link : TruePacket(packet)
  /\ \A p \in Peers : \A t \in inFlight[p] :
       t.packet.from = p /\ TruePacket(t.packet)

TrueChunk(p, chunk) ==
  /\ chunk.id \in 1..Len(written[Other(p)])
  /\ chunk.payload = written[Other(p)][chunk.id]

TrueChunks(p, chunks) ==
  \A i \in 1..Len(chunks) :
    TrueChunk(p, chunks[i]) /\ chunks[i].id <= lastConsumed[p]

ChunksTrue ==
  \A p \in Peers :
    /\ lastConsumed[p] <= Len(written[Other(p)])
    /\ \A chunk \in pending[p] : TrueChunk(p, chunk) /\ chunk.id > lastConsumed[p]
    /\ TrueChunks(p, ready[p])
    /\ TrueChunks(p, readChunks[p])
    /\ TrueChunks(p, delivered[p])

ChunksOrdered ==
  \A p \in Peers :
    /\ Ascending(delivered[p]) /\ Ascending(readChunks[p]) /\ Ascending(ready[p])
    /\ Below(delivered[p], readChunks[p])
    /\ Below(delivered[p], ready[p])
    /\ Below(readChunks[p], ready[p])

\* A consumed id is on its way to the TLS stack, or runReader abandoned it when
\* it stopped, after everything that is.
OnItsWay(p, id) ==
  \/ id \in Ids(delivered[p]) \cup Ids(readChunks[p]) \cup Ids(ready[p])
  \/ /\ stopped[p] /\ ready[p] = <<>>
     /\ \A k \in Ids(delivered[p]) \cup Ids(readChunks[p]) : k < id

NothingSkipped ==
  \A p \in Peers : \A id \in 1..lastConsumed[p] :
    written[Other(p)][id] # Empty => OnItsWay(p, id)

StreamInv ==
  TypeOK /\ NextIsFresh /\ PacketsTrue /\ ChunksTrue /\ ChunksOrdered /\ NothingSkipped

-----------------------------------------------------------------------------
(* The send and the receive buffer *)

\* Nothing written so far is beyond the receive buffer.
Covered == \A p \in Peers : Len(written[p]) <= ReliableReceiveBufferSize

AllHeld(q, acks) == \A id \in acks : Holds(q, id)

\* A packet that is forgotten is held by the peer, and so is one whose acknowledgment is due,
\* built or under way.
HeldInv ==
  /\ AcknowledgedIsHeld
  /\ \A packet \in link : AllHeld(packet.from, packet.acks)
  /\ \A q \in Peers :
       /\ AllHeld(q, pendingAck[q])
       /\ AllHeld(q, ackInHand[q])
       /\ \A t \in inFlight[q] : AllHeld(q, t.packet.acks)

\* As long as the receive buffer covers what an end has written, the send buffer forgets a
\* packet only once the peer holds it, and every acknowledgment under way is of a packet the
\* peer holds.  No buffer outgrows its size (TryInsertIncomingPacket, OnIncomingPacket,
\* ReturnAcknowledgmentIDs).
HeldWhenCovered == (Covered => HeldInv) /\ BuffersBounded

OnlyControlIsNumbered(packet) == packet.opcode # "control" => packet.id = 0

\* Every packet of the send buffer has an id of its own; id 0 is the soft reset, sent once.
SendBufferSound(tracked, open) ==
  /\ IsFiniteSet(tracked) /\ Cardinality(tracked) <= ReliableSendBufferSize
  /\ \A t, u \in tracked : t.packet.id = u.packet.id => t = u
  /\ \A t \in tracked : OnlyControlIsNumbered(t.packet) /\ (t.packet.id = 0 => open)

\* The inductive invariant behind BuffersBounded.
BufferInv ==
  /\ \A packet \in link : OnlyControlIsNumbered(packet)
  /\ \A p \in Peers :
       /\ SendBufferSound(inFlight[p], opened[p])
       /\ IsFiniteSet(pending[p]) /\ Cardinality(pending[p]) <= ReliableReceiveBufferSize
       /\ Cardinality(pendingAck[p]) <= AcknowledgmentSetCapacity
       /\ Len(readChunks[p]) <= ReadChunksCapacity
=============================================================================
