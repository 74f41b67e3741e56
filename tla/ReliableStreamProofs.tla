------------------------ MODULE ReliableStreamProofs ------------------------
(* The stream: what each TLS stack reads is what its peer wrote, in order. *)
EXTENDS Reliable, TLAPS

\* The prover of a leaf that names none.
USE Zenon

\* A control channel has two ends, each the peer of the other.
LEMMA OtherPeer ==
  \A p \in Peers : Other(p) \in Peers /\ Other(p) # p /\ Other(Other(p)) = p
BY PeersAssumption, SMT DEF Peers, Other

\* The types of what one end has written, buffered and consumed.
LEMMA PeerTypes ==
  ASSUME TypeOK, NEW q \in Peers
  PROVE  /\ written[q] \in Seq(Payload \cup {Empty})
         /\ Len(written[q]) \in Nat
         /\ lastConsumed[q] \in Nat
         /\ pending[q] \subseteq Chunk
         /\ nextID[q] \in Nat
<1>1. written[q] \in Seq(Payload \cup {Empty})
  BY DEF TypeOK
<1>2. lastConsumed[q] \in Nat /\ pending[q] \subseteq Chunk /\ nextID[q] \in Nat
  BY DEF TypeOK
<1> QED BY <1>1, <1>2, SMT

\* What enters the send buffer is a packet.
LEMMA InsertedPacket ==
  ASSUME TypeOK, TypeOK', NEW p \in Peers, NEW packet, NEW maximum,
         InsertOutgoingPacket(p, packet, maximum)
  PROVE  packet \in Packet
<1> DEFINE new == [packet |-> packet, scheduled |-> FALSE, higher |-> 0]
<1>1. new \in inFlight'[p]
  BY DEF InsertOutgoingPacket, TypeOK
<1>2. new \in Tracked
  BY <1>1 DEF TypeOK
<1>3. new.packet = packet
  OBVIOUS
<1> HIDE DEF new
<1> QED BY <1>2, <1>3 DEF Tracked

\* One more control packet is written.
LEMMA WrittenAppended ==
  ASSUME NEW w \in Seq(Payload \cup {Empty}), NEW v \in Payload \cup {Empty}
  PROVE  /\ Len(Append(w, v)) = Len(w) + 1
         /\ Append(w, v)[Len(w) + 1] = v
BY SMT

\* Building a packet leaves everything true of earlier ids true.
LEMMA WrittenGrows ==
  ASSUME StreamInv, NEW p \in Peers, NEW v \in Payload \cup {Empty},
         written' = [written EXCEPT ![p] = Append(@, v)],
         UNCHANGED recvVars
  PROVE  /\ \A packet \in Packet : TruePacket(packet) => TruePacket(packet)'
         /\ ChunksTrue' /\ ChunksOrdered' /\ NothingSkipped'
<1>1. ASSUME NEW q \in Peers
      PROVE  /\ Len(written'[q]) >= Len(written[q])
             /\ \A i \in 1..Len(written[q]) : written'[q][i] = written[q][i]
             /\ Len(written[q]) \in Nat /\ Len(written'[q]) \in Nat
  <2>1. written[q] \in Seq(Payload \cup {Empty})
    BY DEF StreamInv, TypeOK
  <2>2. CASE q = p
    <3>1. written'[q] = Append(written[q], v)
      BY <2>2 DEF StreamInv, TypeOK
    <3> QED BY <2>1, <3>1, SMT
  <2>3. CASE q # p
    <3>1. written'[q] = written[q]
      BY <2>3 DEF StreamInv, TypeOK
    <3> QED BY <2>1, <3>1, SMT
  <2> QED BY <2>2, <2>3
<1>2. ASSUME NEW packet \in Packet, TruePacket(packet) PROVE TruePacket(packet)'
  BY <1>1, <1>2, SMT DEF TruePacket, Packet
<1>3. ASSUME NEW q \in Peers, NEW chunk \in Chunk, TrueChunk(q, chunk)
      PROVE  TrueChunk(q, chunk)'
  BY <1>1, <1>3, OtherPeer, SMT DEF TrueChunk, Chunk
<1>4. ChunksTrue'
  <2> SUFFICES ASSUME NEW q \in Peers
               PROVE  /\ lastConsumed'[q] <= Len(written'[Other(q)])
                      /\ \A chunk \in pending'[q] :
                           TrueChunk(q, chunk)' /\ chunk.id > lastConsumed'[q]
                      /\ TrueChunks(q, ready[q])'
                      /\ TrueChunks(q, readChunks[q])'
                      /\ TrueChunks(q, delivered[q])'
    BY DEF ChunksTrue
  <2>1. lastConsumed'[q] <= Len(written'[Other(q)])
    BY <1>1, OtherPeer, SMT DEF StreamInv, TypeOK, ChunksTrue, recvVars
  <2>2. \A chunk \in pending'[q] : TrueChunk(q, chunk)' /\ chunk.id > lastConsumed'[q]
    BY <1>3 DEF StreamInv, TypeOK, ChunksTrue, recvVars
  <2>3. ASSUME NEW chunks \in Seq(Chunk), TrueChunks(q, chunks)
        PROVE  \A i \in 1..Len(chunks) :
                 TrueChunk(q, chunks[i])' /\ chunks[i].id <= lastConsumed'[q]
    BY <1>3, <2>3, SMT DEF TrueChunks, recvVars
  <2>4. TrueChunks(q, ready[q])'
    BY Zenon, <2>3 DEF StreamInv, TypeOK, ChunksTrue, recvVars, TrueChunks
  <2>5. TrueChunks(q, readChunks[q])'
    BY Zenon, <2>3 DEF StreamInv, TypeOK, ChunksTrue, recvVars, TrueChunks
  <2>6. TrueChunks(q, delivered[q])'
    BY Zenon, <2>3 DEF StreamInv, TypeOK, ChunksTrue, recvVars, TrueChunks
  <2> QED BY <2>1, <2>2, <2>4, <2>5, <2>6
<1>5. ChunksOrdered'
  BY SMT DEF StreamInv, ChunksOrdered, recvVars, Ascending, Below
<1>6. NothingSkipped'
  <2> SUFFICES ASSUME NEW q \in Peers, NEW id \in 1..lastConsumed[q],
                      written'[Other(q)][id] # Empty
               PROVE  OnItsWay(q, id)'
    BY Zenon DEF NothingSkipped, recvVars
  <2>1. id \in 1..Len(written[Other(q)])
    <3>1. lastConsumed[q] \in Nat /\ lastConsumed[q] <= Len(written[Other(q)])
      BY DEF StreamInv, ChunksTrue, TypeOK
    <3>2. Len(written[Other(q)]) \in Nat
      BY <1>1, OtherPeer
    <3> QED BY <3>1, <3>2, SMT
  <2>2. OnItsWay(q, id)
    BY <1>1, <2>1, OtherPeer DEF StreamInv, NothingSkipped
  <2> QED BY <2>2, SMT DEF OnItsWay, recvVars, Ids
<1> QED BY <1>2, <1>4, <1>5, <1>6

\* Nothing changes on the receiving side.
LEMMA StreamUnchanged ==
  ASSUME StreamInv, UNCHANGED <<recvVars, written>>
  PROVE  /\ \A packet \in Packet : TruePacket(packet) => TruePacket(packet)'
         /\ ChunksTrue' /\ ChunksOrdered' /\ NothingSkipped'
<1>1. ChunksTrue'
  BY SMT DEF StreamInv, ChunksTrue, TrueChunks, TrueChunk, recvVars
<1>2. ChunksOrdered'
  BY SMT DEF StreamInv, ChunksOrdered, Ascending, Below, recvVars
<1>3. NothingSkipped'
  BY SMT DEF StreamInv, NothingSkipped, OnItsWay, Ids, recvVars
<1> QED BY SMTT(30), <1>1, <1>2, <1>3 DEF TruePacket

\* A packet that enters the send buffer and the link.
LEMMA InsertedPacketsTrue ==
  ASSUME StreamInv, TypeOK', NEW p \in Peers, NEW packet \in Packet, NEW maximum,
         InsertOutgoingPacket(p, packet, maximum),
         link' = link \/ OnLink(p, {packet}),
         packet.from = p, TruePacket(packet)',
         \A m \in Packet : TruePacket(m) => TruePacket(m)'
  PROVE  PacketsTrue'
<1>1. \A m \in link' : TruePacket(m)'
  <2>1. link' \subseteq link \cup {packet}
    BY Zenon DEF OnLink
  <2>2. link \subseteq Packet
    BY DEF StreamInv, TypeOK
  <2> QED BY <2>1, <2>2 DEF StreamInv, PacketsTrue
<1>2. ASSUME NEW q \in Peers, NEW t \in inFlight'[q]
      PROVE  t.packet.from = q /\ TruePacket(t.packet)'
  <2>1. inFlight[q] \subseteq Tracked
    BY DEF StreamInv, TypeOK
  <2>2. CASE t \in inFlight[q]
    <3>1. t.packet \in Packet
      BY <2>1, <2>2 DEF Tracked
    <3> QED BY <2>2, <3>1 DEF StreamInv, PacketsTrue
  <2>3. CASE t \notin inFlight[q]
    <3>1. q = p /\ t = [packet |-> packet, scheduled |-> FALSE, higher |-> 0]
      BY <2>3, <1>2 DEF InsertOutgoingPacket, StreamInv, TypeOK
    <3> QED BY <3>1
  <2> QED BY <2>2, <2>3
<1> QED BY <1>1, <1>2 DEF PacketsTrue

\* The send buffer and the link hold only packets they held before.
LEMMA KeptPacketsTrue ==
  ASSUME StreamInv, NEW p \in Peers,
         \A m \in Packet : TruePacket(m) => TruePacket(m)',
         \A m \in link' : \/ m \in link
                          \/ \E t \in inFlight[p] : m = t.packet
                          \/ m \in Packet /\ m.opcode = "ack",
         \A q \in Peers : \A t \in inFlight'[q] :
            \E u \in inFlight[q] : t.packet = u.packet
  PROVE  PacketsTrue'
<1>1. link \subseteq Packet /\ \A q \in Peers : \A t \in inFlight[q] : t.packet \in Packet
  BY SMT DEF StreamInv, TypeOK, Tracked
<1>2. \A m \in link' : TruePacket(m)'
  <2> SUFFICES ASSUME NEW m \in link' PROVE TruePacket(m)'
    OBVIOUS
  <2>1. CASE m \in link
    BY <1>1, <2>1 DEF StreamInv, PacketsTrue
  <2>2. CASE \E t \in inFlight[p] : m = t.packet
    BY <1>1, <2>2, SMT DEF StreamInv, PacketsTrue
  <2>3. CASE m \in Packet /\ m.opcode = "ack"
    BY <2>3 DEF TruePacket
  <2> QED BY <2>1, <2>2, <2>3
<1>3. ASSUME NEW q \in Peers, NEW t \in inFlight'[q]
      PROVE  t.packet.from = q /\ TruePacket(t.packet)'
  BY <1>1, SMT DEF StreamInv, PacketsTrue
<1> QED BY <1>2, <1>3 DEF PacketsTrue

\* What processIncomingControlPacket does to the receiving side.
LEMMA ReceiveStream ==
  ASSUME StreamInv, TypeOK', NEW p \in Peers, NEW packet \in link, ReceivePacket(p, packet)
  PROVE  ChunksTrue' /\ ChunksOrdered' /\ NothingSkipped'
<1> DEFINE chunk == [id |-> packet.id, payload |-> packet.payload]
           buffered == pending[p] \cup {chunk}
           Delivers(n, run) ==
             /\ NextOrderedSequence(lastConsumed[p], buffered, run)
             /\ lastConsumed' = [lastConsumed EXCEPT ![p] = @ + n]
             /\ pending' = [pending EXCEPT ![p] =
                              {c \in buffered : c.id > lastConsumed[p] + n}]
             /\ ready' = [ready EXCEPT ![p] = run]
           keep == /\ packet.opcode = "control"
                   /\ TryInsertIncomingPacket(lastConsumed[p], pending[p], packet)
<1>1. CASE UNCHANGED <<lastConsumed, pending, ready>>
  BY <1>1, StreamUnchanged DEF ReceivePacket, recvVars
<1>2. CASE keep /\ \E n \in 0..Cardinality(buffered) :
                     \E run \in [1..n -> buffered] : Delivers(n, run)
  <2>1. PICK n \in 0..Cardinality(buffered) : \E run \in [1..n -> buffered] : Delivers(n, run)
    BY Zenon, <1>2
  <2>2. PICK run \in [1..n -> buffered] : Delivers(n, run)
    BY Zenon, <2>1
  <2> DEFINE last == lastConsumed[p]
             w == written[Other(p)]
  <2>3. /\ n \in Nat /\ last \in Nat /\ Len(w) \in Nat /\ last <= Len(w)
        /\ Len(run) = n /\ Other(p) \in Peers
    <3>1. Len(run) = n
      BY SMT
    <3>2. w \in Seq(Payload \cup {Empty})
      BY ZenonT(30), OtherPeer DEF StreamInv, TypeOK
    <3> QED BY <3>1, <3>2, OtherPeer, SMT DEF StreamInv, TypeOK, ChunksTrue
  <2>4. ASSUME NEW b \in buffered
        PROVE  TrueChunk(p, b) /\ b.id > last /\ b.id \in Nat
    <3>1. packet \in Packet /\ packet.from = Other(p) /\ TruePacket(packet)
      <4>1. packet \in Packet
        BY DEF StreamInv, TypeOK
      <4>2. packet.from = Other(p)
        BY Zenon DEF ReceivePacket
      <4>3. TruePacket(packet)
        BY Zenon DEF StreamInv, PacketsTrue
      <4> QED BY <4>1, <4>2, <4>3
    <3>2. TrueChunk(p, chunk) /\ chunk.id > last
      BY SMTT(30), <1>2, <3>1 DEF TruePacket, TrueChunk, TryInsertIncomingPacket
    <3>3. CASE b \in pending[p]
      <4>1. b \in Chunk
        BY <3>3, PeerTypes DEF StreamInv
      <4> QED BY <3>3, <4>1 DEF StreamInv, ChunksTrue, Chunk
    <3> QED BY SMTT(30), <3>1, <3>2, <3>3 DEF Packet
  <2>5. \A i \in 1..n : run[i] \in buffered /\ run[i].id = last + i
    BY SMTT(30), <2>2, <2>3 DEF NextOrderedSequence
  <2> HIDE DEF chunk, buffered, keep
  <2>6. /\ lastConsumed'[p] = last + n
        /\ pending'[p] = {c \in buffered : c.id > last + n}
        /\ ready'[p] = run
        /\ ready[p] = <<>>
        /\ \A q \in Peers : q # p => /\ lastConsumed'[q] = lastConsumed[q]
                                     /\ pending'[q] = pending[q]
                                     /\ ready'[q] = ready[q]
    BY <2>2 DEF StreamInv, TypeOK, ReceivePacket
  <2>7. UNCHANGED <<written, readChunks, delivered, stopped>> /\ ~stopped[p]
    BY DEF ReceivePacket
  <2> HIDE DEF Delivers
  <2>8. last + n <= Len(w)
    <3>1. CASE n = 0
      BY <2>3, <3>1, SMT
    <3>2. CASE n > 0
      <4>1. run[n] \in buffered /\ run[n].id = last + n
        BY <2>3, <2>5, <3>2, SMT
      <4> QED BY <4>1, <2>4, SMT DEF TrueChunk
    <3> QED BY <2>3, <3>1, <3>2, SMT
  <2>9. ChunksTrue'
    <3> SUFFICES ASSUME NEW q \in Peers
                 PROVE  /\ lastConsumed'[q] <= Len(written[Other(q)])
                        /\ \A b \in pending'[q] : TrueChunk(q, b) /\ b.id > lastConsumed'[q]
                        /\ TrueChunks(q, ready[q])'
                        /\ TrueChunks(q, readChunks[q])'
                        /\ TrueChunks(q, delivered[q])'
      BY SMTT(30), <2>7 DEF ChunksTrue, TrueChunk
    <3>1. CASE q # p
      <4>1. /\ lastConsumed'[q] = lastConsumed[q] /\ pending'[q] = pending[q]
            /\ ready'[q] = ready[q] /\ written' = written
            /\ delivered'[q] = delivered[q] /\ readChunks'[q] = readChunks[q]
        BY <2>6, <2>7, <3>1
      <4>2. /\ lastConsumed[q] <= Len(written[Other(q)])
            /\ \A b \in pending[q] : TrueChunk(q, b) /\ b.id > lastConsumed[q]
            /\ TrueChunks(q, ready[q])
            /\ TrueChunks(q, readChunks[q])
            /\ TrueChunks(q, delivered[q])
        BY DEF StreamInv, ChunksTrue
      <4> QED BY SMTT(30), <4>1, <4>2 DEF TrueChunks, TrueChunk
    <3>2. CASE q = p
      <4>1. \A b \in pending'[q] : TrueChunk(q, b) /\ b.id > lastConsumed'[q]
        BY SMTT(30), <2>4, <2>6, <3>2
      <4>2. TrueChunks(q, ready[q])'
        BY SMTT(40), <2>3, <2>4, <2>5, <2>6, <2>7, <3>2 DEF TrueChunks, TrueChunk
      <4>3. TrueChunks(q, readChunks[q])' /\ TrueChunks(q, delivered[q])'
        <5>1. ASSUME NEW c \in Chunk, TrueChunk(p, c), c.id <= last
              PROVE  TrueChunk(p, c)' /\ c.id <= lastConsumed'[p]
          BY <2>3, <2>6, <2>7, <5>1, SMT DEF TrueChunk, Chunk
        <5>2. /\ readChunks[p] \in Seq(Chunk) /\ TrueChunks(p, readChunks[p])
              /\ delivered[p] \in Seq(Chunk) /\ TrueChunks(p, delivered[p])
          BY DEF StreamInv, TypeOK, ChunksTrue
        <5> QED BY <2>7, <3>2, <5>1, <5>2, SMT DEF TrueChunks
      <4> QED BY SMTT(30), <2>6, <2>8, <3>2, <4>1, <4>2, <4>3
    <3> QED BY <3>1, <3>2
  <2>10. ChunksOrdered'
    <3> SUFFICES ASSUME NEW q \in Peers
                 PROVE  /\ Ascending(delivered[q]) /\ Ascending(readChunks[q])
                        /\ Ascending(ready'[q])
                        /\ Below(delivered[q], readChunks[q])
                        /\ Below(delivered[q], ready'[q])
                        /\ Below(readChunks[q], ready'[q])
      BY SMTT(30), <2>7 DEF ChunksOrdered, Ascending, Below
    <3>1. CASE q # p
      BY <2>6, <3>1 DEF StreamInv, ChunksOrdered
    <3>2. CASE q = p
      <4>1. Ascending(ready'[q])
        <5>1. Ascending(run)
          BY <2>3, <2>5, SMT DEF Ascending
        <5> QED BY <2>6, <3>2, <5>1
      <4>2. ASSUME NEW chunks \in Seq(Chunk), TrueChunks(p, chunks)
            PROVE  Below(chunks, ready'[q])
        <5>1. \A i \in 1..Len(chunks) : chunks[i].id \in Nat /\ chunks[i].id <= last
          <6>1. \A i \in 1..Len(chunks) : chunks[i] \in Chunk
            BY SMT
          <6> QED BY <4>2, <6>1 DEF TrueChunks, Chunk
        <5> QED BY SMTT(30), <2>3, <2>5, <2>6, <3>2, <5>1 DEF Below
      <4>3. Below(delivered[q], ready'[q]) /\ Below(readChunks[q], ready'[q])
        BY SMTT(30), <3>2, <4>2 DEF StreamInv, TypeOK, ChunksTrue
      <4> QED BY <3>2, <4>1, <4>3 DEF StreamInv, ChunksOrdered
    <3> QED BY <3>1, <3>2
  <2>11. NothingSkipped'
    <3> SUFFICES ASSUME NEW q \in Peers, NEW id \in 1..lastConsumed'[q],
                        written[Other(q)][id] # Empty
                 PROVE  OnItsWay(q, id)'
      BY <2>7 DEF NothingSkipped
    <3>1. CASE q # p
      <4>1. OnItsWay(q, id)
        BY SMTT(30), <2>6, <3>1 DEF StreamInv, NothingSkipped
      <4>2. /\ delivered'[q] = delivered[q] /\ readChunks'[q] = readChunks[q]
            /\ ready'[q] = ready[q] /\ stopped'[q] = stopped[q]
        BY <2>6, <2>7, <3>1
      <4> QED BY SMTT(30), <4>1, <4>2 DEF OnItsWay, Ids
    <3>2. CASE q = p /\ id <= last
      <4>1. OnItsWay(q, id)
        BY SMTT(30), <2>3, <3>2 DEF StreamInv, NothingSkipped
      <4>2. id \in Ids(delivered[p]) \cup Ids(readChunks[p])
        <5>1. Ids(ready[p]) = {}
          BY <2>6, SMT DEF Ids
        <5> QED BY <2>7, <3>2, <4>1, <5>1 DEF OnItsWay
      <4> QED BY <2>7, <3>2, <4>2 DEF OnItsWay, Ids
    <3>3. CASE q = p /\ id > last
      <4>1. id - last \in 1..n /\ run[id - last].id = id
        BY SMTT(40), <2>3, <2>5, <2>6, <3>3
      <4>2. id \in Ids(run)
        BY <2>3, <4>1 DEF Ids
      <4> QED BY SMTT(30), <2>6, <3>3, <4>2 DEF OnItsWay, Ids
    <3> QED BY SMTT(40), <2>3, <3>1, <3>2, <3>3, <2>6
  <2> QED BY <2>9, <2>10, <2>11
<1> QED BY Zenon, <1>1, <1>2 DEF ReceivePacket

\* Chunks stay true as long as the lists hold true chunks and nothing is written or
\* consumed.
LEMMA ChunksKept ==
  ASSUME StreamInv, UNCHANGED <<lastConsumed, pending, written>>,
         \A q \in Peers : /\ TrueChunks(q, ready'[q]) /\ TrueChunks(q, readChunks'[q])
                          /\ TrueChunks(q, delivered'[q])
  PROVE  ChunksTrue'
<1>1. ASSUME NEW q \in Peers, NEW chunks, TrueChunks(q, chunks)
      PROVE  \A i \in 1..Len(chunks) :
               /\ chunks[i].id \in 1..Len(written'[Other(q)])
               /\ chunks[i].payload = written'[Other(q)][chunks[i].id]
               /\ chunks[i].id <= lastConsumed'[q]
  BY Zenon, <1>1 DEF TrueChunks, TrueChunk
<1>2. ASSUME NEW q \in Peers
      PROVE  TrueChunks(q, ready[q])' /\ TrueChunks(q, readChunks[q])' /\ TrueChunks(q, delivered[q])'
  BY Zenon, <1>1, <1>2 DEF TrueChunks, TrueChunk
<1>3. ASSUME NEW q \in Peers
      PROVE  /\ lastConsumed'[q] <= Len(written'[Other(q)])
             /\ \A chunk \in pending'[q] : TrueChunk(q, chunk)' /\ chunk.id > lastConsumed'[q]
  BY Zenon, <1>3 DEF StreamInv, ChunksTrue, TrueChunk
<1> QED BY Zenon, <1>2, <1>3 DEF ChunksTrue

\* Moving the head of one list to the end of another keeps the order.
LEMMA MoveHead ==
  ASSUME NEW a \in Seq(Chunk), NEW b \in Seq(Chunk), b # <<>>,
         Ascending(a), Ascending(b), Below(a, b)
  PROVE  LET a2 == Append(a, Head(b))
             b2 == Tail(b)
         IN  /\ Ascending(a2) /\ Ascending(b2) /\ Below(a2, b2)
             /\ \A c \in Seq(Chunk) :
                  /\ Below(a, c) /\ Below(b, c) => Below(a2, c) /\ Below(b2, c)
                  /\ Below(c, a) /\ Below(c, b) => Below(c, a2) /\ Below(c, b2)
             /\ Ids(a2) \cup Ids(b2) = Ids(a) \cup Ids(b)
             /\ Ids(a) \subseteq Ids(a2) /\ Ids(b2) \subseteq Ids(b)
             /\ \A i \in 1..Len(a2) : \/ i \in 1..Len(a) /\ a2[i] = a[i]
                                      \/ a2[i] = b[1]
             /\ \A i \in 1..Len(b2) : i + 1 \in 1..Len(b) /\ b2[i] = b[i + 1]
<1> DEFINE a2 == Append(a, Head(b))
           b2 == Tail(b)
<1>1. /\ Len(a) \in Nat /\ Len(b) \in Nat /\ Len(b) >= 1
      /\ Len(a2) = Len(a) + 1 /\ Len(b2) = Len(b) - 1
      /\ \A i \in 1..Len(a) : a2[i] = a[i]
      /\ a2[Len(a) + 1] = b[1]
      /\ \A i \in 1..Len(b2) : b2[i] = b[i + 1]
  BY SMT
<1> HIDE DEF a2, b2
<1>2. /\ \A i \in 1..Len(a2) : (i \in 1..Len(a) /\ a2[i] = a[i]) \/ (i = Len(a) + 1 /\ a2[i] = b[1])
      /\ \A i \in 1..Len(b2) : i + 1 \in 1..Len(b) /\ 1 < i + 1 /\ b2[i] = b[i + 1]
      /\ 1 \in 1..Len(b)
  BY <1>1, SMT
<1>3. Ascending(a2)
  BY <1>1, <1>2, SMT DEF Ascending, Below
<1>4. Ascending(b2)
  <2> SUFFICES ASSUME NEW i \in 1..Len(b2), NEW j \in 1..Len(b2), i < j
               PROVE  b2[i].id < b2[j].id
    BY DEF Ascending
  <2>1. i + 1 \in 1..Len(b) /\ j + 1 \in 1..Len(b) /\ i + 1 < j + 1
    BY <1>1, SMT
  <2> QED BY Zenon, <1>2, <2>1 DEF Ascending
<1>5. Below(a2, b2)
  BY Zenon, <1>1, <1>2 DEF Ascending, Below
<1>6. ASSUME NEW c \in Seq(Chunk)
      PROVE  /\ Below(a, c) /\ Below(b, c) => Below(a2, c) /\ Below(b2, c)
             /\ Below(c, a) /\ Below(c, b) => Below(c, a2) /\ Below(c, b2)
  <2>1. Below(a, c) /\ Below(b, c) => Below(a2, c)
    BY Zenon, <1>2 DEF Below
  <2>2. Below(b, c) => Below(b2, c)
    BY <1>2 DEF Below
  <2>3. Below(c, a) /\ Below(c, b) => Below(c, a2)
    BY Zenon, <1>2 DEF Below
  <2>4. Below(c, b) => Below(c, b2)
    BY <1>2 DEF Below
  <2> QED BY <2>1, <2>2, <2>3, <2>4
<1>7. Ids(a2) \cup Ids(b2) = Ids(a) \cup Ids(b)
  <2>1. ASSUME NEW id \in Ids(a2) \cup Ids(b2) PROVE id \in Ids(a) \cup Ids(b)
    <3>1. CASE id \in Ids(a2)
      <4>1. PICK i \in 1..Len(a2) : id = a2[i].id
        BY Zenon, <3>1 DEF Ids
      <4>2. (i \in 1..Len(a) /\ a2[i] = a[i]) \/ (1 \in 1..Len(b) /\ a2[i] = b[1])
        BY Zenon, <1>2
      <4> QED BY Zenon, <4>1, <4>2 DEF Ids
    <3>2. CASE id \in Ids(b2)
      <4>1. PICK i \in 1..Len(b2) : id = b2[i].id
        BY Zenon, <3>2 DEF Ids
      <4>2. i + 1 \in 1..Len(b) /\ b2[i] = b[i + 1]
        BY Zenon, <1>2
      <4> QED BY Zenon, <4>1, <4>2 DEF Ids
    <3> QED BY Zenon, <2>1, <3>1, <3>2
  <2>2. ASSUME NEW i \in 1..Len(a) PROVE i \in 1..Len(a2) /\ a2[i] = a[i]
    BY <1>1, SMT
  <2>3. ASSUME NEW i \in 1..Len(b)
        PROVE  \/ Len(a) + 1 \in 1..Len(a2) /\ a2[Len(a) + 1] = b[i]
               \/ i - 1 \in 1..Len(b2) /\ b2[i - 1] = b[i]
    BY <1>1, SMT
  <2>4. ASSUME NEW id \in Ids(a) \cup Ids(b) PROVE id \in Ids(a2) \cup Ids(b2)
    BY ZenonT(30), <2>2, <2>3, SMT DEF Ids
  <2> QED BY <2>1, <2>4
<1>8. Ids(a) \subseteq Ids(a2)
  <2>1. ASSUME NEW i \in 1..Len(a) PROVE i \in 1..Len(a2) /\ a2[i] = a[i]
    BY <1>1, SMT
  <2> QED BY <2>1 DEF Ids
<1>9. Ids(b2) \subseteq Ids(b)
  BY <1>2, SMT DEF Ids
<1> QED BY <1>1, <1>2, <1>3, <1>4, <1>5, <1>6, <1>7, <1>8, <1>9 DEF a2, b2

\* Dropping the head of a list keeps the order.
LEMMA DropHead ==
  ASSUME NEW b \in Seq(Chunk), b # <<>>, Ascending(b)
  PROVE  /\ Ascending(Tail(b))
         /\ \A c \in Seq(Chunk) : Below(c, b) => Below(c, Tail(b))
         /\ \A id \in Ids(b) : id = Head(b).id \/ id \in Ids(Tail(b))
         /\ \A i \in 1..Len(Tail(b)) : i + 1 \in 1..Len(b) /\ Tail(b)[i] = b[i + 1]
<1> DEFINE b2 == Tail(b)
<1>1. /\ Len(b) \in Nat /\ Len(b) >= 1 /\ Len(b2) = Len(b) - 1
      /\ Head(b) = b[1]
      /\ \A i \in 1..Len(b2) : b2[i] = b[i + 1]
  BY SMT
<1> HIDE DEF b2
<1>2. \A i \in 1..Len(b2) : i + 1 \in 1..Len(b) /\ 1 < i + 1 /\ b2[i] = b[i + 1]
  BY <1>1, SMT
<1>3. ASSUME NEW i \in 1..Len(b)
      PROVE  i = 1 \/ (i - 1 \in 1..Len(b2) /\ b2[i - 1] = b[i])
  BY <1>1, SMT
<1>4. Ascending(b2)
  BY <1>1, <1>2, SMT DEF Ascending
<1>5. \A c \in Seq(Chunk) : Below(c, b) => Below(c, b2)
  BY SMTT(30), <1>1, <1>2 DEF Below
<1>6. \A id \in Ids(b) : id = Head(b).id \/ id \in Ids(b2)
  <2> SUFFICES ASSUME NEW i \in 1..Len(b)
               PROVE  b[i].id = Head(b).id \/ b[i].id \in Ids(b2)
    BY DEF Ids
  <2>1. CASE i = 1
    BY <1>1, <2>1
  <2>2. CASE i - 1 \in 1..Len(b2) /\ b2[i - 1] = b[i]
    BY <2>2 DEF Ids
  <2> QED BY <1>3, <2>1, <2>2
<1> QED BY <1>1, <1>2, <1>4, <1>5, <1>6 DEF b2

\* Read moves a chunk from the channel to the TLS stack.
LEMMA ReadStream ==
  ASSUME StreamInv, NEW p \in Peers, Read(p)
  PROVE  ChunksTrue' /\ ChunksOrdered' /\ NothingSkipped'
<1> DEFINE a == delivered[p]
           b == readChunks[p]
           r == ready[p]
<1>1. /\ a \in Seq(Chunk) /\ b \in Seq(Chunk) /\ b # <<>> /\ r \in Seq(Chunk)
      /\ Ascending(a) /\ Ascending(b) /\ Below(a, b) /\ Below(a, r) /\ Below(b, r)
  BY DEF Read, StreamInv, TypeOK, ChunksOrdered
<1>2. /\ delivered'[p] = Append(a, Head(b)) /\ readChunks'[p] = Tail(b)
      /\ \A q \in Peers : q # p => delivered'[q] = delivered[q] /\ readChunks'[q] = readChunks[q]
      /\ UNCHANGED <<lastConsumed, pending, ready, stopped, written>>
  BY DEF Read, StreamInv, TypeOK, sendVars
<1>3. /\ Ascending(delivered'[p]) /\ Ascending(readChunks'[p])
      /\ Below(delivered'[p], readChunks'[p])
      /\ Below(delivered'[p], r) /\ Below(readChunks'[p], r)
      /\ Ids(delivered'[p]) \cup Ids(readChunks'[p]) = Ids(a) \cup Ids(b)
      /\ \A i \in 1..Len(delivered'[p]) :
           \/ i \in 1..Len(a) /\ delivered'[p][i] = a[i]
           \/ delivered'[p][i] = b[1]
      /\ \A i \in 1..Len(readChunks'[p]) :
           i + 1 \in 1..Len(b) /\ readChunks'[p][i] = b[i + 1]
  <2> HIDE DEF a, b, r
  <2>1. /\ Ascending(Append(a, Head(b))) /\ Ascending(Tail(b))
        /\ Below(Append(a, Head(b)), Tail(b))
    BY Zenon, <1>1, MoveHead
  <2>2. Below(Append(a, Head(b)), r) /\ Below(Tail(b), r)
    BY Zenon, <1>1, MoveHead
  <2>3. Ids(Append(a, Head(b))) \cup Ids(Tail(b)) = Ids(a) \cup Ids(b)
    BY Zenon, <1>1, MoveHead
  <2>4. \A i \in 1..Len(Append(a, Head(b))) :
          \/ i \in 1..Len(a) /\ Append(a, Head(b))[i] = a[i]
          \/ Append(a, Head(b))[i] = b[1]
    BY Zenon, <1>1, MoveHead
  <2>5. \A i \in 1..Len(Tail(b)) : i + 1 \in 1..Len(b) /\ Tail(b)[i] = b[i + 1]
    BY ZenonT(30), <1>1, MoveHead
  <2> QED BY Zenon, <1>2, <2>1, <2>2, <2>3, <2>4, <2>5
<1>4. 1 \in 1..Len(b)
  BY <1>1, SMT
<1> HIDE DEF a, b, r
<1>5. ChunksOrdered'
  <2> SUFFICES ASSUME NEW q \in Peers
               PROVE  /\ Ascending(delivered'[q]) /\ Ascending(readChunks'[q])
                      /\ Ascending(ready[q])
                      /\ Below(delivered'[q], readChunks'[q])
                      /\ Below(delivered'[q], ready[q])
                      /\ Below(readChunks'[q], ready[q])
    BY ZenonT(30), <1>2, SMT DEF ChunksOrdered, Ascending, Below
  <2> QED BY Zenon, <1>2, <1>3 DEF StreamInv, ChunksOrdered, r
<1>6. ChunksTrue'
  <2> SUFFICES ASSUME NEW q \in Peers
               PROVE  TrueChunks(q, delivered'[q]) /\ TrueChunks(q, readChunks'[q])
    BY ZenonT(30), <1>2, SMT DEF ChunksTrue, TrueChunks, TrueChunk, StreamInv
  <2>1. TrueChunks(p, a) /\ TrueChunks(p, b)
    BY DEF StreamInv, ChunksTrue, a, b
  <2>2. CASE q = p
    BY SMTT(30), <1>3, <1>4, <2>1, <2>2 DEF TrueChunks
  <2>3. CASE q # p
    BY <1>2, <2>3 DEF StreamInv, ChunksTrue
  <2> QED BY <2>2, <2>3
<1>7. NothingSkipped'
  <2> SUFFICES ASSUME NEW q \in Peers, NEW id \in 1..lastConsumed[q],
                      written[Other(q)][id] # Empty
               PROVE  OnItsWay(q, id)'
    BY <1>2 DEF NothingSkipped
  <2>1. OnItsWay(q, id)
    BY DEF StreamInv, NothingSkipped
  <2>2. Ids(delivered'[q]) \cup Ids(readChunks'[q]) = Ids(delivered[q]) \cup Ids(readChunks[q])
    BY ZenonT(30), <1>2, <1>3 DEF a, b
  <2>3. /\ Ids(delivered[q])' = Ids(delivered'[q]) /\ Ids(readChunks[q])' = Ids(readChunks'[q])
        /\ Ids(ready[q])' = Ids(ready[q])
    BY <1>2 DEF Ids
  <2> QED BY SMTT(30), <1>2, <2>1, <2>2, <2>3 DEF OnItsWay
<1> QED BY <1>5, <1>6, <1>7

\* runReader moves a chunk into the channel, or skips one without bytes.
LEMMA PushStream ==
  ASSUME StreamInv, NEW p \in Peers, PushChunk(p)
  PROVE  ChunksTrue' /\ ChunksOrdered' /\ NothingSkipped'
<1> DEFINE d == delivered[p]
           a == readChunks[p]
           b == ready[p]
<1>1. /\ a \in Seq(Chunk) /\ b \in Seq(Chunk) /\ b # <<>> /\ d \in Seq(Chunk)
      /\ Ascending(a) /\ Ascending(b) /\ Below(a, b) /\ Below(d, a) /\ Below(d, b)
  BY DEF PushChunk, StreamInv, TypeOK, ChunksOrdered
<1>2. /\ ready'[p] = Tail(b)
      /\ \A q \in Peers : q # p => ready'[q] = ready[q] /\ readChunks'[q] = readChunks[q]
      /\ UNCHANGED <<lastConsumed, pending, delivered, stopped, written>>
  BY SMTT(30) DEF PushChunk, StreamInv, TypeOK, sendVars
<1>3. \/ Head(b).payload = Empty /\ readChunks'[p] = a
      \/ Head(b).payload # Empty /\ readChunks'[p] = Append(a, Head(b))
  BY Zenon DEF PushChunk, StreamInv, TypeOK
<1>4. Head(b) = b[1] /\ 1 \in 1..Len(b)
  BY <1>1, SMT
<1>5. TrueChunks(p, a) /\ TrueChunks(p, b) /\ TrueChunks(p, d)
  BY SMTT(30) DEF StreamInv, ChunksTrue
<1> HIDE DEF d, a, b
<1>6. /\ Ascending(readChunks'[p]) /\ Ascending(ready'[p])
      /\ Below(readChunks'[p], ready'[p])
      /\ Below(d, readChunks'[p]) /\ Below(d, ready'[p])
      /\ TrueChunks(p, readChunks'[p]) /\ TrueChunks(p, ready'[p])
  <2>1. CASE readChunks'[p] = a
    <3>1. Ascending(ready'[p]) /\ Below(a, ready'[p]) /\ Below(d, ready'[p])
      BY Zenon, <1>1, <1>2, DropHead
    <3>2. TrueChunks(p, ready'[p])
      <4>1. \A i \in 1..Len(ready'[p]) : i + 1 \in 1..Len(b) /\ ready'[p][i] = b[i + 1]
        BY <1>1, <1>2, DropHead, SMT
      <4> QED BY ZenonT(30), <1>5, <4>1 DEF TrueChunks
    <3> QED BY <1>1, <1>5, <2>1, <3>1, <3>2
  <2>2. CASE readChunks'[p] = Append(a, Head(b))
    <3>1. /\ Ascending(readChunks'[p]) /\ Ascending(ready'[p])
          /\ Below(readChunks'[p], ready'[p])
          /\ Below(d, readChunks'[p]) /\ Below(d, ready'[p])
      <4>1. /\ Ascending(Append(a, Head(b))) /\ Ascending(Tail(b))
            /\ Below(Append(a, Head(b)), Tail(b))
        BY Zenon, <1>1, MoveHead
      <4>2. Below(d, Append(a, Head(b))) /\ Below(d, Tail(b))
        BY ZenonT(30), <1>1, MoveHead
      <4> QED BY Zenon, <1>2, <2>2, <4>1, <4>2
    <3>2. /\ \A i \in 1..Len(readChunks'[p]) : \/ i \in 1..Len(a) /\ readChunks'[p][i] = a[i]
                                               \/ readChunks'[p][i] = b[1]
          /\ \A i \in 1..Len(ready'[p]) : i + 1 \in 1..Len(b) /\ ready'[p][i] = b[i + 1]
      BY <1>1, <1>2, <2>2, MoveHead, SMT
    <3>3. TrueChunks(p, readChunks'[p]) /\ TrueChunks(p, ready'[p])
      BY ZenonT(30), <1>4, <1>5, <3>2 DEF TrueChunks
    <3> QED BY <3>1, <3>3
  <2> QED BY SMTT(30), <1>3, <2>1, <2>2
<1>7. ChunksOrdered'
  <2> SUFFICES ASSUME NEW q \in Peers
               PROVE  /\ Ascending(delivered[q]) /\ Ascending(readChunks'[q])
                      /\ Ascending(ready'[q])
                      /\ Below(delivered[q], readChunks'[q])
                      /\ Below(delivered[q], ready'[q])
                      /\ Below(readChunks'[q], ready'[q])
    BY <1>2, SMT DEF ChunksOrdered, Ascending, Below
  <2> QED BY ZenonT(30), <1>2, <1>6 DEF StreamInv, ChunksOrdered, d
<1>8. ChunksTrue'
  <2> SUFFICES ASSUME NEW q \in Peers
               PROVE  TrueChunks(q, readChunks'[q]) /\ TrueChunks(q, ready'[q])
    BY Zenon, <1>2, ChunksKept DEF ChunksTrue, StreamInv
  <2> QED BY Zenon, <1>2, <1>6 DEF StreamInv, ChunksTrue
<1>9. NothingSkipped'
  <2> SUFFICES ASSUME NEW q \in Peers, NEW id \in 1..lastConsumed[q],
                      written[Other(q)][id] # Empty
               PROVE  OnItsWay(q, id)'
    BY <1>2 DEF NothingSkipped
  <2>1. OnItsWay(q, id)
    BY DEF StreamInv, NothingSkipped
  <2>2. /\ Ids(delivered[q])' = Ids(delivered[q])
        /\ Ids(readChunks[q])' = Ids(readChunks'[q])
        /\ Ids(ready[q])' = Ids(ready'[q])
    BY ZenonT(30), <1>2 DEF Ids
  <2>3. CASE q # p
    BY <1>2, <2>1, <2>2, <2>3 DEF OnItsWay
  <2>4. CASE q = p
    <3>1. id \in Ids(d) \cup Ids(a) \cup Ids(b)
      BY ZenonT(30), <1>1, <2>1, <2>4 DEF OnItsWay, d, a, b
    <3>2. CASE Head(b).payload = Empty /\ readChunks'[p] = a
      <4>1. id # Head(b).id
        BY <1>4, <1>5, <2>4, <3>2, SMT DEF TrueChunks, TrueChunk
      <4>2. id \in Ids(b) => id \in Ids(ready'[p])
        BY ZenonT(30), <1>1, <1>2, <4>1, DropHead
      <4> QED BY SMTT(30), <2>2, <2>4, <3>1, <3>2, <4>2 DEF OnItsWay, d
    <3>3. CASE readChunks'[p] = Append(a, Head(b))
      <4>1. Ids(readChunks'[p]) \cup Ids(ready'[p]) = Ids(a) \cup Ids(b)
        <5>1. Ids(Append(a, Head(b))) \cup Ids(Tail(b)) = Ids(a) \cup Ids(b)
          BY Zenon, <1>1, MoveHead
        <5> QED BY Zenon, <1>2, <3>3, <5>1
      <4> QED BY <2>2, <2>4, <3>1, <4>1 DEF OnItsWay, d
    <3> QED BY <1>3, <3>2, <3>3
  <2> QED BY SMTT(30), <2>3, <2>4
<1> QED BY <1>7, <1>8, <1>9

\* runReader abandons the tail of what it would have delivered when it stops.
LEMMA StopStream ==
  ASSUME StreamInv, NEW p \in Peers, StopReader(p)
  PROVE  ChunksTrue' /\ ChunksOrdered' /\ NothingSkipped'
<1>1. /\ ready'[p] = <<>>
      /\ \A q \in Peers : q # p => ready'[q] = ready[q]
      /\ UNCHANGED <<lastConsumed, pending, readChunks, delivered, written>>
      /\ ~stopped[p] /\ stopped'[p]
      /\ \A q \in Peers : q # p => stopped'[q] = stopped[q]
  BY SMTT(30) DEF StopReader, StreamInv, TypeOK, sendVars
<1>2. ChunksOrdered'
  <2> SUFFICES ASSUME NEW q \in Peers
               PROVE  /\ Ascending(ready'[q])
                      /\ Below(delivered[q], ready'[q])
                      /\ Below(readChunks[q], ready'[q])
    BY ZenonT(60), <1>1, SMT DEF ChunksOrdered, Ascending, Below, StreamInv
  <2>1. CASE q = p
    BY <1>1, <2>1, SMT DEF Ascending, Below
  <2>2. CASE q # p
    <3>1. ready'[q] = ready[q]
      BY Zenon, <1>1, <2>2
    <3>2. /\ Ascending(ready[q])
          /\ Below(delivered[q], ready[q])
          /\ Below(readChunks[q], ready[q])
      BY Zenon DEF StreamInv, ChunksOrdered
    <3> QED BY Zenon, <3>1, <3>2
  <2> QED BY Zenon, <2>1, <2>2
<1>3. ChunksTrue'
  <2> SUFFICES ASSUME NEW q \in Peers PROVE TrueChunks(q, ready'[q])
    BY Zenon, <1>1, ChunksKept DEF ChunksTrue, StreamInv
  <2>1. CASE q = p
    BY SMTT(30), <1>1, <2>1 DEF TrueChunks
  <2> QED BY <1>1, <2>1 DEF StreamInv, ChunksTrue
<1>4. NothingSkipped'
  <2> SUFFICES ASSUME NEW q \in Peers, NEW id \in 1..lastConsumed[q],
                      written[Other(q)][id] # Empty
               PROVE  OnItsWay(q, id)'
    BY <1>1 DEF NothingSkipped
  <2>1. OnItsWay(q, id)
    BY DEF StreamInv, NothingSkipped
  <2>2. CASE q # p
    <3>1. /\ delivered'[q] = delivered[q] /\ readChunks'[q] = readChunks[q]
          /\ ready'[q] = ready[q] /\ stopped'[q] = stopped[q]
      BY <1>1, <2>2
    <3> QED BY <2>1, <3>1 DEF OnItsWay, Ids
  <2>3. CASE q = p /\ id \in Ids(delivered[q]) \cup Ids(readChunks[q])
    BY <1>1, <2>3 DEF OnItsWay, Ids
  <2>4. CASE q = p /\ id \in Ids(ready[q])
    <3>1. \A k \in Ids(delivered[q]) \cup Ids(readChunks[q]) : k < id
      BY SMTT(40), <2>4 DEF StreamInv, ChunksOrdered, Below, Ids
    <3> QED BY <1>1, <2>4, <3>1, SMT DEF OnItsWay, Ids
  <2>5. q = p => id \in Ids(delivered[q]) \cup Ids(readChunks[q]) \/ id \in Ids(ready[q])
    BY <1>1, <2>1 DEF OnItsWay
  <2> QED BY <2>2, <2>3, <2>4, <2>5
<1> QED BY <1>2, <1>3, <1>4

\* Acknowledgments change no packet of the send buffer, they only remove some.
LEMMA AcknowledgeKeeps ==
  ASSUME NEW tracked, NEW acks, NEW t \in Acknowledge(tracked, acks)
  PROVE  \E u \in tracked : t.packet = u.packet /\ u.packet.id \notin acks
<1> DEFINE h(u) == u.higher + Cardinality({a \in acks : a > u.packet.id})
           bump(u) == IF h(u) > FastRetransmissionACKThreshold
                      THEN FastRetransmissionACKThreshold ELSE h(u)
           record(u) == [packet |-> u.packet, scheduled |-> u.scheduled, higher |-> bump(u)]
<1>1. t \in {record(u) : u \in {x \in tracked : x.packet.id \notin acks}}
  BY DEF Acknowledge
<1>2. \A u : record(u).packet = u.packet
  OBVIOUS
<1> HIDE DEF record
<1> QED BY <1>1, <1>2

\* A packet that left the send buffer was acknowledged.
LEMMA AcknowledgeDrops ==
  ASSUME NEW tracked, NEW acks, NEW u \in tracked,
         \A t \in Acknowledge(tracked, acks) : t.packet.id # u.packet.id
  PROVE  u.packet.id \in acks
<1> DEFINE h(x) == x.higher + Cardinality({a \in acks : a > x.packet.id})
           bump(x) == IF h(x) > FastRetransmissionACKThreshold
                      THEN FastRetransmissionACKThreshold ELSE h(x)
           record(x) == [packet |-> x.packet, scheduled |-> x.scheduled, higher |-> bump(x)]
<1>1. Acknowledge(tracked, acks) =
        {record(x) : x \in {y \in tracked : y.packet.id \notin acks}}
  BY DEF Acknowledge
<1>2. record(u).packet = u.packet
  OBVIOUS
<1> HIDE DEF record
<1> QED BY <1>1, <1>2

\* One step of either end, of the link or of nobody preserves the invariant.
LEMMA StreamStep == StreamInv /\ TypeOK' /\ [Next]_vars => StreamInv'
<1> SUFFICES ASSUME StreamInv, TypeOK', [Next]_vars
             PROVE  NextIsFresh' /\ PacketsTrue' /\ ChunksTrue' /\ ChunksOrdered' /\ NothingSkipped'
  BY DEF StreamInv
<1> DEFINE Goal == NextIsFresh' /\ PacketsTrue' /\ ChunksTrue' /\ ChunksOrdered' /\ NothingSkipped'
<1>a. \A q \in Peers : inFlight[q] \subseteq Tracked /\ Len(written[q]) \in Nat
  BY SMT DEF StreamInv, TypeOK
<1>1. CASE UNCHANGED vars
  <2>1. ChunksTrue' /\ ChunksOrdered' /\ NothingSkipped'
    BY SMTT(30), <1>1, StreamUnchanged DEF vars, recvVars
  <2>2. NextIsFresh' /\ PacketsTrue'
    BY <1>1 DEF vars, StreamInv, NextIsFresh, PacketsTrue, TruePacket
  <2> QED BY <2>1, <2>2
<1>2. ASSUME NEW p \in Peers, SendInitialSoftReset(p) PROVE Goal
  <2> DEFINE packet(a) == [from |-> p, opcode |-> "reset", id |-> 0,
                           payload |-> Empty, acks |-> a]
  <2>1. PICK acks \in SUBSET pendingAck[p] :
          /\ InsertOutgoingPacket(p, packet(acks), MaximumAcknowledgmentsPerPacket)
          /\ OnLink(p, {packet(acks)})
    BY Zenon, <1>2 DEF SendInitialSoftReset
  <2>2. packet(acks) \in Packet /\ packet(acks).from = p /\ TruePacket(packet(acks))'
    <3>1. packet(acks) \in Packet
      BY <2>1, InsertedPacket DEF StreamInv
    <3> QED BY <3>1 DEF TruePacket
  <2> HIDE DEF packet
  <2>3. UNCHANGED <<recvVars, written, nextID>>
    BY Zenon, <1>2 DEF SendInitialSoftReset
  <2>4. PacketsTrue'
    BY Zenon, <2>1, <2>2, <2>3, InsertedPacketsTrue, StreamUnchanged
  <2> QED BY <2>3, <2>4, StreamUnchanged DEF StreamInv, NextIsFresh
<1>3. ASSUME NEW p \in Peers, NEW v \in Payload \cup {Empty}, NEW a \in SUBSET pendingAck[p],
             NEW maximum, NEW packet,
             packet = [from |-> p, opcode |-> "control", id |-> nextID[p],
                       payload |-> v, acks |-> a],
             InsertOutgoingPacket(p, packet, maximum),
             link' = link \/ OnLink(p, {packet}),
             nextID' = [nextID EXCEPT ![p] = @ + 1],
             written' = [written EXCEPT ![p] = Append(@, v)],
             UNCHANGED recvVars
      PROVE  Goal
  <2>1. packet \in Packet /\ packet.from = p
    <3>1. packet \in Packet
      BY <1>3, InsertedPacket DEF StreamInv
    <3> QED BY <1>3, <3>1
  <2>2. /\ written'[p] = Append(written[p], v)
        /\ \A q \in Peers : q # p => written'[q] = written[q]
        /\ nextID'[p] = nextID[p] + 1
        /\ \A q \in Peers : q # p => nextID'[q] = nextID[q]
    BY <1>3 DEF StreamInv, TypeOK
  <2>3. /\ Len(written'[p]) = Len(written[p]) + 1
        /\ written'[p][Len(written[p]) + 1] = v
    <3>1. written[p] \in Seq(Payload \cup {Empty})
      BY PeerTypes DEF StreamInv
    <3>2. /\ Len(Append(written[p], v)) = Len(written[p]) + 1
          /\ Append(written[p], v)[Len(written[p]) + 1] = v
      BY Zenon, <3>1, WrittenAppended
    <3> QED BY Zenon, <2>2, <3>2
  <2>4. NextIsFresh'
    BY Zenon, <2>2, <2>3 DEF StreamInv, NextIsFresh
  <2>5. TruePacket(packet)'
    <3>1. nextID[p] = Len(written[p]) + 1
      BY SMTT(30) DEF StreamInv, NextIsFresh
    <3>2. packet.from = p /\ packet.id = Len(written[p]) + 1 /\ packet.payload = v
      BY <1>3, <3>1
    <3>3. Len(written[p]) + 1 \in 1..Len(written'[p])
      BY <1>a, <2>3, SMT
    <3> QED BY SMTT(30), <2>3, <3>2, <3>3 DEF TruePacket
  <2>6. PacketsTrue'
    BY Zenon, <1>3, <2>1, <2>5, InsertedPacketsTrue, WrittenGrows
  <2> QED BY ZenonT(30), <1>3, <2>4, <2>6, WrittenGrows
<1>4. ASSUME NEW p \in Peers, NEW v \in Payload, NEW linkError \in BOOLEAN,
             Write(p, v, linkError)
      PROVE  Goal
  <2> DEFINE packet(a) == [from |-> p, opcode |-> "control", id |-> nextID[p],
                           payload |-> v, acks |-> a]
  <2>1. PICK acks \in SUBSET pendingAck[p] :
          /\ InsertOutgoingPacket(p, packet(acks), MaximumAcknowledgmentsPerPacket)
          /\ IF linkError THEN link' = link ELSE OnLink(p, {packet(acks)})
    BY ZenonT(30), <1>4 DEF Write
  <2> QED BY Zenon, <1>3, <1>4, <2>1 DEF Write
<1>5. ASSUME NEW p \in Peers, SendWrappedClientKey(p) PROVE Goal
  <2> DEFINE packet(a) == [from |-> p, opcode |-> "control", id |-> nextID[p],
                           payload |-> Empty, acks |-> a]
  <2>1. PICK acks \in SUBSET pendingAck[p] :
          /\ InsertOutgoingPacket(p, packet(acks), AcknowledgmentSetCapacity)
          /\ OnLink(p, {packet(acks)})
    BY Zenon, <1>5 DEF SendWrappedClientKey
  <2> QED BY Zenon, <1>3, <1>5, <2>1 DEF SendWrappedClientKey
<1>6. ASSUME UNCHANGED <<nextID, written, inFlight, link>>,
             ChunksTrue' /\ ChunksOrdered' /\ NothingSkipped'
      PROVE  Goal
  BY Zenon, <1>6 DEF StreamInv, NextIsFresh, PacketsTrue, TruePacket
<1>7. ASSUME NEW p \in Peers, Read(p) PROVE Goal
  BY Zenon, <1>6, <1>7, ReadStream DEF Read, sendVars
<1>8. ASSUME NEW p \in Peers, PushChunk(p) PROVE Goal
  BY Zenon, <1>6, <1>8, PushStream DEF PushChunk, sendVars
<1>9. ASSUME NEW p \in Peers, StopReader(p) PROVE Goal
  BY ZenonT(30), <1>6, <1>9, StopStream DEF StopReader, sendVars
<1>10. ASSUME NEW p \in Peers, UNCHANGED <<nextID, written>>,
              ChunksTrue' /\ ChunksOrdered' /\ NothingSkipped',
              \A m \in link' : \/ m \in link
                               \/ \E t \in inFlight[p] : m = t.packet
                               \/ m \in Packet /\ m.opcode = "ack",
              \A q \in Peers : \A t \in inFlight'[q] :
                \E u \in inFlight[q] : t.packet = u.packet
       PROVE  Goal
  <2>1. NextIsFresh'
    BY <1>10 DEF StreamInv, NextIsFresh
  <2>2. \A m \in Packet : TruePacket(m) => TruePacket(m)'
    BY <1>10 DEF TruePacket
  <2>3. PacketsTrue'
    BY <1>10, <2>2, KeptPacketsTrue
  <2> QED BY <1>10, <2>1, <2>3
<1>11. ASSUME NEW p \in Peers, NEW packet \in link,
              Receive(p, packet) \/ ReceiveCopy(p, packet)
       PROVE  Goal
  <2>1. ReceivePacket(p, packet) /\ link' \subseteq link
    BY <1>11 DEF Receive, ReceiveCopy
  <2>2. \A q \in Peers : \A t \in inFlight'[q] : \E u \in inFlight[q] : t.packet = u.packet
    <3>1. \A t \in Acknowledge(inFlight[p], packet.acks) :
            \E u \in inFlight[p] : t.packet = u.packet
      BY AcknowledgeKeeps, SMT
    <3> QED BY Zenon, <2>1, <3>1 DEF ReceivePacket, OnIncomingPacket, StreamInv, TypeOK
  <2> QED BY Zenon, <1>10, <2>1, <2>2, ReceiveStream DEF ReceivePacket
<1>12. ASSUME NEW p \in Peers, NEW picked \in SUBSET inFlight[p], Resend(p, picked)
       PROVE  Goal
  <2> DEFINE record(t) == [packet |-> t.packet, scheduled |-> TRUE, higher |-> t.higher]
  <2>1. /\ inFlight'[p] = (inFlight[p] \ picked) \cup {record(t) : t \in picked}
        /\ \A q \in Peers : q # p => inFlight'[q] = inFlight[q]
    BY Zenon, <1>12 DEF Resend, StreamInv, TypeOK
  <2>2. \A t : record(t).packet = t.packet
    BY Zenon
  <2> HIDE DEF record
  <2>3. \A q \in Peers : \A t \in inFlight'[q] : \E u \in inFlight[q] : t.packet = u.packet
    BY <2>1, <2>2, SMT
  <2>4. \A m \in link' : m \in link \/ \E t \in inFlight[p] : m = t.packet
    BY SMTT(30), <1>12 DEF Resend, OnLink
  <2>5. UNCHANGED <<nextID, written, recvVars>>
    BY <1>12 DEF Resend
  <2>6. ChunksTrue' /\ ChunksOrdered' /\ NothingSkipped'
    BY <2>5, StreamUnchanged
  <2> QED BY Zenon, <1>10, <2>3, <2>4, <2>5, <2>6
<1>13. ASSUME NEW p \in Peers,
              TakeAcknowledgments(p) \/ AcknowledgmentWriteFails(p)
       PROVE  Goal
  BY <1>6, <1>13, StreamUnchanged DEF TakeAcknowledgments, AcknowledgmentWriteFails
<1>14. ASSUME NEW p \in Peers, WriteAcknowledgments(p) PROVE Goal
  <2> DEFINE packet == [from |-> p, opcode |-> "ack", id |-> 0, payload |-> Empty,
                        acks |-> ackInHand[p]]
  <2>1. packet \in Packet /\ packet.opcode = "ack"
    BY DEF StreamInv, TypeOK, Packet
  <2>2. link' \subseteq link \cup {packet}
    BY Zenon, <1>14 DEF WriteAcknowledgments, OnLink
  <2>3. UNCHANGED <<nextID, written, inFlight, recvVars>>
    BY <1>14 DEF WriteAcknowledgments
  <2> HIDE DEF packet
  <2> QED BY ZenonT(30), <1>10, <2>1, <2>2, <2>3, StreamUnchanged
<1>15. ASSUME NEW p \in Peers, Shutdown(p) PROVE Goal
  BY SMTT(30), <1>6, <1>15, StreamUnchanged DEF Shutdown, sendVars
<1> QED
  BY ZenonT(30), <1>1, <1>2, <1>4, <1>5, <1>7, <1>8, <1>9, <1>11, <1>12, <1>13, <1>14, <1>15 DEF Next

\* A new channel has read, buffered and sent nothing.
LEMMA StreamInit ==
  ASSUME Init, TypeOK
  PROVE  StreamInv
BY OtherPeer, SMT DEF Init, StreamInv, NextIsFresh, PacketsTrue, ChunksTrue, TrueChunks,
   ChunksOrdered, Ascending, Below, NothingSkipped

\* What the invariant says of the stream the TLS stack has read.
LEMMA StreamOrdered ==
  ASSUME StreamInv
  PROVE  InOrderExactlyOnce
<1> SUFFICES ASSUME NEW p \in Peers
             PROVE  IsOrderedPrefix(delivered[p], written[Other(p)])
  BY SMTT(30) DEF InOrderExactlyOnce
<1> DEFINE d == delivered[p]
           w == written[Other(p)]
<1>1. \A i \in 1..Len(d) : d[i].id \in 1..Len(w) /\ d[i].payload = w[d[i].id]
  BY DEF StreamInv, ChunksTrue, TrueChunks, TrueChunk
<1>2. Ascending(d)
  BY DEF StreamInv, ChunksOrdered
<1>3. ASSUME NEW i \in 1..Len(d), NEW k \in 1..d[i].id, w[k] # Empty
      PROVE  \E j \in 1..Len(d) : d[j].id = k
  <2>1. /\ d[i].id <= lastConsumed[p] /\ d[i].id \in Nat
        /\ lastConsumed[p] \in Nat
    <3>1. d[i] \in Chunk
      BY SMT DEF StreamInv, TypeOK
    <3> QED BY Zenon, <3>1 DEF StreamInv, ChunksTrue, TrueChunks, TypeOK, Chunk
  <2>2. k \in 1..lastConsumed[p] /\ k <= d[i].id
    <3> DEFINE id == d[i].id
               last == lastConsumed[p]
    <3>1. id \in Nat /\ last \in Nat /\ id <= last /\ k \in 1..id
      BY <2>1
    <3> HIDE DEF id, last
    <3>2. k \in 1..last /\ k <= id
      BY <3>1, SMT
    <3> QED BY <3>2 DEF id, last
  <2>3. OnItsWay(p, k)
    BY <1>3, <2>2 DEF StreamInv, NothingSkipped
  <2>4. \A id \in Ids(readChunks[p]) \cup Ids(ready[p]) : d[i].id < id
    BY DEF StreamInv, ChunksOrdered, Below, Ids
  <2>5. k \notin Ids(readChunks[p]) \cup Ids(ready[p])
    BY <2>1, <2>2, <2>4, SMT
  <2>6. d[i].id \in Ids(d)
    BY DEF Ids
  <2>7. k \in Ids(d)
    BY <2>1, <2>2, <2>3, <2>5, <2>6, SMT DEF OnItsWay
  <2> QED BY <2>7 DEF Ids
<1> QED BY <1>1, <1>2, <1>3 DEF IsOrderedPrefix, Ascending
=============================================================================
