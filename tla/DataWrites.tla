----------------------------- MODULE DataWrites -----------------------------
(***************************************************************************)
(* A call that writes packets: Client.WriteDataPacketBuffers, or the       *)
(* server's WriteDataPacketBuffersByDestination, which looks up all routes *)
(* and passes runs of packets for one peer to its session; then            *)
(* writeDataPacketBuffersLocked, which frames, numbers and encrypts, and   *)
(* the link.  Each stage owns the buffers it was given and has to release  *)
(* them on every way out.  The variants that take slices (raw) own nothing *)
(* and differ in what an encryption error costs.                           *)
(*                                                                         *)
(* A buffer is <<k, j, c>>: the k-th packet of the call, its j-th fragment *)
(* (0 for the packet itself), c = 1 for a copy with more headroom.         *)
(***************************************************************************)
EXTENDS Integers, Sequences, FiniteSets, SequencesExt

CONSTANTS
  Server,        \* the server's call by destination, or the client's
  Kinds,         \* what packets are: a peer, or "miss", "bad", "empty"
  Framing,       \* the client has data framing
  MaxBatch,      \* bound: the packets of a call
  MaxFragments   \* bound: the fragments of a packet

VARIABLES
  packets, raw,   \* the arguments of the call and which variant it is
  index,          \* the packet the loop over destinations looks at
  route, current, \* the peer of the batch under way and its packets
  prepared,       \* the buffers of the batch after framing
  encoded,        \* how many of them are encrypted, as a sequence of buffers
  encodeErr,      \* raw only: the encryption stopped early
  owned,          \* the buffers that were allocated and not released
  faulty,         \* a buffer was released that was not owned
  misses,         \* the route misses the call returns
  pc, result,     \* the stage of the call and its error
  left,           \* history: what went out, as <<peer, packet, fragment>>
  made,           \* history: the number of packets made of each packet
  counted         \* the packets the activity observers were told of

call == <<packets, raw, misses>>
batch == <<prepared, encoded, encodeErr>>
vars == <<packets, raw, index, route, current, batch, owned, faulty, misses, pc, result, left,
          made, counted>>

Peers == Kinds \ {"miss", "bad", "empty"}
Original(k) == <<k, 0, 0>>

Init ==
  /\ packets = <<>> /\ raw \in BOOLEAN /\ index = 1 /\ route = "" /\ current = <<>>
  /\ prepared = <<>> /\ encoded = <<>> /\ encodeErr = FALSE
  /\ owned = {} /\ faulty = FALSE /\ misses = <<>> /\ pc = "idle" /\ result = ""
  /\ left = <<>> /\ made = [k \in 1..MaxBatch |-> 0] /\ counted = {}

\* Releases and allocates; slices are left to the garbage collector.
Free(released, allocated) ==
  /\ faulty' = (faulty \/ (~raw /\ ~ released \subseteq owned))
  /\ owned' = IF raw THEN {} ELSE (owned \ released) \cup allocated

Return(err) == pc' = "returned" /\ result' = err

\* The call with its packets.
Call ==
  /\ pc = "idle"
  /\ \E n \in 1..MaxBatch : packets' \in [1..n -> Kinds]
  /\ owned' = IF raw THEN {} ELSE {Original(k) : k \in DOMAIN packets'}
  /\ pc' = "called"
  /\ UNCHANGED <<raw, index, route, current, batch, faulty, misses, result, left, made, counted>>

\* The client has a session that is ready, or the server is running.
Ready ==
  /\ pc = "called"
  /\ pc' = IF Server THEN "route" ELSE "session"
  /\ current' = IF Server THEN <<>> ELSE [k \in DOMAIN packets |-> k]
  /\ route' \in IF Server THEN {""} ELSE Peers
  /\ index' = IF Server THEN 1 ELSE Len(packets) + 1
  /\ UNCHANGED <<call, batch, owned, faulty, result, left, made, counted>>

\* Neither is: everything is released.
NotReady ==
  /\ pc = "called"
  /\ Free({Original(k) : k \in DOMAIN packets}, {}) /\ Return("not ready")
  /\ UNCHANGED <<call, index, route, current, batch, left, made, counted>>

-----------------------------------------------------------------------------
(* WriteDataPacketBuffersByDestination *)

AtEnd == index > Len(packets)
Kind == packets[index]

\* The packet does not join the batch under way.
EndsBatch == ~AtEnd => (Kind \notin Peers \/ Kind # route)

Flush ==
  /\ pc = "route" /\ current # <<>> /\ EndsBatch
  /\ pc' = "session"
  /\ UNCHANGED <<call, index, route, current, batch, owned, faulty, result, left, made, counted>>

\* Mutant: the packet whose route ended the batch is forgotten.
RestBehind == {Original(k) : k \in index + 1..Len(packets)}

\* The packet the loop looks at and those behind it.
Rest == {Original(k) : k \in index..Len(packets)}

\* A flush failed: the rest is released and the error returned.
FlushFails ==
  /\ pc = "failed"
  /\ Free(Rest, {}) /\ pc' = "returned"
  /\ UNCHANGED <<call, index, route, current, batch, result, left, made, counted>>

\* A packet without a destination ends the call.
BadPacket ==
  /\ pc = "route" /\ current = <<>> /\ ~AtEnd /\ Kind = "bad"
  /\ Free(Rest, {}) /\ Return("invalid")
  /\ UNCHANGED <<call, index, route, current, batch, left, made, counted>>

\* A packet without a route is reported, and the loop goes on.
RouteMiss ==
  /\ pc = "route" /\ current = <<>> /\ ~AtEnd /\ Kind = "miss"
  /\ Free({Original(index)}, {})
  /\ misses' = Append(misses, index) /\ index' = index + 1
  /\ UNCHANGED <<packets, raw, route, current, batch, pc, result, left, made, counted>>

JoinBatch ==
  /\ pc = "route" /\ ~AtEnd /\ Kind \in Peers /\ (current # <<>> => ~EndsBatch)
  /\ route' = IF current = <<>> THEN Kind ELSE route
  /\ current' = Append(current, index) /\ index' = index + 1
  /\ UNCHANGED <<call, batch, owned, faulty, pc, result, left, made, counted>>

EndOfLoop ==
  /\ pc = "route" /\ AtEnd /\ current = <<>>
  /\ Return("")
  /\ UNCHANGED <<call, index, route, current, batch, owned, faulty, left, made, counted>>

-----------------------------------------------------------------------------
(* writeDataPacketBuffersLocked *)

\* The session's write returns: to the loop over destinations, or to the client.
SessionReturns(err) ==
  IF ~Server THEN Return(err) /\ UNCHANGED current
  ELSE IF err # "" THEN pc' = "failed" /\ result' = err /\ UNCHANGED current
  ELSE pc' = "route" /\ current' = <<>> /\ UNCHANGED result

NonEmpty(k) == packets[k] # "empty"
Payloads == SelectSeq(current, NonEmpty)
Empties == {Original(k) : k \in Range(current)} \ {Original(k) : k \in Range(Payloads)}
Batch == {Original(k) : k \in Range(current)}

\* The session is gone, has no key, or the batch holds nothing: all is released.
NothingToWrite ==
  /\ pc = "session"
  /\ Free(Batch, {})
  /\ \/ Payloads = <<>> /\ SessionReturns("")
     \/ Payloads # <<>> /\ SessionReturns("not ready")
  /\ UNCHANGED <<call, index, route, batch, left, made, counted>>

\* How many packets a payload becomes: framing may split it, or drop it with an error.
Counts == IF Framing THEN 0..MaxFragments ELSE {1}

\* What framing makes of a payload: itself, or n new buffers.
Outgoing(k, n) == IF Framing THEN [j \in 1..n |-> <<k, j, 0>>] ELSE <<Original(k)>>

\* The payloads that framing replaced.
FramedAway == IF Framing THEN {Original(k) : k \in Range(Payloads)} ELSE {}

\* outgoingDataBufferBatches: every payload becomes some packets, none on an error.
Prepare ==
  /\ pc = "session" /\ Payloads # <<>>
  /\ \E n \in [Range(Payloads) -> Counts] :
       LET outgoing == FlattenSeq([i \in DOMAIN Payloads |-> Outgoing(Payloads[i], n[Payloads[i]])])
       IN  /\ made' = [k \in DOMAIN made |-> IF k \in DOMAIN n THEN n[k] ELSE made[k]]
           /\ prepared' = outgoing /\ encoded' = <<>> /\ encodeErr' = FALSE
           /\ Free(Empties \cup FramedAway, Range(outgoing) \ owned)
           /\ IF outgoing = <<>> THEN SessionReturns("")
              ELSE pc' = "ids" /\ UNCHANGED <<current, result>>
  /\ UNCHANGED <<call, index, route, left, counted>>

\* The packet ids of the batch: there are enough of them, or nothing is written.
NewIDs ==
  /\ pc = "ids" /\ pc' = "encode"
  /\ UNCHANGED <<call, index, route, current, batch, owned, faulty, result, left, made, counted>>

IDsExpired ==
  /\ pc = "ids"
  /\ Free(Range(prepared), {}) /\ SessionReturns("expired")
  /\ UNCHANGED <<call, index, route, batch, left, made, counted>>

Copy(b) == <<b[1], b[2], 1>>

\* A payload is encrypted in its buffer, or in a copy when that has no headroom.
Encode ==
  /\ pc = "encode" /\ Len(encoded) < Len(prepared)
  /\ LET b == prepared[Len(encoded) + 1]
     IN  \/ Free({}, {}) /\ encoded' = Append(encoded, b)
         \/ ~raw /\ Free({b}, {Copy(b)}) /\ encoded' = Append(encoded, Copy(b))
  /\ UNCHANGED <<call, index, route, current, prepared, encodeErr, pc, result, left, made, counted>>

\* What there is to release when an encryption fails: EncodeBuffer releases the payload
\* it was given, the caller those behind it and the packets before it.
LeftByError == Range(encoded) \cup {prepared[i] : i \in Len(encoded) + 1..Len(prepared)}

EncodeFails ==
  /\ pc = "encode" /\ Len(encoded) < Len(prepared)
  /\ Free(LeftByError, {})
  /\ IF raw THEN encodeErr' = TRUE /\ pc' = "link" /\ UNCHANGED <<current, result>>
     ELSE SessionReturns("encode") /\ UNCHANGED encodeErr
  /\ UNCHANGED <<call, index, route, prepared, encoded, left, made, counted>>

Encoded ==
  /\ pc = "encode" /\ Len(encoded) = Len(prepared)
  /\ pc' = "link"
  /\ UNCHANGED <<call, index, route, current, batch, owned, faulty, result, left, made, counted>>

-----------------------------------------------------------------------------
(* The link and the observers *)

OnLink(n) == [i \in 1..n |-> <<route, encoded[i][1], encoded[i][2]>>]

\* The place of a payload's last packet among those encoded, 0 if it has none.
LastEncoded(k) ==
  LET places == {i \in DOMAIN encoded : encoded[i][1] = k}
  IN  IF places = {} THEN 0 ELSE CHOOSE i \in places : \A j \in places : j <= i

\* The payloads all of whose packets were encrypted.
Completed ==
  IF encodeErr THEN {k \in Range(Payloads) : k < prepared[Len(encoded) + 1][1]}
  ELSE Range(Payloads)

\* The payloads the observers are told of when the link wrote this many packets.
Countable(written) == {k \in Completed : LastEncoded(k) > 0 /\ LastEncoded(k) <= written}

\* The observers, and the return with the error of the link or else of the encryption.
Finish(n, written, err) ==
  /\ left' = left \o OnLink(n)
  /\ counted' = counted \cup Countable(written)
  /\ SessionReturns(IF err # "" THEN err ELSE IF encodeErr THEN "encode" ELSE "")
  /\ UNCHANGED <<call, index, route, batch, made>>

\* The connection is closed or has no address.
LinkClosed ==
  /\ pc = "link"
  /\ Free(Range(encoded), {}) /\ Finish(0, 0, "closed")

\* The batch writer takes the buffers; when it fails, nothing is known of them.
LinkBatch ==
  /\ pc = "link"
  /\ Free(Range(encoded), {})
  /\ \/ Finish(Len(encoded), Len(encoded), "")
     \/ \E n \in 0..Len(encoded) : Finish(n, 0, "batch")

\* The loop releases a packet once it is written and, on an error, those behind it.
LoopReleases(n) == {encoded[i] : i \in DOMAIN encoded \cap 1..n + 1}
                     \cup {encoded[i] : i \in n + 2..Len(encoded)}

\* Without a batch writer the packets go one by one, until one fails or is too large.
LinkLoop ==
  /\ pc = "link"
  /\ \E n \in 0..Len(encoded) :
       /\ Free(LoopReleases(n), {})
       /\ Finish(n, n, IF n = Len(encoded) THEN "" ELSE "write")

Next ==
  \/ Call \/ Ready \/ NotReady \/ Flush \/ FlushFails \/ BadPacket \/ RouteMiss \/ JoinBatch \/ EndOfLoop
  \/ NothingToWrite \/ Prepare \/ NewIDs \/ IDsExpired \/ Encode \/ EncodeFails \/ Encoded
  \/ LinkClosed \/ LinkBatch \/ LinkLoop

Spec == Init /\ [][Next]_vars

-----------------------------------------------------------------------------
(* Properties *)

\* Whatever stage fails for whatever part of the call, each buffer that came in, and each
\* that was made on the way, is released once, by whoever owns it then.
ReleasedOnce == ~faulty /\ (pc = "returned" => owned = {})

\* What leaves goes to the peer it was routed to, in the order of the call, a packet's
\* fragments behind one another.
LeavesInOrder ==
  /\ Server => \A i \in DOMAIN left : left[i][1] = packets[left[i][2]]
  /\ \A i, j \in DOMAIN left : i < j =>
       \/ left[i][2] < left[j][2]
       \/ left[i][2] = left[j][2] /\ left[i][3] < left[j][3]

LeftWhole(k) == made[k] > 0 /\ Cardinality({i \in DOMAIN left : left[i][2] = k}) = made[k]

\* The activity that keeps a session alive is that of packets all of whose fragments
\* left; only a failed batch writer makes the session miss some.
CountedLeft ==
  /\ \A k \in counted : LeftWhole(k)
  /\ pc = "returned" /\ result # "batch" =>
       \A k \in DOMAIN packets : LeftWhole(k) => k \in counted

\* A call that returns no error has sent every packet that has a route and that framing
\* did not drop, and has reported the others, each once.
NoSilentLoss ==
  pc = "returned" /\ result = "" =>
    \A k \in DOMAIN packets :
      /\ packets[k] \in Peers /\ made[k] > 0 => LeftWhole(k)
      /\ packets[k] \in Peers /\ ~Framing => made[k] = 1
      /\ Cardinality({i \in DOMAIN misses : misses[i] = k}) = IF packets[k] = "miss" THEN 1 ELSE 0
=============================================================================
