----------------------------- MODULE DataQueue ------------------------------
(***************************************************************************)
(* data_queue.go: the bounded ring of packets with its wake channel, and   *)
(* the two ways it is used.  A udpPeerPacketConnection (PeerConnection)    *)
(* has one reader at a time, drops new packets and closes under the lock   *)
(* of its pushers.  A Client or Server has any number of readers, drops    *)
(* old packets, and drains the ring once its sessions are gone (a session  *)
(* with a static key is different: see StaticKey).  An initial state       *)
(* chooses the use of the ring.                                            *)
(***************************************************************************)
EXTENDS Integers, Sequences, FiniteSets

CONSTANTS
  Capacity,        \* len(q.items)
  Pushers,         \* goroutines that push
  Readers,         \* goroutines that read
  Addresses,       \* the remote addresses
  Uses,            \* the uses of the ring: see use
  LastPacket       \* bound: the packets that are ever pushed

ASSUME QueueAssumption ==
  /\ Capacity \in Nat \ {0} /\ LastPacket \in Nat
  /\ Uses \subseteq [peerConnection : BOOLEAN, maxPackets : SUBSET Nat,
                     sources : SUBSET Addresses, batches : SUBSET (Nat \ {0})]

VARIABLES
  use,                  \* how the ring is used; never changes
  items, head, length,  \* the ring
  wake,                 \* the wake channel holds its token
  access,               \* q.access is held by a pusher in its loop
  incomingAccess,       \* the lock around pushPackets and Close
  closed,               \* the channel readers watch: c.closed, dataReadDone
  pushing,              \* pusher -> its step and the packets it still has in hand
  wasEmpty,             \* pusher -> what it saw when it took the lock
  reading,              \* reader -> its step
  closing,              \* the step of Close
  pushed,               \* the packets that arrived so far
  received,             \* history: reader -> the batches it got, in order
  released              \* history: packet -> how often its buffer was released

ring == <<items, head, length>>
queueVars == <<use, items, head, length, wake, access, incomingAccess, closed, pushing, wasEmpty,
          reading, closing, pushed, received, released>>

PeerConnection == use.peerConnection  \* the ring of a udpPeerPacketConnection
MaxPackets == use.maxPackets          \* how many packets a read may ask for; 0: all
Sources == use.sources                \* where packets come from
Batches == use.batches                \* the sizes of the pushed batches

NoItem == <<>>
QueuePacket == (1..LastPacket) \X Addresses
Places == 0..(Capacity - 1)

QueueInit ==
  /\ use \in Uses
  /\ items = [place \in Places |-> NoItem] /\ head = 0 /\ length = 0
  /\ wake = FALSE /\ access = FALSE /\ incomingAccess = FALSE /\ closed = FALSE
  /\ pushing = [w \in Pushers |-> [step |-> "idle", hand |-> <<>>]]
  /\ wasEmpty = [w \in Pushers |-> FALSE]
  /\ reading = [r \in Readers |-> "idle"]
  /\ closing = "no"
  /\ pushed = 0
  /\ received = [r \in Readers |-> <<>>]
  /\ released = [n \in 1..LastPacket |-> 0]

At(offset) == (head + offset) % Capacity

\* The packets of the ring, from its head on.
Queue == [i \in 1..length |-> items[At(i - 1)]]

Count(n, batch) == Cardinality({i \in 1..Len(batch) : batch[i][1] = n})

Release(batch) == released' = [n \in 1..LastPacket |-> released[n] + Count(n, batch)]

-----------------------------------------------------------------------------
(* PushBatch and PushBatchDropNew *)

\* A batch arrives.  A closed connection releases it.
BeginPush(w, batch) ==
  /\ pushing[w].step = "idle"
  /\ IF PeerConnection THEN ~incomingAccess ELSE closing \notin {"drain", "done"}
  /\ pushed' = pushed + Len(batch)
  /\ IF PeerConnection /\ closed
     THEN Release(batch) /\ UNCHANGED <<incomingAccess, pushing>>
     ELSE /\ incomingAccess' = PeerConnection
          /\ pushing' = [pushing EXCEPT ![w] = [step |-> "lock", hand |-> batch]]
          /\ UNCHANGED released
  /\ UNCHANGED <<ring, wake, access, closed, wasEmpty, reading, closing, received>>

Lock(w) ==
  /\ pushing[w].step = "lock" /\ ~access
  /\ access' = TRUE
  /\ pushing' = [pushing EXCEPT ![w].step = "push"]
  /\ wasEmpty' = [wasEmpty EXCEPT ![w] = length = 0]
  /\ UNCHANGED <<ring, wake, incomingAccess, closed, reading, closing, pushed, received, released>>

\* Mutant: the dropped packet is not released.
StoreLeaks(item) ==
  IF length = Capacity
  THEN IF PeerConnection
       THEN Release(<<item>>) /\ UNCHANGED ring
       ELSE /\ items' = [items EXCEPT ![head] = item]
            /\ head' = At(1)
            /\ UNCHANGED <<length, released>>
  ELSE /\ items' = [items EXCEPT ![At(length)] = item]
       /\ length' = length + 1
       /\ UNCHANGED <<head, released>>

\* Mutant: the head stays where the oldest packet was.
StoreInPlace(item) ==
  IF length = Capacity
  THEN IF PeerConnection
       THEN Release(<<item>>) /\ UNCHANGED ring
       ELSE /\ Release(<<items[head]>>)
            /\ items' = [items EXCEPT ![head] = item]
            /\ UNCHANGED <<head, length>>
  ELSE /\ items' = [items EXCEPT ![At(length)] = item]
       /\ length' = length + 1
       /\ UNCHANGED <<head, released>>

\* A full ring drops its oldest packet, or with PushBatchDropNew the new one (whose
\* buffer the code releases after q.access, still under incomingAccess).
Store(item) ==
  IF length = Capacity
  THEN IF PeerConnection
       THEN Release(<<item>>) /\ UNCHANGED ring
       ELSE /\ Release(<<items[head]>>)
            /\ items' = [items EXCEPT ![head] = item]
            /\ head' = At(1)
            /\ UNCHANGED length
  ELSE /\ items' = [items EXCEPT ![At(length)] = item]
       /\ length' = length + 1
       /\ UNCHANGED <<head, released>>

PushItem(w) ==
  /\ pushing[w].step = "push" /\ pushing[w].hand # <<>>
  /\ Store(Head(pushing[w].hand))
  /\ pushing' = [pushing EXCEPT ![w].hand = Tail(@)]
  /\ UNCHANGED <<wake, access, incomingAccess, closed, wasEmpty, reading, closing, pushed,
                 received>>

\* Mutant: only a push that fills the ring signals.
UnlockQuietly(w) ==
  /\ pushing[w].step = "push" /\ pushing[w].hand = <<>>
  /\ access' = FALSE
  /\ pushing' = [pushing EXCEPT ![w].step =
                   IF wasEmpty[w] /\ length = Capacity THEN "signal" ELSE "idle"]
  /\ incomingAccess' = (incomingAccess /\ wasEmpty[w] /\ length = Capacity)
  /\ UNCHANGED <<ring, wake, closed, wasEmpty, reading, closing, pushed, received, released>>

Unlock(w) ==
  /\ pushing[w].step = "push" /\ pushing[w].hand = <<>>
  /\ access' = FALSE
  /\ pushing' = [pushing EXCEPT ![w].step = IF wasEmpty[w] THEN "signal" ELSE "idle"]
  /\ incomingAccess' = (incomingAccess /\ wasEmpty[w])
  /\ UNCHANGED <<ring, wake, closed, wasEmpty, reading, closing, pushed, received, released>>

\* The token goes into the channel unless one is there.
SignalPush(w) ==
  /\ pushing[w].step = "signal"
  /\ wake' = TRUE
  /\ pushing' = [pushing EXCEPT ![w].step = "idle"]
  /\ incomingAccess' = FALSE
  /\ UNCHANGED <<ring, access, closed, wasEmpty, reading, closing, pushed, received, released>>

-----------------------------------------------------------------------------
(* waitIncomingPackets and readDataPackets *)

Resting(r) == reading[r] = "idle"

\* ReadPacket and ReadPackets of a connection hold readAccess.
Call(r) ==
  /\ Resting(r) /\ (PeerConnection => \A q \in Readers : Resting(q))
  /\ reading' = [reading EXCEPT ![r] = "check"]
  /\ UNCHANGED <<ring, wake, access, incomingAccess, closed, pushing, wasEmpty, closing, pushed,
                 received, released>>

CheckClosed(r) ==
  /\ reading[r] = "check"
  /\ reading' = [reading EXCEPT ![r] = IF closed THEN "idle" ELSE "pop"]
  /\ UNCHANGED <<ring, wake, access, incomingAccess, closed, pushing, wasEmpty, closing, pushed,
                 received, released>>

\* How many packets Pop takes: at most max, and of a connection only those that
\* come from the address of the first.
PopCount(max) ==
  LET limit == IF max > 0 /\ max < length THEN max ELSE length
      sameRun(n) == PeerConnection => \A i \in 1..n : Queue[i][2] = Queue[1][2]
  IN  Cardinality({n \in 1..limit : sameRun(n)})

\* Pop takes the first count packets out of the ring.
Take(count) ==
  /\ items' = [place \in Places |->
                 IF \E i \in 0..(count - 1) : place = At(i) THEN NoItem ELSE items[place]]
  /\ head' = At(count)
  /\ length' = length - count

\* Mutant: Pop does not pass the token on.
PopQuietly(r, max) ==
  LET count == PopCount(max)
  IN  /\ reading[r] = "pop" /\ ~access
      /\ Take(count)
      /\ received' = IF count = 0 THEN received
                     ELSE [received EXCEPT ![r] = Append(@, SubSeq(Queue, 1, count))]
      /\ reading' = [reading EXCEPT ![r] = IF count = 0 THEN "wait" ELSE "idle"]
      /\ UNCHANGED <<wake, access, incomingAccess, closed, pushing, wasEmpty, closing, pushed,
                     released>>

Pop(r, max) ==
  LET count == PopCount(max)
  IN  /\ reading[r] = "pop" /\ ~access
      /\ Take(count)
      /\ received' = IF count = 0 THEN received
                     ELSE [received EXCEPT ![r] = Append(@, SubSeq(Queue, 1, count))]
      /\ reading' = [reading EXCEPT ![r] = IF count = 0 THEN "wait"
                                           ELSE IF length > count THEN "signal" ELSE "idle"]
      /\ UNCHANGED <<wake, access, incomingAccess, closed, pushing, wasEmpty, closing, pushed,
                     released>>

SignalPop(r) ==
  /\ reading[r] = "signal"
  /\ wake' = TRUE
  /\ reading' = [reading EXCEPT ![r] = "idle"]
  /\ UNCHANGED <<ring, access, incomingAccess, closed, pushing, wasEmpty, closing, pushed,
                 received, released>>

\* A waiting reader takes the token and starts over.
Wake(r) ==
  /\ reading[r] = "wait" /\ wake
  /\ wake' = FALSE
  /\ reading' = [reading EXCEPT ![r] = "check"]
  /\ UNCHANGED <<ring, access, incomingAccess, closed, pushing, wasEmpty, closing, pushed,
                 received, released>>

\* A waiting reader sees the close.
SeeClosed(r) ==
  /\ reading[r] = "wait" /\ closed
  /\ reading' = [reading EXCEPT ![r] = "idle"]
  /\ UNCHANGED <<ring, wake, access, incomingAccess, closed, pushing, wasEmpty, closing, pushed,
                 received, released>>

\* The context or the deadline of a reader ends.  A connection also looks at the
\* deadline before it looks at the ring, and may then have taken the token.
GiveUp(r) ==
  /\ reading[r] = "wait" \/ (PeerConnection /\ reading[r] = "check")
  /\ reading' = [reading EXCEPT ![r] = "idle"]
  /\ UNCHANGED <<ring, wake, access, incomingAccess, closed, pushing, wasEmpty, closing, pushed,
                 received, released>>

-----------------------------------------------------------------------------
(* Close *)

BeginClose ==
  /\ closing = "no" /\ ~incomingAccess
  /\ closed' = TRUE
  /\ closing' = IF PeerConnection THEN "drain" ELSE "stop"
  /\ incomingAccess' = PeerConnection
  /\ UNCHANGED <<ring, wake, access, pushing, wasEmpty, reading, pushed, received, released>>

\* Client.Close and Server.Close wait until the sessions, and so the pushers, are gone.
SessionsGone ==
  /\ closing = "stop"
  /\ \A w \in Pushers : pushing[w].step = "idle"
  /\ closing' = "drain"
  /\ UNCHANGED <<ring, wake, access, incomingAccess, closed, pushing, wasEmpty, reading, pushed,
                 received, released>>

Drain ==
  /\ closing = "drain" /\ ~access
  /\ Take(length)
  /\ Release(Queue)
  /\ closing' = "done"
  /\ incomingAccess' = FALSE
  /\ UNCHANGED <<wake, access, closed, pushing, wasEmpty, reading, pushed, received>>

-----------------------------------------------------------------------------
Arrivals ==
  UNION {[1..n -> Sources] : n \in {size \in Batches : pushed + size <= LastPacket}}

Push(w) ==
  \/ \E from \in Arrivals : BeginPush(w, [i \in DOMAIN from |-> <<pushed + i, from[i]>>])
  \/ Lock(w) \/ PushItem(w) \/ Unlock(w) \/ SignalPush(w)

Read(r) ==
  \/ Call(r) \/ CheckClosed(r) \/ SignalPop(r) \/ Wake(r) \/ SeeClosed(r) \/ GiveUp(r)
  \/ \E max \in MaxPackets : Pop(r, max)

QueueNext ==
  /\ use' = use
  /\ \/ \E w \in Pushers : Push(w)
     \/ \E r \in Readers : Read(r)
     \/ BeginClose \/ SessionsGone \/ Drain

QueueSpec == QueueInit /\ [][QueueNext]_queueVars

-----------------------------------------------------------------------------
(* Properties *)

QueueTypeOK ==
  /\ use \in Uses
  /\ items \in [Places -> QueuePacket \cup {NoItem}] /\ head \in Places /\ length \in 0..Capacity
  /\ wake \in BOOLEAN /\ access \in BOOLEAN /\ incomingAccess \in BOOLEAN /\ closed \in BOOLEAN
  /\ pushing \in [Pushers -> [step : {"idle", "lock", "push", "signal"}, hand : Seq(QueuePacket)]]
  /\ wasEmpty \in [Pushers -> BOOLEAN]
  /\ reading \in [Readers -> {"idle", "check", "pop", "signal", "wait"}]
  /\ closing \in {"no", "stop", "drain", "done"}
  /\ pushed \in 0..LastPacket
  /\ received \in [Readers -> Seq(Seq(QueuePacket))]
  /\ released \in [1..LastPacket -> Nat]

\* Exactly the places of the queue hold a packet: the ring keeps no reference to a
\* buffer it gave away (PushBatch and Pop clear the places they leave).
RingTrue == \A offset \in Places : items[At(offset)] # NoItem <=> offset < length

\* One pusher at a time holds q.access, and a connection has one reader at a time.
LocksHeld ==
  /\ access <=> \E w \in Pushers : pushing[w].step = "push"
  /\ \A v, w \in Pushers :
       pushing[v].step = "push" /\ pushing[w].step = "push" => v = w
  /\ PeerConnection =>
       \A q, r \in Readers : Resting(q) \/ Resting(r) \/ q = r

\* Whoever found the ring empty will signal.
FirstSignals ==
  \A w \in Pushers : pushing[w].step = "push" /\ length = 0 => wasEmpty[w]

\* A reader never waits for packets that are there: a token is in the channel, or
\* somebody is about to put one, or another reader is on its way to the ring
\* (signal is called after the lock is gone, in PushBatch as in Pop).
NoLostWakeup ==
  \A r \in Readers : reading[r] = "wait" /\ length > 0 /\ ~closed =>
    \/ wake
    \/ \E w \in Pushers : pushing[w].step \in {"push", "signal"} /\ wasEmpty[w]
    \/ \E q \in Readers : reading[q] \in {"check", "pop", "signal"}

\* Where packet n is: in the hand of a pusher, in the ring, or in a batch a reader got.
PlacesIn(n, s) == {i \in 1..Len(s) : s[i][1] = n}
InHands(n) == UNION {{<<"hand", w, 0, i>> : i \in PlacesIn(n, pushing[w].hand)} : w \in Pushers}
InRing(n) == {<<"ring", 0, 0, i>> : i \in PlacesIn(n, Queue)}
InBatches(n) ==
  UNION {UNION {{<<"read", r, b, i>> : i \in PlacesIn(n, received[r][b])} :
                b \in 1..Len(received[r])} : r \in Readers}
Whereabouts(n) == InHands(n) \cup InRing(n) \cup InBatches(n)

\* Every packet that arrived is in one place, or its buffer was released, once
\* (pushPackets, PushBatch, Pop, Drain).
HandledOnce == \A n \in 1..pushed : released[n] + Cardinality(Whereabouts(n)) = 1

\* A closed queue stays empty: no packet slips in behind Drain.
ClosedIsEmpty ==
  closing = "done" => length = 0 /\ \A w \in Pushers : pushing[w].hand = <<>>

\* A batch read from a connection comes from one address: ReadPackets takes the
\* address of its first packet for all of them.
OneSource ==
  PeerConnection =>
    \A r \in Readers : \A b \in 1..Len(received[r]) :
      \A i \in 1..Len(received[r][b]) : received[r][b][i][2] = received[r][b][1][2]

\* pushPackets, PushBatch, Pop and Drain: every packet that arrived is in one hand or was
\* released once, the ring keeps no buffer it gave away, nothing slips in behind the drain of
\* a closed queue, and a batch read from a connection comes from one address.
PacketsInOneHand == QueueTypeOK /\ RingTrue /\ HandledOnce /\ ClosedIsEmpty /\ OneSource

\* The bounded queue the ring implements.
FIFO == INSTANCE PacketFIFO WITH
  queue <- Queue, Packet <- QueuePacket, dropNew <- PeerConnection

\* The ring is a bounded queue: it starts empty, and every step of it is a push, a pop or a
\* drain of one, or nothing.  The client's drops the oldest packets, that of a connection
\* the new ones.
RingIsFIFO == FIFO!Spec

=============================================================================
