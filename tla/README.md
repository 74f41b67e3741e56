# A TLA+ verification of sing-openvpn

sing-openvpn is an OpenVPN client and server in Go. This directory models the
parts of it whose correctness depends on the order in which things happen, checks
the models with TLC on small instances, and proves the main results with TLAPS for
every value of the constants. `PROJECT.json` maps each definition to the lines it
models, lists every part of the system (also those left out), every run, the hazards of
the code with the properties that guard them, and the theorems.

## The system

A session has a **control channel** and a **data channel** over one UDP or TCP link.

| Part | Files | Modules |
|---|---|---|
| Reliable layer | `proto/reliable.go`, `control_channel.go` | Reliable, RetransmissionTimer |
| Replay window, packet ids | `replay_window.go`, `control_wrap.go`, `data_codec_static.go`, `proto/session.go` | ReplayWindow, ReplayFilter, LongFormIDs |
| Soft resets and data keys | `renegotiation.go`, `server_renegotiation.go`, `peer_data.go` | KeyStates, RenegotiationBudget |
| Control stream handover | `control_stream.go` | ControlHandover, ControlStream |
| Data path: queues, writes, framing | `data_queue.go`, `udp_peer_conn.go`, `server_data.go`, `client_data.go`, `proto/connection.go`, `data_channel_*.go` | DataQueue, PacketFIFO, DataWrites, StreamFraming, Fragmentation |
| Keepalive and timeouts | `keepalive.go`, `client_keepalive.go`, `server_ping.go`, `client_timing.go` | Keepalive |
| Server: admission, sessions, addresses | `server_resource_policy.go`, `udp_predecrypt.go`, `session_id_hmac.go`, `server_*.go`, `ip_pool.go` | Admission, ServerSessions, IPPool |
| Client: supervisor, credentials, tunnel | `client*.go`, `challenge.go`, `control_directives.go`, `tunnel_options.go` | ClientSupervisor, ClientCredentials, TunnelEvents, PushedOptions |
| Static key mode | `client_session_static.go`, `server_static.go` | StaticKey, LongFormIDs |

Packets enter through the link; the control channel routes them by key-id to a
reliable layer, whose ordered bytes feed a TLS connection. The keys agreed there
become data keys, each with a replay window. A server finds the session of a packet in
its registries and gives it an address of its pool; a client's supervisor makes one
session after the other.

The modules lean on each other as the code does. KeyStates and ControlStream share the
operators of ControlHandover: KeyStates shows that every handover has a negotiation
behind it that ends it, which ControlStream assumes. LongFormIDs uses ReplayFilter, the
abstract window that ReplayWindow implements, as its receiver. RenegotiationBudget
takes a soft reset for an event that promotes or fails, which is what KeyStates shows of
it. StaticKey has the supervisor of ClientSupervisor reduced to what a static session
meets.

## Modules

A step of a model ends where the code releases a lock, sends on or waits for a channel,
or blocks on the network. Definitions whose comment begins with "Mutant" are deliberate
bugs. No specification uses them; `PROJECT.json` names the property each one breaks.

**Reliable** models both ends of one key-id. Each end has the goroutines of the code:
the TLS stack (`Write`, `Read`), runReader (`Receive`, `ReceiveCopy`, `PushChunk`,
`StopReader`) and runSender (`Resend`, `TakeAcknowledgments`, `WriteAcknowledgments`,
`AcknowledgmentWriteFails`, `SendWrappedClientKey`), and `Shutdown`.
`SendInitialSoftReset` opens a renegotiated key-id. A dedicated acknowledgment takes its
ids in one step and is written in another, as the code does without holding the lock. A
deadline that was set may pass at any moment. The link loses, repeats and reorders.
`written` and `delivered` are history variables. **RetransmissionTimer** is about the
time that Reliable leaves open: one packet, sent by its writer without a timer
(`WritePacket`) and then by runSender, whose ticks look at the deadline
(`Transmit`, `Wait`), with the shift of a duration that has a width.

**ReplayWindow** models `replay_window.go` with its 64-bit words (a word is the set of
its bits), arrival times and wrapping ids. **ReplayFilter** is its abstract
specification: what is accepted as a function of what was accepted before, with no
bitmap and no clock. `FilterSpec` states the refinement. The verdict names its packet
because otherwise a wrong rejection would pass as the rejection of another packet.
**LongFormIDs** models senders whose ids start again under the same key, with the
timestamp that has to tell them from old ones: a session starts after a backoff of a second,
or at once when the client was suspended and is resumed.

**KeyStates** models the key states of one session at both ends. `TriggerSoftReset`,
`ReadSendKey`, `BeginLocal` and `TriggerReturns` are the steps of a local soft reset,
`SoftResetArrives` and `BeginIncoming` those of the other end's. `Handshake`,
`ServerStages` and `KeyMethodArrives` are all that is kept of the negotiation.
`Succeed` and `Fail` are finishSoftReset with promotion, retirement and pruning;
`NoteRenegotiated` and `CloseDone` run after its lock is released. `ExpireKeyState` and
`ExpireReceiveCodec` end a transition window; `MarkClosing`, `FailAllRenegotiations`,
`FailOne` and `Closed` are Close. **ControlStream** models the writers that are parked
during a handover and the reader that follows it. **RenegotiationBudget** models what
asks for soft resets: a writer that numbers and accounts for batches, a reader, the
deadline loop, and the flag that keeps them to one reset at a time.

**DataQueue** models `data_queue.go` and the two ways it is used. With `PeerConnection`
it is the queue of a `udpPeerPacketConnection`: one reader at a time, new packets
dropped when full, `Close` under the lock of the pushers. Without it, it is the queue of
a `Client` in TLS mode or of a `Server`: several readers, old packets dropped, `Drain`
after the sessions ended. A push is five steps because the token is sent after the lock
is released. **PacketFIFO** is its abstract specification, a bounded queue without ring,
locks and wake-ups; `RingIsFIFO` says that every step of the ring is one of its steps.

**DataWrites** follows one call that writes packets through route lookup, framing,
numbering, encryption and link, with who owns each buffer at each stage.
**StreamFraming** models packets over a byte stream whose writes and reads stop at any
byte. **Fragmentation** models fragments with short sequence numbers and their
reassembly. **Keepalive** models both ends' one-second loops, message senders and
readers. Times are ages in seconds begun. The clock of the code is finer: a stamp is taken
after the write, a tick comes somewhere in its second, so a comparison at the limit itself
may go either way (`Passed`), and an end that pings may send nothing for `PingInterval + 1`
seconds (`PingPeriod`). A second passes once all that can run within it has run:
goroutines are taken to be prompt.

**Admission** models the stateless challenge, the two rate windows and the slots.
**ServerSessions** models the listener, the registries (by peer, source address, peer-id
and identity) and every session's worker. **IPPool** models leases of both families, the
memory of who held which address, and the routes.

**ClientSupervisor** models the supervisor goroutine against Suspend, Resume,
RestartSession, WaitReady and Close. **ClientCredentials** models what is staged, when a
token is used, what is asked of the application and what a refusal does. A record that the
control loop or a renegotiation has read is acted on later (`LoopReads`, then
`LoopPublishes`, `LoopApplies` or `LoopJudges` and `LoopFinishes`); one is in hand at a time.
Whether the client is suspended when a session ends is left open (`Intercept`).
**TunnelEvents** models the dispatcher of configuration callbacks, **PushedOptions** the
merging of what is pushed. **StaticKey** models static key sessions as a client, a TCP
server or a UDP server.

What a program is configured with before it starts (`options` of Keepalive and
ServerSessions, `settings` of ClientCredentials, `config` of IPPool, `use` of DataQueue,
`role` of StaticKey) is a variable that the initial state chooses and no step changes. One
run then covers several configurations, and a theorem covers every one the assumptions
allow.

## Runs

An MC module puts several instances side by side. Its variable `part` is chosen in the
initial state and never changes; one instance runs, the variables of the others rest. A
property names the part it is about, so a run is the sum of its parts and nothing is
interleaved that the code keeps apart. Where TLAPS proves a property of a component, the
MC module extends that component and checks the very same definition.

| Run | Parts | Checks |
|---|---|---|
| control_channel | one end talks; a close in the middle of a run; both talk; wrapped client key; timer | InOrderExactlyOnce, HeldWhenCovered, TimerPaced |
| receive | window with timestamps; fragments mixed, too large, in order | AcceptedOnce, FilterSpec, ReassembledWhole |
| static_key | ids of a static key and of control packets; short and monotonic window; TCP server, UDP server, client | FreshAccepted, WindowsAreFilters, NothingLeftBehind |
| data_path | ring of a client, ring of a connection, writes of a server and of a client, byte stream | NoLostWakeup, PacketsInOneHand, RingIsFIFO, WritesAccounted, StreamInOrder |
| keys | key-ids reused; both ends reset; a server closes; control messages | KeysKept, StreamServed, HandoverBacked, KeysAgree, ReadInOrder |
| renewal | ids at their limit; budgets; idle, silent and inactive tunnels | PacketIDOnce, OneResetAtATime, BudgetOwnTraffic, IdleTunnelLives, TimersFire |
| server | replace, move, close, TCP; leases, memory, layout; admission | RegistriesTrue, ActiveKept, LeasesTrue, StickyKept, AdmissionBounded |
| client | supervisor; static and dynamic challenges; pushed options; events | OneSessionAtATime, ChallengesTrue, AskedAndSentOnce, TunnelTrue |
| reliable_live | two chunks, fair-lossy link | EveryChunkDelivered |
| live | one small part of everything that waits | WaiterServed, HandoversEnd, KeyRenewed, CallsReturn, EveryRemoteTried, NoEventStays |
| reliable_window | five chunks, receive buffer of four | AcknowledgedIsHeld, **violated** |
| server_evict | three sessions of one address, one slot | EvictedEnds, **violated** |

**What the less obvious ones say.** `HeldWhenCovered` is the promise behind an
acknowledgment, under the condition that makes it true. `ReadInOrder` takes the two ends to
number their streams alike, which is what `KeysAgree` is about. `KeysAgree` allows two ends to
disagree on a key only after a negotiation that ended differently at the two, once the
receiver has newer keys or used the key-id again, or when two negotiations are paired
crosswise (the last takes more soft resets than the run has; simulation of longer
behaviours shows it). `WritesAccounted` follows the ownership of every buffer of a call
through each way it can fail. `ReassembledWhole` holds although sequence numbers come
round, because the window clears the buffers it leaves. `TimersFire` and
`IdleTunnelLives` are the two sides of keepalive: the timers end a dead tunnel and never a
living one. `ActiveKept` and `StickyKept` are about steps: what a newcomer may take from
whom. `KeysKept` says which keys an end uses: it sends with the newest that finished, receives with
none whose key state is gone, and does not lose the key it sends with. `FreshAccepted` holds across
sessions; only a session resumed within the second of the one before, whose ids and timestamp
repeat, has to get past the ids that arrived. `TimerPaced` allows runSender to repeat a packet before
the first timeout for two reasons, three higher acknowledgments and an overflow of the shift, and
bounds the wait even then. The run goes past the overflow. With the code's two seconds in
nanoseconds it comes with the 34th transmission, after about half an hour without an
acknowledgment; the interval is then negative and the packet goes out with every tick.

**Bounds.** Buffers, key-ids, ids and periods are scaled down so that each limit is
reached: sizes matter only relative to each other. `reliable_window` keeps the
ratio of 1 to 2 between send and receive buffer. The ids of the replay window lie
on both sides of every border (word, window, last id); `MaxPacketID` and `MaxUint32` stand
for 2^32 - 1, `SequenceMask` for the width of a fragment's sequence number. Where fragments
must not be mixed, the network skips at most `Modulus - ReceiveWindow` sequence numbers
(`MaxJump`): after a larger jump a number cannot be told from its last use, in the code as
in the model. A ring of two places wraps around and overflows within four packets; two
pushers and two readers are the fewest that compete for one token, and since they are
interchangeable `data_path` uses symmetry. Three sessions, or three key states, are the
fewest in which one is overtaken by one that is itself overtaken. `MaxSessions`,
`MaxSequence`, `MaxMessages`, `MaxKey`, `LastPacket` and the capacities of links only end a
behaviour. The parts of `live` are smaller than those of the safety runs because the graph
is searched once for every temporal formula.

**Deadlock** is checked in `renewal`, whose timers go on for ever. Elsewhere the system may
stop: a finished transfer, a closed queue, client or server, a clock at its end.

**Fairness** is stated in `MCLive` part by part, and in `MCControlChannel`. Everywhere it says that
goroutines that can run do run and that timers fire. Beyond that: the link of
`reliable_live` is fair-lossy (a packet sent for ever arrives), without which nothing can
be delivered; a negotiation ends, by its `mustNegotiate` deadline; in `KeyRenewed` the peer
goes on sending and, of attempts without end, one succeeds; a reader of a stream calls
again. Nothing makes an application call, a peer answer, a user respond to a challenge
or anybody close.

## Findings

`reliable_window`: `processIncomingControlPacket` acknowledges a packet before
`TryInsertIncomingPacket` refuses an id outside the receive window. The send buffer
bounds how many packets are in flight, not how far apart their ids are. While one
packet is lost repeatedly, later ones are acknowledged and free their slots, until an
id lies past the window: it is acknowledged, refused and forgotten. The code relies on the
opposite where `waitForReliableDelivery` takes an empty send buffer for delivery.

`server_evict`: `promoteInitialSession` evicts the session it displaces from every registry
under the lock and closes it after. When the promoted session finds no slot in
between, the function returns early and nobody closes the displaced one: it keeps its
slot and its address, and is in no registry where a packet or `Close` could find it. Its own
timeouts end it, or the end of the server's context.

Smaller observations made while modelling. The models contain the behaviour; no run is about it,
and the properties are worded so that they hold beside it.

- `finishSoftReset` calls `onRenegotiated` after its lock (`renegotiation.go:217`): of two promotions in a row the older
  may report last, and the budget then ignores the key in use until the next reset. `BudgetOwnTraffic`
  is about a budget and the key it names.
- `beginLocalSoftReset` reads the current key-id outside the lock (`renegotiation.go:97`), and a late
  soft reset may name a key-id that was released meanwhile. Two negotiations may then be paired
  crosswise at the two ends, each sending with what the other takes for the expiring key, until
  the next reset. `KeyAgreed` names the exception (`Crossed`).
- A session whose authentication failed is still given a peer-id (`server_session.go:249`); when
  the ids are used up it ends without the AUTH_FAILED the comment at line 300 describes.
- With three sessions of one identity the third does not wait for the first
  (`server_tls.go:434`): for a while two of them have a tunnel address. `RegistriesTrue` says that
  one at most is registered.
- A refused answer is sent again when the supervisor misses the refusal. It does not look at the error
  while the client is suspended (`client_supervisor.go:274`, `325`). Another error may end the session first
  (`client_session_tls.go:627`). `authFailedError` blames a token even when the staged answer was
  sent (`control_directives.go:134`), and a renegotiation may send the token in between.
  `AskedAndSentOnce` names these cases.
- A challenge cancelled between a read that timed out and the repeated request
  (`client_control.go:60`) ends the session with a retryable error.
- A control loop may publish a challenge for a session that was just closed
  (`control_directives.go:129`); `ChallengesTrue` names this one exception.
- A route pushed again with an open gateway is compared with one whose gateway was filled in
  (`tunnel_options.go:345`) and appended again; `TunnelTrue` does not say that a route appears once.
- The callback of an event taken before `Close` may begin after `Close` returned
  (`client_tunnel.go:101`).
- `Suspend` and `Resume` start a static key session without a backoff (`client_supervisor.go:325`). Within
  a second it has the timestamp of the session before, and a peer that kept its window refuses ids it
  has seen; `FreshAccepted` names such sessions. `Fail` finishes a static
  session while its `readLoop` still has packets, so a client's queue may be filled behind its
  drain; `NothingLeftBehind` checks empty queues for servers, where nobody calls `Fail`.

## Proofs

All from the assumptions named in the modules (`...Assumption`): sizes and limits are
natural numbers, ends are distinct, and little else. A theorem that names a property is
about the definition the run of that component checks, for every value of the constants.

**Reliable layer** (`ReliableStreamProofs`: the stream; `ReliableProofs`: types, buffers
and the theorems).

- `TypeCorrect`, and `StreamInvariant`: `StreamInv` is inductive. In-order delivery is
  not inductive alone; it needs that packets carry what was written (`PacketsTrue`),
  that buffered chunks are true and ordered (`ChunksTrue`, `ChunksOrdered`), and that a
  consumed id is on its way or was abandoned by a stopped reader (`NothingSkipped`).
  `InOrderExactlyOnceHolds` follows.
- `AlwaysHeldWhenCovered`: as long as what an end has written fits the receive buffer
  (`Covered`), acknowledged packets are held. Without that `reliable_window` is the
  counterexample. `HeldInv` extends the claim to every acknowledgment pending, in hand,
  on the link or in flight.

**Data path** (`DataPathProofs`).

- `WindowInvariant`: `WindowInv` is inductive. `AcceptedOnce` alone is not: it needs that
  the bitmap knows exactly the accepted ids it covers (`BitmapTrue`). The lemmas
  `SetBitBit` and `ShiftBit` carry the argument from words and carries to offsets.
  `AcceptedOnceHolds` follows.
- `WindowImplementsFilter`: the refinement. `OpensInitializes` and `ContinuesPasses` show
  that the tests of the code and of the filter agree packet by packet, `ReapExpires`
  that reaping is expiry (for this `ArrivalsTrue` is in the invariant).
- `NoWakeupLost`, for any number of pushers and readers. `QueueInv` records who holds the
  lock (`LocksHeld`) and that whoever makes the ring non-empty, or leaves packets behind
  after taking the token, has the token still to send (`FirstSignals`).
- `AlwaysPacketsInOneHand`. That a packet is handled once is a sum over pushers, ring,
  readers and releases, which no step preserves by itself. The proof replaces it by `Once`:
  a packet is released once and nowhere else, or it has exactly one place in exactly one
  hand, in the ring or in one batch. Each action is a lemma that moves places. `HandsInv`
  adds that nobody pushes once `Close` is about to drain, so that nothing slips in behind it.
- `RingImplementsFIFO`: every step of the ring, with its head that wraps around, is a step of
  the bounded queue or none. It rests on `RingTrue` (the places in use are the first `length`
  from the head) and on what a push, a pop and a drop do to the sequence of those places.

**Keys** (`KeyStatesProofs`).

- `StreamAlwaysServed`, `HandoverAlwaysBacked` and `DoneClosedOnce`, for
  any number of key-ids, resets and callers, from one inductive invariant (`Invariance`)
  that ties registered key states, receive keys, the control stream and what every
  negotiation in flight remembers.
- `KeysAlwaysLive`: the part of `KeysKept` that counts nothing (`KeysLive`). Beside the invariant
  above, the argument follows the status of each key state through every step that
  changes one: a promotion makes a lame duck of the key state it displaces, and whoever ends a
  key state takes its receive key away in the same step.
- `AlwaysReadInOrder`: control messages are read in the order written across any number of
  handovers. `OrderInv` orders what was read, the record in the reader's hand, what each
  stream still carries and the stream a writer is about to use; the reader looks at the
  sequence again after a blocking read (`ReaderAhead`), and the writer holds `writeAccess`
  from its check to its write (`WriterAhead`).

**Packet ids and static keys** (`PacketIDProofs`).

- `EveryPacketIDOnce` (no id is used twice with a key although numbering and sending are
  separate steps and promotions come between), `OneResetAlways` and `BudgetCountsItsKey`
  (writer, reader and promotion interleave, and no traffic of another key is counted).
- `FreshIsAccepted`, a step property. The invariant says that what the window has seen was
  sent, and that a (timestamp, id) pair to be sent lies above all that were: within a session
  because ids grow, between sessions because a backoff of a second separates their timestamps. For
  a session that was resumed at once it says only that its timestamp is the largest.
- `AlwaysNothingLeftBehind`, for a client, a TCP and a UDP server and any number of sessions.
  `TunnelInv` says that only the session the supervisor runs can have a connection, that it
  keeps it until `Close` of the session has been through, that nobody can close a session
  the supervisor has not made current, and what is over at each step of `Close`.

**Keepalive** (`KeepaliveProofs`): `IdleTunnelAlwaysLives` and `TimersAlwaysFire`, for all
intervals and limits and a link of any delay. A loop decides on ages it read earlier, so
`AliveInv` relates what a loop holds to the ages of now (`LoopsTrue`). Over a link that works,
with timeouts above `PingPeriod` and the delay (`LinkWorks`), it follows a sign of life from the sender that owes it (`Pings`) through the link to the
reader (`Hears`).

**Client** (`ClientProofs`): `AlwaysOneSession` and `AlwaysBacksOff` from `SupervisorInv`,
which says which session the application can see at each step of the supervisor and who
ends its reads. `ChallengesAlwaysTrue` and `AlwaysAskedAndSentOnce`
from `CredentialInv`, which says whose challenge may be pending or held unpublished, and that
while a refusal is to be dealt with the supervisor is on its way there with
`sentInteractiveCredentials` still set (`RefusalInv`), so that it drops the answer.

**Server** (`ServerProofs`).

- `AlwaysRegistriesTrue` and `AlwaysActiveKept` from `ServerInv`. That the registries agree
  is not inductive: a session passes through states in which some have it and some do not.
  `ServerInv` says that every entry leads to a session which its own peer address leads to
  (`EntriesTrue`), that an initial session has no slot and has not got past its
  authentication (`InitialAt`), and which steps a session that holds a slot can be at
  (`StepsTrue`). The slots are a cardinality, counted with the theorems on finite sets.
- `AlwaysAdmissionBounded` from `AdmissionInv`: the bucket a cookie was made for and the time
  now agree with its age although buckets wrap around, and the count of the window of
  `allowInitialPacket` covers the resets let through, refunds included.

A leaf of these proofs that names no prover is one of Zenon's (`USE Zenon`); those that need
arithmetic, records or functions name SMT.

**Only model-checked.**

- Everything about liveness: the prover has no reasoning about fairness or `ENABLED`.
- `LeasesTrue` and `StickyKept` (the search of the pool for an address), `StreamInOrder` (bytes
  of a stream cut at any place), `ReassembledWhole` (fragments put together),
  `TunnelTrue` (merged lists) and `WritesAccounted` (sums over the packets of a batch) rest on
  recursive definitions or folds, and so on induction over data.
- `TimerPaced` is about powers of two; `KeysKept` beyond `KeysLive` counts the keys staged beside the
  one in use.
- `WindowsAreFilters` is the theorem `WindowImplementsFilter` at other constants.
- `KeysAgree` relates the two ends across a network that may repeat and delay everything, with the
  exceptions above; the invariant of `KeyStatesProofs` is one of each end by itself.

## Not modelled, and why

- Cryptography, TLS, key derivation, certificates, packet layout, compression and the
  clamping of MSS: computations on bytes without interleavings, within reach of ordinary tests.
  A handshake is reduced to its outcome and to the order of its messages.
- Parsing, formatting and validation of options. Only the merging of pushed options depends on
  what came before.
- Sockets and dialing: external, modelled as calls that succeed, fail or block.
- Read and write deadlines of the control channel, the drop counters of the queues, and log output.
- A push applied by the control loop of a session that was already closed: `PushedOptions`
  has the options of one session at a time.
- That a UDP static key server keeps answering after a restart, that a client refused by the rate
  limit is admitted later, and that a message sender ends when its session does, are liveness claims no run makes.

`tlc -config <run>.cfg <module>` repeats a run and `tlapm <module>.tla` a proof.
