------------------------------- MODULE MCLive -------------------------------
(***************************************************************************)
(* What comes to an end: waits, handovers, keys, connections that fail,    *)
(* and Close, each in a part by itself.  An initial state chooses the      *)
(* part; the variables of the other parts stay at Unused.  Each part is    *)
(* fair as its goroutines are.                                             *)
(***************************************************************************)
EXTENDS Integers

VARIABLES
  part,
  items, head, length, wake, access, incomingAccess, closed, pushing, wasEmpty, reading,
  closing, pushed, received, released,  \* of DataQueue
  keyStates, renegotiations, promoted, receiveCodecs, stream, budgetKey, trigger, incoming,
  keysClosing,  \* of KeyStates
  primary, begun, negotiating, changed, writeAccess, controlWriter, messagesSent, carried,
  controlReader, written, read,  \* of ControlStream
  offered, wire, streamClosed, readBuffer, readErr, timeouts, delivered, streamReader,
  accepted, claimed,  \* of StreamFraming
  sendKey, nextID, counted, budget, deadline, inProgress, resets, noting, writer, reader,
  loop, sent,  \* of RenegotiationBudget
  session, created, byPeer, byIdentity, byPeerID, udpActive, udpInitial, instances, listener,
  toClose, lifecycle,  \* of ServerSessions
  pc, err, attempt, open, current, failing, suspended, resumed, ended, terminal, reads,
  cancelled, watched, close, waiter, cursor, backoff,  \* of ClientSupervisor
  events, emitted, signalling, signalled, started, stopped, dispatcher, event,
  dispatchEnd,  \* of TunnelEvents
  tunnelStep, slot, sess, slotsToClose, currentSlot, watchedSlot, tunnelEnd, tunnelReads,
  stored, listening, tunnelQueue, serverLoop, serverQueue, tunnelClosing  \* of StaticKey

ringVars == <<items, head, length, wake, access, incomingAccess, closed, pushing, wasEmpty,
              reading, closing, pushed, received, released>>
keyVars == <<keyStates, renegotiations, promoted, receiveCodecs, stream, budgetKey, trigger,
             incoming, keysClosing>>
controlVars == <<primary, begun, negotiating, changed, writeAccess, controlWriter,
                 messagesSent, carried, controlReader, written, read>>
framingVars == <<offered, wire, streamClosed, readBuffer, readErr, timeouts, delivered,
                 streamReader, accepted, claimed>>
budgetVars == <<sendKey, nextID, counted, budget, deadline, inProgress, resets, noting, writer,
                reader, loop, sent>>
serverVars == <<session, created, byPeer, byIdentity, byPeerID, udpActive, udpInitial,
                instances, listener, toClose, lifecycle>>
clientVars == <<pc, err, attempt, open, current, failing, suspended, resumed, ended, terminal,
                reads, cancelled, watched, close, waiter, cursor, backoff>>
eventVars == <<events, emitted, signalling, signalled, started, stopped, dispatcher, event,
               dispatchEnd>>
staticVars == <<tunnelStep, slot, sess, slotsToClose, currentSlot, watchedSlot, tunnelEnd,
                tunnelReads, stored, listening, tunnelQueue, serverLoop, serverQueue,
                tunnelClosing>>
vars == <<part, ringVars, keyVars, controlVars, framingVars, budgetVars, serverVars, clientVars,
          eventVars, staticVars>>

Unused == 0

\* One pusher and two readers.
RingUse ==
  [peerConnection |-> FALSE, maxPackets |-> {0, 1}, sources |-> {"a"}, batches |-> {1, 2}]
Ring == INSTANCE DataQueue WITH
  Capacity <- 2, Pushers <- {"w"}, Readers <- {"r1", "r2"}, Addresses <- {"a"},
  Uses <- {RingUse}, use <- RingUse, LastPacket <- 2

\* A soft reset that the client asks for, and either end closed at any moment.
Keys == INSTANCE KeyStates WITH
  closing <- keysClosing, KeyIDMaxValue <- 3, tlsKeyScanSize <- 2, MaxSequence <- 1,
  Callers <- {"client"}, Closers <- {"client", "server"}

\* A control message while both ends change their streams.
Control == INSTANCE ControlStream WITH
  writer <- controlWriter, sent <- messagesSent, reader <- controlReader,
  Writers <- {"w"}, MaxHandovers <- 1, MaxMessages <- 1

\* Packets that arrive in pieces, larger than the first buffer, and reads that time out.
Framing == INSTANCE StreamFraming WITH
  closed <- streamClosed, reader <- streamReader, MaxUint16 <- 5,
  streamPacketReadBufferSize <- 3, Lengths <- {1, 3}, MaxPackets <- 2, MaxBatch <- 2,
  MaxTimeouts <- 1

\* A key with a limit of packets and a deadline.
Budget == INSTANCE RenegotiationBudget WITH
  received <- counted, bytesLimit <- 0, packetsLimit <- 2, aeadUsageLimit <- 0,
  packetIDWrapTrigger <- 4, MaxUint32 <- 5, RenegotiationInterval <- TRUE, Sizes <- {1},
  Batches <- {}, MaxKey <- 1, MaxReceived <- 3

\* A server that is closed while two sessions of one address begin.
ServerOptions ==
  [transport |-> "udp", arriving |-> {"A"}, shown |-> {"x"}, dataV2 |-> {TRUE},
   mayFail |-> {FALSE}, floating |-> {}, closes |-> TRUE, maxClients |-> 2, sessions |-> 2]
Server == INSTANCE ServerSessions WITH
  Addresses <- {"A"}, Identities <- {"x"}, Nobody <- "nobody", MaxClients <- 2,
  MaxSessions <- 2, Options <- {ServerOptions}, options <- ServerOptions

\* A client that is suspended, waited for and closed.
Client == INSTANCE ClientSupervisor WITH
  session <- attempt, closed <- ended, MaxSessions <- 1, Remotes <- 1, Addresses <- 1,
  AddressIndexed <- FALSE, DialErrors <- {}, StartErrors <- {"retry"},
  SessionErrors <- {"retry"}, ServerBackoff <- 0, Calls <- {"suspend", "wait", "close"}

\* A client with two remotes of two addresses, and every kind of error.
Errors == {"retry", "terminal", "challenge", "config", "restart", "restartNext",
           "temporaryStay", "temporaryAddress", "temporaryRemote"}
Reconnect == INSTANCE ClientSupervisor WITH
  session <- attempt, closed <- ended, MaxSessions <- 2, Remotes <- 2, Addresses <- 2,
  AddressIndexed <- TRUE, DialErrors <- {"retry"}, StartErrors <- Errors,
  SessionErrors <- Errors, ServerBackoff <- 90, Calls <- {}

\* Three events from two goroutines.
Events == INSTANCE TunnelEvents WITH
  wake <- signalled, close <- dispatchEnd, MaxEvents <- 3, Emitters <- {"supervisor", "loop"}

\* A static key server that is closed at any moment.
Listen == INSTANCE StaticKey WITH
  pc <- tunnelStep, session <- slot, toClose <- slotsToClose, current <- currentSlot,
  watched <- watchedSlot, cancelled <- tunnelEnd, reads <- tunnelReads, queue <- tunnelQueue,
  closing <- tunnelClosing, Roles <- {"listen"}, role <- "listen", MaxSessions <- 1,
  QueueLimit <- 1, Closes <- TRUE

-----------------------------------------------------------------------------
NoRing ==
  /\ items = Unused /\ head = Unused /\ length = Unused /\ wake = Unused /\ access = Unused
  /\ incomingAccess = Unused /\ closed = Unused /\ pushing = Unused /\ wasEmpty = Unused
  /\ reading = Unused /\ closing = Unused /\ pushed = Unused /\ received = Unused
  /\ released = Unused

NoKeys ==
  /\ keyStates = Unused /\ renegotiations = Unused /\ promoted = Unused
  /\ receiveCodecs = Unused /\ stream = Unused /\ budgetKey = Unused /\ trigger = Unused
  /\ incoming = Unused /\ keysClosing = Unused

NoControl ==
  /\ primary = Unused /\ begun = Unused /\ negotiating = Unused /\ changed = Unused
  /\ writeAccess = Unused /\ controlWriter = Unused /\ messagesSent = Unused
  /\ carried = Unused /\ controlReader = Unused /\ written = Unused /\ read = Unused

NoFraming ==
  /\ offered = Unused /\ wire = Unused /\ streamClosed = Unused /\ readBuffer = Unused
  /\ readErr = Unused /\ timeouts = Unused /\ delivered = Unused /\ streamReader = Unused
  /\ accepted = Unused /\ claimed = Unused

NoBudget ==
  /\ sendKey = Unused /\ nextID = Unused /\ counted = Unused /\ budget = Unused
  /\ deadline = Unused /\ inProgress = Unused /\ resets = Unused /\ noting = Unused
  /\ writer = Unused /\ reader = Unused /\ loop = Unused /\ sent = Unused

NoServer ==
  /\ session = Unused /\ created = Unused /\ byPeer = Unused /\ byIdentity = Unused
  /\ byPeerID = Unused /\ udpActive = Unused /\ udpInitial = Unused /\ instances = Unused
  /\ listener = Unused /\ toClose = Unused /\ lifecycle = Unused

NoClient ==
  /\ pc = Unused /\ err = Unused /\ attempt = Unused /\ open = Unused /\ current = Unused
  /\ failing = Unused /\ suspended = Unused /\ resumed = Unused /\ ended = Unused
  /\ terminal = Unused /\ reads = Unused /\ cancelled = Unused /\ watched = Unused
  /\ close = Unused /\ waiter = Unused /\ cursor = Unused /\ backoff = Unused

NoEvents ==
  /\ events = Unused /\ emitted = Unused /\ signalling = Unused /\ signalled = Unused
  /\ started = Unused /\ stopped = Unused /\ dispatcher = Unused /\ event = Unused
  /\ dispatchEnd = Unused

NoTunnel ==
  /\ tunnelStep = Unused /\ slot = Unused /\ sess = Unused /\ slotsToClose = Unused
  /\ currentSlot = Unused /\ watchedSlot = Unused /\ tunnelEnd = Unused
  /\ tunnelReads = Unused /\ stored = Unused /\ listening = Unused /\ tunnelQueue = Unused
  /\ serverLoop = Unused /\ serverQueue = Unused /\ tunnelClosing = Unused

Init ==
  \/ /\ NoKeys /\ NoControl /\ NoFraming /\ NoBudget /\ NoServer /\ NoClient /\ NoEvents
     /\ NoTunnel
     /\ part = "ring" /\ Ring!QueueInit
  \/ /\ NoRing /\ NoControl /\ NoFraming /\ NoBudget /\ NoServer /\ NoClient /\ NoEvents
     /\ NoTunnel
     /\ part = "keys" /\ Keys!Init
  \/ /\ NoRing /\ NoKeys /\ NoFraming /\ NoBudget /\ NoServer /\ NoClient /\ NoEvents
     /\ NoTunnel
     /\ part = "control" /\ Control!StreamInit
  \/ /\ NoRing /\ NoKeys /\ NoControl /\ NoBudget /\ NoServer /\ NoClient /\ NoEvents
     /\ NoTunnel
     /\ part = "framing" /\ Framing!Init
  \/ /\ NoRing /\ NoKeys /\ NoControl /\ NoFraming /\ NoServer /\ NoClient /\ NoEvents
     /\ NoTunnel
     /\ part = "budget" /\ Budget!Init
  \/ /\ NoRing /\ NoKeys /\ NoControl /\ NoFraming /\ NoBudget /\ NoClient /\ NoEvents
     /\ NoTunnel
     /\ part = "server" /\ Server!ServerInit
  \/ /\ NoRing /\ NoKeys /\ NoControl /\ NoFraming /\ NoBudget /\ NoServer /\ NoEvents
     /\ NoTunnel
     /\ \/ part = "client" /\ Client!ClientInit
        \/ part = "reconnect" /\ Reconnect!ClientInit
  \/ /\ NoRing /\ NoKeys /\ NoControl /\ NoFraming /\ NoBudget /\ NoServer /\ NoClient
     /\ NoTunnel
     /\ part = "events" /\ Events!Init
  \/ /\ NoRing /\ NoKeys /\ NoControl /\ NoFraming /\ NoBudget /\ NoServer /\ NoClient
     /\ NoEvents
     /\ part = "listen" /\ Listen!TunnelInit

Next ==
  \/ /\ part = "ring" /\ Ring!QueueNext
     /\ UNCHANGED <<part, keyVars, controlVars, framingVars, budgetVars, serverVars,
                    clientVars, eventVars, staticVars>>
  \/ /\ part = "keys" /\ Keys!Next
     /\ UNCHANGED <<part, ringVars, controlVars, framingVars, budgetVars, serverVars,
                    clientVars, eventVars, staticVars>>
  \/ /\ part = "control" /\ Control!StreamNext
     /\ UNCHANGED <<part, ringVars, keyVars, framingVars, budgetVars, serverVars, clientVars,
                    eventVars, staticVars>>
  \/ /\ part = "framing" /\ Framing!Next
     /\ UNCHANGED <<part, ringVars, keyVars, controlVars, budgetVars, serverVars, clientVars,
                    eventVars, staticVars>>
  \/ /\ part = "budget" /\ Budget!Next
     /\ UNCHANGED <<part, ringVars, keyVars, controlVars, framingVars, serverVars, clientVars,
                    eventVars, staticVars>>
  \/ /\ part = "server" /\ Server!ServerNext
     /\ UNCHANGED <<part, ringVars, keyVars, controlVars, framingVars, budgetVars, clientVars,
                    eventVars, staticVars>>
  \/ /\ \/ part = "client" /\ Client!ClientNext
        \/ part = "reconnect" /\ Reconnect!ClientNext
     /\ UNCHANGED <<part, ringVars, keyVars, controlVars, framingVars, budgetVars, serverVars,
                    eventVars, staticVars>>
  \/ /\ part = "events" /\ Events!Next
     /\ UNCHANGED <<part, ringVars, keyVars, controlVars, framingVars, budgetVars, serverVars,
                    clientVars, staticVars>>
  \/ /\ part = "listen" /\ Listen!TunnelNext
     /\ UNCHANGED <<part, ringVars, keyVars, controlVars, framingVars, budgetVars, serverVars,
                    clientVars, eventVars>>

On(p) == part = p

\* The goroutines run: a push that began ends, and a reader that was called or woken goes
\* on.  Nobody has to call, push or close.
RingFairness ==
  /\ WF_ringVars(On("ring") /\ (Ring!Lock("w") \/ Ring!PushItem("w") \/ Ring!Unlock("w")
                                \/ Ring!SignalPush("w")))
  /\ \A r \in {"r1", "r2"} :
       WF_ringVars(/\ On("ring")
                   /\ \/ Ring!CheckClosed(r) \/ Ring!SignalPop(r) \/ Ring!Wake(r)
                      \/ Ring!SeeClosed(r) \/ \E max \in {0, 1} : Ring!Pop(r, max))

\* Every negotiation ends by its mustNegotiate deadline, and goroutines keep running.
KeyFairness ==
  \A e \in Keys!Ends :
    /\ WF_keyVars(On("keys") /\ Keys!TriggerReturns(e))
    /\ WF_keyVars(On("keys") /\ Keys!FailAllRenegotiations(e))
    /\ WF_keyVars(On("keys") /\ (Keys!Succeed(e, 1) \/ Keys!Fail(e, 1)))
    /\ WF_keyVars(On("keys") /\ Keys!NoteRenegotiated(e, 1))
    /\ WF_keyVars(On("keys") /\ Keys!CloseDone(e, 1))
    /\ WF_keyVars(On("keys") /\ Keys!FailOne(e, 1))

\* Negotiations end, and the goroutines run; nothing makes a deadline pass.
ControlFairness ==
  /\ \A e \in Control!Sides : WF_controlVars(On("control") /\ Control!End(e))
  /\ WF_controlVars(On("control") /\ Control!WriterLooks("w"))
  /\ WF_controlVars(On("control") /\ Control!Write("w"))
  /\ WF_controlVars(On("control") /\ Control!WriterWakes("w"))

\* A reader that calls again reads what has arrived.
FramingFairness ==
  WF_framingVars(On("framing") /\ (Framing!TakePacket \/ Framing!ReturnError \/ Framing!Fill))

\* The goroutines run, time passes, the peer goes on sending with the key in use, and of
\* attempts without end one succeeds.
BudgetFairness ==
  /\ SF_budgetVars(On("budget") /\ Budget!ConsumeInboundCounter(sendKey))
  /\ WF_budgetVars(On("budget") /\ (Budget!ConsumeInboundUsage \/ Budget!ReaderRequests))
  /\ WF_budgetVars(On("budget") /\ Budget!NoteRenegotiated)
  /\ WF_budgetVars(On("budget") /\ Budget!ResetReturns)
  /\ WF_budgetVars(On("budget") /\ \E i \in DOMAIN resets : Budget!Promoted(i) \/ Budget!Failed(i))
  /\ SF_budgetVars(On("budget") /\ \E i \in DOMAIN resets : Budget!Promoted(i))
  /\ WF_budgetVars(On("budget") /\ Budget!DeadlinePasses)
  /\ WF_budgetVars(On("budget") /\ (Budget!LoopReadsDeadline \/ Budget!LoopRequests))

\* What blocks returns once the session is closed or the server's context ends.
\* handshakeDeadline and serverScheduledExitInterval pass.
ServerFairness ==
  /\ WF_serverVars(/\ On("server")
                   /\ \/ Server!ReserveInstance \/ Server!RegisterSession \/ Server!StartWorker
                      \/ Server!RegisterInitialSession \/ Server!StopListening)
  /\ \A s \in Server!Sessions :
       /\ WF_serverVars(On("server") /\ Server!Proceed(s))
       /\ WF_serverVars(On("server") /\ Server!CloseSession(s))
       /\ WF_serverVars(On("server") /\ Server!Interrupted(s))
       /\ WF_serverVars(On("server") /\ Server!Expired(s))
  /\ WF_serverVars(On("server") /\ Server!CloseSessions)
  /\ WF_serverVars(On("server") /\ Server!EndClose)

\* Goroutines run and timers fire; the application and the peer may do nothing.
ClientFairness ==
  /\ WF_clientVars(On("client") /\ Client!Supervise)
  /\ WF_clientVars(On("client") /\ Client!Fail)
  /\ WF_clientVars(On("client") /\ Client!ContextDone)
  /\ WF_clientVars(On("client") /\ Client!EndClose)
  /\ WF_clientVars(On("client") /\ waiter = "woken" /\ Client!WaitReady)

ReconnectFairness ==
  /\ WF_clientVars(On("reconnect") /\ Reconnect!Supervise)
  /\ WF_clientVars(On("reconnect") /\ Reconnect!Fail)
  /\ WF_clientVars(On("reconnect") /\ Reconnect!ContextDone)

\* Goroutines run and callbacks return.
EventFairness ==
  /\ WF_eventVars(On("events") /\ Events!Signal)
  /\ WF_eventVars(On("events") /\ (Events!Loop \/ Events!Wake \/ Events!Call \/ Events!Return))
  /\ WF_eventVars(On("events") /\ Events!Closed)

\* Goroutines run; dials and reads end.  The peer and the callers owe nothing.
ListenFairness ==
  /\ \A n \in Listen!Slots :
       /\ WF_staticVars(On("listen") /\ Listen!CloseMarks(n))
       /\ WF_staticVars(On("listen") /\ Listen!CloseEnds(n))
       /\ WF_staticVars(On("listen") /\ Listen!CloseAgain(n))
       /\ WF_staticVars(On("listen") /\ Listen!SessionSteps(n))
  /\ WF_staticVars(On("listen") /\ Listen!SupervisorSteps)
  /\ WF_staticVars(On("listen") /\ Listen!ContextCloses)
  /\ WF_staticVars(On("listen") /\ Listen!CloseSteps)
  /\ WF_staticVars(On("listen") /\ Listen!LoopReads)
  /\ WF_staticVars(On("listen") /\ Listen!LoopPushes)
  /\ WF_staticVars(On("listen") /\ Listen!LoopEnds)

Spec ==
  /\ Init /\ [][Next]_vars
  /\ RingFairness /\ KeyFairness /\ ControlFairness /\ FramingFairness /\ BudgetFairness
  /\ ServerFairness /\ ClientFairness /\ ReconnectFairness /\ EventFairness /\ ListenFairness

-----------------------------------------------------------------------------
\* ReadPackets: readers do not wait for ever beside packets: each is served, or others take
\* the packets.  ReadPacket of a stream: every packet written in full arrives, although reads
\* time out in the middle of it and it is larger than the buffer.
ReaderWaits ==
  \/ On("ring") /\ length > 0 /\ \E r \in {"r1", "r2"} : reading[r] = "wait"
  \/ On("framing") /\ delivered # accepted
WaiterServed == ReaderWaits ~> ~ReaderWaits

\* triggerSoftReset: whoever waits for a soft reset is answered, and the control messages
\* that are parked during a handover are released, also when the end is closed meanwhile;
\* a writer that waits for the handover is woken by its end, no close of changed is lost.
HandoverWaits ==
  \/ /\ On("keys")
     /\ \E e \in Keys!Ends : trigger[e].step = "wait" \/ stream[e].handover # 0
  \/ On("control") /\ controlWriter["w"].step # "idle"
HandoversEnd == HandoverWaits ~> ~HandoverWaits

\* requestSoftReset: a key past its deadline, or worn out by traffic that goes on, is
\* replaced, however many attempts fail first.
OldKeyUsed ==
  /\ On("budget") /\ sendKey = 0
  /\ deadline = "past" \/ (budget.activeKeyID = 0 /\ Budget!Exhausted)
KeyRenewed == OldKeyUsed ~> (On("budget") => sendKey # 0)

\* Close of a server, a client and a static key tunnel returns, whatever their goroutines
\* wait for, and so does WaitReady when the client is closed or has given up.
CallWaits ==
  \/ On("server") /\ lifecycle = "closing"
  \/ On("client") /\ (close = "waiting" \/ ((ended \/ terminal) /\ waiter = "blocked"))
  \/ On("listen") /\ tunnelClosing \notin {"no", "done"}
CallsReturn == CallWaits ~> ~CallWaits

\* Resume, nextConnectionCursor: a client that is resumed goes on, and while no session comes
\* up, and neither the server nor the configuration asks to stay, every remote is tried again
\* and again, after a wait that is neither shorter than what the server asked for nor, unless
\* it asked, longer than the maximum.
EveryRemoteTried ==
  /\ [][On("reconnect") => Reconnect!BacksOff]_vars
  /\ (On("client") /\ pc = "suspended" /\ ~suspended) ~> (On("client") => pc # "suspended")
  /\ \A r \in {0, 1} :
       \/ []<>(On("reconnect") => pc = "connect" /\ cursor.remote = r)
       \/ <>[](On("reconnect") /\ pc = "done")
       \/ []<>(/\ On("reconnect")
               /\ \/ pc = "running"
                  \/ err.class \in {"config", "restart", "temporaryStay", "challenge"})

\* signalTunnelConfigurationEvent drops a signal when the channel is full: even so no event
\* stays in the queue, and the dispatcher ends when it is stopped.
EventWaits ==
  On("events") /\ (events # <<>> \/ (stopped /\ started /\ dispatcher # "done"))
NoEventStays == EventWaits ~> ~EventWaits
=============================================================================
