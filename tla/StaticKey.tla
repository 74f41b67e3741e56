----------------------------- MODULE StaticKey ------------------------------
(***************************************************************************)
(* client_session_static.go and server_static.go: a tunnel with a shared   *)
(* key.  There is no control channel: a session is a connection and the    *)
(* readLoop on it.  A server runs the same sessions inside a Client of its *)
(* own, whose dial accepts a TCP connection ("listen") or borrows the one  *)
(* bound datagram socket ("packets"); an application's client dials        *)
(* ("dial") and may ask for a new session with RestartSession.             *)
(*                                                                         *)
(* The supervisor is the one of ClientSupervisor, reduced to what a static *)
(* session can meet.  A step ends where a lock is released or a goroutine  *)
(* blocks.  Deadlines are reduced to: a read ends by itself.  The slot of  *)
(* a session is used again when no goroutine holds the session.            *)
(***************************************************************************)
EXTENDS Integers, FiniteSets, FiniteSetsExt

CONSTANTS
  Roles,        \* what the tunnel may be: "listen", "packets" or "dial"
  MaxSessions,  \* bound: sessions somebody holds at the same time
  QueueLimit,   \* the capacity of the packet queues
  Closes        \* whether the tunnel may be closed or its context end

ASSUME TunnelAssumption ==
  /\ Roles \subseteq {"listen", "packets", "dial"} /\ MaxSessions \in Nat /\ QueueLimit \in Nat

VARIABLES
  role,        \* one of them
  pc,          \* where runSupervisor is
  session,     \* the slot of the session it runs, 0 for none
  sess,        \* slot -> the session in it
  toClose,     \* slots somebody is about to call Close on
  current,     \* lifecycle.currentSession, 0 for nil
  watched,     \* the session context.AfterFunc would close, 0 for none
  cancelled,   \* the context of the supervisor is done
  reads,       \* dataReadDone is open
  stored,      \* the server still knows its listener or packet link
  listening,   \* that listener or socket is open
  queue,       \* packets in incomingDataPackets of the client
  serverLoop,  \* where staticKeyServer.readLoop is
  serverQueue, \* packets in incomingDataPackets of the server
  closing      \* where Close is

transport == <<stored, listening>>
queues == <<queue, serverLoop, serverQueue>>
supervisor == <<pc, session, current, watched>>
tunnelVars == <<role, supervisor, sess, toClose, cancelled, reads, transport, queues, closing>>

Slots == 1..MaxSessions
None == 0
Server == role # "dial"
ClientClosed == closing \in {"clientClosed", "drained", "done"}

\* life: open, closing (s.closed is set) or closed.  conn: the packetConnection.
\* messages: the dataChannelMessageSender.  done: what s.done holds.
NoSession == [life |-> "closed", conn |-> "none", ready |-> FALSE, done |-> "open",
              reader |-> "none", messages |-> "none"]
NewStaticKeyClientSession == [NoSession EXCEPT !.life = "open"]

TunnelInit ==
  /\ role \in Roles
  /\ pc = "top" /\ session = None /\ current = None /\ watched = None
  /\ sess = [n \in Slots |-> NoSession]
  /\ toClose = {}
  /\ cancelled = FALSE /\ reads = TRUE
  /\ stored = Server /\ listening = Server
  /\ queue = 0 /\ serverQueue = 0
  /\ serverLoop = IF Server THEN "idle" ELSE "over"
  /\ closing = "no"

-----------------------------------------------------------------------------
\* The session: Close, Fail and finish.

Finished(s, err) ==
  [s EXCEPT !.ready = FALSE, !.done = IF @ = "open" THEN err ELSE @]

Marked(s) == [s EXCEPT !.ready = FALSE, !.life = "closing"]
Closed(s) ==
  [s EXCEPT !.life = "closed",
            !.messages = IF @ = "running" THEN "shut" ELSE @,
            !.conn = IF @ = "open" THEN "closed" ELSE @]

\* Close marks the session under its lock ...
CloseMarks(n) ==
  /\ n \in toClose /\ sess[n].life = "open"
  /\ sess' = [sess EXCEPT ![n] = Marked(@)]
  /\ toClose' = toClose \ {n}
  /\ UNCHANGED <<supervisor, cancelled, reads, transport, queues, closing>>

\* ... then shuts the message sender down, cancels its context and closes the
\* connection: all that is left of the session is its readLoop.
CloseEnds(n) ==
  /\ sess[n].life = "closing"
  /\ sess' = [sess EXCEPT ![n] = Closed(@)]
  /\ UNCHANGED <<supervisor, toClose, cancelled, reads, transport, queues, closing>>

\* Another Close waits for the first one.
CloseAgain(n) ==
  /\ n \in toClose /\ sess[n].life = "closed"
  /\ toClose' = toClose \ {n}
  /\ UNCHANGED <<supervisor, sess, cancelled, reads, transport, queues, closing>>

\* RestartSession of an application: Fail finishes the session and closes it.
RestartSession ==
  /\ role = "dial" /\ current # None /\ current \notin toClose
  /\ sess' = [sess EXCEPT ![current] = Finished(@, "error")]
  /\ toClose' = toClose \cup {current}
  /\ UNCHANGED <<supervisor, cancelled, reads, transport, queues, closing>>

-----------------------------------------------------------------------------
\* readLoop.

Reader(n, s) ==
  /\ sess' = [sess EXCEPT ![n] = s]
  /\ UNCHANGED <<supervisor, toClose, cancelled, reads, transport, serverLoop, serverQueue,
                 closing>>

Ends(n, err) == [Finished(sess[n], err) EXCEPT !.reader = "over"]
Goes(n, step) == [sess[n] EXCEPT !.reader = step]

LoopTop(n) ==
  /\ sess[n].reader = "top"
  /\ Reader(n, IF cancelled \/ sess[n].life = "closed" THEN Ends(n, "nil") ELSE Goes(n, "arm"))
  /\ UNCHANGED queue

\* SetReadDeadline fails on a closed connection; the connection of a datagram
\* server has no descriptor of its own and notices in Read.
SetReadDeadline(n) ==
  /\ sess[n].reader = "arm"
  /\ Reader(n, IF sess[n].conn # "closed" THEN Goes(n, "reading")
               ELSE Ends(n, IF role = "packets" THEN "nil" ELSE "error"))
  /\ UNCHANGED queue

\* The bound socket outlives its sessions: a read that passed the check of
\* c.closed still takes a datagram.
Readable(n) == IF role = "packets" THEN listening ELSE sess[n].conn = "open"

\* A packet that is not authentic, or a replay, ends a session over a stream.
ReadPackets(n, kind) ==
  /\ sess[n].reader = "reading" /\ Readable(n)
  /\ kind = "dataBad" => role = "listen"
  /\ Reader(n, CASE kind = "data" -> Goes(n, "hand")
                 [] kind = "dataBad" -> Goes(n, "handLast")
                 [] kind = "bad" /\ role = "listen" -> Ends(n, "error")
                 [] OTHER -> Goes(n, "check"))
  /\ UNCHANGED queue

\* The read times out, or finds the peer silent for too long.
ReadTimesOut(n) ==
  /\ sess[n].reader = "reading" /\ Readable(n)
  /\ Reader(n, Goes(n, "check"))
  /\ UNCHANGED queue

PingRestart(n) ==
  /\ sess[n].reader = "reading"
  /\ Reader(n, Ends(n, "error"))
  /\ UNCHANGED queue

\* The connection, or below it the socket, is closed.
ReadClosed(n) ==
  /\ sess[n].reader = "reading"
  /\ ~Readable(n) \/ sess[n].conn = "closed"
  /\ Reader(n, Ends(n, "nil"))
  /\ UNCHANGED queue

\* The peer ends the connection, or the network reports an error.
PeerGone(n) ==
  /\ role # "packets"
  /\ sess[n].reader = "reading" /\ sess[n].conn = "open"
  /\ Reader(n, Ends(n, "error"))
  /\ UNCHANGED queue

\* handleIncomingDataPayloads: a full queue drops its oldest packet.
HandOver(n) ==
  /\ sess[n].reader \in {"hand", "handLast"}
  /\ queue' = Min({queue + 1, QueueLimit})
  /\ Reader(n, IF sess[n].reader = "handLast" THEN Ends(n, "error") ELSE Goes(n, "check"))

\* checkKeepalive of a peer that is not silent; a ping that is due starts the
\* message sender.
CheckKeepalive(n, due) ==
  /\ sess[n].reader = "check"
  /\ Reader(n, [Goes(n, "top") EXCEPT !.messages =
                  IF due /\ sess[n].life = "open" /\ @ = "none" THEN "running" ELSE @])
  /\ UNCHANGED queue

-----------------------------------------------------------------------------
\* runSupervisor.

Supervise(next) ==
  /\ pc' = next
  /\ UNCHANGED <<cancelled, transport, queues, closing>>

Free(n) ==
  /\ n \notin {session, current, watched} \cup toClose
  /\ sess[n].life = "closed" /\ sess[n].reader \in {"none", "over"}

NewClientSession ==
  /\ pc = "top" /\ ~cancelled /\ ~ClientClosed
  /\ \E n \in Slots :
       /\ Free(n) /\ \A other \in Slots : Free(other) => n <= other
       /\ session' = n
       /\ sess' = [sess EXCEPT ![n] = NewStaticKeyClientSession]
  /\ Supervise("dial")
  /\ UNCHANGED <<current, watched, toClose, reads>>

Leave ==
  /\ \/ pc = "top" /\ (cancelled \/ ClientClosed)
     \/ pc = "backoff" /\ cancelled
  /\ Supervise("exit")
  /\ UNCHANGED <<session, current, watched, sess, toClose, reads>>

\* A server's dial: it accepts a connection, or opens a session on the socket.
DialContext ==
  /\ pc = "dial"
  /\ \/ role = "dial" /\ ~cancelled /\ Supervise("install")
     \/ role = "dial" /\ Supervise("failed")
     \/ Server /\ Supervise(IF ~stored THEN "failed"
                            ELSE IF role = "listen" THEN "accept" ELSE "install")
  /\ UNCHANGED <<session, current, watched, sess, toClose, reads>>

Accept ==
  /\ pc = "accept" /\ listening
  /\ Supervise("install")
  /\ UNCHANGED <<session, current, watched, sess, toClose, reads>>

AcceptFails ==
  /\ pc = "accept" /\ ~listening
  /\ Supervise("failed")
  /\ UNCHANGED <<session, current, watched, sess, toClose, reads>>

\* The end of Initialize: a context that ended meanwhile closes the connection.
Initialize ==
  /\ pc = "install"
  /\ sess' = [sess EXCEPT ![session].conn = IF cancelled THEN "closed" ELSE "open"]
  /\ Supervise(IF cancelled THEN "failed" ELSE "current")
  /\ UNCHANGED <<session, current, watched, toClose, reads>>

\* Mutant: a session that comes too late is dropped without being closed.
SetCurrentSessionDrops ==
  /\ pc = "current"
  /\ IF ClientClosed \/ cancelled
     THEN /\ Supervise("exit") /\ session' = None
          /\ UNCHANGED <<current, watched>>
     ELSE /\ Supervise("start") /\ session' = session
          /\ current' = session /\ watched' = session
  /\ UNCHANGED <<sess, toClose, reads>>

SetCurrentSession ==
  /\ pc = "current"
  /\ session' = session
  /\ IF ClientClosed \/ cancelled
     THEN Supervise("failed") /\ UNCHANGED <<current, watched>>
     ELSE Supervise("start") /\ current' = session /\ watched' = session
  /\ UNCHANGED <<sess, toClose, reads>>

\* context.AfterFunc.
ContextCloses ==
  /\ cancelled /\ watched # None
  /\ watched' = None /\ toClose' = toClose \cup {watched}
  /\ UNCHANGED <<pc, session, current, sess, cancelled, reads, transport, queues, closing>>

Started(s) == [s EXCEPT !.ready = TRUE, !.reader = "top"]

Start ==
  /\ pc = "start"
  /\ IF cancelled \/ sess[session].life # "open"
     THEN Supervise("failed") /\ sess' = sess
     ELSE /\ Supervise("wait")
          /\ sess' = [sess EXCEPT ![session] = Started(@)]
  /\ UNCHANGED <<session, current, watched, toClose, reads>>

\* The session is over, or it never began: the supervisor closes it ...
SessionOver ==
  /\ \/ pc = "wait" /\ sess[session].done # "open"
     \/ pc = "failed"
  /\ Supervise("closing")
  /\ watched' = None /\ toClose' = toClose \cup {session}
  /\ UNCHANGED <<session, current, sess, reads>>

\* ... and tries again unless the client is closed or the session ended
\* without an error.
SessionClosed ==
  /\ pc = "closing" /\ sess[session].life = "closed"
  /\ Supervise(IF cancelled \/ ClientClosed \/ sess[session].done = "nil"
               THEN "exit" ELSE "backoff")
  /\ session' = None
  /\ current' = IF current = session THEN None ELSE current
  /\ UNCHANGED <<watched, sess, toClose, reads>>

Backoff ==
  /\ pc = "backoff" /\ ~cancelled
  /\ Supervise("top")
  /\ UNCHANGED <<session, current, watched, sess, toClose, reads>>

\* closeSupervisorReadableState, and supervisorDone.
Exit ==
  /\ pc = "exit"
  /\ Supervise("done")
  /\ reads' = FALSE /\ current' = None
  /\ UNCHANGED <<session, watched, sess, toClose>>

-----------------------------------------------------------------------------
\* The readers of the two queues.

Queues == UNCHANGED <<supervisor, sess, toClose, cancelled, reads, transport, closing>>

LoopReads ==
  /\ serverLoop = "idle" /\ queue > 0
  /\ queue' = queue - 1 /\ serverLoop' = "hand"
  /\ serverQueue' = serverQueue /\ Queues

\* A packet with the address of nobody is dropped.
LoopPushes ==
  /\ serverLoop = "hand"
  /\ serverLoop' = "idle"
  /\ serverQueue' \in {serverQueue, Min({serverQueue + 1, QueueLimit})}
  /\ queue' = queue /\ Queues

LoopEnds ==
  /\ serverLoop = "idle"
  /\ ~reads \/ (cancelled /\ queue = 0)
  /\ serverLoop' = "over"
  /\ UNCHANGED <<queue, serverQueue>> /\ Queues

ApplicationReads ==
  /\ IF Server THEN serverQueue > 0 /\ serverQueue' = serverQueue - 1 /\ queue' = queue
               ELSE queue > 0 /\ queue' = queue - 1 /\ serverQueue' = serverQueue
  /\ serverLoop' = serverLoop /\ Queues

-----------------------------------------------------------------------------
\* Close of the server, and inside it Close of the client.

Closing(from, to) ==
  /\ closing = from /\ closing' = to
  /\ UNCHANGED <<pc, session, watched, sess>>

ContextDone ==
  /\ Closes /\ ~cancelled
  /\ cancelled' = TRUE
  /\ UNCHANGED <<supervisor, sess, toClose, reads, transport, queues, closing>>

CloseCancels ==
  /\ Closes
  /\ Closing("no", IF Server THEN "cancelled" ELSE "transportClosed")
  /\ cancelled' = (cancelled \/ Server)
  /\ UNCHANGED <<current, toClose, reads, transport, queues>>

CloseTransport ==
  \/ /\ Closing("cancelled", "unlinked")
     /\ stored' = FALSE
     /\ UNCHANGED <<current, toClose, cancelled, reads, listening, queues>>
  \/ /\ Closing("unlinked", "transportClosed")
     /\ listening' = FALSE
     /\ UNCHANGED <<current, toClose, cancelled, reads, stored, queues>>

CloseClient ==
  /\ Closing("transportClosed", "clientClosed")
  /\ reads' = FALSE /\ cancelled' = TRUE /\ current' = None
  /\ toClose' = toClose \cup ({current} \ {None})
  /\ UNCHANGED <<transport, queues>>

\* The client's Close waits for the supervisor before it drains its queue.
DrainClient ==
  /\ pc = "done"
  /\ Closing("clientClosed", IF Server THEN "drained" ELSE "done")
  /\ queue' = 0
  /\ UNCHANGED <<current, toClose, cancelled, reads, transport, serverLoop, serverQueue>>

\* The server's Close waits for readLoop before it drains the server's queue.
DrainServer ==
  /\ serverLoop = "over"
  /\ Closing("drained", "done")
  /\ serverQueue' = 0
  /\ UNCHANGED <<current, toClose, cancelled, reads, transport, queue, serverLoop>>

-----------------------------------------------------------------------------
SessionSteps(n) ==
  \/ CloseMarks(n) \/ CloseEnds(n) \/ CloseAgain(n)
  \/ LoopTop(n) \/ SetReadDeadline(n) \/ ReadTimesOut(n) \/ ReadClosed(n) \/ HandOver(n)
  \/ \E due \in BOOLEAN : CheckKeepalive(n, due)

SupervisorSteps ==
  \/ NewClientSession \/ Leave \/ DialContext \/ AcceptFails \/ Initialize \/ SetCurrentSession
  \/ ContextCloses \/ Start \/ SessionOver \/ SessionClosed \/ Backoff \/ Exit

CloseSteps == CloseTransport \/ CloseClient \/ DrainClient \/ DrainServer

Kinds == {"data", "bad", "dataBad", "ping"}

\* The peer and the network.
Outside ==
  \/ Accept
  \/ \E n \in Slots : PeerGone(n) \/ PingRestart(n) \/ (\E kind \in Kinds : ReadPackets(n, kind))

Calls == RestartSession \/ ApplicationReads \/ ContextDone \/ CloseCancels

TunnelNext ==
  /\ UNCHANGED role
  /\ \/ \E n \in Slots : SessionSteps(n)
     \/ SupervisorSteps \/ CloseSteps \/ LoopReads \/ LoopPushes \/ LoopEnds
     \/ Outside \/ Calls

TunnelSpec == TunnelInit /\ [][TunnelNext]_tunnelVars

-----------------------------------------------------------------------------
Steps == {"top", "dial", "accept", "install", "current", "start", "wait", "failed", "closing",
          "backoff", "exit", "done"}
SessionStates ==
  [life : {"open", "closing", "closed"}, conn : {"none", "open", "closed"}, ready : BOOLEAN,
   done : {"open", "nil", "error"}, messages : {"none", "running", "shut"},
   reader : {"none", "top", "arm", "reading", "hand", "handLast", "check", "over"}]

TunnelTypeOK ==
  /\ role \in Roles /\ pc \in Steps
  /\ session \in Slots \cup {None} /\ current \in {None, session} /\ watched \in {None, session}
  /\ sess \in [Slots -> SessionStates] /\ toClose \subseteq Slots
  /\ cancelled \in BOOLEAN /\ reads \in BOOLEAN /\ stored \in BOOLEAN /\ listening \in BOOLEAN
  /\ queue \in 0..QueueLimit /\ serverQueue \in 0..QueueLimit
  /\ serverLoop \in {"idle", "hand", "over"}
  /\ closing \in {"no", "cancelled", "unlinked", "transportClosed", "clientClosed", "drained",
                  "done"}

\* Ready tells a writer that a session has a connection to write to: Start and
\* Close race for the session, and RestartSession may come before Start.
ReadyWhileOpen ==
  \A n \in Slots : sess[n].ready => sess[n].life = "open" /\ sess[n].conn = "open"

\* Close shuts the message sender down, and a ping that is due at the same
\* moment starts none behind it (dataChannelMessages).
NoSenderLeft == \A n \in Slots : sess[n].life = "closed" => sess[n].messages # "running"

\* When Close has returned no connection, and on a server no listener, is
\* open: whatever the dial or the supervisor was about to do at that time.
NothingLeftOpen ==
  closing = "done" => ~listening /\ \A n \in Slots : sess[n].conn # "open"

\* When Close of a server has returned both queues are empty for good: a readLoop
\* finishes its session after the last packet it pushed, and both drains
\* wait for those who push.
DrainedEmpty == closing = "done" => queue = 0 /\ serverQueue = 0

\* A static key tunnel that is restarted or closed while it dials, accepts, starts or reads: a
\* session that is ready has a connection, a closed one no sender, and when Close has returned
\* no connection or listener is open and the queues of a server are empty.
NothingLeftBehind ==
  /\ TunnelTypeOK /\ ReadyWhileOpen /\ NoSenderLeft /\ NothingLeftOpen
  /\ Server => DrainedEmpty

-----------------------------------------------------------------------------
\* Why it holds.  Only the session the supervisor runs can have a connection, and it keeps the
\* connection until Close has been through; what Close waits for is the supervisor's exit.

Unconnected == {"dial", "accept", "install"}
Connected == {"current", "start", "wait", "failed", "closing"}

\* What holds of the session s in slot n while the supervisor is at step with the session in
\* slot running: a server's readLoop ends before its supervisor goes on, because only readLoop
\* itself finishes the session.
SessionRight(s, n, running, step, as) ==
  /\ s.conn = "open" => n = running /\ step \in Connected /\ s.life # "closed"
  /\ s.ready => s.life = "open" /\ s.conn = "open"
  /\ s.life = "closed" => s.messages # "running"
  /\ as # "dial" =>
       /\ s.reader \notin {"none", "over"} => n = running /\ step = "wait"
       /\ s.done # "open" => s.reader = "over"
  /\ n = running =>
       /\ step \in Unconnected => s.life = "open"
       /\ step \in Unconnected \cup {"current", "start"} => s.reader = "none"
       /\ step = "current" => s.life = "open" /\ s.conn = "open"
       /\ step = "start" /\ s.life # "closed" => s.conn = "open"

SessionsRight == \A n \in Slots : SessionRight(sess[n], n, session, pc, role)

\* Nobody can close a session the supervisor has not made current.
SupervisorRight ==
  /\ session = None <=> pc \notin Unconnected \cup Connected
  /\ pc \in Unconnected \cup {"current"} => session \notin toClose /\ current = None
  /\ watched # None => pc \in {"start", "wait", "failed"}

ClosingRight ==
  /\ listening => Server /\ closing \in {"no", "cancelled", "unlinked"}
  /\ closing \in {"drained", "done"} => pc = "done" /\ (Server => queue = 0)
  /\ closing = "done" /\ Server => serverLoop = "over" /\ serverQueue = 0

TunnelInv == TunnelTypeOK /\ SessionsRight /\ SupervisorRight /\ ClosingRight
=============================================================================
