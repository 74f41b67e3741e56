-------------------------- MODULE ClientSupervisor --------------------------
(***************************************************************************)
(* client.go, client_supervisor.go, client_restart.go and the life of a    *)
(* session in client_session_tls.go: the supervisor goroutine that keeps a *)
(* client connected, against the calls of the application (Suspend,        *)
(* Resume, RestartSession, WaitReady, Close) and the end of its context.   *)
(*                                                                         *)
(* A step ends where a lock is released or the goroutine blocks.  The      *)
(* supervisor runs one session at a time; a caller may still hold an old   *)
(* one.  Sessions are numbered, and a number is used again when nobody     *)
(* holds it.  Dialling, the handshake and a running session are reduced to *)
(* the class of the error they end with.                                   *)
(***************************************************************************)
EXTENDS Integers, FiniteSets, FiniteSetsExt

CONSTANTS
  MaxSessions,      \* bound: sessions somebody holds at the same time
  Remotes,          \* len(c.remotes)
  Addresses,        \* addresses a remote resolves to
  AddressIndexed,   \* whether DialContextWithAddressIndex is set
  DialErrors,       \* how Initialize may fail
  StartErrors,      \* how Start may fail
  SessionErrors,    \* how a running session may end
  ServerBackoff,    \* backoff a temporary authentication failure asks for
  Calls             \* the calls the application makes

ErrorClasses == {"retry", "terminal", "challenge", "config", "exhausted", "restart",
                 "restartNext", "temporaryStay", "temporaryAddress", "temporaryRemote"}

ASSUME ClientAssumption ==
  /\ MaxSessions \in Nat /\ Addresses \in Nat /\ Remotes \in Nat \ {0}
  /\ AddressIndexed \in BOOLEAN
  /\ DialErrors \cup StartErrors \cup SessionErrors \subseteq ErrorClasses
  /\ ServerBackoff \in Nat

VARIABLES
  pc,          \* where runSupervisor is
  err,         \* the error it deals with, and whether the session was initialized
  session,     \* the newest session: its number, ready, and what done holds
  open,        \* sessions with an open transport
  current,     \* lifecycle.currentSession, 0 for nil
  failing,     \* Fail calls on their way: session and error
  suspended,   \* lifecycle.suspended
  resumed,     \* whether the channel waitResumed waits on is closed
  closed,      \* lifecycle.closed
  terminal,    \* lifecycle.terminalError is set
  reads,       \* whether dataReadDone is open
  cancelled,   \* the supervisor's context is done
  watched,     \* the session context.AfterFunc would close, 0 for none
  close,       \* where Close is
  waiter,      \* where WaitReady is
  cursor,      \* clientConnectionCursor
  backoff      \* the wait before the next attempt, in seconds

lifecycle == <<current, suspended, resumed, closed, terminal, reads, cancelled>>
clientVars == <<pc, err, session, open, failing, lifecycle, watched, close, waiter, cursor, backoff>>

InitialBackoff == 1
MaximumBackoff == 60
Sessions == 1..MaxSessions
None == 0
NoError == [class |-> "none", initialized |-> FALSE]

ClientInit ==
  /\ pc = "top"
  /\ err = NoError
  /\ session = [number |-> None, ready |-> FALSE, done |-> "open"]
  /\ open = {}
  /\ failing = {}
  /\ current = None
  /\ suspended = FALSE /\ resumed = FALSE
  /\ closed = FALSE /\ terminal = FALSE
  /\ reads = TRUE
  /\ cancelled = FALSE
  /\ watched = None
  /\ close = "none"
  /\ waiter = "idle"
  /\ cursor = [remote |-> 0, address |-> 0]
  /\ backoff = InitialBackoff

\* signalStateChangedLocked
Signalled == waiter' = IF waiter = "blocked" THEN "woken" ELSE waiter

\* finish: the first error is the one done keeps.
Finished(e) == [session EXCEPT !.ready = FALSE, !.done = IF @ = "open" THEN e ELSE @]

-----------------------------------------------------------------------------
(* The supervisor, up to a running session *)

Top ==
  /\ pc = "top"
  /\ pc' = IF cancelled \/ closed THEN "exit" ELSE "resume"
  /\ UNCHANGED <<err, session, open, failing, lifecycle, watched, close, waiter, cursor, backoff>>

\* Mutant: the end of the context is not waited for.
WaitResumedOnly ==
  /\ \/ /\ pc = "resume"
        /\ pc' = IF suspended THEN "suspended" ELSE "connect"
        /\ resumed' = FALSE
     \/ /\ pc = "suspended" /\ resumed
        /\ pc' = "connect"
        /\ UNCHANGED resumed
  /\ UNCHANGED <<err, session, open, failing, current, suspended, closed, terminal, reads,
                 cancelled, watched, close, waiter, cursor, backoff>>

\* waitResumed takes the channel under the lock and waits on it after.
WaitResumed ==
  /\ \/ /\ pc = "resume"
        /\ pc' = IF suspended THEN "suspended" ELSE "connect"
        /\ resumed' = FALSE
     \/ /\ pc = "suspended" /\ (resumed \/ cancelled)
        /\ pc' \in (IF resumed THEN {"connect"} ELSE {}) \cup (IF cancelled THEN {"exit"} ELSE {})
        /\ UNCHANGED resumed
  /\ UNCHANGED <<err, session, open, failing, current, suspended, closed, terminal, reads,
                 cancelled, watched, close, waiter, cursor, backoff>>

\* newClientSession and Initialize; whatever fails is closed again.
Initialize ==
  LET unused == Sessions \ {f[1] : f \in failing}
      n == CHOOSE number \in unused : TRUE
      beyond == AddressIndexed /\ cursor.address >= Addresses
      failures == IF cancelled THEN {"retry"}
                  ELSE IF beyond THEN {"exhausted"} ELSE DialErrors
  IN  /\ pc = "connect" /\ unused # {}
      /\ session' = [number |-> n, ready |-> FALSE, done |-> "open"]
      /\ \/ /\ \E e \in failures : err' = [class |-> e, initialized |-> FALSE]
            /\ pc' = "decide"
            /\ UNCHANGED <<open, watched>>
         \/ /\ ~cancelled /\ ~beyond
            /\ open' = open \cup {n}
            /\ watched' = n
            /\ pc' = "publish"
            /\ UNCHANGED err
      /\ UNCHANGED <<failing, lifecycle, close, waiter, cursor, backoff>>

\* setCurrentSession
Publish ==
  /\ pc = "publish"
  /\ IF closed \/ cancelled
     THEN /\ open' = open \ {session.number}
          /\ watched' = None
          /\ pc' = "exit"
          /\ UNCHANGED <<current, waiter>>
     ELSE /\ current' = session.number
          /\ Signalled
          /\ pc' = "starting"
          /\ UNCHANGED <<open, watched>>
  /\ UNCHANGED <<err, session, failing, suspended, resumed, closed, terminal, reads, cancelled,
                 close, cursor, backoff>>

\* Start fails by itself or because the session was closed under it; it closes
\* the session, and the supervisor clears it.
StartFails ==
  /\ pc = "starting"
  /\ \E e \in IF session.number \in open THEN StartErrors ELSE {"retry"} :
       err' = [class |-> e, initialized |-> FALSE]
  /\ session' = Finished("nil")
  /\ open' = open \ {session.number}
  /\ watched' = None
  /\ current' = IF current = session.number THEN None ELSE current
  /\ Signalled
  /\ pc' = "decide"
  /\ UNCHANGED <<failing, suspended, resumed, closed, terminal, reads, cancelled, close, cursor,
                 backoff>>

\* setReady: the last thing Start does, whether or not the session was closed
\* after its last read.
StartReady ==
  /\ pc = "starting"
  /\ session' = [session EXCEPT !.ready = TRUE]
  /\ Signalled
  /\ pc' = "ready"
  /\ UNCHANGED <<err, open, failing, lifecycle, watched, close, cursor, backoff>>

Established ==
  /\ pc = "ready"
  /\ backoff' = InitialBackoff
  /\ IF suspended
     THEN /\ session' = Finished("suspended")
          /\ open' = open \ {session.number}
          /\ Signalled
     ELSE UNCHANGED <<session, open, waiter>>
  /\ pc' = "running"
  /\ UNCHANGED <<err, failing, lifecycle, watched, close, cursor>>

\* controlMessageLoop, the keepalive loop or a data packet finishes the session.
SessionEnds ==
  /\ pc \in {"ready", "running"} /\ session.number \in open /\ session.done = "open"
  /\ \E e \in SessionErrors : session' = Finished(e)
  /\ Signalled
  /\ UNCHANGED <<pc, err, open, failing, lifecycle, watched, close, cursor, backoff>>

\* Mutant: the session is forgotten without being closed.
SessionDoneOpen ==
  /\ pc = "running" /\ session.done # "open"
  /\ err' = [class |-> session.done, initialized |-> TRUE]
  /\ session' = Finished("nil")
  /\ watched' = None
  /\ current' = IF current = session.number THEN None ELSE current
  /\ Signalled
  /\ pc' = "decide"
  /\ UNCHANGED <<open, failing, suspended, resumed, closed, terminal, reads, cancelled, close,
                 cursor, backoff>>

SessionDone ==
  /\ pc = "running" /\ session.done # "open"
  /\ err' = [class |-> session.done, initialized |-> TRUE]
  /\ session' = Finished("nil")
  /\ open' = open \ {session.number}
  /\ watched' = None
  /\ current' = IF current = session.number THEN None ELSE current
  /\ Signalled
  /\ pc' = "decide"
  /\ UNCHANGED <<failing, suspended, resumed, closed, terminal, reads, cancelled, close, cursor,
                 backoff>>

-----------------------------------------------------------------------------
(* After a session *)

Terminal(e) == e = "terminal"
Temporary == {"temporaryStay", "temporaryAddress", "temporaryRemote"}

\* Mutant: a session that failed before it was up stays where it is.
AdvanceStay(e) == IF e.class = "exhausted" THEN "remote" ELSE "stay"

\* nextConnectionCursor: which way the cursor goes.
Advance(e) ==
  LET wanted ==
        CASE e.class \in {"restart", "temporaryStay"} -> "stay"
          [] e.class \in {"restartNext", "temporaryAddress"} -> "address"
          [] e.class \in {"exhausted", "temporaryRemote"} -> "remote"
          [] OTHER -> IF e.initialized \/ e.class = "config" THEN "stay" ELSE "address"
  IN  IF wanted = "address" /\ ~AddressIndexed THEN "remote" ELSE wanted

NextConnectionCursor(e) ==
  CASE Advance(e) = "stay" -> cursor
    [] Advance(e) = "address" -> [cursor EXCEPT !.address = @ + 1]
    [] Advance(e) = "remote" -> [remote |-> (cursor.remote + 1) % Remotes, address |-> 0]

\* applyClientSessionErrorBackoff
SessionErrorBackoff(e) ==
  IF e.class \in Temporary /\ ServerBackoff > backoff THEN ServerBackoff ELSE backoff

Stopped == cancelled \/ closed
Suspension == err.class = "suspended" \/ suspended
AtOnce == backoff' = InitialBackoff /\ pc' = "top"

\* interceptAuthChallenge asks the application: it answers, cancels, or the
\* context ends and the wait that follows notices.
Decide ==
  /\ pc = "decide"
  /\ \/ /\ Stopped \/ (err.class = "nil" /\ ~Suspension)
        /\ pc' = "exit"
        /\ UNCHANGED <<terminal, reads, waiter, cursor, backoff>>
     \/ /\ ~Stopped /\ Suspension
        /\ AtOnce
        /\ UNCHANGED <<terminal, reads, waiter, cursor>>
     \/ /\ ~Stopped /\ ~Suspension /\ err.class = "challenge"
        /\ AtOnce
        /\ UNCHANGED <<terminal, reads, waiter, cursor>>
     \/ /\ ~Stopped /\ ~Suspension
        /\ Terminal(err.class) \/ err.class = "challenge"
        /\ terminal' = TRUE
        /\ reads' = FALSE
        /\ Signalled
        /\ pc' = "exit"
        /\ UNCHANGED <<cursor, backoff>>
     \/ /\ ~Stopped /\ ~Suspension
        /\ ~Terminal(err.class) /\ err.class \notin {"nil", "challenge"}
        /\ cursor' = NextConnectionCursor(err)
        /\ backoff' = SessionErrorBackoff(err)
        /\ pc' = "backoff"
        /\ UNCHANGED <<terminal, reads, waiter>>
  /\ err' = NoError
  /\ UNCHANGED <<session, open, failing, current, suspended, resumed, closed, cancelled, watched,
                 close>>

\* waitClientReconnectBackoff
Backoff ==
  /\ pc = "backoff"
  /\ \/ /\ backoff' = Min({2 * backoff, MaximumBackoff})
        /\ pc' = "top"
     \/ /\ cancelled
        /\ pc' = "exit"
        /\ UNCHANGED backoff
  /\ UNCHANGED <<err, session, open, failing, lifecycle, watched, close, waiter, cursor>>

\* closeSupervisorReadableState
Exit ==
  /\ pc = "exit"
  /\ IF closed \/ terminal
     THEN UNCHANGED <<closed, current, reads>>
     ELSE closed' = TRUE /\ current' = None /\ reads' = FALSE
  /\ Signalled
  /\ pc' = "done"
  /\ UNCHANGED <<err, session, open, failing, suspended, resumed, terminal, cancelled, watched,
                 close, cursor, backoff>>

-----------------------------------------------------------------------------
(* The application *)

FailCall(e) == failing' = IF current = None THEN failing ELSE failing \cup {<<current, e>>}

Suspend ==
  /\ "suspend" \in Calls /\ ~suspended /\ ~closed
  /\ suspended' = TRUE
  /\ FailCall("suspended")
  /\ UNCHANGED <<pc, err, session, open, current, resumed, closed, terminal, reads, cancelled,
                 watched, close, waiter, cursor, backoff>>

Resume ==
  /\ suspended
  /\ suspended' = FALSE
  /\ resumed' = TRUE
  /\ UNCHANGED <<pc, err, session, open, failing, current, closed, terminal, reads, cancelled,
                 watched, close, waiter, cursor, backoff>>

RestartSession ==
  /\ "restart" \in Calls /\ current # None
  /\ FailCall("retry")
  /\ UNCHANGED <<pc, err, session, open, lifecycle, watched, close, waiter, cursor, backoff>>

\* Fail: finish and Close, of a session that may have been replaced.
Fail ==
  /\ \E f \in failing :
       /\ failing' = failing \ {f}
       /\ open' = open \ {f[1]}
       /\ session' = IF f[1] = session.number THEN Finished(f[2]) ELSE session
  /\ Signalled
  /\ UNCHANGED <<pc, err, lifecycle, watched, close, cursor, backoff>>

\* The context given to NewClient ends.
CancelContext ==
  /\ "cancel" \in Calls /\ ~cancelled
  /\ cancelled' = TRUE
  /\ UNCHANGED <<pc, err, session, open, failing, current, suspended, resumed, closed, terminal,
                 reads, watched, close, waiter, cursor, backoff>>

\* context.AfterFunc
ContextDone ==
  /\ cancelled /\ watched # None
  /\ watched' = None
  /\ open' = open \ {watched}
  /\ session' = IF watched = session.number THEN Finished("nil") ELSE session
  /\ Signalled
  /\ UNCHANGED <<pc, err, failing, lifecycle, close, cursor, backoff>>

\* Close holds the session it found; the last two steps are close and wait.
BeginClose ==
  /\ "close" \in Calls /\ close = "none"
  /\ closed' = TRUE
  /\ reads' = FALSE
  /\ cancelled' = TRUE
  /\ FailCall("nil")
  /\ current' = None
  /\ close' = "waiting"
  /\ UNCHANGED <<pc, err, session, open, suspended, resumed, terminal, watched, waiter, cursor,
                 backoff>>

EndClose ==
  /\ close = "waiting" /\ pc = "done" /\ ~\E f \in failing : f[2] = "nil"
  /\ close' = "returned"
  /\ UNCHANGED <<pc, err, session, open, failing, lifecycle, watched, waiter, cursor, backoff>>

ClientReady == current # None /\ current = session.number /\ session.ready

WaitReady ==
  /\ "wait" \in Calls /\ waiter \in {"idle", "woken"}
  /\ waiter' = IF terminal THEN "failed" ELSE IF closed THEN "closed"
               ELSE IF ClientReady THEN "ready" ELSE "blocked"
  /\ UNCHANGED <<pc, err, session, open, failing, lifecycle, watched, close, cursor, backoff>>

-----------------------------------------------------------------------------

Supervise ==
  \/ Top \/ WaitResumed \/ Initialize \/ Publish \/ StartFails \/ StartReady \/ Established
  \/ SessionDone \/ Decide \/ Backoff \/ Exit

ClientNext ==
  \/ Supervise \/ SessionEnds
  \/ Suspend \/ Resume \/ RestartSession \/ Fail
  \/ CancelContext \/ ContextDone \/ BeginClose \/ EndClose
  \/ WaitReady

ClientSpec == ClientInit /\ [][ClientNext]_clientVars

-----------------------------------------------------------------------------
(* Properties *)

Places == {"top", "resume", "suspended", "connect", "publish", "starting", "ready", "running",
           "decide", "backoff", "exit", "done"}
Reasons == ErrorClasses \cup {"nil", "suspended"}
SessionType == [number : Sessions \cup {None}, ready : BOOLEAN, done : Reasons \cup {"open"}]
ErrType == [class : Reasons \cup {"none"}, initialized : BOOLEAN]
CursorType == [remote : 0..(Remotes - 1), address : 0..Addresses]
Waits == {"idle", "blocked", "woken", "ready", "closed", "failed"}

\* The variables hold what their comments say.
TypeOK ==
  /\ pc \in Places /\ err \in ErrType /\ session \in SessionType
  /\ open \subseteq Sessions
  /\ current \in Sessions \cup {None} /\ watched \in Sessions \cup {None}
  /\ failing \subseteq Sessions \X {"suspended", "retry", "nil"}
  /\ suspended \in BOOLEAN /\ resumed \in BOOLEAN /\ closed \in BOOLEAN
  /\ terminal \in BOOLEAN /\ reads \in BOOLEAN /\ cancelled \in BOOLEAN
  /\ close \in {"none", "waiting", "returned"}
  /\ waiter \in Waits /\ cursor \in CursorType /\ backoff \in Nat

\* runSupervisor closes a session on every way out of it: one transport is open
\* at a time, it is the newest session's, and the supervisor is at work on it.
\* When Close has returned there is none.
NoSessionLeft ==
  /\ open \subseteq {session.number}
  /\ open # {} => pc \in {"publish", "starting", "ready", "running"}
  /\ close = "returned" => open = {} /\ pc = "done"

\* Suspend, waitResumed and the check after Start: a session that is up while
\* the client is suspended has been ended or somebody is about to fail it.
SuspendedDown ==
  pc = "running" /\ suspended /\ session.done = "open" => <<session.number, "suspended">> \in failing

\* setTerminalError and closeSupervisorReadableState: once the supervisor is gone
\* readers and writers are told, by a terminal error or because the client is
\* closed, and no session is left for them.
SupervisorGone ==
  pc = "done" => (terminal \/ closed) /\ ~reads /\ current = None

\* WaitReady takes the channel and the state under one lock: whoever blocks will
\* be woken.  Close itself wakes nobody, the end of the supervisor does.
WaiterNotStranded ==
  waiter = "blocked" => ~terminal /\ ~ClientReady /\ pc # "done"

\* runSupervisor against Suspend, RestartSession, WaitReady and Close in any order: one
\* transport is open at a time and none once Close has returned, a session that is up while
\* the client is suspended is about to end, when the supervisor is gone readers and writers
\* know, and whoever waits for the client will be woken.
OneSessionAtATime ==
  TypeOK /\ NoSessionLeft /\ SuspendedDown /\ SupervisorGone /\ WaiterNotStranded

\* min(backoff*2, clientReconnectMaximumBackoff) and the server's wish: the wait
\* before an attempt is never shorter than what the server asked for, and longer
\* than the maximum only when it asked for that.
BacksOff ==
  pc = "decide" /\ pc' = "backoff" =>
    /\ backoff' >= backoff
    /\ err.class \in Temporary => backoff' >= ServerBackoff
    /\ err.class \notin Temporary => backoff' <= MaximumBackoff

-----------------------------------------------------------------------------
(* Why they hold *)

HasSession == {"publish", "starting", "ready", "running"}
Shown == {"starting", "ready", "running"}

\* setCurrentSession and clearCurrentSession: the application sees the newest session
\* from its publication to its end, unless Close took it away.
CurrentInv ==
  /\ pc \in HasSession => session.number # None
  /\ current # None => current = session.number /\ pc \in Shown
  /\ pc \in Shown /\ ~closed => current = session.number

\* Whoever ends the supervisor ends the reads, and Close returns after it.
EndInv ==
  /\ closed \/ terminal => ~reads
  /\ pc = "done" => terminal \/ closed
  /\ close = "returned" => pc = "done"

\* newClientSession: a cursor past the last address is noticed before a session
\* exists, so that no session error moves it further.
CursorInv ==
  AddressIndexed /\ (pc \in HasSession \/ (pc = "decide" /\ ~cancelled /\ err.class # "exhausted"))
    => cursor.address < Addresses

\* The wait is above the maximum only while the client waits or when it waits no more.
BackoffInv == pc \notin {"backoff", "exit", "done"} => backoff <= MaximumBackoff

\* The inductive invariant of the supervisor.
SupervisorInv ==
  /\ OneSessionAtATime
  /\ CurrentInv /\ EndInv /\ CursorInv /\ BackoffInv
=============================================================================
