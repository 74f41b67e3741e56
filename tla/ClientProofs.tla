---------------------------- MODULE ClientProofs ----------------------------
(***************************************************************************)
(* OneSessionAtATime for every number of sessions, remotes and addresses,  *)
(* every set of errors and every set of calls of the application, by the   *)
(* inductive invariant SupervisorInv; and BacksOff, an action property.    *)
(***************************************************************************)
EXTENDS ClientSupervisor, ClientCredentials, TLAPS

\* The prover of a leaf that names none.
USE Zenon

\* finish: the session keeps its number, is not ready any more, and its done channel holds
\* an error from now on.
LEMMA FinishedEffect ==
  ASSUME session \in SessionType, NEW e \in Reasons
  PROVE  /\ Finished(e) \in SessionType
         /\ Finished(e).number = session.number
         /\ Finished(e).ready = FALSE
         /\ Finished(e).done # "open"
BY DEF Finished, SessionType, Reasons, ErrorClasses

\* signalStateChangedLocked: whoever was blocked no longer is.
LEMMA SignalledEffect ==
  ASSUME waiter \in Waits, Signalled
  PROVE  waiter' \in Waits /\ waiter' # "blocked"
BY DEF Waits, Signalled

\* min(backoff*2, clientReconnectMaximumBackoff) is a number up to the maximum.
LEMMA DoubledBackoff ==
  ASSUME backoff \in Nat
  PROVE  Min({2 * backoff, MaximumBackoff}) \in 0..MaximumBackoff
<1> DEFINE S == {2 * backoff, MaximumBackoff}
<1>1. S \subseteq Nat /\ MaximumBackoff \in S
  BY SMT DEF MaximumBackoff
<1>2. \E x \in S : \A y \in S : x <= y
  <2>1. CASE 2 * backoff <= MaximumBackoff
    BY <2>1, SMT DEF MaximumBackoff
  <2>2. CASE ~(2 * backoff <= MaximumBackoff)
    BY <2>2, SMT DEF MaximumBackoff
  <2> QED BY <2>1, <2>2
<1>3. Min(S) \in S /\ \A y \in S : Min(S) <= y
  <2> HIDE DEF S
  <2> QED BY <1>2 DEF Min
<1>4. QED BY <1>1, <1>3, SMT DEF MaximumBackoff

\* nextConnectionCursor: the cursor stays within the remotes, and within the addresses when
\* it was at one and the error does not say that they are exhausted.
LEMMA CursorMoves ==
  ASSUME cursor \in CursorType, NEW e \in ErrType,
         AddressIndexed /\ e.class # "exhausted" => cursor.address < Addresses
  PROVE  NextConnectionCursor(e) \in CursorType
<1>1. Advance(e) \in {"stay", "address", "remote"}
  BY DEF Advance
<1>2. CASE Advance(e) = "stay"
  BY <1>2 DEF NextConnectionCursor
<1>3. CASE Advance(e) = "address"
  <2>1. AddressIndexed /\ e.class # "exhausted"
    BY <1>3, ClientAssumption DEF Advance
  <2>2. NextConnectionCursor(e) = [cursor EXCEPT !.address = @ + 1]
    BY <1>3 DEF NextConnectionCursor
  <2>3. QED BY <2>1, <2>2, ClientAssumption, SMT DEF CursorType
<1>4. CASE Advance(e) = "remote"
  <2>1. NextConnectionCursor(e) = [remote |-> (cursor.remote + 1) % Remotes, address |-> 0]
    BY <1>4 DEF NextConnectionCursor
  <2>2. (cursor.remote + 1) % Remotes \in 0..(Remotes - 1)
    BY ClientAssumption, SMT DEF CursorType
  <2>3. QED BY <2>1, <2>2, ClientAssumption, SMT DEF CursorType
<1>5. QED BY <1>1, <1>2, <1>3, <1>4

\* newClientSession and Initialize: a session that nobody holds is begun; it fails, for a
\* reason that is not an exhausted remote only when the cursor is at an address or the context
\* is done, or it has a transport.
LEMMA InitializeEffect ==
  ASSUME TypeOK, Initialize
  PROVE  /\ session' \in SessionType /\ session'.number \in Sessions
         /\ session'.ready = FALSE /\ session'.done = "open"
         /\ \/ /\ pc' = "decide" /\ err' \in ErrType /\ UNCHANGED <<open, watched>>
               /\ AddressIndexed /\ ~cancelled /\ err'.class # "exhausted" => cursor.address < Addresses
            \/ /\ pc' = "publish" /\ UNCHANGED err
               /\ open' = open \cup {session'.number} /\ watched' = session'.number
               /\ AddressIndexed => cursor.address < Addresses
<1> DEFINE unused == Sessions \ {f[1] : f \in failing}
           n == CHOOSE number \in unused : TRUE
           beyond == AddressIndexed /\ cursor.address >= Addresses
           failures == IF cancelled THEN {"retry"} ELSE IF beyond THEN {"exhausted"} ELSE DialErrors
<1>1. n \in unused
  BY Zenon DEF Initialize
<1>2. n \in Sessions
  BY <1>1, Zenon
<1>3. session' = [number |-> n, ready |-> FALSE, done |-> "open"]
  BY Zenon DEF Initialize
<1>4. \/ /\ \E e \in failures : err' = [class |-> e, initialized |-> FALSE]
         /\ pc' = "decide"
         /\ UNCHANGED <<open, watched>>
      \/ /\ ~cancelled /\ ~beyond
         /\ open' = open \cup {n} /\ watched' = n /\ pc' = "publish" /\ UNCHANGED err
  BY Zenon DEF Initialize
<1> HIDE DEF n, unused
<1>5. /\ session' \in SessionType /\ session'.number = n
      /\ session'.ready = FALSE /\ session'.done = "open"
  BY <1>2, <1>3 DEF SessionType
<1>6. cursor.address \in Int /\ Addresses \in Int
  BY ClientAssumption, SMT DEF TypeOK, CursorType
<1>7. CASE pc' = "decide"
  <2>1. PICK e \in failures : err' = [class |-> e, initialized |-> FALSE]
    BY <1>4, <1>7
  <2>2. e \in Reasons /\ err'.class = e
    BY <2>1, ClientAssumption DEF Reasons, ErrorClasses
  <2>3. err' \in ErrType
    BY <2>1, <2>2 DEF ErrType
  <2>4. AddressIndexed /\ ~cancelled /\ e # "exhausted" => cursor.address < Addresses
    BY <2>1, <1>6, SMT
  <2>5. UNCHANGED <<open, watched>>
    BY <1>4, <1>7
  <2>6. QED BY <1>2, <1>5, <1>7, <2>2, <2>3, <2>4, <2>5
<1>8. CASE pc' = "publish"
  BY <1>2, <1>4, <1>5, <1>6, <1>8, SMT
<1>9. QED BY <1>4, <1>7, <1>8

-----------------------------------------------------------------------------
(* Every step keeps the types *)

\* The steps of the supervisor up to a published session.
LEMMA TypeUpToPublished ==
  ASSUME TypeOK, CursorInv, Top \/ WaitResumed \/ Initialize \/ Publish
  PROVE  TypeOK'
<1>1. CASE Top
  BY <1>1, SMT DEF Top, lifecycle, TypeOK, Places, SessionType, ErrType, Reasons
<1>2. CASE WaitResumed
  BY <1>2, ZenonT(60) DEF WaitResumed, TypeOK, Places
<1>3. CASE Initialize
  <2>1. UNCHANGED <<failing, lifecycle, close, waiter, cursor, backoff>>
    BY <1>3, Zenon DEF Initialize
  <2>2. QED BY <1>3, <2>1, InitializeEffect, ZenonT(60) DEF TypeOK, lifecycle, Places
<1>4. CASE Publish
  BY <1>4, SMT DEF Publish, TypeOK, Places, Waits, Signalled, SessionType
<1>5. QED BY <1>1, <1>2, <1>3, <1>4

\* The steps of the supervisor in a session.
LEMMA TypeInSession ==
  ASSUME TypeOK, StartFails \/ StartReady \/ Established \/ SessionDone \/ SessionEnds
  PROVE  TypeOK'
<1>0. /\ session \in SessionType /\ waiter \in Waits
      /\ {"nil", "suspended", "retry"} \subseteq Reasons
      /\ StartErrors \cup SessionErrors \subseteq Reasons
      /\ session.done # "open" => session.done \in Reasons
  BY ClientAssumption DEF TypeOK, Reasons, SessionType, ErrorClasses
<1>1. CASE StartFails
  <2>1. PICK e \in Reasons : err' = [class |-> e, initialized |-> FALSE]
    BY <1>0, <1>1 DEF StartFails
  <2>2. err' \in ErrType
    BY <2>1 DEF ErrType
  <2>3. QED BY <1>0, <1>1, <2>2, FinishedEffect, SignalledEffect DEF StartFails, TypeOK, Places
<1>2. CASE StartReady
  BY <1>0, <1>2, SignalledEffect, ZenonT(60) DEF StartReady, TypeOK, Places, lifecycle, SessionType
<1>3. CASE Established
  BY <1>0, <1>3, FinishedEffect, SignalledEffect, ZenonT(60)
     DEF Established, TypeOK, Places, lifecycle, InitialBackoff
<1>4. CASE SessionDone
  <2>1. err' \in ErrType
    BY <1>0, <1>4 DEF SessionDone, ErrType
  <2>2. QED BY <1>0, <1>4, <2>1, FinishedEffect, SignalledEffect DEF SessionDone, TypeOK, Places
<1>5. CASE SessionEnds
  BY <1>0, <1>5, FinishedEffect, SignalledEffect, ZenonT(60) DEF SessionEnds, TypeOK, lifecycle
<1>6. QED BY <1>1, <1>2, <1>3, <1>4, <1>5

\* The steps of the supervisor after a session.
LEMMA TypeAfterSession ==
  ASSUME TypeOK, CursorInv, Decide \/ Backoff \/ Exit
  PROVE  TypeOK'
<1>1. CASE Decide
  <2>1. err' \in ErrType
    BY <1>1 DEF Decide, NoError, ErrType
  <2>2. cursor' \in CursorType
    <3>1. CASE UNCHANGED cursor
      BY <3>1 DEF TypeOK
    <3>2. CASE ~Stopped /\ cursor' = NextConnectionCursor(err)
      <4>1. AddressIndexed /\ err.class # "exhausted" => cursor.address < Addresses
        BY <1>1, <3>2 DEF Decide, Stopped, CursorInv
      <4>2. QED BY <3>2, <4>1, CursorMoves DEF TypeOK
    <3>3. QED BY <1>1, <3>1, <3>2, Zenon DEF Decide
  <2>3. backoff' \in Nat
    BY <1>1, ClientAssumption, SMT DEF Decide, AtOnce, InitialBackoff, SessionErrorBackoff, TypeOK
  <2>4. waiter' \in Waits /\ pc' \in Places
    BY <1>1, SignalledEffect DEF Decide, AtOnce, TypeOK, Places
  <2>5. terminal' \in BOOLEAN /\ reads' \in BOOLEAN
    BY <1>1, Zenon DEF Decide, TypeOK
  <2>6. QED BY <1>1, <2>1, <2>2, <2>3, <2>4, <2>5 DEF Decide, TypeOK
<1>2. CASE Backoff
  BY <1>2, DoubledBackoff, SMT DEF Backoff, TypeOK, Places, lifecycle, MaximumBackoff
<1>3. CASE Exit
  BY <1>3, SignalledEffect, ZenonT(60) DEF Exit, TypeOK, Places
<1>4. QED BY <1>1, <1>2, <1>3

\* The calls of the application, and the end of its context.
LEMMA TypeApplication ==
  ASSUME TypeOK,
         \/ Suspend \/ Resume \/ RestartSession \/ Fail \/ CancelContext \/ ContextDone
         \/ BeginClose \/ EndClose \/ WaitReady
  PROVE  TypeOK'
<1>0. session \in SessionType /\ waiter \in Waits /\ {"nil", "suspended", "retry"} \subseteq Reasons
  BY DEF TypeOK, Reasons, ErrorClasses
<1>1. \A e \in {"suspended", "retry", "nil"} :
        FailCall(e) => failing' \subseteq Sessions \X {"suspended", "retry", "nil"}
  BY SMT DEF FailCall, TypeOK, None
<1>2. CASE Suspend
  BY <1>1, <1>2 DEF Suspend, TypeOK
<1>3. CASE Resume
  BY <1>3 DEF Resume, TypeOK
<1>4. CASE RestartSession
  BY <1>1, <1>4 DEF RestartSession, TypeOK, lifecycle
<1>5. CASE Fail
  <2>1. PICK f \in failing :
          /\ failing' = failing \ {f} /\ open' = open \ {f[1]}
          /\ session' = IF f[1] = session.number THEN Finished(f[2]) ELSE session
    BY <1>5, Zenon DEF Fail
  <2>2. f[2] \in Reasons
    BY <1>0, <2>1 DEF TypeOK
  <2>3. session' \in SessionType
    BY <1>0, <2>1, <2>2, FinishedEffect
  <2>4. QED BY <1>0, <1>5, <2>1, <2>3, SignalledEffect, SMT DEF Fail, TypeOK, lifecycle
<1>6. CASE CancelContext
  BY <1>6 DEF CancelContext, TypeOK
<1>7. CASE ContextDone
  BY <1>0, <1>7, FinishedEffect, SignalledEffect DEF ContextDone, TypeOK, lifecycle
<1>8. CASE BeginClose
  BY <1>1, <1>8 DEF BeginClose, TypeOK
<1>9. CASE EndClose
  BY <1>9 DEF EndClose, TypeOK, lifecycle
<1>10. CASE WaitReady
  BY <1>10, SMT DEF WaitReady, TypeOK, lifecycle, Waits
<1>11. QED BY <1>2, <1>3, <1>4, <1>5, <1>6, <1>7, <1>8, <1>9, <1>10

-----------------------------------------------------------------------------
(* Every step keeps the rest of the invariant *)

SafeInv ==
  /\ NoSessionLeft /\ SuspendedDown /\ SupervisorGone /\ WaiterNotStranded
  /\ CurrentInv /\ EndInv /\ CursorInv /\ BackoffInv

\* The steps of the supervisor up to a published session.
LEMMA SafeUpToPublished ==
  ASSUME TypeOK, SafeInv, Top \/ WaitResumed \/ Initialize \/ Publish
  PROVE  SafeInv'
<1>0. 0 \notin Sessions
  BY ClientAssumption, SMT DEF Sessions
<1> USE DEF SafeInv, NoSessionLeft, SuspendedDown, SupervisorGone, WaiterNotStranded,
            CurrentInv, EndInv, CursorInv, BackoffInv, HasSession, Shown, ClientReady,
            TypeOK, Places, None
<1>1. CASE Top
  BY <1>1 DEF Top, lifecycle
<1>2. CASE WaitResumed
  BY <1>2 DEF WaitResumed
<1>3. CASE Initialize
  <2>1. UNCHANGED <<failing, lifecycle, close, waiter, cursor, backoff>> /\ pc = "connect"
    BY <1>3, Zenon DEF Initialize
  <2>2. current = None /\ open = {} /\ pc' # "running" /\ pc' # "done" /\ close # "returned"
    BY <1>3, <2>1, InitializeEffect
  <2>3. session'.number # None
    BY <1>0, <1>3, InitializeEffect
  <2>4. NoSessionLeft' /\ SuspendedDown' /\ SupervisorGone' /\ WaiterNotStranded'
    BY <1>3, <2>1, <2>2, InitializeEffect DEF lifecycle
  <2>5. CurrentInv' /\ EndInv' /\ BackoffInv'
    BY <1>3, <2>1, <2>2, <2>3, InitializeEffect DEF lifecycle
  <2>6. CursorInv'
    <3>1. UNCHANGED <<cursor, cancelled>>
      BY <2>1 DEF lifecycle
    <3>2. CASE pc' = "decide"
      BY <1>3, <3>1, <3>2, InitializeEffect
    <3>3. CASE pc' = "publish"
      BY <1>3, <3>1, <3>3, InitializeEffect
    <3>4. QED BY <1>3, <3>2, <3>3, InitializeEffect
  <2>7. QED BY <2>4, <2>5, <2>6
<1>4. CASE Publish
  BY <1>4, SignalledEffect DEF Publish
<1>5. QED BY <1>1, <1>2, <1>3, <1>4

\* The steps of the supervisor in a session.
LEMMA SafeInSession ==
  ASSUME TypeOK, SafeInv, StartFails \/ StartReady \/ Established \/ SessionDone \/ SessionEnds
  PROVE  SafeInv'
<1>0. /\ session \in SessionType /\ waiter \in Waits
      /\ {"nil", "suspended", "retry"} \subseteq Reasons
      /\ StartErrors \cup SessionErrors \subseteq Reasons
      /\ session.done # "open" => session.done \in Reasons
  BY ClientAssumption DEF TypeOK, Reasons, SessionType, ErrorClasses
<1> USE DEF SafeInv, NoSessionLeft, SuspendedDown, SupervisorGone, WaiterNotStranded,
            CurrentInv, EndInv, CursorInv, BackoffInv, HasSession, Shown, ClientReady
<1>1. CASE StartFails
  BY <1>0, <1>1, FinishedEffect, SignalledEffect DEF StartFails
<1>2. CASE StartReady
  BY <1>0, <1>2, SignalledEffect DEF StartReady, lifecycle, SessionType
<1>3. CASE Established
  <2>1. BackoffInv'
    BY <1>3, SMT DEF Established, InitialBackoff, MaximumBackoff
  <2>2. CASE suspended
    <3>1. /\ session' = Finished("suspended") /\ open' = open \ {session.number}
          /\ waiter' # "blocked"
      BY <1>0, <1>3, <2>2, SignalledEffect DEF Established
    <3>2. session'.number = session.number /\ session'.done # "open"
      BY <1>0, <3>1, FinishedEffect
    <3>3. QED BY <1>3, <2>1, <3>1, <3>2 DEF Established, lifecycle
  <2>3. CASE ~suspended
    BY <1>3, <2>1, <2>3 DEF Established, lifecycle
  <2>4. QED BY <2>2, <2>3
<1>4. CASE SessionDone
  BY <1>0, <1>4, FinishedEffect, SignalledEffect DEF SessionDone
<1>5. CASE SessionEnds
  BY <1>0, <1>5, FinishedEffect, SignalledEffect DEF SessionEnds, lifecycle
<1>6. QED BY <1>1, <1>2, <1>3, <1>4, <1>5

\* The steps of the supervisor after a session.
LEMMA SafeAfterSession ==
  ASSUME TypeOK, SafeInv, Decide \/ Backoff \/ Exit
  PROVE  SafeInv'
<1>0. waiter \in Waits /\ backoff \in Nat
  BY DEF TypeOK
<1> USE DEF SafeInv, NoSessionLeft, SuspendedDown, SupervisorGone, WaiterNotStranded,
            CurrentInv, EndInv, CursorInv, BackoffInv, HasSession, Shown, ClientReady
<1>1. CASE Decide
  BY <1>0, <1>1, SignalledEffect, SMT DEF Decide, AtOnce, InitialBackoff, MaximumBackoff
<1>2. CASE Backoff
  BY <1>0, <1>2, DoubledBackoff, SMT DEF Backoff, lifecycle, MaximumBackoff
<1>3. CASE Exit
  BY <1>0, <1>3, SignalledEffect DEF Exit
<1>4. QED BY <1>1, <1>2, <1>3

\* The calls of the application, and the end of its context.
LEMMA SafeApplication ==
  ASSUME TypeOK, SafeInv,
         \/ Suspend \/ Resume \/ RestartSession \/ Fail \/ CancelContext \/ ContextDone
         \/ BeginClose \/ EndClose \/ WaitReady
  PROVE  SafeInv'
<1>0. session \in SessionType /\ waiter \in Waits /\ {"nil", "suspended", "retry"} \subseteq Reasons
  BY DEF TypeOK, Reasons, ErrorClasses
<1> USE DEF SafeInv, NoSessionLeft, SuspendedDown, SupervisorGone, WaiterNotStranded,
            CurrentInv, EndInv, CursorInv, BackoffInv, HasSession, Shown, ClientReady
<1>2. CASE Suspend
  BY <1>2 DEF Suspend, FailCall
<1>3. CASE Resume
  BY <1>3 DEF Resume
<1>4. CASE RestartSession
  BY <1>4 DEF RestartSession, lifecycle, FailCall
<1>5. CASE Fail
  <2>1. PICK f \in failing :
          /\ failing' = failing \ {f} /\ open' = open \ {f[1]}
          /\ session' = IF f[1] = session.number THEN Finished(f[2]) ELSE session
    BY <1>5, Zenon DEF Fail
  <2>2. f[2] \in Reasons
    BY <1>0, <2>1 DEF TypeOK
  <2>3. UNCHANGED <<pc, err, lifecycle, watched, close, cursor, backoff>> /\ waiter' # "blocked"
    BY <1>0, <1>5, SignalledEffect DEF Fail
  <2>4. /\ session'.number = session.number
        /\ f[1] = session.number => session'.done # "open"
        /\ f[1] # session.number => session' = session
    BY <1>0, <2>1, <2>2, FinishedEffect
  <2>5. SuspendedDown'
    BY <2>1, <2>3, <2>4, SMT DEF lifecycle
  <2>6. QED BY <2>1, <2>3, <2>4, <2>5 DEF lifecycle
<1>6. CASE CancelContext
  BY <1>6, SMT DEF CancelContext
<1>7. CASE ContextDone
  BY <1>0, <1>7, FinishedEffect, SignalledEffect DEF ContextDone, lifecycle
<1>8. CASE BeginClose
  BY <1>8 DEF BeginClose, FailCall
<1>9. CASE EndClose
  BY <1>9 DEF EndClose, lifecycle
<1>10. CASE WaitReady
  BY <1>10 DEF WaitReady, lifecycle
<1>11. QED BY <1>2, <1>3, <1>4, <1>5, <1>6, <1>7, <1>8, <1>9, <1>10

-----------------------------------------------------------------------------
(* Theorems *)

\* One step of the supervisor, of a session or of the application.
LEMMA SupervisorStep ==
  ASSUME SupervisorInv, [ClientNext]_clientVars
  PROVE  SupervisorInv'
<1>1. TypeOK /\ SafeInv /\ CursorInv
  BY DEF SupervisorInv, OneSessionAtATime, SafeInv
<1>2. CASE Top \/ WaitResumed \/ Initialize \/ Publish
  <2>1. TypeOK' /\ SafeInv'
    BY ONLY <1>1, <1>2, TypeUpToPublished, SafeUpToPublished
  <2>2. QED BY <2>1 DEF SupervisorInv, OneSessionAtATime, SafeInv
<1>3. CASE StartFails \/ StartReady \/ Established \/ SessionDone \/ SessionEnds
  <2>1. TypeOK' /\ SafeInv'
    BY ONLY <1>1, <1>3, TypeInSession, SafeInSession
  <2>2. QED BY <2>1 DEF SupervisorInv, OneSessionAtATime, SafeInv
<1>4. CASE Decide \/ Backoff \/ Exit
  <2>1. TypeOK' /\ SafeInv'
    BY ONLY <1>1, <1>4, TypeAfterSession, SafeAfterSession
  <2>2. QED BY <2>1 DEF SupervisorInv, OneSessionAtATime, SafeInv
<1>5. CASE \/ Suspend \/ Resume \/ RestartSession \/ Fail \/ CancelContext \/ ContextDone
           \/ BeginClose \/ EndClose \/ WaitReady
  <2>1. TypeOK' /\ SafeInv'
    BY ONLY <1>1, <1>5, TypeApplication, SafeApplication
  <2>2. QED BY <2>1 DEF SupervisorInv, OneSessionAtATime, SafeInv
<1>6. CASE UNCHANGED clientVars
  <2>1. TypeOK'
    BY <1>1, <1>6, Zenon DEF clientVars, lifecycle, TypeOK
  <2>2. SafeInv'
    BY <1>1, <1>6, SMT
       DEF clientVars, lifecycle, SafeInv, NoSessionLeft, SuspendedDown, SupervisorGone,
           WaiterNotStranded, CurrentInv, EndInv, CursorInv, BackoffInv, ClientReady
  <2>3. QED BY <2>1, <2>2 DEF SupervisorInv, OneSessionAtATime, SafeInv
<1>7. QED BY <1>2, <1>3, <1>4, <1>5, <1>6, Zenon DEF ClientNext, Supervise

\* NewClient: the supervisor is at its beginning and there is no session.
LEMMA SupervisorStart ==
  ASSUME ClientInit
  PROVE  SupervisorInv
<1> USE DEF ClientInit
<1>1. TypeOK
  <2>1. session \in SessionType /\ err \in ErrType
    BY DEF SessionType, ErrType, NoError, Reasons
  <2>2. cursor \in CursorType
    BY ClientAssumption, SMT DEF CursorType
  <2>3. QED BY <2>1, <2>2 DEF TypeOK, Places, Waits, InitialBackoff
<1>2. NoSessionLeft /\ SuspendedDown /\ SupervisorGone /\ WaiterNotStranded
  BY DEF NoSessionLeft, SuspendedDown, SupervisorGone, WaiterNotStranded
<1>3. CurrentInv /\ EndInv /\ CursorInv /\ BackoffInv
  BY SMT DEF CurrentInv, EndInv, CursorInv, BackoffInv, HasSession, Shown, InitialBackoff,
         MaximumBackoff
<1>4. QED BY <1>1, <1>2, <1>3 DEF SupervisorInv, OneSessionAtATime

\* SupervisorInv holds in every state of the client, whatever its remotes, the errors it
\* meets and the calls it gets.
THEOREM SupervisorInvariance == ClientSpec => []SupervisorInv
<1>1. ClientInit => SupervisorInv
  BY SupervisorStart
<1>2. SupervisorInv /\ [ClientNext]_clientVars => SupervisorInv'
  BY SupervisorStep
<1>3. QED BY <1>1, <1>2, PTL DEF ClientSpec

\* runSupervisor against Suspend, RestartSession, WaitReady and Close in any order: one
\* transport at a time, none after Close, no session up while suspended that nobody is about
\* to fail, readers told when the supervisor is gone, no waiter left behind.
THEOREM AlwaysOneSession == ClientSpec => []OneSessionAtATime
<1>1. SupervisorInv => OneSessionAtATime
  BY DEF SupervisorInv
<1>2. QED BY <1>1, SupervisorInvariance, PTL

\* applyClientSessionErrorBackoff and waitClientReconnectBackoff: the wait never shrinks when
\* an error is dealt with, is at least what the server asked for, and above the maximum only
\* when the server asked for that.
THEOREM AlwaysBacksOff == ClientSpec => [][BacksOff]_clientVars
<1>1. SupervisorInv /\ [ClientNext]_clientVars => [BacksOff]_clientVars
  <2> SUFFICES ASSUME SupervisorInv, ClientNext, pc = "decide", pc' = "backoff"
               PROVE  /\ backoff' >= backoff
                      /\ err.class \in Temporary => backoff' >= ServerBackoff
                      /\ err.class \notin Temporary => backoff' <= MaximumBackoff
    BY DEF BacksOff
  <2>1. Decide
    BY DEF ClientNext, Supervise, Top, WaitResumed, Initialize, Publish, StartFails, StartReady,
           Established, SessionDone, SessionEnds, Backoff, Exit, Suspend, Resume, RestartSession,
           Fail, CancelContext, ContextDone, BeginClose, EndClose, WaitReady
  <2>2. backoff' = SessionErrorBackoff(err)
    BY <2>1 DEF Decide, AtOnce
  <2>3. backoff \in Nat /\ backoff <= MaximumBackoff
    BY DEF SupervisorInv, OneSessionAtATime, TypeOK, BackoffInv
  <2>4. QED BY <2>2, <2>3, ClientAssumption, SMT DEF SessionErrorBackoff, MaximumBackoff
<1>2. QED BY <1>1, SupervisorInvariance, PTL DEF ClientSpec

-----------------------------------------------------------------------------
(* Credentials: the pieces of a step *)

Owners == {"none", "client", "session", "old"}

\* publishChallenge: a closed client publishes nothing, any other puts the challenge in place
\* of the one that was pending and has told of the failure before it.
LEMMA PublishedEffect ==
  ASSUME CredentialsTyped, NEW owner \in Owners, NEW answerable \in BOOLEAN,
         NEW failed \in BOOLEAN, Published(owner, answerable, failed)
  PROVE  /\ pending' \in ChallengeType /\ previous' \in BOOLEAN
         /\ ended => UNCHANGED <<pending, previous>>
         /\ ~ended => /\ pending'.owner = owner /\ previous' = FALSE
                      /\ pending'.previous = (previous \/ failed)
<1>1. CASE ended
  BY <1>1 DEF Published, CredentialsTyped
<1>2. CASE ~ended
  <2>1. /\ pending' = [owner |-> owner, answerable |-> answerable, previous |-> previous \/ failed]
        /\ previous' = FALSE
    BY <1>2, Zenon DEF Published
  <2>2. (previous \/ failed) \in BOOLEAN
    OBVIOUS
  <2>3. QED BY <1>2, <2>1, <2>2, Zenon DEF ChallengeType, Owners
<1>3. QED BY <1>1, <1>2

\* clearChallengeOwnedBy: the pending challenge stays unless it is the owner's.
LEMMA ClearedEffect ==
  ASSUME CredentialsTyped, NEW owner \in Owners \ {"none"}
  PROVE  /\ Cleared(owner) \in ChallengeType
         /\ pending.owner # owner => Cleared(owner) = pending
         /\ pending.owner = owner => Cleared(owner).owner = "none"
BY DEF Cleared, NoChallenge, ChallengeType, CredentialsTyped, Owners

\* authFailedError: only the answer that was offered last has been refused, and the supervisor
\* is due to deal with that when the error says so.
LEMMA RefusedEffect ==
  ASSUME CredentialsTyped, NEW kind \in {"crv1", "failed", "temporary"}
  PROVE  /\ AuthFailedError(kind) \in {"crv1", "failed", "temporary", "token"}
         /\ Refused(kind) \in StagedType
         /\ Refused(kind).defined = staged.defined
         /\ Refused(kind).interactive = staged.interactive
         /\ Refused(kind).refusal = "due" =>
              \/ staged.refusal = "due"
              \/ /\ history.offered = "staged" /\ staged.interactive
                 /\ AuthFailedError(kind) \in {"crv1", "failed"}
<1>1. staged \in StagedType
  BY DEF CredentialsTyped
<1>2. AuthFailedError(kind) \in {"crv1", "failed", "temporary", "token"}
  BY DEF AuthFailedError
<1>3. CASE kind # "temporary" /\ history.offered = "staged" /\ staged.interactive
  <2>1. Refused(kind) =
          [staged EXCEPT !.refusal = IF AuthFailedError(kind) = "token" THEN "missed" ELSE "due"]
    BY <1>3, Zenon DEF Refused
  <2>2. kind # "temporary" => AuthFailedError(kind) # "temporary"
    BY DEF AuthFailedError
  <2>3. CASE AuthFailedError(kind) = "token"
    BY <1>1, <1>2, <2>1, <2>3, SMT DEF StagedType
  <2>4. CASE AuthFailedError(kind) # "token"
    <3>1. AuthFailedError(kind) \in {"crv1", "failed"}
      BY <1>2, <1>3, <2>2, <2>4
    <3>2. Refused(kind) = [staged EXCEPT !.refusal = "due"]
      BY <2>1, <2>4
    <3>3. /\ Refused(kind) \in StagedType
          /\ Refused(kind).defined = staged.defined
          /\ Refused(kind).interactive = staged.interactive
      BY <1>1, <3>2 DEF StagedType
    <3>4. QED BY <1>2, <1>3, <3>1, <3>3
  <2>5. QED BY <2>3, <2>4
<1>4. CASE ~(kind # "temporary" /\ history.offered = "staged" /\ staged.interactive)
  BY <1>1, <1>2, <1>4, Zenon DEF Refused
<1>5. QED BY <1>3, <1>4

\* A refusal the supervisor was due to deal with and missed changes nothing else.
LEMMA MissedEffect ==
  ASSUME CredentialsTyped
  PROVE  /\ Missed \in StagedType /\ Missed.refusal # "due"
         /\ Missed.defined = staged.defined /\ Missed.interactive = staged.interactive
<1>1. staged \in StagedType
  BY DEF CredentialsTyped
<1>2. QED BY <1>1, SMT DEF Missed, StagedType

\* Close of a session: its challenge is cleared, and a call of the supervisor's challenge is
\* still that.
LEMMA OverEffect ==
  ASSUME CredentialsTyped, NEW error \in Errors, Over(error)
  PROVE  /\ step' = "intercept" /\ failure' = error /\ attempt' \in AttemptType
         /\ pending' \in ChallengeType
         /\ pending.owner # "session" => pending' = pending
         /\ pending.owner = "session" => pending'.owner = "none"
         /\ call' \in CallType /\ (call'.owner = "client" <=> call.owner = "client")
         /\ history' \in HistoryType
         /\ history'.refused = history.refused /\ history'.displaced = history.displaced
         /\ history'.answered => history.answered /\ error \notin {"crv1", "failed"}
<1>1. call \in CallType /\ history \in HistoryType
  BY DEF CredentialsTyped
<1>2. /\ step' = "intercept" /\ failure' = error
      /\ pending' = Cleared("session") /\ attempt' = NoSession
      /\ call' = [call EXCEPT !.owner = IF @ = "session" THEN "old" ELSE @]
      /\ history' = [history EXCEPT !.offered = "none",
                                    !.answered = @ /\ error \notin {"crv1", "failed"}]
  BY Zenon DEF Over
<1>3. attempt' \in AttemptType
  BY <1>2 DEF NoSession, AttemptType
<1>4. /\ pending' \in ChallengeType
      /\ pending.owner # "session" => pending' = pending
      /\ pending.owner = "session" => pending'.owner = "none"
  BY <1>2, ClearedEffect DEF Owners
<1>5. call' \in CallType /\ (call'.owner = "client" <=> call.owner = "client")
  BY <1>1, <1>2, SMT DEF CallType
<1>6. (history.answered /\ error \notin {"crv1", "failed"}) \in BOOLEAN
  OBVIOUS
<1>7. /\ history' \in HistoryType
      /\ history'.refused = history.refused /\ history'.displaced = history.displaced
      /\ history'.answered = (history.answered /\ error \notin {"crv1", "failed"})
  BY <1>1, <1>2, <1>6 DEF HistoryType
<1>8. QED BY <1>2, <1>3, <1>4, <1>5, <1>7

\* sessionCredentials: the token goes out when it may and can, the staged credentials
\* otherwise, and those count as interactive when an answer is among them.
LEMMA SentEffect ==
  ASSUME CredentialsTyped, NEW useToken \in BOOLEAN, Sent(useToken)
  PROVE  /\ interactive' \in BOOLEAN /\ history' \in HistoryType
         /\ history'.answered = history.answered /\ history'.refused = history.refused
         /\ history'.displaced = history.displaced
         /\ history'.offered = "staged" =>
              ~(useToken /\ TokenResolves(staged)) /\ (staged.interactive => interactive')
         /\ ~TokenResolves(staged) /\ staged.interactive => interactive'
<1> DEFINE withToken == useToken /\ TokenResolves(staged)
<1>1. /\ interactive' = (~withToken /\ staged.interactive)
      /\ history' = [history EXCEPT !.offered = IF withToken THEN "token" ELSE "staged"]
  BY Zenon DEF Sent
<1>2. history \in HistoryType
  BY DEF CredentialsTyped
<1>3. interactive' \in BOOLEAN
  BY <1>1
<1>4. CASE withToken
  BY <1>1, <1>2, <1>3, <1>4 DEF HistoryType
<1>5. CASE ~withToken
  BY <1>1, <1>2, <1>3, <1>5 DEF HistoryType
<1>6. QED BY <1>4, <1>5

\* The records of ClientCredentials.
LEMMA CredentialRecords ==
  /\ Unstaged \in StagedType /\ ~Unstaged.defined /\ ~Unstaged.interactive /\ Unstaged.refusal = "none"
  /\ [Unstaged EXCEPT !.defined = TRUE] \in StagedType
  /\ ~[Unstaged EXCEPT !.defined = TRUE].interactive /\ [Unstaged EXCEPT !.defined = TRUE].defined
  /\ [Unstaged EXCEPT !.defined = TRUE].refusal = "none"
  /\ NoCall \in CallType /\ NoCall.owner = "none" /\ NoCall.kind = "none"
  /\ NoChallenge \in ChallengeType /\ NoChallenge.owner = "none"
  /\ NotHeld \in HeldType /\ NotHeld.owner = "none" /\ NotHeld.what = "none" /\ ~NotHeld.judged
BY DEF Unstaged, StagedType, NoCall, CallType, NoChallenge, ChallengeType, NotHeld, HeldType

-----------------------------------------------------------------------------
(* Every step about credentials keeps their invariant *)

\* acquireSessionCredentials and awaitChallengeResponse.
LEMMA AcquireStep ==
  ASSUME CredentialInv, UNCHANGED settings, Acquire \/ Await
  PROVE  CredentialInv'
<1>0. /\ CredentialsTyped /\ {"client", "session", "old"} \subseteq Owners \ {"none"}
      /\ staged \in StagedType /\ attempt \in AttemptType /\ history \in HistoryType
      /\ call \in CallType /\ pending \in ChallengeType /\ held \in HeldType
  BY DEF CredentialInv, ChallengesTrue, CredentialsTyped, Owners
<1> USE DEF CredentialInv, ChallengesTrue, CredentialsTyped, AwaitedIsAsked,
            ChallengeOfLiveSession, PreviousErrorTrue, OwnersInv, FailureInv, AnswerInv, RefusalInv,
            Steps, Errors
<1>1. CASE Acquire
  <2>2. CASE step' = "await"
    BY <1>0, <1>1, <2>2, PublishedEffect DEF Acquire
  <2>3. CASE step' # "await"
    BY <1>0, <1>1, <2>3, CredentialRecords, ZenonT(60) DEF Acquire
  <2>4. QED BY <2>2, <2>3
<1>2. CASE Await
  <2>0. step = "await" /\ UNCHANGED <<failure, token, first, interactive, previous, attempt, held, ended>>
    BY <1>2, Zenon DEF Await
  <2>1. CASE /\ call = [kind |-> "complete", owner |-> "client"]
             /\ staged' = [defined |-> TRUE, interactive |-> TRUE, refusal |-> "none"]
             /\ history' = [history EXCEPT !.answered = TRUE, !.displaced = FALSE]
             /\ call' = NoCall /\ step' = "acquire" /\ UNCHANGED pending
    <3>1. staged' \in StagedType /\ staged'.defined /\ staged'.refusal = "none"
      BY <2>1 DEF StagedType
    <3>2. /\ history' \in HistoryType /\ history'.refused = history.refused
          /\ history'.offered = history.offered
      BY <1>0, <2>1 DEF HistoryType
    <3>3. call.owner = "client"
      BY <2>1
    <3>4. QED BY <1>0, <2>0, <2>1, <3>1, <3>2, <3>3, CredentialRecords
  <2>2. CASE /\ call = [kind |-> "cancelled", owner |-> "client"]
             /\ call' = NoCall /\ step' = "done" /\ UNCHANGED <<staged, pending, history>>
    BY <1>0, <2>0, <2>2, CredentialRecords, SMT
  <2>3. CASE /\ ended /\ pending' = Cleared("client") /\ step' = "done"
             /\ UNCHANGED <<staged, call, history>>
    <3>1. /\ pending' \in ChallengeType /\ pending'.owner # "client"
          /\ pending'.owner = "session" => pending.owner = "session"
      BY <1>0, <2>3, ClearedEffect
    <3>2. QED BY <1>0, <2>0, <2>3, <3>1
  <2>4. QED BY <1>2, <2>1, <2>2, <2>3, Zenon DEF Await
<1>3. QED BY <1>1, <1>2

\* A session up to the end of Start.
LEMMA StartStep ==
  ASSUME CredentialInv, UNCHANGED settings,
         \/ Connect \/ PullAuthFailed \/ PullInfo \/ PullReadFails \/ PullWriteFails
         \/ PullReply \/ Validate
  PROVE  CredentialInv'
<1>0. /\ CredentialsTyped /\ {"client", "session", "old"} \subseteq Owners \ {"none"}
      /\ staged \in StagedType /\ attempt \in AttemptType /\ history \in HistoryType
      /\ call \in CallType /\ pending \in ChallengeType /\ held \in HeldType
  BY DEF CredentialInv, ChallengesTrue, CredentialsTyped, Owners
<1> USE DEF CredentialInv, ChallengesTrue, CredentialsTyped, AwaitedIsAsked,
            ChallengeOfLiveSession, PreviousErrorTrue, OwnersInv, FailureInv, AnswerInv, RefusalInv,
            Steps, Errors
<1>1. CASE Connect
  <2>1. attempt' \in AttemptType
    BY <1>1 DEF Connect, NoSession, AttemptType
  <2>2. CASE step' = "intercept"
    BY <1>0, <1>1, <2>1, <2>2, SMT DEF Connect
  <2>3. CASE step' = "pull" /\ Sent(~first)
    BY <1>0, <1>1, <2>1, <2>3, SentEffect DEF Connect
  <2>4. QED BY <1>1, <2>2, <2>3 DEF Connect
<1>2. CASE PullAuthFailed
  <2>1. PICK kind \in {"crv1", "failed", "temporary"} :
          ClearAuthToken(kind) /\ staged' = Refused(kind) /\ Over(AuthFailedError(kind))
    BY <1>2, Zenon DEF PullAuthFailed
  <2>2. step = "pull" /\ UNCHANGED <<first, interactive, previous, held, ended>>
    BY <1>2, Zenon DEF PullAuthFailed
  <2>3. AuthFailedError(kind) \in Errors
    BY <1>0, RefusedEffect
  <2>4. token' \in BOOLEAN
    BY <2>1 DEF ClearAuthToken
  <2>5. CredentialsTyped' /\ OwnersInv' /\ FailureInv'
    BY <1>0, <2>1, <2>2, <2>3, <2>4, RefusedEffect, OverEffect, SMT
  <2>6. AwaitedIsAsked' /\ ChallengeOfLiveSession' /\ PreviousErrorTrue'
    BY <1>0, <2>1, <2>2, <2>3, OverEffect, SMT
  <2>7. AnswerInv' /\ RefusalInv'
    BY <1>0, <2>1, <2>2, <2>3, RefusedEffect, OverEffect, SMT
  <2>8. QED BY <2>5, <2>6, <2>7
<1>3. ASSUME step \in {"pull", "validate"}, staged.refusal # "due",
             NEW error \in {"retry", "cancelled"}, Over(error),
             UNCHANGED <<staged, token, first, interactive, previous, held, ended>>
      PROVE  CredentialInv'
  BY <1>0, <1>3, OverEffect, SMT
<1>4. CASE PullInfo
  <2>1. PICK answerable \in BOOLEAN : Published("session", answerable, FALSE)
    BY <1>4, Zenon DEF PullInfo
  <2>2. /\ pending' \in ChallengeType /\ previous' \in BOOLEAN
        /\ ended => UNCHANGED <<pending, previous>>
        /\ ~ended => pending'.owner = "session" /\ previous' = FALSE
    BY <1>0, <2>1, PublishedEffect
  <2>3. QED BY <1>0, <1>4, <2>2, SMT DEF PullInfo
<1>5. CASE PullReadFails
  BY <1>3, <1>5, SMT DEF PullReadFails
<1>6. CASE PullWriteFails
  BY <1>3, <1>6, SMT DEF PullWriteFails
<1>7. CASE PullReply
  <2>1. /\ history' \in HistoryType /\ history'.offered = "none"
        /\ history'.answered = history.answered /\ history'.refused = history.refused
        /\ history'.displaced = history.displaced
    BY <1>0, <1>7 DEF PullReply, HistoryType
  <2>2. /\ pending' \in ChallengeType
        /\ pending' = pending \/ pending'.owner = "none"
    BY <1>0, <1>7, ClearedEffect DEF PullReply
  <2>3. token' \in BOOLEAN
    BY <1>0, <1>7 DEF PullReply
  <2>4. QED BY <1>0, <1>7, <2>1, <2>2, <2>3, SMT DEF PullReply
<1>8. CASE Validate
  <2>1. CASE Over("retry") /\ UNCHANGED <<first, previous>>
    BY <1>3, <1>8, <2>1, SMT DEF Validate
  <2>2. CASE /\ step' = "up" /\ first' = FALSE /\ previous' = FALSE
             /\ history' = [history EXCEPT !.refused = FALSE]
             /\ UNCHANGED <<failure, attempt, pending, call>>
    <3>1. /\ history' \in HistoryType /\ history'.answered = history.answered
          /\ history'.offered = history.offered /\ history'.displaced = history.displaced
      BY <1>0, <2>2 DEF HistoryType
    <3>2. UNCHANGED <<staged, token, interactive, held, ended>> /\ step = "validate"
      BY <1>8 DEF Validate
    <3>3. CredentialsTyped' /\ OwnersInv' /\ FailureInv'
      BY <1>0, <2>2, <3>1, <3>2, ZenonT(60)
    <3>4. AwaitedIsAsked' /\ ChallengeOfLiveSession' /\ PreviousErrorTrue' /\ AnswerInv' /\ RefusalInv'
      BY <1>0, <2>2, <3>1, <3>2, ZenonT(60)
    <3>5. QED BY <3>3, <3>4
  <2>3. QED BY <1>8, <2>1, <2>2 DEF Validate
<1>9. QED BY <1>1, <1>2, <1>4, <1>5, <1>6, <1>7, <1>8

\* The goroutines of a session that is up, or is over.
LEMMA LoopStep ==
  ASSUME CredentialInv, UNCHANGED settings,
         LoopReads \/ LoopPublishes \/ LoopApplies \/ LoopJudges \/ LoopFinishes \/ LoopEnds
  PROVE  CredentialInv'
<1>0. /\ CredentialsTyped /\ {"client", "session", "old"} \subseteq Owners \ {"none"}
      /\ staged \in StagedType /\ attempt \in AttemptType /\ history \in HistoryType
      /\ call \in CallType /\ pending \in ChallengeType /\ held \in HeldType
  BY DEF CredentialInv, ChallengesTrue, CredentialsTyped, Owners
<1> USE DEF CredentialInv, ChallengesTrue, CredentialsTyped, AwaitedIsAsked,
            ChallengeOfLiveSession, PreviousErrorTrue, OwnersInv, FailureInv, AnswerInv, RefusalInv,
            Steps, Errors
<1>1. CASE LoopReads
  <2>1. held' \in HeldType /\ held'.owner = "session" /\ ~held'.judged
    BY <1>1, SMT DEF LoopReads, HeldType
  <2>2. QED BY <1>0, <1>1, <2>1, SMT DEF LoopReads
<1>2. CASE LoopPublishes
  <2>1. PICK answerable \in BOOLEAN : Published(held.owner, answerable, FALSE)
    BY <1>2, Zenon DEF LoopPublishes
  <2>2. held.owner \in {"session", "old"} /\ (held.owner = "session" => step = "up")
    BY <1>0, <1>2, SMT DEF LoopPublishes, HeldType
  <2>3. /\ pending' \in ChallengeType /\ previous' \in BOOLEAN
        /\ ended => UNCHANGED <<pending, previous>>
        /\ ~ended => pending'.owner = held.owner /\ previous' = FALSE
    BY <1>0, <2>1, <2>2, PublishedEffect DEF Owners
  <2>4. (history.displaced \/ (~ended /\ pending.owner = "client")) \in BOOLEAN
    OBVIOUS
  <2>5. /\ history' \in HistoryType /\ history'.answered = history.answered
        /\ history'.offered = history.offered /\ history'.refused = history.refused
        /\ history'.displaced = (history.displaced \/ (~ended /\ pending.owner = "client"))
    BY <1>0, <1>2, <2>4 DEF LoopPublishes, HistoryType
  <2>6. /\ UNCHANGED <<step, failure, staged, token, first, interactive, call, attempt, ended>>
        /\ held' = NotHeld
    BY <1>2 DEF LoopPublishes
  <2>7. AwaitedIsAsked' /\ ChallengeOfLiveSession' /\ PreviousErrorTrue'
    BY <1>0, <2>2, <2>3, <2>5, <2>6
  <2>8. CredentialsTyped' /\ OwnersInv' /\ FailureInv' /\ AnswerInv'
    BY <1>0, <2>2, <2>3, <2>5, <2>6, CredentialRecords, SMT
  <2>9. RefusalInv'
    BY <1>0, <2>2, <2>3, <2>5, <2>6
  <2>10. QED BY <2>7, <2>8, <2>9
<1>3. CASE LoopApplies
  BY <1>0, <1>3, CredentialRecords, SMT DEF LoopApplies
<1>4. CASE LoopJudges
  <2>0. /\ held.what \in {"crv1", "failed", "temporary"}
        /\ held' = [held EXCEPT !.what = AuthFailedError(held.what), !.judged = TRUE]
        /\ token' = (token /\ held.what = "temporary")
        /\ staged' = IF held.owner = "session" THEN Refused(held.what) ELSE staged
        /\ UNCHANGED <<step, failure, first, interactive, previous, pending, call, attempt, ended,
                       history>>
    BY <1>4, Zenon DEF LoopJudges, ClearAuthToken
  <2>1. AuthFailedError(held.what) \in {"crv1", "failed", "temporary", "token"}
    BY <1>0, <2>0, RefusedEffect
  <2>2. /\ held' \in HeldType /\ held'.owner = held.owner
        /\ held'.what \in {"crv1", "failed", "temporary", "token"}
    BY <1>0, <2>0, <2>1 DEF HeldType
  <2>3. token' \in BOOLEAN
    BY <2>0
  <2>4. CASE held.owner = "session"
    <3>1. staged' = Refused(held.what) /\ step = "up"
      BY <1>0, <2>0, <2>4
    <3>2. CredentialsTyped' /\ OwnersInv' /\ FailureInv' /\ AnswerInv'
      BY <1>0, <2>0, <2>1, <2>2, <2>3, <3>1, RefusedEffect, SMT
    <3>3. AwaitedIsAsked' /\ ChallengeOfLiveSession' /\ PreviousErrorTrue' /\ RefusalInv'
      BY <1>0, <2>0, <3>1, RefusedEffect, SMT
    <3>4. QED BY <3>2, <3>3
  <2>5. CASE held.owner # "session"
    BY <1>0, <2>0, <2>1, <2>2, <2>3, <2>5, SMT
  <2>6. QED BY <2>4, <2>5
<1>5. CASE LoopFinishes
  <2>1. /\ held.judged /\ held' = NotHeld
        /\ UNCHANGED <<step, failure, staged, token, first, interactive, previous, call, ended, history>>
    BY <1>5, Zenon DEF LoopFinishes
  <2>2. attempt' \in AttemptType
    BY <1>0, <1>5, <2>1, SMT DEF LoopFinishes, AttemptType
  <2>3. pending' \in {pending, Cleared("session"), Cleared("old")}
    BY <1>5 DEF LoopFinishes
  <2>4. /\ pending' \in ChallengeType
        /\ pending' = pending \/ (pending.owner # "client" /\ pending'.owner = "none")
    BY <1>0, <2>3, ClearedEffect
  <2>5. QED BY <1>0, <2>1, <2>2, <2>4, CredentialRecords, SMT
<1>6. CASE LoopEnds
  BY <1>0, <1>6, CredentialRecords, SMT DEF LoopEnds
<1>7. QED BY <1>1, <1>2, <1>3, <1>4, <1>5, <1>6

\* A session that is up, and what the supervisor makes of its end.
LEMMA UpStep ==
  ASSUME CredentialInv, UNCHANGED settings, Renegotiate \/ Lost \/ SessionOver \/ Intercept
  PROVE  CredentialInv'
<1>0. /\ CredentialsTyped /\ {"client", "session", "old"} \subseteq Owners \ {"none"}
      /\ staged \in StagedType /\ attempt \in AttemptType /\ history \in HistoryType
      /\ call \in CallType /\ pending \in ChallengeType /\ held \in HeldType
  BY DEF CredentialInv, ChallengesTrue, CredentialsTyped, Owners
<1> USE DEF CredentialInv, ChallengesTrue, CredentialsTyped, AwaitedIsAsked,
            ChallengeOfLiveSession, PreviousErrorTrue, OwnersInv, FailureInv, AnswerInv, RefusalInv,
            Steps, Errors
<1>1. CASE Renegotiate
  <2>1. Sent(TRUE) /\ step = "up"
    BY <1>1 DEF Renegotiate
  <2>2. /\ interactive' \in BOOLEAN /\ history' \in HistoryType
        /\ history'.answered = history.answered /\ history'.refused = history.refused
        /\ history'.displaced = history.displaced
        /\ history'.offered = "staged" => (staged.interactive => interactive')
    BY <1>0, <2>1, SentEffect
  <2>3. /\ UNCHANGED <<step, failure, token, first, previous, pending, call, attempt, held, ended>>
        /\ staged' = IF interactive' THEN staged ELSE Missed
    BY <1>1, Zenon DEF Renegotiate
  <2>4. /\ staged' \in StagedType
        /\ staged'.defined = staged.defined /\ staged'.interactive = staged.interactive
        /\ staged'.refusal = "due" => interactive'
    <3>1. CASE interactive'
      BY <1>0, <2>3, <3>1
    <3>2. CASE ~interactive'
      BY <1>0, <2>3, <3>2, MissedEffect
    <3>3. QED BY <3>1, <3>2
  <2>5. RefusalInv'
    BY <1>0, <2>1, <2>2, <2>3, <2>4
  <2>6. AwaitedIsAsked' /\ ChallengeOfLiveSession' /\ PreviousErrorTrue' /\ FailureInv'
    BY <1>0, <2>2, <2>3
  <2>7. CredentialsTyped'
    BY <1>0, <2>2, <2>3, <2>4, SMT
  <2>8. OwnersInv' /\ AnswerInv'
    BY <1>0, <2>1, <2>2, <2>3, <2>4
  <2>9. QED BY <2>5, <2>6, <2>7, <2>8
<1>2. CASE Lost
  <2>1. attempt' \in AttemptType
    BY <1>0, <1>2, SMT DEF Lost, AttemptType
  <2>2. QED BY <1>0, <1>2, <2>1, ClearedEffect, SMT DEF Lost
<1>3. CASE SessionOver
  <2>1. PICK error \in Errors : Over(error)
    BY <1>0, <1>3, SMT DEF SessionOver, AttemptType
  <2>2. /\ held' \in HeldType /\ held'.owner # "session"
        /\ held'.what = held.what /\ held'.judged = held.judged
        /\ held.owner # "none" => held'.owner # "none"
    BY <1>0, <1>3, SMT DEF SessionOver, HeldType
  <2>3. /\ step = "up" /\ UNCHANGED <<token, first, interactive, previous, ended>>
        /\ staged' = IF failure' \in {"crv1", "failed"} THEN staged ELSE Missed
    BY <1>3, Zenon DEF SessionOver
  <2>4. /\ staged' \in StagedType
        /\ staged'.defined = staged.defined /\ staged'.interactive = staged.interactive
        /\ staged'.refusal = "due" => failure' \in {"crv1", "failed"} /\ staged.refusal = "due"
    <3>1. CASE failure' \in {"crv1", "failed"}
      BY <1>0, <2>3, <3>1
    <3>2. CASE ~(failure' \in {"crv1", "failed"})
      BY <1>0, <2>3, <3>2, MissedEffect
    <3>3. QED BY <3>1, <3>2
  <2>5. CredentialsTyped' /\ OwnersInv' /\ FailureInv'
    BY <1>0, <2>1, <2>2, <2>3, <2>4, OverEffect, SMT
  <2>6. AwaitedIsAsked' /\ ChallengeOfLiveSession' /\ PreviousErrorTrue'
    BY <1>0, <2>1, <2>3, OverEffect, SMT
  <2>7. AnswerInv' /\ RefusalInv'
    BY <1>0, <2>1, <2>3, <2>4, OverEffect, SMT
  <2>8. QED BY <2>5, <2>6, <2>7
<1>4. CASE Intercept
  <2>1. /\ step = "intercept" /\ failure' = "none"
        /\ UNCHANGED <<token, first, interactive, call, attempt, held, ended>>
    BY <1>4, Zenon DEF Intercept
  <2>2. CASE ended /\ step' = "done" /\ UNCHANGED <<staged, pending, previous, history>>
    BY <1>0, <2>1, <2>2, SMT
  <2>3. CASE /\ ~ended /\ step' = "acquire" /\ staged' = Missed
             /\ UNCHANGED <<pending, previous, history>>
    BY <1>0, <2>1, <2>3, MissedEffect, SMT
  <2>4. CASE ~ended /\ InterceptAuthChallenge
    <3>1. history' = [history EXCEPT !.refused = @ \/ (failure \in {"crv1", "failed"} /\ interactive)]
      BY <2>4, Zenon DEF InterceptAuthChallenge
    <3>2. (history.refused \/ (failure \in {"crv1", "failed"} /\ interactive)) \in BOOLEAN
      OBVIOUS
    <3>3. /\ history' \in HistoryType /\ history'.answered = history.answered
          /\ history'.offered = history.offered /\ history'.displaced = history.displaced
          /\ history'.refused = (history.refused \/ (failure \in {"crv1", "failed"} /\ interactive))
      BY <1>0, <3>1, <3>2 DEF HistoryType
    <3>4. CASE /\ failure = "crv1" /\ staged' = Unstaged
               /\ Published("client", TRUE, interactive) /\ step' = "await"
      <4>1. /\ pending' \in ChallengeType /\ previous' = FALSE /\ pending'.owner = "client"
            /\ pending'.previous = (previous \/ interactive)
        BY <1>0, <2>4, <3>4, PublishedEffect
      <4>2. QED BY <1>0, <2>1, <3>3, <3>4, <4>1, CredentialRecords
    <3>5. CASE /\ failure = "failed" /\ interactive /\ staged' = Unstaged
               /\ previous' = TRUE /\ step' = "acquire" /\ UNCHANGED pending
      BY <1>0, <2>1, <3>3, <3>5, CredentialRecords
    <3>6. CASE step' = "done" /\ UNCHANGED <<staged, pending, previous>>
      BY <1>0, <2>1, <3>3, <3>6
    <3>7. CASE /\ ~(failure = "crv1") /\ ~(failure = "failed" /\ interactive)
               /\ step' = "acquire" /\ UNCHANGED <<staged, pending, previous>>
      BY <1>0, <2>1, <3>3, <3>7, SMT
    <3>8. QED BY <2>4, <3>4, <3>5, <3>6, <3>7 DEF InterceptAuthChallenge
  <2>5. QED BY <1>4, <2>2, <2>3, <2>4, Zenon DEF Intercept
<1>5. QED BY <1>1, <1>2, <1>3, <1>4

\* The calls of the application.
LEMMA CallStep ==
  ASSUME CredentialInv, UNCHANGED settings, Take \/ Application \/ Close
  PROVE  CredentialInv'
<1>0. /\ CredentialsTyped /\ {"client", "session", "old"} \subseteq Owners \ {"none"}
      /\ staged \in StagedType /\ attempt \in AttemptType /\ history \in HistoryType
      /\ call \in CallType /\ pending \in ChallengeType /\ held \in HeldType
  BY DEF CredentialInv, ChallengesTrue, CredentialsTyped, Owners
<1> USE DEF CredentialInv, ChallengesTrue, CredentialsTyped, AwaitedIsAsked,
            ChallengeOfLiveSession, PreviousErrorTrue, OwnersInv, FailureInv, AnswerInv, RefusalInv,
            Steps, Errors
<1>1. CASE Take
  BY <1>0, <1>1, SMT DEF Take, NoCall, NoChallenge, CallType, ChallengeType
<1>2. CASE CompleteSession
  BY <1>0, <1>2, SMT DEF CompleteSession, NoCall, CallType
<1>3. CASE CancelSession
  <2>1. /\ call' = NoCall /\ call.owner # "client"
        /\ UNCHANGED <<step, failure, staged, token, first, interactive, previous, held, ended, history>>
    BY <1>3 DEF CancelSession
  <2>2. attempt' \in AttemptType
    <3>1. CASE attempt' = attempt
      BY <1>0, <3>1
    <3>2. CASE attempt' = [open |-> FALSE, cancelled |-> TRUE,
                           done |-> IF attempt.done = "open" THEN "cancelled" ELSE attempt.done]
      BY <1>0, <3>2 DEF AttemptType
    <3>3. QED BY <1>3, <3>1, <3>2 DEF CancelSession
  <2>3. /\ pending' \in ChallengeType
        /\ pending' = pending \/ (pending.owner # "client" /\ pending'.owner = "none")
    <3>1. pending' \in {pending, Cleared("session"), Cleared("old")}
      BY <1>3 DEF CancelSession
    <3>2. QED BY <1>0, <3>1, ClearedEffect
  <2>4. QED BY <1>0, <2>1, <2>2, <2>3, CredentialRecords, SMT
<1>4. CASE ClientCall
  BY <1>0, <1>4, SMT DEF ClientCall, NoCall, CallType
<1>5. CASE Close
  <2>1. /\ ended' = TRUE /\ pending' = NoChallenge
        /\ UNCHANGED <<step, failure, staged, token, first, interactive, previous, call, attempt,
                       held, history>>
    BY <1>5 DEF Close
  <2>2. AwaitedIsAsked' /\ ChallengeOfLiveSession' /\ PreviousErrorTrue' /\ FailureInv'
    BY <1>0, <2>1, CredentialRecords
  <2>3. CredentialsTyped'
    BY <1>0, <2>1, CredentialRecords, SMT
  <2>4. OwnersInv' /\ AnswerInv'
    BY <1>0, <2>1, CredentialRecords
  <2>5. RefusalInv'
    BY <1>0, <2>1
  <2>6. QED BY <2>2, <2>3, <2>4, <2>5
<1>6. QED BY <1>1, <1>2, <1>3, <1>4, <1>5 DEF Application

-----------------------------------------------------------------------------
(* Theorems about credentials *)

\* NewClient: nothing is staged, asked or known.
LEMMA CredentialStart ==
  ASSUME CredentialInit
  PROVE  CredentialInv
<1>1. CredentialsTyped
  <2>1. attempt \in AttemptType /\ history \in HistoryType
    BY DEF CredentialInit, NoSession, AttemptType, HistoryType
  <2>2. QED BY <2>1, CredentialRecords DEF CredentialInit, CredentialsTyped, Steps, Errors
<1>2. AwaitedIsAsked /\ ChallengeOfLiveSession /\ PreviousErrorTrue /\ OwnersInv /\ FailureInv
  BY CredentialRecords
     DEF CredentialInit, AwaitedIsAsked, ChallengeOfLiveSession, PreviousErrorTrue, OwnersInv,
         FailureInv
<1>3. AnswerInv /\ RefusalInv
  <2>1. history.answered = FALSE
    BY DEF CredentialInit
  <2>2. QED BY <2>1, CredentialRecords DEF CredentialInit, AnswerInv, RefusalInv
<1>4. QED BY <1>1, <1>2, <1>3 DEF CredentialInv, ChallengesTrue

\* One step of the supervisor, of a session or of the application.
LEMMA CredentialStep ==
  ASSUME CredentialInv, [CredentialNext]_credentialVars
  PROVE  CredentialInv'
<1>1. CASE CredentialNext
  <2>1. UNCHANGED settings
    BY <1>1, Zenon DEF CredentialNext
  <2>2. CASE Acquire \/ Await
    BY ONLY CredentialInv, <2>1, <2>2, AcquireStep
  <2>3. CASE \/ Connect \/ PullAuthFailed \/ PullInfo \/ PullReadFails \/ PullWriteFails
             \/ PullReply \/ Validate
    BY ONLY CredentialInv, <2>1, <2>3, StartStep
  <2>4. CASE LoopReads \/ LoopPublishes \/ LoopApplies \/ LoopJudges \/ LoopFinishes \/ LoopEnds
    BY ONLY CredentialInv, <2>1, <2>4, LoopStep
  <2>5. CASE Renegotiate \/ Lost \/ SessionOver \/ Intercept
    BY ONLY CredentialInv, <2>1, <2>5, UpStep
  <2>6. CASE Take \/ Application \/ Close
    BY ONLY CredentialInv, <2>1, <2>6, CallStep
  <2>7. QED BY <1>1, <2>2, <2>3, <2>4, <2>5, <2>6, Zenon DEF CredentialNext, Authenticate
<1>2. CASE UNCHANGED credentialVars
  <2>1. ChallengesTrue'
    BY <1>2, Zenon, SMT
       DEF credentialVars, CredentialInv, ChallengesTrue, CredentialsTyped, AwaitedIsAsked,
           ChallengeOfLiveSession, PreviousErrorTrue
  <2>2. OwnersInv' /\ FailureInv' /\ AnswerInv'
    BY <1>2, Zenon DEF credentialVars, CredentialInv, OwnersInv, FailureInv, AnswerInv
  <2>3. RefusalInv'
    BY <1>2 DEF credentialVars, CredentialInv, RefusalInv
  <2>4. QED BY <2>1, <2>2, <2>3 DEF CredentialInv
<1>3. QED BY <1>1, <1>2

\* CredentialInv holds in every state of a client, whatever its settings.
THEOREM CredentialInvariance == CredentialSpec => []CredentialInv
<1>1. CredentialInit => CredentialInv
  BY CredentialStart
<1>2. CredentialInv /\ [CredentialNext]_credentialVars => CredentialInv'
  BY CredentialStep
<1>3. QED BY <1>1, <1>2, PTL DEF CredentialSpec

\* awaitChallengeResponse, finish and Close: the challenge the supervisor waits for can be
\* answered, a challenge of a session is pending only while that session runs, and a challenge
\* tells of an earlier failure only when there was one; but for what the control loop of a
\* session that has just ended publishes.
THEOREM ChallengesAlwaysTrue == CredentialSpec => []ChallengesTrue
<1>1. CredentialInv => ChallengesTrue
  BY DEF CredentialInv
<1>2. QED BY <1>1, CredentialInvariance, PTL

\* acquireSessionCredentials and interceptAuthChallenge: an answered challenge is not asked
\* again until the server refuses the answer, and an answer it refused is not sent again, unless
\* the supervisor missed the refusal in one of the ways AskedAndSentOnce names.
THEOREM AlwaysAskedAndSentOnce == CredentialSpec => AskedAndSentOnce
<1>1. ASSUME CredentialInv, [CredentialNext]_credentialVars
      PROVE  [AsksOnce /\ DropsRefused]_credentialVars
  <2> SUFFICES ASSUME CredentialNext
               PROVE  AsksOnce /\ DropsRefused
    BY <1>1
  <2>1. AsksOnce
    <3> SUFFICES ASSUME step = "acquire", step' = "await"
                 PROVE  ~history.answered
      BY DEF AsksOnce
    <3>1. Acquire
      BY DEF CredentialNext, Authenticate, Await, Connect, PullAuthFailed, PullReadFails,
             PullWriteFails, PullReply, Validate, SessionOver, Intercept, PullInfo, Renegotiate,
             Lost, LoopReads, LoopPublishes, LoopApplies, LoopJudges, LoopFinishes, LoopEnds,
             Take, Application, CompleteSession, CancelSession, ClientCall, Close
    <3>2. ~staged.defined
      BY <3>1 DEF Acquire
    <3>3. QED BY <1>1, <3>2 DEF CredentialInv, AnswerInv
  <2>2. step = "connect" => staged.refusal # "due"
    BY <1>1 DEF CredentialInv, RefusalInv
  <2>3. QED BY <2>1, <2>2 DEF DropsRefused
<1>2. QED BY <1>1, CredentialInvariance, PTL DEF CredentialSpec, AskedAndSentOnce
=============================================================================
