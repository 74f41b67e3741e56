------------------------- MODULE ClientCredentials -------------------------
(***************************************************************************)
(* challenge.go, auth.go and the parts of client_supervisor.go,            *)
(* client_control.go and control_directives.go about credentials: what is  *)
(* staged, when an authentication token is used instead, what is asked of  *)
(* the application, and what becomes of it when the server refuses.        *)
(*                                                                         *)
(* The supervisor goroutine acquires credentials, runs Start (key method   *)
(* exchange and pull) and waits for the end of the session; the control    *)
(* loop and the renegotiations of a session, which may outlive it, and one *)
(* caller of the application run beside it.  These goroutines together     *)
(* have one record of the server in hand at a time.  Suspend and Resume    *)
(* may come at any time (see ClientSupervisor): here they are the choice   *)
(* of what isSuspended says.  Texts, user names and answers are left out:  *)
(* credentials are told apart by where they come from and by whether the   *)
(* server has refused them.                                                *)
(***************************************************************************)
EXTENDS Naturals

CONSTANT
  Settings   \* the options of the clients in question

ASSUME SettingsAssumption ==
  Settings \subseteq [staticChallenge : BOOLEAN, tokenNamed : BOOLEAN,
                      authRetry : {"none", "interact"}]

VARIABLES
  settings,     \* one of them, for as long as the client lives
  step,         \* where the supervisor is
  failure,      \* the error of the last session
  staged,       \* authentication.staged, and what became of the server's refusal of it
  token,        \* tunnel.authToken is set
  first,        \* firstSession
  interactive,  \* authentication.sentInteractiveCredentials
  previous,     \* authentication.previousAuthenticationError is set
  pending,      \* authentication.pendingChallenge
  call,         \* CompleteChallenge or CancelChallenge after it took the challenge
  attempt,      \* the session that runs: open, what done holds, challengeCancelErr
  held,         \* the record a goroutine of a session has read and not yet acted on
  ended,        \* authentication.closed, and the supervisor's context
  history       \* what was offered, answered, refused, displaced

credentialVars == <<settings, step, failure, staged, token, first, interactive, previous,
                    pending, call, attempt, held, ended, history>>

StaticChallenge == settings.staticChallenge  \* whether a static challenge is configured
TokenNamed == settings.tokenNamed            \* whether a token has a user name of its own
AuthRetry == settings.authRetry              \* "none" or another mode

NoChallenge == [owner |-> "none", answerable |-> FALSE, previous |-> FALSE]
NoCall == [kind |-> "none", owner |-> "none"]
Unstaged == [defined |-> FALSE, interactive |-> FALSE, refusal |-> "none"]
NoSession == [open |-> FALSE, done |-> "open", cancelled |-> FALSE]
NotHeld == [owner |-> "none", what |-> "none", judged |-> FALSE]

CredentialInit ==
  /\ settings \in Settings
  /\ step = "acquire" /\ failure = "none"
  /\ staged = Unstaged
  /\ token = FALSE /\ first = TRUE /\ interactive = FALSE /\ previous = FALSE
  /\ pending = NoChallenge /\ call = NoCall
  /\ attempt = NoSession /\ held = NotHeld
  /\ ended = FALSE
  /\ history = [offered |-> "none", answered |-> FALSE, refused |-> FALSE, displaced |-> FALSE]

\* resolveAuthTokenCredentials
TokenResolves(s) == token /\ (TokenNamed \/ s.interactive)

\* Mutant: a challenge that is pending is not replaced.
PublishedFirst(owner, answerable, failed) ==
  IF ended \/ pending.owner # "none" THEN UNCHANGED <<pending, previous>>
  ELSE /\ pending' = [owner |-> owner, answerable |-> answerable, previous |-> previous \/ failed]
       /\ previous' = FALSE

\* publishChallenge, after notePreviousAuthFailure when there is one to tell.
Published(owner, answerable, failed) ==
  IF ended THEN UNCHANGED <<pending, previous>>
  ELSE /\ pending' = [owner |-> owner, answerable |-> answerable, previous |-> previous \/ failed]
       /\ previous' = FALSE

\* clearChallengeOwnedBy
Cleared(owner) == IF pending.owner = owner THEN NoChallenge ELSE pending

-----------------------------------------------------------------------------
(* acquireSessionCredentials and awaitChallengeResponse *)

Acquire ==
  /\ step = "acquire"
  /\ LET known == staged.defined \/ (~first /\ TokenResolves(Unstaged))
     IN  IF ended \/ known \/ ~StaticChallenge
         THEN /\ step' = IF ended THEN "done" ELSE "connect"
              /\ staged' = IF ended \/ known THEN staged ELSE [Unstaged EXCEPT !.defined = TRUE]
              /\ UNCHANGED <<pending, previous>>
         ELSE /\ step' = "await"
              /\ Published("client", TRUE, FALSE)
              /\ UNCHANGED staged
  /\ UNCHANGED <<failure, token, first, interactive, call, attempt, held, ended, history>>

\* The select at the end of awaitChallengeResponse; a completed call is
\* acknowledged, and what it brought is staged.
Await ==
  /\ step = "await"
  /\ \/ /\ call = [kind |-> "complete", owner |-> "client"]
        /\ staged' = [defined |-> TRUE, interactive |-> TRUE, refusal |-> "none"]
        /\ history' = [history EXCEPT !.answered = TRUE, !.displaced = FALSE]
        /\ call' = NoCall
        /\ step' = "acquire"
        /\ UNCHANGED pending
     \/ /\ call = [kind |-> "cancelled", owner |-> "client"]
        /\ call' = NoCall
        /\ step' = "done"
        /\ UNCHANGED <<staged, pending, history>>
     \/ /\ ended
        /\ pending' = Cleared("client")
        /\ step' = "done"
        /\ UNCHANGED <<staged, call, history>>
  /\ UNCHANGED <<failure, token, first, interactive, previous, attempt, held, ended>>

-----------------------------------------------------------------------------
(* A session *)

\* sessionCredentials
Sent(useToken) ==
  LET withToken == useToken /\ TokenResolves(staged)
  IN  /\ interactive' = (~withToken /\ staged.interactive)
      /\ history' = [history EXCEPT !.offered = IF withToken THEN "token" ELSE "staged"]

\* A session that fails before its key method exchange, or sends credentials.
Connect ==
  /\ step = "connect"
  /\ \/ /\ step' = "intercept" /\ failure' = "retry"
        /\ UNCHANGED <<attempt, interactive, history>>
     \/ /\ step' = "pull"
        /\ attempt' = [NoSession EXCEPT !.open = TRUE]
        /\ Sent(~first)
        /\ UNCHANGED failure
  /\ UNCHANGED <<staged, token, first, previous, pending, call, held, ended>>

\* authFailedError: whatever is not temporary is the failure of the token when there is one.
AuthFailedError(kind) ==
  IF kind # "temporary" /\ TokenResolves(staged) THEN "token" ELSE kind

\* clearAuthToken: whatever is not temporary ends the token.
ClearAuthToken(kind) == token' = (token /\ kind = "temporary")

\* The answer that was offered last is refused: the supervisor is due to deal with that, but
\* misses it when the client takes the refusal for one of the token.
Refused(kind) ==
  IF kind # "temporary" /\ history.offered = "staged" /\ staged.interactive
  THEN [staged EXCEPT !.refusal = IF AuthFailedError(kind) = "token" THEN "missed" ELSE "due"]
  ELSE staged

Missed == [staged EXCEPT !.refusal = IF @ = "due" THEN "missed" ELSE @]

\* Close, after which the supervisor has the error: finish clears the challenge of the session,
\* and a call that took one is late.  An answer that was refused may be asked for again.
Over(error) ==
  /\ step' = "intercept"
  /\ failure' = error
  /\ pending' = Cleared("session")
  /\ attempt' = NoSession
  /\ call' = [call EXCEPT !.owner = IF @ = "session" THEN "old" ELSE @]
  /\ history' = [history EXCEPT !.offered = "none",
                                !.answered = @ /\ error \notin {"crv1", "failed"}]

PullAuthFailed ==
  /\ step = "pull" /\ attempt.open
  /\ \E kind \in {"crv1", "failed", "temporary"} :
       /\ ClearAuthToken(kind)
       /\ staged' = Refused(kind)
       /\ Over(AuthFailedError(kind))
  /\ UNCHANGED <<first, interactive, previous, held, ended>>

\* handleServerPushedInfo: only a secret can be answered.
PullInfo ==
  /\ step = "pull" /\ attempt.open
  /\ \E answerable \in BOOLEAN : Published("session", answerable, FALSE)
  /\ UNCHANGED <<step, failure, staged, token, first, interactive, call, attempt, held, ended, history>>

\* A read fails, or its deadline passes.  A cancelled challenge closed the
\* session under it.
PullReadFails ==
  /\ step = "pull"
  /\ Over(IF attempt.cancelled THEN "cancelled" ELSE "retry")
  /\ UNCHANGED <<staged, token, first, interactive, previous, held, ended>>

\* Writing the request again fails; nothing is asked about challenges.
PullWriteFails ==
  /\ step = "pull" /\ ~attempt.open
  /\ Over("retry")
  /\ UNCHANGED <<staged, token, first, interactive, previous, held, ended>>

\* The push reply is applied, a token with it.
PullReply ==
  /\ step = "pull" /\ attempt.open
  /\ token' \in {token, TRUE}
  /\ pending' = Cleared("session")
  /\ history' = [history EXCEPT !.offered = "none"]
  /\ step' = "validate"
  /\ UNCHANGED <<failure, staged, first, interactive, previous, call, attempt, held, ended>>

\* tlsValidateServerPushedCipher, and the rest of Start.
Validate ==
  /\ step = "validate"
  /\ \/ /\ Over("retry")
        /\ UNCHANGED <<first, previous>>
     \/ /\ step' = "up"
        /\ first' = FALSE
        /\ previous' = FALSE
        /\ history' = [history EXCEPT !.refused = FALSE]
        /\ UNCHANGED <<failure, attempt, pending, call>>
  /\ UNCHANGED <<staged, token, interactive, held, ended>>

\* runRenegotiation sends the credentials again.  Once it has sent the token, a refusal of the
\* answer that is still to be dealt with is taken for that of a password of the options.
Renegotiate ==
  /\ step = "up" /\ attempt.open
  /\ Sent(TRUE)
  /\ staged' = IF interactive' THEN staged ELSE Missed
  /\ UNCHANGED <<step, failure, token, first, previous, pending, call, attempt, held, ended>>

\* finish with any other error: the connection is lost, the session timed out, or one of
\* Suspend and RestartSession failed it, before or after it is up.
Lost ==
  /\ step \in {"pull", "validate", "up"} /\ attempt.done = "open"
  /\ attempt' = [attempt EXCEPT !.done = "retry"]
  /\ pending' = Cleared("session")
  /\ UNCHANGED <<step, failure, staged, token, first, interactive, previous, call, held, ended, history>>

\* The control loop, or a renegotiation, has read a record, and acts on it when it gets there:
\* the session may be over by then, and the next one under way.
LoopReads ==
  /\ step = "up" /\ attempt.open /\ held = NotHeld
  /\ \E what \in {"challenge", "reply", "crv1", "failed", "temporary"} :
       held' = [owner |-> "session", what |-> what, judged |-> FALSE]
  /\ UNCHANGED <<step, failure, staged, token, first, interactive, previous, pending, call, attempt,
                 ended, history>>

LoopPublishes ==
  /\ held.what = "challenge"
  /\ \E answerable \in BOOLEAN : Published(held.owner, answerable, FALSE)
  /\ history' = [history EXCEPT !.displaced = @ \/ (~ended /\ pending.owner = "client")]
  /\ held' = NotHeld
  /\ UNCHANGED <<step, failure, staged, token, first, interactive, call, attempt, ended>>

\* A push reply with a token.
LoopApplies ==
  /\ held.what = "reply"
  /\ token' = TRUE
  /\ held' = NotHeld
  /\ UNCHANGED <<step, failure, staged, first, interactive, previous, pending, call, attempt, ended,
                 history>>

\* authFailedError, whose error is yet to reach finish.
LoopJudges ==
  /\ held.what \in {"crv1", "failed", "temporary"} /\ ~held.judged
  /\ held' = [held EXCEPT !.what = AuthFailedError(held.what), !.judged = TRUE]
  /\ ClearAuthToken(held.what)
  /\ staged' = IF held.owner = "session" THEN Refused(held.what) ELSE staged
  /\ UNCHANGED <<step, failure, first, interactive, previous, pending, call, attempt, ended, history>>

\* finish(err): the first error is the session's, and that of a session that is over is nobody's.
LoopFinishes ==
  /\ held.judged
  /\ IF held.owner = "session"
     THEN /\ attempt' = [attempt EXCEPT !.done = IF @ = "open" THEN held.what ELSE @]
          /\ pending' = Cleared("session")
     ELSE UNCHANGED attempt /\ pending' \in {pending, Cleared("old")}
  /\ held' = NotHeld
  /\ UNCHANGED <<step, failure, staged, token, first, interactive, previous, call, ended, history>>

\* The control loop of a session that is over sees that, and clears what it published.
LoopEnds ==
  /\ pending.owner = "old"
  /\ pending' = NoChallenge
  /\ UNCHANGED <<step, failure, staged, token, first, interactive, previous, call, attempt, held,
                 ended, history>>

\* The supervisor gets the error, and closes the session.  It does not hear of a refusal when
\* the error is another.
SessionOver ==
  /\ step = "up" /\ (attempt.done # "open" \/ ended)
  /\ Over(IF attempt.done = "open" THEN "retry" ELSE attempt.done)
  /\ held' = [held EXCEPT !.owner = IF @ = "session" THEN "old" ELSE @]
  /\ staged' = IF failure' \in {"crv1", "failed"} THEN staged ELSE Missed
  /\ UNCHANGED <<token, first, interactive, previous, ended>>

\* Mutant: what the server refused stays staged.
InterceptKeeping ==
  /\ IF failure = "crv1"
     THEN step' = "await" /\ Published("client", TRUE, interactive)
     ELSE /\ step' = IF failure = "cancelled" THEN "done" ELSE "acquire"
          /\ UNCHANGED <<pending, previous>>
  /\ history' = [history EXCEPT !.refused = @ \/ interactive]
  /\ UNCHANGED staged

\* interceptAuthChallenge and classifyClientSessionError
InterceptAuthChallenge ==
  /\ CASE failure = "crv1" ->
            /\ staged' = Unstaged
            /\ Published("client", TRUE, interactive)
            /\ step' = "await"
       [] failure = "failed" /\ interactive ->
            /\ staged' = Unstaged
            /\ previous' = TRUE
            /\ step' = "acquire"
            /\ UNCHANGED pending
       [] failure = "cancelled" \/ (failure = "failed" /\ ~interactive /\ AuthRetry = "none") ->
            step' = "done" /\ UNCHANGED <<staged, pending, previous>>
       [] OTHER ->
            step' = "acquire" /\ UNCHANGED <<staged, pending, previous>>
  /\ history' = [history EXCEPT !.refused = @ \/ (failure \in {"crv1", "failed"} /\ interactive)]

\* The supervisor after a session: when it is suspended it goes on without looking at the error.
Intercept ==
  /\ step = "intercept"
  /\ \/ /\ ended
        /\ step' = "done"
        /\ UNCHANGED <<staged, pending, previous, history>>
     \/ /\ ~ended
        /\ step' = "acquire" /\ staged' = Missed
        /\ UNCHANGED <<pending, previous, history>>
     \/ ~ended /\ InterceptAuthChallenge
  /\ failure' = "none"
  /\ UNCHANGED <<token, first, interactive, call, attempt, held, ended>>

-----------------------------------------------------------------------------
(* The application *)

\* CompleteChallenge and CancelChallenge take the challenge under the lock and
\* call its owner after.
Take ==
  /\ call = NoCall /\ pending.owner # "none"
  /\ call' \in {[kind |-> k, owner |-> pending.owner] :
                  k \in {"cancel"} \cup (IF pending.answerable THEN {"complete"} ELSE {})}
  /\ pending' = NoChallenge
  /\ UNCHANGED <<step, failure, staged, token, first, interactive, previous, attempt, held, ended,
                 history>>

\* The session may be gone: then nothing but the flag changes.
CompleteSession ==
  /\ call.kind = "complete" /\ call.owner # "client"
  /\ interactive' = TRUE
  /\ call' = NoCall
  /\ UNCHANGED <<step, failure, staged, token, first, previous, pending, attempt, held, ended, history>>

CancelSession ==
  /\ call.kind = "cancel" /\ call.owner # "client"
  /\ call' = NoCall
  /\ IF call.owner = "session"
     THEN /\ attempt' = [open |-> FALSE, cancelled |-> TRUE,
                         done |-> IF attempt.done = "open" THEN "cancelled" ELSE attempt.done]
          /\ pending' = Cleared("session")
     ELSE UNCHANGED attempt /\ pending' \in {pending, Cleared("old")}
  /\ UNCHANGED <<step, failure, staged, token, first, interactive, previous, held, ended, history>>

\* close(cancelChannel), or the context ended before the answer was taken.
ClientCall ==
  /\ call.owner = "client"
  /\ \/ call.kind = "cancel" /\ call' = [call EXCEPT !.kind = "cancelled"]
     \/ call.kind \in {"complete", "cancelled"} /\ ended /\ call' = NoCall
  /\ UNCHANGED <<step, failure, staged, token, first, interactive, previous, pending, attempt, held,
                 ended, history>>

Close ==
  /\ ~ended
  /\ ended' = TRUE
  /\ pending' = NoChallenge
  /\ UNCHANGED <<step, failure, staged, token, first, interactive, previous, call, attempt, held, history>>

-----------------------------------------------------------------------------

Authenticate ==
  \/ Acquire \/ Await \/ Connect
  \/ PullAuthFailed \/ PullReadFails \/ PullWriteFails \/ PullReply \/ Validate
  \/ SessionOver \/ Intercept

Application == CompleteSession \/ CancelSession \/ ClientCall

CredentialNext ==
  /\ \/ Authenticate \/ PullInfo
     \/ Renegotiate \/ Lost
     \/ LoopReads \/ LoopPublishes \/ LoopApplies \/ LoopJudges \/ LoopFinishes
     \/ LoopEnds
     \/ Take \/ Application \/ Close
  /\ UNCHANGED settings

CredentialSpec == CredentialInit /\ [][CredentialNext]_credentialVars

-----------------------------------------------------------------------------
(* Properties *)

Steps == {"acquire", "await", "connect", "pull", "validate", "up", "intercept", "done"}
StagedType == [defined : BOOLEAN, interactive : BOOLEAN, refusal : {"none", "due", "missed"}]
ChallengeType == [owner : {"none", "client", "session", "old"}, answerable : BOOLEAN,
                  previous : BOOLEAN]
CallType == [kind : {"none", "complete", "cancel", "cancelled"},
             owner : {"none", "client", "session", "old"}]
Errors == {"retry", "crv1", "failed", "temporary", "token", "cancelled"}
AttemptType == [open : BOOLEAN, done : {"open"} \cup Errors, cancelled : BOOLEAN]
HeldType == [owner : {"none", "session", "old"},
             what : {"none", "challenge", "reply", "crv1", "failed", "temporary", "token"},
             judged : BOOLEAN]
HistoryType == [offered : {"none", "token", "staged"}, answered : BOOLEAN, refused : BOOLEAN,
                displaced : BOOLEAN]

\* The variables hold what their comments say.
CredentialsTyped ==
  /\ settings \in Settings
  /\ step \in Steps /\ failure \in {"none"} \cup Errors
  /\ staged \in StagedType /\ pending \in ChallengeType /\ call \in CallType
  /\ attempt \in AttemptType /\ held \in HeldType
  /\ history \in HistoryType
  /\ token \in BOOLEAN /\ first \in BOOLEAN /\ interactive \in BOOLEAN
  /\ previous \in BOOLEAN /\ ended \in BOOLEAN

\* awaitChallengeResponse: the challenge the supervisor waits for is there to be
\* answered, or somebody is answering it, or the client is closed; only the control
\* loop of a session that has just ended can put another in its place.
AwaitedIsAsked ==
  step = "await" =>
    pending.owner = "client" \/ call.owner = "client" \/ ended \/ history.displaced

\* finish and Close: a challenge of a session is pending only while it runs, unless
\* its control loop published it after the end.
ChallengeOfLiveSession == pending.owner = "session" => step \in {"pull", "validate", "up"}

\* acquireSessionCredentials, "an answered challenge is asked for exactly once":
\* lost connections, temporary failures and expired tokens do not ask again.
AsksOnce == step = "acquire" /\ step' = "await" => ~history.answered

\* interceptAuthChallenge: an answer whose refusal the supervisor is due to deal with is not sent
\* again.
DropsRefused ==
  step = "connect" /\ step' = "pull" /\ history'.offered = "staged" => staged.refusal # "due"

\* previousAuthenticationError: a challenge tells of a failure only when one was
\* dealt with, after an answer, since a session was last up.
PreviousErrorTrue == pending.owner = "client" /\ pending.previous => history.refused

\* awaitChallengeResponse, finish and Close: the challenge the supervisor waits for can be
\* answered, a challenge of a session is pending only while that session runs, and a challenge
\* tells of an earlier failure only when there was one.  The exception is the control loop of a
\* session that has just ended: it may still publish a challenge, in place of any other.
ChallengesTrue ==
  CredentialsTyped /\ AwaitedIsAsked /\ ChallengeOfLiveSession /\ PreviousErrorTrue

\* acquireSessionCredentials, "an answered challenge is asked for exactly once": neither lost
\* connections nor temporary failures ask again.  interceptAuthChallenge: an answer the server
\* refused is not sent again, unless the supervisor missed the refusal: the client was suspended
\* when it looked, another error had ended the session first, or the refusal was taken for that
\* of a token which was set, or which a renegotiation sent, after the answer.
AskedAndSentOnce == [][AsksOnce /\ DropsRefused]_credentialVars

-----------------------------------------------------------------------------
(* Why they hold *)

\* One challenge of the supervisor at a time, while it waits, and one call about it; what a
\* goroutine of the session that runs has in hand it read while that session was up.
OwnersInv ==
  /\ pending.owner = "client" => step = "await" /\ call.owner # "client"
  /\ call.owner = "client" => step \in {"await", "done"}
  /\ held.owner = "session" => step = "up"
  /\ held.what = "challenge" => held.owner # "none"
  /\ held.judged => held.what \in Errors

\* What the next challenge will tell, and what the one that is pending tells, has happened.
FailureInv == previous => history.refused

\* What was answered stays staged until the server refuses it.
AnswerInv ==
  /\ step \in {"acquire", "await", "connect"} => failure = "none"
  /\ failure \in {"crv1", "failed"} => ~history.answered
  /\ history.answered => staged.defined

\* The flag sentInteractiveCredentials tells what was offered last, and still tells it when the
\* supervisor deals with the refusal: so it drops the answer before it connects again.
RefusalInv ==
  /\ step \in {"pull", "validate", "up"} /\ history.offered = "staged" /\ staged.interactive =>
       interactive
  /\ staged.refusal = "due" =>
       \/ step = "done"
       \/ step = "up" /\ interactive
       \/ step = "intercept" /\ interactive /\ failure \in {"crv1", "failed"}

\* The inductive invariant of the credentials.
CredentialInv ==
  ChallengesTrue /\ OwnersInv /\ FailureInv /\ AnswerInv /\ RefusalInv
=============================================================================
