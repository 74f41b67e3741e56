----------------------------- MODULE KeyStates ------------------------------
(***************************************************************************)
(* renegotiation.go and the data keys of peer_data.go: the key states of   *)
(* one session at its two ends.  Each end negotiates new data keys (soft   *)
(* resets), promotes the newest one for sending, keeps older ones to       *)
(* receive with, and moves the control stream along.  A key state is       *)
(* named by its end and its sequence; sequence 0 is the key of the         *)
(* handshake that opened the session, which is where Init starts.          *)
(*                                                                         *)
(* Every step between two acquisitions of softResetAccess is an action.    *)
(* The TLS handshake of two key states is reduced to what the other end    *)
(* can tell apart: the first flight that pairs them, the server's staged   *)
(* key, and the server's key method reaching the client.  A channel is     *)
(* closed when its key state is removed.  The status AwaitingData is never *)
(* assigned, and confirmDataKey sets a flag nothing reads: both left out.  *)
(***************************************************************************)
EXTENDS Integers, Sequences, FiniteSets, FiniteSetsExt, ControlHandover

CONSTANTS
  KeyIDMaxValue,    \* proto.KeyIDMaxValue, 7 in the code
  tlsKeyScanSize,   \* 3 in the code
  Callers,          \* the ends whose timers or budgets ask for soft resets
  Closers,          \* the ends that are closed at some point
  MaxSequence       \* bound: the soft resets an end begins

ASSUME KeyAssumption ==
  KeyIDMaxValue \in Nat \ {0} /\ tlsKeyScanSize \in Nat \ {0} /\ MaxSequence \in Nat

VARIABLES
  keyStates,       \* end -> the tlsRenegotiationStates it created, by sequence
  renegotiations,  \* end -> key-id -> the sequence registered for it, 0 for none
  promoted,        \* end -> promotedKeyStateSequence: the key it sends with
  receiveCodecs,   \* end -> the keys it receives with
  stream,          \* end -> its primary control stream
  budgetKey,       \* end -> activeKeyID of its renegotiation budget
  trigger,         \* end -> its call of triggerSoftReset
  incoming,        \* end -> key-ids with a handleIncomingSoftResetPacket to run
  closing          \* end -> how far Close is, and the key states it has yet to fail

vars == <<keyStates, renegotiations, promoted, receiveCodecs, stream, budgetKey, trigger,
          incoming, closing>>

Ends == {"client", "server"}
Other(e) == IF e = "client" THEN "server" ELSE "client"
KeyIDs == 1..KeyIDMaxValue
Sequences0 == 0..MaxSequence

\* once is state.finishOnce, done the times state.done was closed, step where the
\* goroutine of runSoftResetState is.
KeyState ==
  [keyID : KeyIDs, initiator : BOOLEAN,
   status : {"negotiating", "active", "lameDuck", "failed"},
   step : {"run", "note", "close", "end"}, once : {"free", "held", "done"}, done : 0..2,
   partner : Sequences0, staged : BOOLEAN, got : BOOLEAN]

ReceiveCodec == [keyID : 0..KeyIDMaxValue, sequence : Sequences0, expires : BOOLEAN]

Idle == [step |-> "idle", on |-> 0]

Init ==
  /\ keyStates = [e \in Ends |-> <<>>]
  /\ renegotiations = [e \in Ends |-> [k \in KeyIDs |-> 0]]
  /\ promoted = [e \in Ends |-> 0]
  /\ receiveCodecs = [e \in Ends |-> {[keyID |-> 0, sequence |-> 0, expires |-> FALSE]}]
  /\ stream = [e \in Ends |-> NoHandover]
  /\ budgetKey = [e \in Ends |-> 0]
  /\ trigger = [e \in Ends |-> Idle]
  /\ incoming = [e \in Ends |-> {}]
  /\ closing = [e \in Ends |-> [step |-> "no", left |-> {}]]

Created(e) == 1..Len(keyStates[e])
KeyID(e, s) == IF s = 0 THEN 0 ELSE keyStates[e][s].keyID
SendKeyID(e) == KeyID(e, promoted[e])
Registered(e, s) == s \in Created(e) /\ renegotiations[e][KeyID(e, s)] = s
HasStatus(e, s, status) == Registered(e, s) /\ keyStates[e][s].status \in status
Open(e) == closing[e].step = "no"

NextKeyID(keyID) == IF keyID >= KeyIDMaxValue THEN 1 ELSE keyID + 1

-----------------------------------------------------------------------------
(* The data keys *)

DiscardDataKeyState(codecs, sequence) == {x \in codecs : x.sequence # sequence}

KeepNewest(codecs) ==
  {x \in codecs : Cardinality({y \in codecs : y.sequence > x.sequence}) < tlsKeyScanSize}

InstallDataKeyState(e, s, promote) ==
  LET others == {x \in receiveCodecs[e] : x.keyID # KeyID(e, s)}
      aged == {[x EXCEPT !.expires = @ \/ (promote /\ x.keyID = SendKeyID(e))] : x \in others}
  IN  KeepNewest(aged \cup {[keyID |-> KeyID(e, s), sequence |-> s, expires |-> ~promote]})

-----------------------------------------------------------------------------
(* Beginning a soft reset *)

Joins(e, keyID) ==
  LET existing == renegotiations[e][keyID]
  IN  /\ existing # 0
      /\ keyStates[e][existing].status = "negotiating" \/ SendKeyID(e) = keyID

\* The key state an older one of the same key-id gives way to is removed.
BeginSoftReset(e, keyID, initiator) ==
  LET sequence == Len(keyStates[e]) + 1
      state == [keyID |-> keyID, initiator |-> initiator, status |-> "negotiating",
                step |-> "run", once |-> "free", done |-> 0, partner |-> 0,
                staged |-> FALSE, got |-> FALSE]
  IN  /\ sequence <= MaxSequence
      /\ keyStates' = [keyStates EXCEPT ![e] = Append(@, state)]
      /\ receiveCodecs' =
           IF renegotiations[e][keyID] = 0 THEN receiveCodecs
           ELSE [receiveCodecs EXCEPT ![e] = DiscardDataKeyState(@, renegotiations[e][keyID])]
      /\ renegotiations' = [renegotiations EXCEPT ![e][keyID] = sequence]
      /\ stream' = [stream EXCEPT ![e] = BeginHandover(@, sequence)]
      /\ UNCHANGED <<promoted, budgetKey, closing>>

Negotiating(e) == {s \in Created(e) : HasStatus(e, s, {"negotiating"})}

\* beginLocalSoftReset looks for a negotiation to join, lets the lock go, reads the
\* send key, and takes the lock again.
TriggerSoftReset(e) ==
  /\ e \in Callers /\ trigger[e].step = "idle" /\ closing[e].step # "done"
  /\ trigger' = [trigger EXCEPT ![e] = IF Negotiating(e) = {}
                                       THEN [step |-> "key", on |-> 0]
                                       ELSE [step |-> "wait", on |-> Max(Negotiating(e))]]
  /\ UNCHANGED <<keyStates, renegotiations, promoted, receiveCodecs, stream, budgetKey,
                 incoming, closing>>

ReadSendKey(e) ==
  /\ trigger[e].step = "key"
  /\ trigger' = [trigger EXCEPT ![e] = [step |-> "begin", on |-> NextKeyID(SendKeyID(e))]]
  /\ UNCHANGED <<keyStates, renegotiations, promoted, receiveCodecs, stream, budgetKey,
                 incoming, closing>>

BeginLocal(e) ==
  LET keyID == trigger[e].on
  IN  /\ trigger[e].step = "begin"
      /\ UNCHANGED incoming
      /\ \/ /\ ~Open(e)
            /\ trigger' = [trigger EXCEPT ![e] = Idle]
            /\ UNCHANGED <<keyStates, renegotiations, promoted, receiveCodecs, stream,
                           budgetKey, closing>>
         \/ /\ Open(e) /\ Joins(e, keyID)
            /\ trigger' = [trigger EXCEPT ![e] = [step |-> "wait", on |-> renegotiations[e][keyID]]]
            /\ UNCHANGED <<keyStates, renegotiations, promoted, receiveCodecs, stream,
                           budgetKey, closing>>
         \/ /\ Open(e) /\ ~Joins(e, keyID)
            /\ BeginSoftReset(e, keyID, TRUE)
            /\ trigger' = [trigger EXCEPT ![e] = [step |-> "wait", on |-> Len(keyStates[e]) + 1]]

TriggerReturns(e) ==
  /\ trigger[e].step = "wait" /\ keyStates[e][trigger[e].on].done > 0
  /\ trigger' = [trigger EXCEPT ![e] = Idle]
  /\ UNCHANGED <<keyStates, renegotiations, promoted, receiveCodecs, stream, budgetKey,
                 incoming, closing>>

\* The soft reset packet of one of the other end's key states arrives, perhaps late or
\* twice.  A registered channel of its key-id takes it; otherwise a goroutine starts.
SoftResetArrives(e) ==
  /\ Open(e)
  /\ \E s \in Created(Other(e)) :
       /\ keyStates[Other(e)][s].initiator
       /\ renegotiations[e][KeyID(Other(e), s)] = 0
       /\ KeyID(Other(e), s) \notin incoming[e]
       /\ incoming' = [incoming EXCEPT ![e] = @ \cup {KeyID(Other(e), s)}]
  /\ UNCHANGED <<keyStates, renegotiations, promoted, receiveCodecs, stream, budgetKey,
                 trigger, closing>>

BeginIncoming(e) ==
  \E keyID \in incoming[e] :
    /\ incoming' = [incoming EXCEPT ![e] = @ \ {keyID}]
    /\ UNCHANGED trigger
    /\ \/ /\ ~Open(e) \/ Joins(e, keyID)
          /\ UNCHANGED <<keyStates, renegotiations, promoted, receiveCodecs, stream,
                         budgetKey, closing>>
       \/ /\ Open(e) /\ ~Joins(e, keyID)
          /\ BeginSoftReset(e, keyID, FALSE)

-----------------------------------------------------------------------------
(* The negotiation: tlsClient.runRenegotiation, tlsServerSession.runRenegotiation *)

Running(e, s) == s \in Created(e) /\ keyStates[e][s].step = "run"

\* The first TLS flights reach the key states registered for the key-id.
Handshake ==
  \E c \in Negotiating("client"), t \in Negotiating("server") :
    /\ Running("client", c) /\ Running("server", t)
    /\ KeyID("client", c) = KeyID("server", t)
    /\ keyStates["client"][c].partner = 0 /\ keyStates["server"][t].partner = 0
    /\ keyStates' = [keyStates EXCEPT !["client"][c].partner = t, !["server"][t].partner = c]
    /\ UNCHANGED <<renegotiations, promoted, receiveCodecs, stream, budgetKey, trigger,
                   incoming, closing>>

\* Mutant: the server receives with the new key only once it has promoted it.
ServerStagesLate ==
  \E t \in Created("server") :
    /\ Running("server", t)
    /\ keyStates["server"][t].partner # 0 /\ ~keyStates["server"][t].staged
    /\ keyStates' = [keyStates EXCEPT !["server"][t].staged = TRUE]
    /\ UNCHANGED <<renegotiations, promoted, receiveCodecs, stream, budgetKey, trigger,
                   incoming, closing>>

\* The server receives with the new key before it sends its key method.
ServerStages ==
  \E t \in Created("server") :
    /\ Running("server", t)
    /\ keyStates["server"][t].partner # 0 /\ ~keyStates["server"][t].staged
    /\ keyStates' = [keyStates EXCEPT !["server"][t].staged = TRUE]
    /\ receiveCodecs' = IF HasStatus("server", t, {"negotiating"})
                        THEN [receiveCodecs EXCEPT !["server"] =
                                InstallDataKeyState("server", t, FALSE)]
                        ELSE receiveCodecs
    /\ UNCHANGED <<renegotiations, promoted, stream, budgetKey, trigger, incoming, closing>>

\* The server's key method reaches the client, which acknowledges it.
KeyMethodArrives ==
  \E c \in Created("client") :
    LET t == keyStates["client"][c].partner
    IN  /\ Running("client", c) /\ Registered("client", c)
        /\ t # 0 /\ ~keyStates["client"][c].got
        /\ keyStates["server"][t].staged
        /\ keyStates' = [keyStates EXCEPT !["client"][c].got = TRUE]
        /\ UNCHANGED <<renegotiations, promoted, receiveCodecs, stream, budgetKey, trigger,
                       incoming, closing>>

\* The client has what it needs; the server waits until all it sent is acknowledged.
Negotiated(e, s) ==
  IF e = "client" THEN keyStates[e][s].got
  ELSE /\ keyStates[e][s].partner # 0 /\ keyStates[e][s].staged
       /\ keyStates["client"][keyStates[e][s].partner].got

-----------------------------------------------------------------------------
(* Finishing *)

\* Mutant: whichever negotiation ends last is promoted.
NewestLast(e, s) == TRUE

Newest(e, s) == s > promoted[e]

\* The finished key states beyond the newest tlsKeyScanSize.
Pruned(e, states) ==
  LET completed == {s \in Created(e) : /\ renegotiations[e][states[s].keyID] = s
                                       /\ states[s].status \in {"active", "lameDuck"}}
  IN  {s \in completed : Cardinality({r \in completed : r > s}) >= tlsKeyScanSize}

\* finishSoftReset with a codec, while the key state is still registered.
FinishGood(e, s) ==
  LET retired == {r \in Created(e) \ {s} : HasStatus(e, r, {"active"})}
      states == [r \in Created(e) |->
                   IF r = s
                   THEN [keyStates[e][s] EXCEPT !.once = "held",
                           !.status = IF Newest(e, s) THEN "active" ELSE "lameDuck",
                           !.step = IF Newest(e, s) THEN "note" ELSE "close"]
                   ELSE IF Newest(e, s) /\ r \in retired
                        THEN [keyStates[e][r] EXCEPT !.status = "lameDuck"]
                        ELSE keyStates[e][r]]
      gone == Pruned(e, states)
  IN  /\ keyStates' = [keyStates EXCEPT ![e] = states]
      /\ receiveCodecs' = [receiveCodecs EXCEPT ![e] =
           {x \in InstallDataKeyState(e, s, Newest(e, s)) : x.sequence \notin gone}]
      /\ renegotiations' = [renegotiations EXCEPT ![e] =
           [k \in KeyIDs |-> IF @[k] \in gone THEN 0 ELSE @[k]]]
      /\ promoted' = IF Newest(e, s) THEN [promoted EXCEPT ![e] = s] ELSE promoted
      /\ stream' = [stream EXCEPT ![e] = IF Newest(e, s) THEN Install(@, s) ELSE AbortHandover(@, s)]

\* finishSoftReset with an error, or after Close removed the key state.
FinishBad(e, s) ==
  /\ keyStates' = [keyStates EXCEPT ![e][s] =
                     [@ EXCEPT !.once = "held", !.status = "failed", !.step = "close"]]
  /\ receiveCodecs' = [receiveCodecs EXCEPT ![e] = DiscardDataKeyState(@, s)]
  /\ renegotiations' = [renegotiations EXCEPT ![e][KeyID(e, s)] = IF @ = s THEN 0 ELSE @]
  /\ stream' = [stream EXCEPT ![e] = AbortHandover(@, s)]
  /\ UNCHANGED promoted

\* finishOnce: failAllRenegotiations may have been first.
FinishSoftReset(e, s, good) ==
  /\ Running(e, s)
  /\ IF keyStates[e][s].once = "done"
     THEN /\ keyStates' = [keyStates EXCEPT ![e][s].step = "end"]
          /\ UNCHANGED <<renegotiations, promoted, receiveCodecs, stream>>
     ELSE IF good /\ Registered(e, s) THEN FinishGood(e, s) ELSE FinishBad(e, s)
  /\ UNCHANGED <<budgetKey, trigger, incoming, closing>>

Succeed(e, s) == Running(e, s) /\ Negotiated(e, s) /\ FinishSoftReset(e, s, TRUE)

\* A timeout, a TLS error or a refused login, at any time before mustNegotiate.
Fail(e, s) == FinishSoftReset(e, s, FALSE)

\* The callback runs after the lock is released.
NoteRenegotiated(e, s) ==
  /\ s \in Created(e) /\ keyStates[e][s].step = "note"
  /\ budgetKey' = [budgetKey EXCEPT ![e] = KeyID(e, s)]
  /\ keyStates' = [keyStates EXCEPT ![e][s].step = "close"]
  /\ UNCHANGED <<renegotiations, promoted, receiveCodecs, stream, trigger, incoming, closing>>

\* Mutant: a promoted key state never closes done.
CloseDoneFailed(e, s) ==
  /\ s \in Created(e) /\ keyStates[e][s].step = "close"
  /\ keyStates' = [keyStates EXCEPT ![e][s] =
                     [@ EXCEPT !.step = "end", !.once = "done",
                               !.done = @ + (IF keyStates[e][s].status = "failed" THEN 1 ELSE 0)]]
  /\ UNCHANGED <<renegotiations, promoted, receiveCodecs, stream, budgetKey, trigger,
                 incoming, closing>>

CloseDone(e, s) ==
  /\ s \in Created(e) /\ keyStates[e][s].step = "close"
  /\ keyStates' = [keyStates EXCEPT ![e][s] =
                     [@ EXCEPT !.step = "end", !.once = "done",
                               !.done = keyStates[e][s].done + 1]]
  /\ UNCHANGED <<renegotiations, promoted, receiveCodecs, stream, budgetKey, trigger,
                 incoming, closing>>

-----------------------------------------------------------------------------
(* The transition window ends, and Close *)

\* The transition window is longer than the hand-window, so a negotiation that retired
\* the key has ended at the other end as well.
WindowOver(e, s) ==
  \E r \in Created(e) :
    /\ r > s /\ keyStates[e][r].status \in {"active", "lameDuck"}
    /\ ~Running(Other(e), keyStates[e][r].partner)

ExpireKeyState(e) ==
  \E s \in Created(e) :
    /\ HasStatus(e, s, {"lameDuck"}) /\ WindowOver(e, s)
    /\ renegotiations' = [renegotiations EXCEPT ![e][KeyID(e, s)] = 0]
    /\ receiveCodecs' = [receiveCodecs EXCEPT ![e] = DiscardDataKeyState(@, s)]
    /\ UNCHANGED <<keyStates, promoted, stream, budgetKey, trigger, incoming, closing>>

ExpireReceiveCodec(e) ==
  \E x \in receiveCodecs[e] :
    /\ x.expires /\ WindowOver(e, x.sequence)
    /\ ~HasStatus(e, x.sequence, {"negotiating"})
    /\ receiveCodecs' = [receiveCodecs EXCEPT ![e] = @ \ {x}]
    /\ UNCHANGED <<keyStates, renegotiations, promoted, stream, budgetKey, trigger, incoming,
                   closing>>

MarkClosing(e) ==
  /\ e \in Closers /\ closing[e].step = "no"
  /\ closing' = [closing EXCEPT ![e].step = "marked"]
  /\ UNCHANGED <<keyStates, renegotiations, promoted, receiveCodecs, stream, budgetKey,
                 trigger, incoming>>

FailAllRenegotiations(e) ==
  LET all == {s \in Created(e) : Registered(e, s)}
  IN  /\ closing[e].step = "marked"
      /\ closing' = [closing EXCEPT ![e] = [step |-> "failing", left |-> all]]
      /\ renegotiations' = [renegotiations EXCEPT ![e] = [k \in KeyIDs |-> 0]]
      /\ receiveCodecs' = [receiveCodecs EXCEPT ![e] = {x \in @ : x.sequence \notin all}]
      /\ stream' = [stream EXCEPT ![e] = IF @.handover \in all THEN AbortHandover(@, @.handover) ELSE @]
      /\ UNCHANGED <<keyStates, promoted, budgetKey, trigger, incoming>>

\* finishOnce.Do waits for a finishSoftReset that is under way.
FailOne(e, s) ==
  /\ s \in closing[e].left /\ keyStates[e][s].once # "held"
  /\ keyStates' = IF keyStates[e][s].once = "done" THEN keyStates
                  ELSE [keyStates EXCEPT ![e][s] =
                          [@ EXCEPT !.status = "failed", !.once = "done",
                                    !.done = keyStates[e][s].done + 1]]
  /\ closing' = [closing EXCEPT ![e].left = @ \ {s}]
  /\ UNCHANGED <<renegotiations, promoted, receiveCodecs, stream, budgetKey, trigger, incoming>>

Closed(e) ==
  /\ closing[e] = [step |-> "failing", left |-> {}]
  /\ closing' = [closing EXCEPT ![e].step = "done"]
  /\ UNCHANGED <<keyStates, renegotiations, promoted, receiveCodecs, stream, budgetKey,
                 trigger, incoming>>

Next ==
  \/ Handshake \/ ServerStages \/ KeyMethodArrives
  \/ \E e \in Ends :
       \/ TriggerSoftReset(e) \/ ReadSendKey(e) \/ BeginLocal(e) \/ TriggerReturns(e)
       \/ SoftResetArrives(e) \/ BeginIncoming(e)
       \/ ExpireKeyState(e) \/ ExpireReceiveCodec(e)
       \/ MarkClosing(e) \/ FailAllRenegotiations(e) \/ Closed(e)
       \/ \E s \in 1..MaxSequence :
            \/ Succeed(e, s) \/ Fail(e, s) \/ NoteRenegotiated(e, s) \/ CloseDone(e, s)
            \/ FailOne(e, s)

Spec == Init /\ [][Next]_vars

-----------------------------------------------------------------------------
(* Properties *)

\* The types of the variables.
TypeOK ==
  \A e \in Ends :
    /\ keyStates[e] \in Seq(KeyState) /\ Len(keyStates[e]) <= MaxSequence
    /\ renegotiations[e] \in [KeyIDs -> 0..Len(keyStates[e])]
    /\ promoted[e] \in 0..Len(keyStates[e])
    /\ receiveCodecs[e] \subseteq ReceiveCodec
    /\ stream[e] \in [sequence : 0..Len(keyStates[e]), handover : 0..Len(keyStates[e])]
    /\ budgetKey[e] \in 0..KeyIDMaxValue
    /\ trigger[e] \in [step : {"idle", "key"}, on : {0}] \cup [step : {"begin"}, on : KeyIDs]
                     \cup [step : {"wait"}, on : Created(e)]
    /\ incoming[e] \subseteq KeyIDs
    /\ closing[e].step \in {"no", "marked", "failing", "done"}
    /\ closing[e].left \subseteq Created(e)

\* Control messages go over the stream of the send key, whose key state is still there.
StreamServed ==
  \A e \in Ends : Open(e) =>
    /\ stream[e].sequence = promoted[e]
    /\ promoted[e] # 0 => HasStatus(e, promoted[e], {"active"})

\* A handover belongs to a key state that still negotiates, so something will end it.
HandoverBacked ==
  \A e \in Ends : stream[e].handover # 0 =>
    HasStatus(e, stream[e].handover, {"negotiating"})

\* state.done is closed once, whoever finishes the key state first.
DoneOnce == \A e \in Ends : \A s \in Created(e) : keyStates[e][s].done <= 1

Partner(e, s) == IF s = 0 THEN 0 ELSE keyStates[e][s].partner

Newer(e, s) == {r \in Created(e) : r > s /\ keyStates[e][r].status \in {"active", "lameDuck"}}

\* Two negotiations are paired crosswise: what one end takes for the newer is the older at
\* the other.  A late or repeated soft reset of a released key-id begins a key state of its own.
Crossed ==
  \E a, b \in Created("client") :
    /\ a < b /\ Partner("client", b) > 0
    /\ Partner("client", a) > Partner("client", b)

\* While both ends are open, the key one end sends with is one the other receives with.
\* A client may still be about to (its own negotiation of that key runs), and a
\* negotiation may have ended differently at the two ends, or the other end may have
\* tlsKeyScanSize newer keys, a newer key state of the same key-id, or keys in another order.
KeyAgreed ==
  (\A e \in Ends : Open(e)) =>
  \A e \in Ends :
    LET o == Other(e)
        s == Partner(e, promoted[e])
    IN  \/ \E x \in receiveCodecs[o] : x.sequence = s
        \/ o = "client" /\ Running(o, s)
        \/ s # 0 /\ keyStates[o][s].status = "failed"
        \/ \E r \in Newer(o, s) : keyStates[e][Partner(o, r)].status = "failed"
        \/ Cardinality(Newer(o, s) \cup {r \in Created(o) : r > s /\ keyStates[o][r].staged})
              >= tlsKeyScanSize
        \/ \E r \in Created(o) : r > s /\ KeyID(o, r) = KeyID(o, s)
        \/ Crossed

\* promoteKeyStateLocked, discardDataKeyState: of the key states an end keeps, the one it sends
\* with is the newest that finished, and the others that finished are lame ducks, in whichever
\* order the negotiations end.  It receives with no key whose key state failed, expired or gave
\* way to another.
KeysLive ==
  \A e \in Ends :
    /\ \A s \in Created(e) :
         /\ HasStatus(e, s, {"active"}) => s = promoted[e]
         /\ HasStatus(e, s, {"lameDuck"}) => s < promoted[e]
    /\ \A x \in receiveCodecs[e] :
         x.sequence # 0 => HasStatus(e, x.sequence, {"negotiating", "active", "lameDuck"})

\* installDataKeyState, pruneRenegotiationsLocked: an end uses the keys of live key states only,
\* and it still receives with the key it sends with, unless tlsKeyScanSize newer keys were
\* staged beside it.
KeysKept ==
  /\ KeysLive
  /\ \A e \in Ends : Open(e) =>
       \/ \E x \in receiveCodecs[e] : x.sequence = promoted[e]
       \/ Cardinality({s \in Created(e) : s > promoted[e] /\ keyStates[e][s].staged})
            >= tlsKeyScanSize
=============================================================================
