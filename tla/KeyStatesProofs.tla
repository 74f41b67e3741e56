--------------------------- MODULE KeyStatesProofs ---------------------------
(***************************************************************************)
(* StreamServed, HandoverBacked, DoneOnce and KeysLive of KeyStates, for   *)
(* every range of key-ids, every number of keys kept and of soft resets,   *)
(* whoever asks for them and whoever closes.                               *)
(*                                                                         *)
(* The invariant is one of each end by itself: what the network does, and  *)
(* which keys the other end has, is left open.  Its heart is that the      *)
(* promoted key state is the newest that finished, so that nothing retires *)
(* or prunes it, and that a key state that negotiates is not displaced.    *)
(*                                                                         *)
(* ReadInOrder of ControlStream, for any number of writers, messages and   *)
(* handovers.  Its invariant relates what was written, what each stream    *)
(* still carries and what was read: streams follow one another in the      *)
(* order of their handovers, a writer writes to none older than one in     *)
(* use, and the reader never goes back to one.                             *)
(***************************************************************************)
EXTENDS KeyStates, ControlStream, TLAPS

\* The prover of a leaf that names none.
USE Zenon

ClosingSteps == {"no", "marked", "failing", "done"}

TypeInv ==
  /\ keyStates \in [Ends -> Seq(KeyState)]
  /\ renegotiations \in [Ends -> [KeyIDs -> Nat]]
  /\ promoted \in [Ends -> Nat]
  /\ stream \in [Ends -> [sequence : Nat, handover : Nat]]
  /\ closing \in [Ends -> [step : ClosingSteps, left : SUBSET Nat]]
  /\ incoming \in [Ends -> SUBSET KeyIDs]
  /\ trigger = [e \in Ends |-> trigger[e]]

\* Everything refers to key states that were created, and a registration to one of its key-id.
Bounded(e) ==
  /\ Len(keyStates[e]) <= MaxSequence
  /\ promoted[e] <= Len(keyStates[e]) /\ stream[e].handover <= Len(keyStates[e])
  /\ \A k \in KeyIDs : renegotiations[e][k] # 0 =>
       /\ renegotiations[e][k] \in Created(e)
       /\ keyStates[e][renegotiations[e][k]].keyID = k
  /\ trigger[e].step = "begin" => trigger[e].on \in KeyIDs

\* The promoted key state is the newest one that finished, and is registered.
PromotedInv(e) ==
  /\ stream[e].sequence = promoted[e]
  /\ Open(e) /\ promoted[e] # 0 => HasStatus(e, promoted[e], {"active"})
  /\ \A s \in Created(e) : keyStates[e][s].status \in {"active", "lameDuck"} => s <= promoted[e]

HandoverInv(e) == stream[e].handover # 0 => HasStatus(e, stream[e].handover, {"negotiating"})

\* Whether done is closed, and by whom it is about to be.
OnceInv(x) ==
  /\ x.done = IF x.once = "done" THEN 1 ELSE 0
  /\ x.step = "run" => x.once # "held" /\ x.status \in {"negotiating", "failed"}
  /\ x.step \in {"note", "close"} => x.once = "held"
  /\ x.step = "end" => x.once = "done"

\* Close removes all key states before it fails them.
ClosingInv(e) ==
  /\ closing[e].left \subseteq Created(e)
  /\ closing[e].step \in {"no", "marked"} => closing[e].left = {}
  /\ closing[e].step \in {"failing", "done"} => \A k \in KeyIDs : renegotiations[e][k] = 0

EndInv(e) ==
  /\ Bounded(e) /\ PromotedInv(e) /\ HandoverInv(e) /\ ClosingInv(e)
  /\ \A s \in Created(e) : OnceInv(keyStates[e][s])

IInv == TypeInv /\ \A e \in Ends : EndInv(e)

-----------------------------------------------------------------------------
(* What steps have in common *)

\* A key state with its key-id and status, and with whatever else OnceInv allows.
Alike(x, y) == x.keyID = y.keyID /\ x.status = y.status /\ OnceInv(x)

\* One key state of the many of both ends changes.
LEMMA OneStateOf ==
  ASSUME NEW f \in [Ends -> Seq(KeyState)], NEW e \in Ends, NEW s \in 1..Len(f[e]),
         NEW new \in KeyState, NEW g, g = [f EXCEPT ![e][s] = new]
  PROVE  /\ g \in [Ends -> Seq(KeyState)]
         /\ \A x \in Ends : Len(g[x]) = Len(f[x])
         /\ g[e][s] = new
         /\ \A r \in 1..Len(f[e]) : r # s => g[e][r] = f[e][r]
         /\ \A x \in Ends \ {e} : g[x] = f[x]
<1> DEFINE states == [f[e] EXCEPT ![s] = new]
<1>1. /\ states \in Seq(KeyState) /\ Len(states) = Len(f[e])
      /\ states[s] = new
      /\ \A r \in 1..Len(f[e]) : r # s => states[r] = f[e][r]
  BY SMT
<1>2. g = [f EXCEPT ![e] = states]
  OBVIOUS
<1> HIDE DEF states
<1> QED
  BY <1>1, <1>2

\* One key state changes in a step.
LEMMA OneState ==
  ASSUME keyStates \in [Ends -> Seq(KeyState)], NEW e \in Ends, NEW s \in Created(e),
         NEW new \in KeyState, keyStates' = [keyStates EXCEPT ![e][s] = new]
  PROVE  /\ keyStates' \in [Ends -> Seq(KeyState)]
         /\ \A x \in Ends : Len(keyStates'[x]) = Len(keyStates[x])
         /\ keyStates'[e][s] = new
         /\ \A r \in Created(e) \ {s} : keyStates'[e][r] = keyStates[e][r]
         /\ \A x \in Ends \ {e} : keyStates'[x] = keyStates[x]
  BY OneStateOf, SMT DEF Created

\* An end at which nothing changes that the invariant is about.
LEMMA EndSame ==
  ASSUME NEW e \in Ends, EndInv(e),
         Len(keyStates'[e]) = Len(keyStates[e]),
         \A s \in Created(e) : Alike(keyStates'[e][s], keyStates[e][s]),
         renegotiations'[e] = renegotiations[e], promoted'[e] = promoted[e],
         stream'[e] = stream[e], closing'[e] = closing[e],
         trigger'[e].step = "begin" => trigger'[e].on \in KeyIDs
  PROVE  EndInv(e)'
<1>1. /\ Created(e)' = Created(e)
      /\ Open(e)' <=> Open(e)
  BY DEF Created, Open
<1>2. Bounded(e)'
  BY <1>1, SMT DEF EndInv, Bounded, Alike
<1>3. ASSUME NEW s, NEW T, HasStatus(e, s, T) PROVE HasStatus(e, s, T)'
  BY <1>1, <1>3 DEF HasStatus, Registered, KeyID, Alike
<1>4. PromotedInv(e)'
  BY <1>1, <1>3 DEF EndInv, PromotedInv, Alike
<1>5. HandoverInv(e)'
  BY <1>3 DEF EndInv, HandoverInv
<1>6. ClosingInv(e)'
  BY <1>1 DEF EndInv, ClosingInv
<1>7. \A s \in Created(e)' : OnceInv(keyStates'[e][s])
  BY <1>1 DEF Alike
<1> QED
  BY <1>2, <1>4, <1>5, <1>6, <1>7 DEF EndInv

\* The initial state: the key of the opening handshake.
LEMMA InitInv == Init => IInv
<1> SUFFICES ASSUME Init PROVE IInv
  OBVIOUS
<1>1. TypeInv
  BY SMT DEF Init, TypeInv, NoHandover, ClosingSteps
<1>2. ASSUME NEW e \in Ends PROVE EndInv(e)
  <2>1. /\ keyStates[e] = <<>> /\ promoted[e] = 0 /\ stream[e].sequence = 0
        /\ stream[e].handover = 0 /\ trigger[e].step = "idle" /\ closing[e].left = {}
        /\ closing[e].step = "no" /\ \A k \in KeyIDs : renegotiations[e][k] = 0
    BY DEF Init, NoHandover, Idle
  <2>2. Created(e) = {} /\ Len(keyStates[e]) = 0
    BY <2>1, SMT DEF Created
  <2> QED
    BY <2>1, <2>2, KeyAssumption, SMT
       DEF EndInv, Bounded, PromotedInv, HandoverInv, ClosingInv
<1> QED
  BY <1>1, <1>2 DEF IInv

\* Steps that change no key state: a caller of triggerSoftReset before it has the lock, a
\* soft reset packet that starts a goroutine, a receive key that expires.
LEMMA QuietInv ==
  ASSUME IInv, trigger' = [x \in Ends |-> trigger'[x]],
         \A x \in Ends : trigger'[x].step = "begin" => trigger'[x].on \in KeyIDs,
         incoming' \in [Ends -> SUBSET KeyIDs],
         UNCHANGED <<keyStates, renegotiations, promoted, stream, closing>>
  PROVE  IInv'
<1>1. TypeInv'
  BY DEF IInv, TypeInv
<1>2. ASSUME NEW x \in Ends PROVE EndInv(x)'
  <2>1. \A s \in Created(x) : Alike(keyStates'[x][s], keyStates[x][s])
    BY DEF IInv, EndInv, Alike
  <2> QED
    BY <2>1, EndSame DEF IInv
<1> QED
  BY <1>1, <1>2 DEF IInv

\* The record of a key state.
LEMMA StateType ==
  ASSUME keyStates \in [Ends -> Seq(KeyState)], NEW e \in Ends, NEW s \in Created(e)
  PROVE  keyStates[e][s] \in KeyState /\ keyStates[e][s].keyID \in KeyIDs
<1>1. keyStates[e] \in Seq(KeyState)
  OBVIOUS
<1>2. keyStates[e][s] \in KeyState
  BY <1>1, SMT DEF Created
<1> QED
  BY <1>2 DEF KeyState

\* A step of a caller alone.
LEMMA CallerInv ==
  ASSUME IInv, NEW e \in Ends, NEW t, trigger' = [trigger EXCEPT ![e] = t],
         t.step = "begin" => t.on \in KeyIDs,
         UNCHANGED <<keyStates, renegotiations, promoted, stream, closing, incoming>>
  PROVE  IInv'
<1>1. /\ trigger = [x \in Ends |-> trigger[x]]
      /\ \A x \in Ends : trigger[x].step = "begin" => trigger[x].on \in KeyIDs
  BY DEF IInv, TypeInv, EndInv, Bounded
<1>2. /\ trigger' = [x \in Ends |-> trigger'[x]]
      /\ \A x \in Ends : trigger'[x].step = "begin" => trigger'[x].on \in KeyIDs
  BY <1>1
<1>3. incoming' \in [Ends -> SUBSET KeyIDs]
  BY DEF IInv, TypeInv
<1> QED
  BY <1>2, <1>3, QuietInv

\* triggerSoftReset: it joins a negotiation, reads the send key, or has its answer.
LEMMA TriggerInv ==
  ASSUME IInv, NEW e \in Ends, TriggerSoftReset(e) \/ ReadSendKey(e) \/ TriggerReturns(e)
  PROVE  IInv'
<1>1. UNCHANGED <<keyStates, renegotiations, promoted, stream, closing, incoming>>
  BY DEF TriggerSoftReset, ReadSendKey, TriggerReturns
<1>2. CASE TriggerSoftReset(e)
  <2> DEFINE t == IF Negotiating(e) = {} THEN [step |-> "key", on |-> 0]
                  ELSE [step |-> "wait", on |-> Max(Negotiating(e))]
  <2>1. t.step # "begin"
    OBVIOUS
  <2>2. trigger' = [trigger EXCEPT ![e] = t]
    BY <1>2 DEF TriggerSoftReset
  <2> HIDE DEF t
  <2> QED
    BY <1>1, <2>1, <2>2, CallerInv, Zenon
<1>3. CASE TriggerReturns(e)
  <2>1. Idle.step # "begin" /\ trigger' = [trigger EXCEPT ![e] = Idle]
    BY <1>3 DEF TriggerReturns, Idle
  <2> QED
    BY <1>1, <2>1, CallerInv, Zenon
<1>4. CASE ReadSendKey(e)
  <2> DEFINE t == [step |-> "begin", on |-> NextKeyID(SendKeyID(e))]
  <2>1. SendKeyID(e) \in 0..KeyIDMaxValue
    <3>1. promoted[e] = 0 \/ promoted[e] \in Created(e)
      BY SMT DEF IInv, TypeInv, EndInv, Bounded, Created
    <3>2. CASE promoted[e] = 0
      BY <3>2, KeyAssumption, SMT DEF SendKeyID, KeyID
    <3>3. CASE promoted[e] \in Created(e)
      BY <3>3, StateType, KeyAssumption, SMT DEF SendKeyID, KeyID, KeyIDs, IInv, TypeInv
    <3> QED
      BY <3>1, <3>2, <3>3
  <2>2. NextKeyID(SendKeyID(e)) \in KeyIDs
    BY <2>1, KeyAssumption, SMT DEF NextKeyID, KeyIDs
  <2>3. t.on \in KeyIDs /\ trigger' = [trigger EXCEPT ![e] = t]
    BY <1>4, <2>2 DEF ReadSendKey
  <2> HIDE DEF t
  <2> QED
    BY <1>1, <2>3, CallerInv, Zenon
<1> QED
  BY <1>2, <1>3, <1>4

\* A soft reset packet carries a key-id of the other end; a receive key expires.
LEMMA ArriveInv ==
  ASSUME IInv, NEW e \in Ends, SoftResetArrives(e) \/ ExpireReceiveCodec(e)
  PROVE  IInv'
<1>1. UNCHANGED <<keyStates, renegotiations, promoted, stream, closing, trigger>>
  BY DEF SoftResetArrives, ExpireReceiveCodec
<1>2. incoming' \in [Ends -> SUBSET KeyIDs]
  <2>1. CASE SoftResetArrives(e)
    <3>1. PICK s \in Created(Other(e)) :
            incoming' = [incoming EXCEPT ![e] = @ \cup {KeyID(Other(e), s)}]
      BY <2>1, Zenon DEF SoftResetArrives
    <3>2. Other(e) \in Ends
      BY DEF Other, Ends
    <3>3. KeyID(Other(e), s) \in KeyIDs
      <4>1. s # 0
        BY SMT DEF Created
      <4> QED
        BY <3>2, <4>1, StateType DEF IInv, TypeInv, KeyID
    <3> QED
      BY <3>1, <3>3 DEF IInv, TypeInv
  <2>2. CASE ExpireReceiveCodec(e)
    BY <2>2 DEF ExpireReceiveCodec, IInv, TypeInv
  <2> QED
    BY <2>1, <2>2
<1>3. /\ trigger' = [x \in Ends |-> trigger'[x]]
      /\ \A x \in Ends : trigger'[x].step = "begin" => trigger'[x].on \in KeyIDs
  BY <1>1 DEF IInv, TypeInv, EndInv, Bounded
<1> QED
  BY <1>1, <1>2, <1>3, QuietInv

-----------------------------------------------------------------------------
(* The negotiation, and one key state at a time *)

\* A key state changes as far as the invariant is not concerned.
LEMMA AlikeInv ==
  ASSUME IInv, NEW e \in Ends, NEW s \in Created(e), NEW new \in KeyState,
         Alike(new, keyStates[e][s]), keyStates' = [keyStates EXCEPT ![e][s] = new],
         UNCHANGED <<renegotiations, promoted, stream, closing, trigger, incoming>>
  PROVE  IInv'
<1>1. /\ keyStates' \in [Ends -> Seq(KeyState)]
      /\ \A x \in Ends : Len(keyStates'[x]) = Len(keyStates[x])
      /\ keyStates'[e][s] = new
      /\ \A r \in Created(e) \ {s} : keyStates'[e][r] = keyStates[e][r]
      /\ \A x \in Ends \ {e} : keyStates'[x] = keyStates[x]
  BY OneState, Zenon DEF IInv, TypeInv
<1>2. TypeInv'
  BY <1>1 DEF IInv, TypeInv
<1>3. ASSUME NEW x \in Ends PROVE EndInv(x)'
  <2>1. \A r \in Created(x) : Alike(keyStates'[x][r], keyStates[x][r])
    BY <1>1, SMT DEF Alike, IInv, EndInv
  <2>2. trigger'[x].step = "begin" => trigger'[x].on \in KeyIDs
    BY DEF IInv, EndInv, Bounded
  <2> QED
    BY <1>1, <2>1, <2>2, EndSame DEF IInv
<1> QED
  BY <1>2, <1>3 DEF IInv

\* The server's staged key, and its key method at the client.
LEMMA NegotiateInv ==
  ASSUME IInv, ServerStages \/ KeyMethodArrives
  PROVE  IInv'
<1>1. CASE ServerStages
  <2>1. PICK t \in Created("server") :
          /\ keyStates' = [keyStates EXCEPT !["server"][t] =
                                  [keyStates["server"][t] EXCEPT !.staged = TRUE]]
          /\ UNCHANGED <<renegotiations, promoted, stream, closing, trigger, incoming>>
    BY <1>1, Zenon DEF ServerStages
  <2> DEFINE new == [keyStates["server"][t] EXCEPT !.staged = TRUE]
  <2>2. keyStates["server"][t] \in KeyState
    BY StateType DEF IInv, TypeInv, Ends
  <2>3. new \in KeyState /\ Alike(new, keyStates["server"][t])
    <3>1. OnceInv(keyStates["server"][t])
      BY DEF IInv, EndInv, Ends
    <3> QED
      BY <2>2, <3>1, Zenon DEF KeyState, Alike, OnceInv
  <2> HIDE DEF new
  <2> QED
    BY <2>1, <2>3, AlikeInv, Zenon DEF Ends, new
<1>2. CASE KeyMethodArrives
  <2>1. PICK c \in Created("client") :
          /\ keyStates' = [keyStates EXCEPT !["client"][c] =
                                  [keyStates["client"][c] EXCEPT !.got = TRUE]]
          /\ UNCHANGED <<renegotiations, promoted, stream, closing, trigger, incoming>>
    BY <1>2, Zenon DEF KeyMethodArrives
  <2> DEFINE new == [keyStates["client"][c] EXCEPT !.got = TRUE]
  <2>2. keyStates["client"][c] \in KeyState
    BY StateType DEF IInv, TypeInv, Ends
  <2>3. new \in KeyState /\ Alike(new, keyStates["client"][c])
    <3>1. OnceInv(keyStates["client"][c])
      BY DEF IInv, EndInv, Ends
    <3> QED
      BY <2>2, <3>1, Zenon DEF KeyState, Alike, OnceInv
  <2> HIDE DEF new
  <2> QED
    BY <2>1, <2>3, AlikeInv, Zenon DEF Ends, new
<1> QED
  BY <1>1, <1>2

\* The first flights pair a key state of each end.
LEMMA HandshakeInv ==
  ASSUME IInv, Handshake
  PROVE  IInv'
<1>1. PICK c \in Created("client"), t \in Created("server") :
        /\ keyStates' = [keyStates EXCEPT !["client"][c].partner = t, !["server"][t].partner = c]
        /\ UNCHANGED <<renegotiations, promoted, stream, closing, trigger, incoming>>
  BY Zenon DEF Handshake, Negotiating
<1> DEFINE one == [keyStates["client"][c] EXCEPT !.partner = t]
           other == [keyStates["server"][t] EXCEPT !.partner = c]
           between == [keyStates EXCEPT !["client"][c] = one]
<1>2. /\ "client" \in Ends /\ "server" \in Ends /\ "client" # "server"
      /\ \A x \in Ends : x = "client" \/ x = "server"
      /\ keyStates \in [Ends -> Seq(KeyState)]
      /\ c \in 1..Len(keyStates["client"]) /\ t \in 1..Len(keyStates["server"])
  BY DEF IInv, TypeInv, Ends, Created
<1>3. c \in Sequences0 /\ t \in Sequences0
  <2>1. Len(keyStates["client"]) <= MaxSequence /\ Len(keyStates["server"]) <= MaxSequence
    BY <1>2 DEF IInv, EndInv, Bounded
  <2>2. Len(keyStates["client"]) \in Nat /\ Len(keyStates["server"]) \in Nat
    BY <1>2, SMT
  <2> QED
    BY <1>2, <2>1, <2>2, KeyAssumption, SMT DEF Sequences0
<1>4. /\ one \in KeyState /\ Alike(one, keyStates["client"][c])
      /\ other \in KeyState /\ Alike(other, keyStates["server"][t])
  <2>1. keyStates["client"][c] \in KeyState /\ keyStates["server"][t] \in KeyState
    BY <1>2, StateType
  <2>2. OnceInv(keyStates["client"][c]) /\ OnceInv(keyStates["server"][t])
    BY <1>2 DEF IInv, EndInv
  <2> QED
    BY <1>3, <2>1, <2>2, SMT DEF KeyState, Alike, OnceInv
<1>5. between["server"] = keyStates["server"]
  BY <1>2
<1>6. keyStates' = [between EXCEPT !["server"][t] = other]
  BY <1>1, <1>5
<1> HIDE DEF one, other, between
<1>7. /\ between \in [Ends -> Seq(KeyState)]
      /\ \A x \in Ends : Len(between[x]) = Len(keyStates[x])
      /\ between["client"][c] = one
      /\ \A s \in 1..Len(keyStates["client"]) : s # c => between["client"][s] = keyStates["client"][s]
  BY <1>2, <1>4, OneStateOf, SMT DEF between
<1>8. /\ keyStates' \in [Ends -> Seq(KeyState)]
      /\ \A x \in Ends : Len(keyStates'[x]) = Len(keyStates[x])
      /\ keyStates'["server"][t] = other /\ keyStates'["client"] = between["client"]
      /\ \A s \in 1..Len(keyStates["server"]) : s # t => keyStates'["server"][s] = keyStates["server"][s]
  BY <1>2, <1>4, <1>5, <1>6, <1>7, OneStateOf, SMT
<1>9. TypeInv'
  BY <1>1, <1>8, Zenon DEF IInv, TypeInv
<1>10. ASSUME NEW x \in Ends PROVE EndInv(x)'
  <2>1. \A r \in Created(x) : OnceInv(keyStates[x][r])
    BY DEF IInv, EndInv
  <2>2. \A r \in Created(x) : Alike(keyStates'[x][r], keyStates[x][r])
    <3>1. CASE x = "client"
      <4>1. ASSUME NEW r \in Created("client") PROVE Alike(keyStates'["client"][r], keyStates["client"][r])
        <5>1. CASE r = c
          BY <1>4, <1>7, <1>8, <5>1
        <5>2. CASE r # c
          <6>1. keyStates'["client"][r] = keyStates["client"][r]
            BY <1>7, <1>8, <5>2 DEF Created
          <6> QED
            BY <2>1, <3>1, <6>1 DEF Alike
        <5> QED
          BY <5>1, <5>2
      <4> QED
        BY <3>1, <4>1
    <3>2. CASE x = "server"
      BY <2>1, <3>2, <1>4, <1>8 DEF Created, Alike
    <3> QED
      BY <1>2, <3>1, <3>2, Zenon
  <2>3. trigger'[x].step = "begin" => trigger'[x].on \in KeyIDs
    BY <1>1 DEF IInv, EndInv, Bounded
  <2> QED
    BY <1>1, <1>8, <2>2, <2>3, EndSame, Zenon DEF IInv
<1> QED
  BY <1>9, <1>10 DEF IInv

\* The callback of a promotion, and the end of finishOnce: done is closed by who holds it.
LEMMA NoteInv ==
  ASSUME IInv, NEW e \in Ends, NEW s, NoteRenegotiated(e, s) \/ CloseDone(e, s)
  PROVE  IInv'
<1>1. /\ s \in Created(e) /\ keyStates[e][s].step \in {"note", "close"}
      /\ UNCHANGED <<renegotiations, promoted, stream, closing, trigger, incoming>>
  BY DEF NoteRenegotiated, CloseDone
<1>2. keyStates[e][s] \in KeyState /\ OnceInv(keyStates[e][s])
  BY <1>1, StateType DEF IInv, TypeInv, EndInv
<1>3. CASE NoteRenegotiated(e, s)
  <2> DEFINE new == [keyStates[e][s] EXCEPT !.step = "close"]
  <2>1. keyStates' = [keyStates EXCEPT ![e][s] = new]
    BY <1>3 DEF NoteRenegotiated
  <2>2. new \in KeyState /\ Alike(new, keyStates[e][s])
    BY <1>1, <1>2 DEF KeyState, Alike, OnceInv
  <2> HIDE DEF new
  <2> QED
    BY <1>1, <2>1, <2>2, AlikeInv, Zenon
<1>4. CASE CloseDone(e, s)
  <2> DEFINE old == keyStates[e][s]
             new == [old EXCEPT !.step = "end", !.once = "done", !.done = old.done + 1]
  <2>1. keyStates' = [keyStates EXCEPT ![e][s] = new]
    BY <1>4 DEF CloseDone
  <2>2. keyStates[e][s].once = "held" /\ keyStates[e][s].done = 0
    BY <1>1, <1>2 DEF OnceInv
  <2>3. new \in KeyState /\ Alike(new, keyStates[e][s])
    <3> HIDE DEF old
    <3>1. old \in KeyState /\ old.done = 0
      BY <1>2, <2>2 DEF old
    <3> DEFINE d == old.done + 1
    <3>2. d = 1 /\ d \in 0..2
      BY <3>1, SMT
    <3> HIDE DEF d
    <3>3. [old EXCEPT !.step = "end", !.once = "done", !.done = d] \in KeyState
      BY <3>1, <3>2, Zenon DEF KeyState
    <3>4. new \in KeyState
      BY <3>3 DEF d
    <3>5. /\ new.step = "end" /\ new.once = "done" /\ new.done = d
          /\ new.keyID = old.keyID /\ new.status = old.status
      BY <3>1 DEF KeyState, d
    <3> HIDE DEF new
    <3> QED
      BY <3>2, <3>4, <3>5 DEF Alike, OnceInv, old
  <2> HIDE DEF new
  <2> QED
    BY <1>1, <2>1, <2>3, AlikeInv, Zenon
<1> QED
  BY <1>3, <1>4

-----------------------------------------------------------------------------
(* Beginning a soft reset *)

\* beginSoftReset: the new key state is registered and is the one to take over, and the
\* one that is promoted is not displaced.
LEMMA BeginInv ==
  ASSUME IInv, NEW e \in Ends, NEW keyID \in KeyIDs, NEW initiator \in BOOLEAN,
         Open(e), ~Joins(e, keyID), BeginSoftReset(e, keyID, initiator),
         trigger' = [x \in Ends |-> trigger'[x]],
         \A x \in Ends : trigger'[x].step = "begin" => trigger'[x].on \in KeyIDs,
         incoming' \in [Ends -> SUBSET KeyIDs]
  PROVE  IInv'
<1> DEFINE n == Len(keyStates[e]) + 1
           state == [keyID |-> keyID, initiator |-> initiator, status |-> "negotiating",
                     step |-> "run", once |-> "free", done |-> 0, partner |-> 0,
                     staged |-> FALSE, got |-> FALSE]
<1>1. /\ n <= MaxSequence
      /\ keyStates' = [keyStates EXCEPT ![e] = Append(@, state)]
      /\ renegotiations' = [renegotiations EXCEPT ![e][keyID] = n]
      /\ stream' = [stream EXCEPT ![e] = BeginHandover(@, n)]
      /\ UNCHANGED <<promoted, closing>>
  BY DEF BeginSoftReset
<1>2. state \in KeyState /\ OnceInv(state) /\ state.keyID = keyID /\ state.status = "negotiating"
  BY KeyAssumption, SMT DEF KeyState, OnceInv, Sequences0
<1> HIDE DEF state
<1>3. keyStates[e] \in Seq(KeyState) /\ Len(keyStates[e]) \in Nat
  BY SMT DEF IInv, TypeInv
<1>4. /\ Append(keyStates[e], state) \in Seq(KeyState)
      /\ Len(Append(keyStates[e], state)) = n
      /\ Append(keyStates[e], state)[n] = state
      /\ \A s \in 1..Len(keyStates[e]) : Append(keyStates[e], state)[s] = keyStates[e][s]
  BY <1>2, <1>3, SMT
<1>5. /\ keyStates' \in [Ends -> Seq(KeyState)]
      /\ keyStates'[e] = Append(keyStates[e], state)
      /\ \A x \in Ends \ {e} : keyStates'[x] = keyStates[x]
  BY <1>1, <1>4 DEF IInv, TypeInv
<1>6. /\ Len(keyStates'[e]) = n /\ n \in Nat \ {0} /\ keyStates'[e][n] = state
      /\ n \notin Created(e) /\ Created(e)' = Created(e) \cup {n}
      /\ \A s \in Created(e) : keyStates'[e][s] = keyStates[e][s]
  <2>1. Len(keyStates'[e]) = n /\ n \in Nat \ {0}
    BY <1>3, <1>4, <1>5, SMT
  <2>2. n \notin Created(e) /\ Created(e)' = Created(e) \cup {n}
    BY <1>3, <2>1, SMT DEF Created
  <2> QED
    BY <1>4, <1>5, <2>1, <2>2 DEF Created
<1>7. /\ stream[e] \in [sequence : Nat, handover : Nat] /\ promoted[e] \in Nat
      /\ stream[e].sequence = promoted[e] /\ promoted[e] < n /\ stream[e].handover < n
  BY <1>3, SMT DEF IInv, TypeInv, EndInv, Bounded, PromotedInv
<1> HIDE DEF n
<1>8. BeginHandover(stream[e], n) = [stream[e] EXCEPT !.handover = n]
  BY <1>6, <1>7, SMT DEF BeginHandover
<1>9. /\ stream' \in [Ends -> [sequence : Nat, handover : Nat]]
      /\ stream'[e].sequence = promoted[e] /\ stream'[e].handover = n
      /\ \A x \in Ends \ {e} : stream'[x] = stream[x]
  BY <1>1, <1>6, <1>7, <1>8, ZenonT(30), SMT DEF IInv, TypeInv
<1>10. /\ renegotiations' \in [Ends -> [KeyIDs -> Nat]]
       /\ renegotiations'[e][keyID] = n
       /\ \A k \in KeyIDs \ {keyID} : renegotiations'[e][k] = renegotiations[e][k]
       /\ \A x \in Ends \ {e} : renegotiations'[x] = renegotiations[x]
  BY <1>1, <1>6, SMT DEF IInv, TypeInv
<1>11. TypeInv'
  BY <1>1, <1>5, <1>9, <1>10 DEF IInv, TypeInv
<1>12. EndInv(e)
  BY DEF IInv
<1>13. Bounded(e)'
  <2>1. Bounded(e)
    BY <1>12 DEF EndInv
  <2>2. \A k \in KeyIDs : renegotiations'[e][k] # 0 =>
          /\ renegotiations'[e][k] \in Created(e)'
          /\ keyStates'[e][renegotiations'[e][k]].keyID = k
    <3> SUFFICES ASSUME NEW k \in KeyIDs, renegotiations'[e][k] # 0
                 PROVE  /\ renegotiations'[e][k] \in Created(e)'
                        /\ keyStates'[e][renegotiations'[e][k]].keyID = k
      OBVIOUS
    <3>1. CASE k = keyID
      BY <3>1, <1>2, <1>6, <1>10
    <3>2. CASE k # keyID
      <4>1. renegotiations'[e][k] = renegotiations[e][k]
        BY <3>2, <1>10
      <4>2. /\ renegotiations[e][k] \in Created(e)
            /\ keyStates[e][renegotiations[e][k]].keyID = k
        BY <2>1, <4>1 DEF Bounded
      <4> QED
        BY <4>1, <4>2, <1>6
    <3> QED
      BY <3>1, <3>2
  <2>3. /\ Len(keyStates'[e]) <= MaxSequence /\ promoted'[e] <= Len(keyStates'[e])
        /\ stream'[e].handover <= Len(keyStates'[e])
    BY <1>1, <1>6, <1>7, <1>9, SMT
  <2> QED
    BY <2>2, <2>3 DEF Bounded
<1>14. HandoverInv(e)'
  BY <1>2, <1>6, <1>9, <1>10 DEF HandoverInv, HasStatus, Registered, KeyID
<1>15. PromotedInv(e)'
  <2>1. ASSUME promoted[e] # 0 PROVE HasStatus(e, promoted[e], {"active"})'
    <3>1. /\ promoted[e] \in Created(e) /\ keyStates[e][promoted[e]].status = "active"
          /\ renegotiations[e][keyStates[e][promoted[e]].keyID] = promoted[e]
      BY <2>1, <1>12 DEF EndInv, PromotedInv, HasStatus, Registered, KeyID
    <3>2. keyStates[e][promoted[e]].keyID # keyID
      BY <2>1, <3>1 DEF Joins, SendKeyID, KeyID
    <3>3. keyStates[e][promoted[e]].keyID \in KeyIDs
      BY <3>1, StateType DEF IInv, TypeInv
    <3> QED
      <4>1. /\ promoted'[e] = promoted[e] /\ promoted[e] \in Created(e)'
            /\ keyStates'[e][promoted[e]] = keyStates[e][promoted[e]]
        BY <3>1, <1>1, <1>6, Zenon
      <4>2. renegotiations'[e][keyStates[e][promoted[e]].keyID] = promoted[e]
        BY <3>1, <3>2, <3>3, <1>10
      <4> QED
        BY <2>1, <3>1, <4>1, <4>2 DEF HasStatus, Registered, KeyID
  <2>2. \A s \in Created(e)' : keyStates'[e][s].status \in {"active", "lameDuck"} => s <= promoted[e]
    BY <1>2, <1>6, <1>12 DEF EndInv, PromotedInv
  <2> QED
    BY <2>1, <2>2, <1>1, <1>9, Zenon DEF PromotedInv
<1>16. ClosingInv(e)'
  BY <1>1, <1>6, <1>12 DEF EndInv, ClosingInv, Open
<1>17. \A s \in Created(e)' : OnceInv(keyStates'[e][s])
  BY <1>2, <1>6, <1>12 DEF EndInv
<1>18. EndInv(e)'
  BY <1>13, <1>14, <1>15, <1>16, <1>17 DEF EndInv
<1>19. ASSUME NEW x \in Ends \ {e} PROVE EndInv(x)'
  <2>1. EndInv(x) /\ \A s \in Created(x) : Alike(keyStates'[x][s], keyStates[x][s])
    BY <1>5 DEF IInv, EndInv, Alike
  <2> QED
    BY <2>1, <1>1, <1>5, <1>9, <1>10, EndSame
<1> QED
  BY <1>11, <1>18, <1>19 DEF IInv

\* The caller of triggerSoftReset begins, joins or gives up.
LEMMA BeginLocalInv ==
  ASSUME IInv, NEW e \in Ends, BeginLocal(e)
  PROVE  IInv'
<1>1. /\ trigger[e].on \in KeyIDs /\ trigger = [x \in Ends |-> trigger[x]]
      /\ \A x \in Ends : trigger[x].step = "begin" => trigger[x].on \in KeyIDs
      /\ incoming \in [Ends -> SUBSET KeyIDs] /\ incoming' = incoming
  BY DEF BeginLocal, IInv, EndInv, Bounded, TypeInv
<1>2. PICK t : t.step # "begin" /\ trigger' = [trigger EXCEPT ![e] = t]
  <2> DEFINE w == [step |-> "wait", on |-> renegotiations[e][trigger[e].on]]
             v == [step |-> "wait", on |-> Len(keyStates[e]) + 1]
  <2>1. Idle.step # "begin" /\ w.step # "begin" /\ v.step # "begin"
    BY DEF Idle
  <2>2. \/ trigger' = [trigger EXCEPT ![e] = Idle]
        \/ trigger' = [trigger EXCEPT ![e] = w]
        \/ trigger' = [trigger EXCEPT ![e] = v]
    BY Zenon DEF BeginLocal
  <2> HIDE DEF w, v
  <2> QED
    BY <2>1, <2>2
<1>3. \/ UNCHANGED <<keyStates, renegotiations, promoted, stream, closing>>
      \/ /\ Open(e) /\ ~Joins(e, trigger[e].on)
         /\ BeginSoftReset(e, trigger[e].on, TRUE)
  BY Zenon DEF BeginLocal
<1>4. /\ trigger' = [x \in Ends |-> trigger'[x]]
      /\ \A x \in Ends : trigger'[x].step = "begin" => trigger'[x].on \in KeyIDs
  BY <1>1, <1>2
<1>5. CASE UNCHANGED <<keyStates, renegotiations, promoted, stream, closing>>
  BY <1>1, <1>4, <1>5, QuietInv
<1>6. CASE Open(e) /\ ~Joins(e, trigger[e].on) /\ BeginSoftReset(e, trigger[e].on, TRUE)
  BY <1>1, <1>4, <1>6, BeginInv, Zenon
<1> QED
  BY <1>3, <1>5, <1>6, Zenon

\* handleIncomingSoftResetPacket begins the other end's soft reset, or has nothing to do.
LEMMA BeginIncomingInv ==
  ASSUME IInv, NEW e \in Ends, BeginIncoming(e)
  PROVE  IInv'
<1>1. PICK keyID \in incoming[e] :
        /\ incoming' = [incoming EXCEPT ![e] = @ \ {keyID}]
        /\ UNCHANGED trigger
        /\ \/ UNCHANGED <<keyStates, renegotiations, promoted, stream, closing>>
           \/ Open(e) /\ ~Joins(e, keyID) /\ BeginSoftReset(e, keyID, FALSE)
  BY Zenon DEF BeginIncoming
<1>2. /\ keyID \in KeyIDs /\ incoming' \in [Ends -> SUBSET KeyIDs]
      /\ trigger' = [x \in Ends |-> trigger'[x]]
      /\ \A x \in Ends : trigger'[x].step = "begin" => trigger'[x].on \in KeyIDs
  BY <1>1 DEF IInv, EndInv, Bounded, TypeInv
<1>3. CASE UNCHANGED <<keyStates, renegotiations, promoted, stream, closing>>
  BY <1>2, <1>3, QuietInv
<1>4. CASE Open(e) /\ ~Joins(e, keyID) /\ BeginSoftReset(e, keyID, FALSE)
  BY <1>2, <1>4, BeginInv, Zenon
<1> QED
  BY <1>1, <1>3, <1>4, Zenon

-----------------------------------------------------------------------------
(* Finishing: key states end and registrations go *)

\* A step of one end that creates no key state and registers none.
LEMMA OneEnd ==
  ASSUME IInv, NEW e \in Ends, TypeInv',
         Len(keyStates'[e]) = Len(keyStates[e]),
         \A r \in Created(e) : /\ keyStates'[e][r].keyID = keyStates[e][r].keyID
                               /\ OnceInv(keyStates'[e][r]),
         \A k \in KeyIDs : renegotiations'[e][k] \in {0, renegotiations[e][k]},
         promoted'[e] <= Len(keyStates[e]),
         stream'[e].handover <= Len(keyStates[e]),
         PromotedInv(e)', HandoverInv(e)', ClosingInv(e)', UNCHANGED trigger,
         \A x \in Ends \ {e} :
           /\ keyStates'[x] = keyStates[x] /\ renegotiations'[x] = renegotiations[x]
           /\ promoted'[x] = promoted[x] /\ stream'[x] = stream[x] /\ closing'[x] = closing[x]
  PROVE  IInv'
<1>1. Created(e)' = Created(e) /\ EndInv(e)
  BY DEF Created, IInv
<1>2. Bounded(e)'
  <2>1. \A k \in KeyIDs : renegotiations'[e][k] # 0 =>
          /\ renegotiations'[e][k] = renegotiations[e][k]
          /\ renegotiations[e][k] \in Created(e)
          /\ keyStates[e][renegotiations[e][k]].keyID = k
    BY <1>1 DEF EndInv, Bounded
  <2>2. \A k \in KeyIDs : renegotiations'[e][k] # 0 =>
          /\ renegotiations'[e][k] \in Created(e)'
          /\ keyStates'[e][renegotiations'[e][k]].keyID = k
    BY <1>1, <2>1, SMT
  <2> QED
    BY <1>1, <2>2 DEF EndInv, Bounded
<1>3. EndInv(e)'
  BY <1>1, <1>2 DEF EndInv
<1>4. ASSUME NEW x \in Ends \ {e} PROVE EndInv(x)'
  <2>1. EndInv(x) /\ \A s \in Created(x) : Alike(keyStates'[x][s], keyStates[x][s])
    BY DEF IInv, EndInv, Alike
  <2>2. trigger'[x].step = "begin" => trigger'[x].on \in KeyIDs
    BY <2>1 DEF EndInv, Bounded
  <2> QED
    BY <2>1, <2>2, EndSame
<1> QED
  BY <1>3, <1>4 DEF IInv

\* finishSoftReset with an error: the key state is not the promoted one, and its handover
\* is given up with it.
LEMMA FinishBadInv ==
  ASSUME IInv, NEW e \in Ends, NEW s, Running(e, s), keyStates[e][s].once # "done",
         FinishBad(e, s), UNCHANGED <<trigger, incoming, closing>>
  PROVE  IInv'
<1> DEFINE old == keyStates[e][s]
           new == [old EXCEPT !.once = "held", !.status = "failed", !.step = "close"]
<1>1. s \in Created(e) /\ s # 0 /\ old \in KeyState /\ OnceInv(old) /\ EndInv(e)
      /\ old.step = "run" /\ old.once = "free" /\ old.done = 0 /\ old.keyID \in KeyIDs
      /\ old.status \in {"negotiating", "failed"}
  <2>1. s \in Created(e) /\ s # 0 /\ old.step = "run" /\ old.once # "done"
    BY SMT DEF Running, Created
  <2>2. old \in KeyState /\ OnceInv(old) /\ EndInv(e) /\ old.keyID \in KeyIDs
    BY <2>1, StateType DEF IInv, TypeInv, EndInv
  <2> QED
    BY <2>1, <2>2 DEF OnceInv, KeyState
<1>2. /\ new \in KeyState /\ OnceInv(new) /\ new.keyID = old.keyID /\ new.status = "failed"
  BY <1>1, Zenon DEF KeyState, OnceInv
<1>3. /\ keyStates' = [keyStates EXCEPT ![e][s] = new]
      /\ renegotiations' = [renegotiations EXCEPT ![e][old.keyID] = IF @ = s THEN 0 ELSE @]
      /\ stream' = [stream EXCEPT ![e] = AbortHandover(@, s)]
      /\ UNCHANGED promoted
  BY <1>1 DEF FinishBad, KeyID
<1> HIDE DEF old, new
<1>4. /\ keyStates' \in [Ends -> Seq(KeyState)]
      /\ \A x \in Ends : Len(keyStates'[x]) = Len(keyStates[x])
      /\ keyStates'[e][s] = new
      /\ \A r \in Created(e) \ {s} : keyStates'[e][r] = keyStates[e][r]
      /\ \A x \in Ends \ {e} : keyStates'[x] = keyStates[x]
  BY <1>1, <1>2, <1>3, OneState, Zenon DEF IInv, TypeInv
<1>5. /\ renegotiations' \in [Ends -> [KeyIDs -> Nat]]
      /\ \A k \in KeyIDs : /\ renegotiations'[e][k] \in {0, renegotiations[e][k]}
                           /\ renegotiations[e][k] # s =>
                                renegotiations'[e][k] = renegotiations[e][k]
      /\ \A x \in Ends \ {e} : renegotiations'[x] = renegotiations[x]
  BY <1>1, <1>3, SMT DEF IInv, TypeInv
<1>6. /\ stream[e] \in [sequence : Nat, handover : Nat]
      /\ stream[e].handover <= Len(keyStates[e])
  BY <1>1 DEF EndInv, Bounded, IInv, TypeInv
<1>7. /\ AbortHandover(stream[e], s) \in [sequence : Nat, handover : Nat]
      /\ AbortHandover(stream[e], s).sequence = stream[e].sequence
      /\ AbortHandover(stream[e], s).handover =
           IF stream[e].handover = s THEN 0 ELSE stream[e].handover
  BY <1>6 DEF AbortHandover
<1>8. /\ stream' \in [Ends -> [sequence : Nat, handover : Nat]]
      /\ stream'[e].sequence = stream[e].sequence
      /\ stream'[e].handover = IF stream[e].handover = s THEN 0 ELSE stream[e].handover
      /\ \A x \in Ends \ {e} : stream'[x] = stream[x]
  BY <1>3, <1>7 DEF IInv, TypeInv
<1>9. TypeInv'
  BY <1>3, <1>4, <1>5, <1>8 DEF IInv, TypeInv
<1>10. Created(e)' = Created(e) /\ (Open(e)' <=> Open(e))
  BY <1>4 DEF Created, Open
<1>11. ASSUME NEW r, NEW T, HasStatus(e, r, T), r # s PROVE HasStatus(e, r, T)'
  <2>1. /\ r \in Created(e) /\ r # 0 /\ keyStates[e][r].status \in T
        /\ renegotiations[e][keyStates[e][r].keyID] = r
    BY <1>11, SMT DEF HasStatus, Registered, KeyID, Created
  <2>2. keyStates[e][r].keyID \in KeyIDs /\ keyStates'[e][r] = keyStates[e][r]
    BY <1>4, <1>11, <2>1, StateType DEF IInv, TypeInv
  <2>3. renegotiations'[e][keyStates[e][r].keyID] = r
    BY <1>5, <1>11, <2>1, <2>2
  <2> QED
    BY <1>10, <2>1, <2>2, <2>3 DEF HasStatus, Registered, KeyID
<1>12. PromotedInv(e)'
  <2>1. ASSUME Open(e), promoted[e] # 0 PROVE HasStatus(e, promoted[e], {"active"})'
    <3>1. HasStatus(e, promoted[e], {"active"})
      BY <1>1, <2>1 DEF EndInv, PromotedInv
    <3>2. promoted[e] # s
      BY <1>1, <3>1 DEF HasStatus, old
    <3> QED
      BY <1>3, <1>11, <3>1, <3>2
  <2>2. \A r \in Created(e) : keyStates'[e][r].status \in {"active", "lameDuck"} => r <= promoted[e]
    BY <1>1, <1>2, <1>4 DEF EndInv, PromotedInv
  <2>3. stream'[e].sequence = promoted[e] /\ promoted'[e] = promoted[e]
    BY <1>1, <1>3, <1>8 DEF EndInv, PromotedInv
  <2> QED
    BY <2>1, <2>2, <2>3, <1>10 DEF PromotedInv
<1>13. HandoverInv(e)'
  <2>1. ASSUME stream'[e].handover # 0
        PROVE  /\ stream'[e].handover = stream[e].handover /\ stream[e].handover # s
               /\ HasStatus(e, stream[e].handover, {"negotiating"})
    BY <2>1, <1>1, <1>8 DEF EndInv, HandoverInv
  <2> QED
    BY <2>1, <1>11 DEF HandoverInv
<1>14. ClosingInv(e)'
  BY <1>1, <1>5, <1>10, SMTT(30) DEF EndInv, ClosingInv
<1>15. \A r \in Created(e) : /\ keyStates'[e][r].keyID = keyStates[e][r].keyID
                             /\ OnceInv(keyStates'[e][r])
  BY <1>1, <1>2, <1>4 DEF EndInv, old
<1>16. promoted'[e] <= Len(keyStates[e]) /\ stream'[e].handover <= Len(keyStates[e])
  BY <1>1, <1>3, <1>6, <1>8, SMT DEF EndInv, Bounded, IInv, TypeInv
<1> QED
  BY <1>3, <1>4, <1>5, <1>8, <1>9, <1>12, <1>13, <1>14, <1>15, <1>16, OneEnd, SMTT(30)

\* The transition window of a retired key ends, or an end starts to close.
LEMMA ExpireInv ==
  ASSUME IInv, NEW e \in Ends, ExpireKeyState(e) \/ MarkClosing(e) \/ Closed(e)
  PROVE  IInv'
<1>1. EndInv(e) /\ \A r \in Created(e) : OnceInv(keyStates[e][r])
  BY DEF IInv, EndInv
<1>2. promoted[e] <= Len(keyStates[e]) /\ stream[e].handover <= Len(keyStates[e])
  BY <1>1 DEF EndInv, Bounded
<1>3. CASE ExpireKeyState(e)
  <2>1. PICK s \in Created(e) :
          /\ HasStatus(e, s, {"lameDuck"})
          /\ renegotiations' = [renegotiations EXCEPT ![e][KeyID(e, s)] = 0]
          /\ UNCHANGED <<keyStates, promoted, stream, trigger, incoming, closing>>
    BY <1>3, ZenonT(30) DEF ExpireKeyState
  <2>2. /\ KeyID(e, s) \in KeyIDs /\ renegotiations[e][KeyID(e, s)] = s
        /\ keyStates[e][s].status = "lameDuck"
    BY <2>1, StateType, SMT DEF IInv, TypeInv, HasStatus, Registered, KeyID, Created
  <2>3. /\ renegotiations' \in [Ends -> [KeyIDs -> Nat]]
        /\ \A k \in KeyIDs : /\ renegotiations'[e][k] \in {0, renegotiations[e][k]}
                             /\ renegotiations[e][k] # s =>
                                  renegotiations'[e][k] = renegotiations[e][k]
        /\ \A x \in Ends \ {e} : renegotiations'[x] = renegotiations[x]
    BY <2>1, <2>2 DEF IInv, TypeInv
  <2>4. TypeInv'
    BY <2>1, <2>3 DEF IInv, TypeInv
  <2>5. Created(e)' = Created(e) /\ (Open(e)' <=> Open(e))
    BY <2>1 DEF Created, Open
  <2>6. ASSUME NEW r, NEW T, HasStatus(e, r, T), "lameDuck" \notin T PROVE HasStatus(e, r, T)'
    <3>1. /\ r \in Created(e) /\ r # 0 /\ keyStates[e][r].status \in T /\ r # s
          /\ renegotiations[e][keyStates[e][r].keyID] = r
      BY <2>2, <2>6, SMT DEF HasStatus, Registered, KeyID, Created
    <3>2. keyStates[e][r].keyID \in KeyIDs
      BY <3>1, StateType DEF IInv, TypeInv
    <3> QED
      BY <2>1, <2>3, <2>5, <3>1, <3>2 DEF HasStatus, Registered, KeyID
  <2>7. PromotedInv(e)' /\ HandoverInv(e)'
    <3>1. HandoverInv(e)'
      BY <1>1, <2>1, <2>6 DEF EndInv, HandoverInv
    <3>2. Open(e) /\ promoted[e] # 0 => HasStatus(e, promoted[e], {"active"})'
      BY <1>1, <2>1, <2>6 DEF EndInv, PromotedInv
    <3> QED
      BY <1>1, <2>1, <2>5, <3>1, <3>2 DEF EndInv, PromotedInv
  <2>8. ClosingInv(e)'
    BY <1>1, <2>1, <2>3, <2>5, SMTT(30) DEF EndInv, ClosingInv
  <2> QED
    BY <1>1, <1>2, <2>1, <2>3, <2>4, <2>7, <2>8, OneEnd
<1>4. CASE MarkClosing(e) \/ Closed(e)
  <2>1. UNCHANGED <<keyStates, renegotiations, promoted, stream, trigger, incoming>>
    BY <1>4 DEF MarkClosing, Closed
  <2>2. /\ closing' \in [Ends -> [step : ClosingSteps, left : SUBSET Nat]]
        /\ \A x \in Ends \ {e} : closing'[x] = closing[x]
        /\ ~Open(e)' /\ ClosingInv(e)'
    <3>1. closing \in [Ends -> [step : ClosingSteps, left : SUBSET Nat]]
      BY DEF IInv, TypeInv
    <3>2. CASE MarkClosing(e)
      BY <1>1, <2>1, <3>1, <3>2
         DEF MarkClosing, ClosingSteps, Open, EndInv, ClosingInv, Created
    <3>3. CASE Closed(e)
      BY <1>1, <2>1, <3>1, <3>3, SMT
         DEF Closed, ClosingSteps, Open, EndInv, ClosingInv, Created
    <3> QED
      BY <1>4, <3>2, <3>3
  <2>3. TypeInv'
    BY <2>1, <2>2, SMTT(30) DEF IInv, TypeInv
  <2>4. PromotedInv(e)' /\ HandoverInv(e)'
    BY <1>1, <2>1, <2>2, Zenon
       DEF EndInv, PromotedInv, HandoverInv, HasStatus, Registered, KeyID, Created
  <2> QED
    BY <1>1, <1>2, <2>1, <2>2, <2>3, <2>4, OneEnd
<1> QED
  BY <1>3, <1>4

\* failAllRenegotiations takes every key state out of the registrations under the lock.
LEMMA FailAllInv ==
  ASSUME IInv, NEW e \in Ends, FailAllRenegotiations(e)
  PROVE  IInv'
<1> DEFINE all == {s \in Created(e) : Registered(e, s)}
<1>1. /\ closing' = [closing EXCEPT ![e] = [step |-> "failing", left |-> all]]
      /\ renegotiations' = [renegotiations EXCEPT ![e] = [k \in KeyIDs |-> 0]]
      /\ stream' = [stream EXCEPT ![e] =
           IF @.handover \in all THEN AbortHandover(@, @.handover) ELSE @]
      /\ UNCHANGED <<keyStates, promoted, trigger, incoming>>
  BY DEF FailAllRenegotiations
<1>2. all \subseteq Created(e) /\ Created(e) \subseteq Nat /\ EndInv(e)
  BY SMT DEF Created, IInv
<1>3. stream[e].handover # 0 => stream[e].handover \in all
  BY <1>2 DEF EndInv, HandoverInv, HasStatus, Registered
<1> HIDE DEF all
<1>4. /\ stream[e] \in [sequence : Nat, handover : Nat] /\ stream[e].sequence = promoted[e]
      /\ promoted[e] <= Len(keyStates[e])
  BY <1>2 DEF EndInv, PromotedInv, Bounded, IInv, TypeInv
<1>5. /\ stream' \in [Ends -> [sequence : Nat, handover : Nat]]
      /\ stream'[e].sequence = promoted[e] /\ stream'[e].handover = 0
      /\ \A x \in Ends \ {e} : stream'[x] = stream[x]
  <2> DEFINE after == IF stream[e].handover \in all
                      THEN AbortHandover(stream[e], stream[e].handover) ELSE stream[e]
  <2>1. /\ after \in [sequence : Nat, handover : Nat]
        /\ after.sequence = promoted[e] /\ after.handover = 0
    BY <1>3, <1>4 DEF AbortHandover
  <2>2. stream' = [stream EXCEPT ![e] = after]
    BY <1>1
  <2> HIDE DEF after
  <2> QED
    BY <2>1, <2>2 DEF IInv, TypeInv
<1>6. /\ renegotiations' \in [Ends -> [KeyIDs -> Nat]]
      /\ \A k \in KeyIDs : renegotiations'[e][k] = 0
      /\ \A x \in Ends \ {e} : renegotiations'[x] = renegotiations[x]
  BY <1>1 DEF IInv, TypeInv
<1>7. /\ closing' \in [Ends -> [step : ClosingSteps, left : SUBSET Nat]]
      /\ closing'[e].step = "failing" /\ closing'[e].left = all
      /\ \A x \in Ends \ {e} : closing'[x] = closing[x]
  BY <1>1, <1>2 DEF IInv, TypeInv, ClosingSteps
<1>8. TypeInv'
  BY <1>1, <1>5, <1>6, <1>7, SMTT(30) DEF IInv, TypeInv
<1>9. PromotedInv(e)'
  <2>1. \A s \in Created(e) : keyStates[e][s].status \in {"active", "lameDuck"} => s <= promoted[e]
    BY <1>2 DEF EndInv, PromotedInv
  <2> QED
    BY <2>1, <1>1, <1>5, <1>7, SMTT(30) DEF PromotedInv, Open, Created
<1>10. HandoverInv(e)' /\ ClosingInv(e)'
  BY <1>1, <1>2, <1>5, <1>6, <1>7, Zenon DEF HandoverInv, ClosingInv, Created
<1>11. \A r \in Created(e) : OnceInv(keyStates[e][r])
  BY <1>2 DEF EndInv
<1>12. stream'[e].handover <= Len(keyStates[e])
  BY <1>5, SMT DEF IInv, TypeInv
<1> QED
  BY <1>1, <1>4, <1>5, <1>6, <1>7, <1>8, <1>9, <1>10, <1>11, <1>12, OneEnd, SMTT(30)

\* Close fails a key state that nobody has finished; at that time none is registered.
LEMMA FailOneInv ==
  ASSUME IInv, NEW e \in Ends, NEW s, FailOne(e, s)
  PROVE  IInv'
<1>1. EndInv(e) /\ UNCHANGED <<renegotiations, promoted, stream, trigger, incoming>>
  BY DEF FailOne, IInv
<1>2. /\ s \in closing[e].left /\ closing[e].left \subseteq Created(e)
      /\ keyStates[e][s].once # "held"
      /\ closing' = [closing EXCEPT ![e].left = @ \ {s}]
  BY <1>1 DEF FailOne, EndInv, ClosingInv
<1>3. /\ closing[e] \in [step : ClosingSteps, left : SUBSET Nat]
      /\ s \in Created(e) /\ ~Open(e)
      /\ \A k \in KeyIDs : renegotiations[e][k] = 0
  <2>1. closing[e] \in [step : ClosingSteps, left : SUBSET Nat]
    BY DEF IInv, TypeInv
  <2>2. closing[e].step \in {"failing", "done"}
    BY <1>1, <1>2, <2>1 DEF EndInv, ClosingInv, ClosingSteps
  <2> QED
    BY <1>1, <1>2, <2>1, <2>2 DEF EndInv, ClosingInv, Open
<1>4. /\ closing' \in [Ends -> [step : ClosingSteps, left : SUBSET Nat]]
      /\ closing'[e].step = closing[e].step /\ closing'[e].left = closing[e].left \ {s}
      /\ \A x \in Ends \ {e} : closing'[x] = closing[x]
  BY <1>2, <1>3, Zenon DEF IInv, TypeInv
<1>5. keyStates[e][s] \in KeyState /\ OnceInv(keyStates[e][s])
  BY <1>1, <1>3, StateType DEF IInv, TypeInv, EndInv
<1>6. /\ keyStates' \in [Ends -> Seq(KeyState)]
      /\ \A x \in Ends : Len(keyStates'[x]) = Len(keyStates[x])
      /\ \A r \in Created(e) : /\ keyStates'[e][r].keyID = keyStates[e][r].keyID
                               /\ OnceInv(keyStates'[e][r])
                               /\ keyStates'[e][r].status \in {"failed", keyStates[e][r].status}
      /\ \A x \in Ends \ {e} : keyStates'[x] = keyStates[x]
  <2>1. CASE keyStates[e][s].once = "done"
    BY <1>1, <2>1 DEF FailOne, EndInv, IInv, TypeInv
  <2>2. CASE keyStates[e][s].once # "done"
    <3> DEFINE old == keyStates[e][s]
               d == old.done + 1
               new == [old EXCEPT !.status = "failed", !.once = "done", !.done = d]
    <3>1. keyStates' = [keyStates EXCEPT ![e][s] = new]
      BY <2>2 DEF FailOne
    <3>2. old.once = "free" /\ old.step = "run" /\ old.done = 0 /\ old \in KeyState
      BY <1>2, <1>5, <2>2 DEF KeyState, OnceInv
    <3> HIDE DEF old
    <3>3. d = 1 /\ d \in 0..2
      BY <3>2, SMT
    <3> HIDE DEF d
    <3>4. new \in KeyState
      BY <3>2, <3>3, Zenon DEF KeyState
    <3>5. /\ new.step = "run" /\ new.once = "done" /\ new.done = d
          /\ new.keyID = old.keyID /\ new.status = "failed"
      BY <3>2 DEF KeyState
    <3> HIDE DEF new
    <3>6. OnceInv(new)
      BY <3>3, <3>5 DEF OnceInv
    <3>7. /\ keyStates' \in [Ends -> Seq(KeyState)]
          /\ \A x \in Ends : Len(keyStates'[x]) = Len(keyStates[x])
          /\ keyStates'[e][s] = new
          /\ \A r \in Created(e) \ {s} : keyStates'[e][r] = keyStates[e][r]
          /\ \A x \in Ends \ {e} : keyStates'[x] = keyStates[x]
      BY <1>3, <3>1, <3>4, OneState, ZenonT(30) DEF IInv, TypeInv
    <3> QED
      BY <1>1, <3>5, <3>6, <3>7 DEF EndInv, old
  <2> QED
    BY <2>1, <2>2
<1>7. TypeInv'
  BY <1>1, <1>4, <1>6 DEF IInv, TypeInv
<1>8. Created(e)' = Created(e) /\ ~Open(e)'
  BY <1>3, <1>4, <1>6, SMTT(30) DEF Created, Open
<1>9. PromotedInv(e)'
  <2>1. \A r \in Created(e) : keyStates'[e][r].status \in {"active", "lameDuck"} => r <= promoted[e]
    BY <1>1, <1>6 DEF EndInv, PromotedInv
  <2>2. stream[e].sequence = promoted[e]
    BY <1>1 DEF EndInv, PromotedInv
  <2> QED
    BY <1>1, <1>8, <2>1, <2>2, SMTT(30) DEF PromotedInv
<1>10. HandoverInv(e)'
  <2>1. stream[e].handover = 0
    <3> SUFFICES ASSUME stream[e].handover # 0 PROVE FALSE
      BY SMTT(30)
    <3> DEFINE h == stream[e].handover
    <3>1. h \in Created(e) /\ h # 0 /\ renegotiations[e][keyStates[e][h].keyID] = h
      BY <1>1 DEF EndInv, HandoverInv, HasStatus, Registered, KeyID
    <3>2. keyStates[e][h].keyID \in KeyIDs
      BY <3>1, StateType DEF IInv, TypeInv
    <3> QED
      BY <1>3, <3>1, <3>2
  <2> QED
    BY <1>1, <2>1 DEF HandoverInv
<1>11. ClosingInv(e)'
  BY <1>1, <1>2, <1>3, <1>4, <1>8, SMTT(30) DEF ClosingInv, Open, ClosingSteps, EndInv
<1>12. promoted[e] <= Len(keyStates[e]) /\ stream[e].handover <= Len(keyStates[e])
  BY <1>1 DEF EndInv, Bounded
<1> QED
  BY <1>1, <1>4, <1>6, <1>7, <1>9, <1>10, <1>11, <1>12, OneEnd

\* None is no key state: a scan that finds nothing has counted nothing.
LEMMA NoneCounted == Cardinality({}) = 0
<1> DEFINE Counts(g) == g = [S \in SUBSET {} |->
                               IF S = {} THEN 0 ELSE 1 + g[S \ {CHOOSE x : x \in S}]]
           count == CHOOSE g : Counts(g)
<1>1. \E g : Counts(g)
  <2> DEFINE none == [S \in SUBSET {} |-> 0]
  <2>1. \A S \in SUBSET {} : S = {}
    OBVIOUS
  <2>2. Counts(none)
    BY <2>1
  <2> QED BY <2>2
<1>2. Counts(count)
  BY <1>1
<1> HIDE DEF count
<1>3. count[{}] = 0
  BY <1>2
<1>4. Cardinality({}) = count[{}]
  BY DEF Cardinality, count
<1> QED BY <1>3, <1>4

\* No finished key state is newer than p: p is not among those pruned.
LEMMA NotPruned ==
  ASSUME NEW e \in Ends, NEW states, NEW p \in Nat,
         Created(e) \subseteq Nat,
         \A r \in Created(e) : states[r].status \in {"active", "lameDuck"} => r <= p
  PROVE  p \notin Pruned(e, states)
<1> DEFINE completed == {s \in Created(e) : /\ renegotiations[e][states[s].keyID] = s
                                            /\ states[s].status \in {"active", "lameDuck"}}
           newer == {r \in completed : r > p}
<1>1. newer = {}
  BY SMT
<1>2. Cardinality(newer) = 0
  BY <1>1, NoneCounted
<1>3. p \in Pruned(e, states) => Cardinality(newer) >= tlsKeyScanSize
  BY SMTT(30) DEF Pruned
<1> HIDE DEF newer
<1> QED
  BY <1>2, <1>3, KeyAssumption, SMT

\* finishSoftReset with a codec: the newest key state is promoted and retires the one
\* before; one that comes late is a lame duck at once.
LEMMA FinishGoodInv ==
  ASSUME IInv, NEW e \in Ends, NEW s, Running(e, s), keyStates[e][s].once # "done",
         Registered(e, s), FinishGood(e, s), UNCHANGED <<trigger, incoming, closing>>
  PROVE  IInv'
<1> DEFINE old == keyStates[e][s]
           newest == s > promoted[e]
           retired == {r \in Created(e) \ {s} : HasStatus(e, r, {"active"})}
           finished == [old EXCEPT !.once = "held",
                          !.status = IF newest THEN "active" ELSE "lameDuck",
                          !.step = IF newest THEN "note" ELSE "close"]
           states == [r \in Created(e) |->
                        IF r = s THEN finished
                        ELSE IF newest /\ r \in retired
                             THEN [keyStates[e][r] EXCEPT !.status = "lameDuck"]
                             ELSE keyStates[e][r]]
           gone == Pruned(e, states)
           kept == [k \in KeyIDs |-> IF renegotiations[e][k] \in gone THEN 0
                                     ELSE renegotiations[e][k]]
           after == IF newest THEN Install(stream[e], s) ELSE AbortHandover(stream[e], s)
<1>1. /\ keyStates' = [keyStates EXCEPT ![e] = states]
      /\ renegotiations' = [renegotiations EXCEPT ![e] = kept]
      /\ promoted' = IF newest THEN [promoted EXCEPT ![e] = s] ELSE promoted
      /\ stream' = [stream EXCEPT ![e] = after]
  BY SMTT(30) DEF FinishGood, Newest
<1>2. /\ s \in Created(e) /\ s \in Nat \ {0} /\ old \in KeyState /\ OnceInv(old) /\ EndInv(e)
      /\ old.step = "run" /\ old.once = "free" /\ old.done = 0 /\ old.keyID \in KeyIDs
      /\ old.status \in {"negotiating", "failed"} /\ renegotiations[e][old.keyID] = s
  <2>1. s \in Created(e) /\ s \in Nat \ {0} /\ old.step = "run" /\ old.once # "done"
    BY SMT DEF Running, Created
  <2>2. old \in KeyState /\ OnceInv(old) /\ EndInv(e) /\ old.keyID \in KeyIDs
    BY <2>1, StateType DEF IInv, TypeInv, EndInv
  <2> QED
    BY <2>1, <2>2, SMTT(30) DEF OnceInv, KeyState, Registered, KeyID
<1>3. promoted[e] \in Nat /\ Created(e) \subseteq Nat /\ newest \in BOOLEAN
  BY SMT DEF IInv, TypeInv, Created
<1>4. /\ finished \in KeyState /\ OnceInv(finished) /\ finished.keyID = old.keyID
      /\ finished.status = IF newest THEN "active" ELSE "lameDuck"
  <2>1. CASE newest
    BY <1>2, <2>1, Zenon DEF KeyState, OnceInv
  <2>2. CASE ~newest
    BY <1>2, <2>2, ZenonT(30) DEF KeyState, OnceInv
  <2> QED
    BY <2>1, <2>2
<1> HIDE DEF finished
<1>5. ASSUME NEW r \in Created(e), r # s
      PROVE  /\ states[r] \in KeyState /\ OnceInv(states[r])
             /\ states[r].keyID = keyStates[e][r].keyID
             /\ states[r].status \in {"active", "lameDuck"} => r <= promoted[e]
             /\ newest => states[r].status # "active" \/ ~Registered(e, r)
             /\ ~newest \/ keyStates[e][r].status = "negotiating" => states[r] = keyStates[e][r]
  <2> DEFINE x == keyStates[e][r]
  <2>1. x \in KeyState /\ OnceInv(x) /\ (x.status \in {"active", "lameDuck"} => r <= promoted[e])
    BY <1>2, StateType, SMTT(30) DEF IInv, TypeInv, EndInv, PromotedInv
  <2>2. CASE newest /\ r \in retired
    <3> DEFINE y == [x EXCEPT !.status = "lameDuck"]
    <3>1. states[r] = y
      BY <1>5, <2>2, SMTT(30)
    <3>2. x.status = "active"
      BY <2>2 DEF HasStatus
    <3> HIDE DEF x, states
    <3>3. y \in KeyState /\ y.keyID = x.keyID /\ y.status = "lameDuck" /\ OnceInv(y)
      BY <2>1, <3>2 DEF KeyState, OnceInv
    <3> HIDE DEF y
    <3> QED
      BY <2>1, <2>2, <3>1, <3>2, <3>3 DEF x
  <2>3. CASE ~(newest /\ r \in retired)
    <3>1. states[r] = x
      BY <1>5, <2>3
    <3>2. newest => ~HasStatus(e, r, {"active"})
      BY <1>5, <2>3
    <3>3. newest => x.status # "active" \/ ~Registered(e, r)
      BY <3>2 DEF HasStatus
    <3> HIDE DEF states
    <3> QED
      BY <2>1, <3>1, <3>3
  <2> QED
    BY <2>2, <2>3
<1>6. states[s] = finished /\ DOMAIN states = Created(e)
  BY <1>2
<1>7. states = [r \in Created(e) |-> states[r]]
  OBVIOUS
<1> HIDE DEF states, retired
<1>8. /\ states \in Seq(KeyState) /\ Len(states) = Len(keyStates[e])
  <2>1. \A r \in Created(e) : states[r] \in KeyState
    BY <1>4, <1>5, <1>6
  <2>2. Len(keyStates[e]) \in Nat
    BY SMT DEF IInv, TypeInv
  <2>3. states \in [1..Len(keyStates[e]) -> KeyState]
    BY <1>7, <2>1 DEF Created
  <2> QED
    BY <2>2, <2>3, SMT
<1>9. /\ keyStates' \in [Ends -> Seq(KeyState)] /\ keyStates'[e] = states
      /\ \A x \in Ends \ {e} : keyStates'[x] = keyStates[x]
  BY <1>1, <1>8 DEF IInv, TypeInv
<1>10. /\ renegotiations' \in [Ends -> [KeyIDs -> Nat]]
       /\ \A k \in KeyIDs : /\ renegotiations'[e][k] \in {0, renegotiations[e][k]}
                            /\ renegotiations[e][k] \notin gone =>
                                 renegotiations'[e][k] = renegotiations[e][k]
       /\ \A x \in Ends \ {e} : renegotiations'[x] = renegotiations[x]
  <2>1. kept \in [KeyIDs -> Nat]
    BY SMT DEF IInv, TypeInv
  <2>2. \A k \in KeyIDs : kept[k] = IF renegotiations[e][k] \in gone THEN 0 ELSE renegotiations[e][k]
    OBVIOUS
  <2> HIDE DEF kept
  <2>3. renegotiations'[e] = kept
    BY <1>1 DEF IInv, TypeInv
  <2> HIDE DEF gone
  <2> QED
    BY <1>1, <2>1, <2>2, <2>3 DEF IInv, TypeInv
<1> HIDE DEF kept
<1>11. /\ promoted' \in [Ends -> Nat]
       /\ promoted'[e] = IF newest THEN s ELSE promoted[e]
       /\ \A x \in Ends \ {e} : promoted'[x] = promoted[x]
  BY <1>1, <1>2, SMTT(30) DEF IInv, TypeInv
<1>12. /\ stream[e] \in [sequence : Nat, handover : Nat]
       /\ stream[e].sequence = promoted[e] /\ stream[e].handover <= Len(keyStates[e])
  BY <1>2, SMTT(30) DEF EndInv, Bounded, PromotedInv, IInv, TypeInv
<1>13. /\ after \in [sequence : Nat, handover : Nat]
       /\ after.sequence = IF newest THEN s ELSE promoted[e]
       /\ after.handover # 0 => after.handover = stream[e].handover /\ after.handover # s
  <2>1. CASE newest
    <3> DEFINE h == IF stream[e].handover <= s THEN 0 ELSE stream[e].handover
    <3>1. after = [sequence |-> s, handover |-> h]
      BY <1>2, <1>3, <1>12, <2>1, SMTT(30) DEF Install
    <3>2. h \in Nat /\ (h # 0 => h = stream[e].handover /\ h # s)
      BY <1>2, <1>12, SMT
    <3> HIDE DEF after, h
    <3>3. after \in [sequence : Nat, handover : Nat] /\ after.sequence = s /\ after.handover = h
      BY <1>2, <3>1, <3>2
    <3> QED
      BY <2>1, <3>2, <3>3
  <2>2. CASE ~newest
    BY <1>2, <1>3, <1>12, <2>2 DEF AbortHandover
  <2> QED
    BY <2>1, <2>2, Zenon
<1> HIDE DEF after
<1>14. /\ stream' \in [Ends -> [sequence : Nat, handover : Nat]] /\ stream'[e] = after
       /\ \A x \in Ends \ {e} : stream'[x] = stream[x]
  BY <1>1, <1>13 DEF IInv, TypeInv
<1>15. TypeInv'
  BY <1>9, <1>10, <1>11, <1>14 DEF IInv, TypeInv
<1>16. Created(e)' = Created(e) /\ (Open(e)' <=> Open(e))
  BY <1>8, <1>9, SMTT(30) DEF Created, Open
<1>17. promoted[e] <= promoted'[e] /\ s <= promoted'[e] /\ promoted'[e] \in Nat
  BY <1>2, <1>3, <1>11, SMTT(30)
<1>18. \A r \in Created(e) : states[r].status \in {"active", "lameDuck"} => r <= promoted'[e]
  <2> SUFFICES ASSUME NEW r \in Created(e), states[r].status \in {"active", "lameDuck"}
               PROVE  r <= promoted'[e]
    OBVIOUS
  <2>1. CASE r = s
    BY <1>17, <2>1
  <2>2. CASE r # s
    BY <1>3, <1>5, <1>17, <2>2, SMT
  <2> QED
    BY <2>1, <2>2
<1>19. promoted'[e] \notin gone
  BY <1>3, <1>17, <1>18, NotPruned, SMTT(30)
<1>20. ASSUME NEW r, NEW T, r \in Created(e), r # 0, r \notin gone, states[r].status \in T,
              renegotiations[e][keyStates[e][r].keyID] = r,
              states[r].keyID = keyStates[e][r].keyID
       PROVE  /\ r \in Created(e)' /\ keyStates'[e][r].status \in T
              /\ renegotiations'[e][keyStates'[e][r].keyID] = r
  <2>1. keyStates[e][r].keyID \in KeyIDs
    BY <1>20, StateType DEF IInv, TypeInv
  <2> HIDE DEF gone
  <2> QED
    BY <1>9, <1>10, <1>16, <1>20, <2>1
<1>21. PromotedInv(e)'
  <2>1. ASSUME Open(e), promoted'[e] # 0
        PROVE  HasStatus(e, promoted[e], {"active"})'
    <3> DEFINE p == promoted'[e]
    <3>1. /\ p \in Created(e) /\ states[p].status = "active"
          /\ renegotiations[e][keyStates[e][p].keyID] = p
          /\ states[p].keyID = keyStates[e][p].keyID
      <4>1. CASE newest
        <5>1. p = s
          BY <1>11, <4>1
        <5> HIDE DEF p
        <5>2. states[s].status = "active" /\ states[s].keyID = keyStates[e][s].keyID
          BY <1>4, <1>6, <4>1
        <5> QED
          BY <1>2, <5>1, <5>2
      <4>2. CASE ~newest
        <5>1. p = promoted[e] /\ HasStatus(e, p, {"active"})
          BY <1>2, <1>11, <2>1, <4>2, SMTT(30) DEF EndInv, PromotedInv
        <5> HIDE DEF p
        <5>2. /\ p \in Created(e) /\ keyStates[e][p].status = "active" /\ p # 0
              /\ renegotiations[e][keyStates[e][p].keyID] = p
          BY <2>1, <5>1, SMTT(30) DEF HasStatus, Registered, KeyID, p
        <5>3. p # s
          BY <1>2, <5>2, SMTT(30)
        <5>4. states[p] = keyStates[e][p]
          BY <1>5, <4>2, <5>2, <5>3, SMTT(30)
        <5> QED
          BY <5>2, <5>4, SMTT(30)
      <4> QED
        BY <4>1, <4>2, Zenon
    <3>2. p \notin gone /\ p # 0
      BY <1>19, <2>1, SMTT(30)
    <3> HIDE DEF p, gone
    <3>3. /\ p \in Created(e)' /\ keyStates'[e][p].status \in {"active"}
          /\ renegotiations'[e][keyStates'[e][p].keyID] = p
      BY <1>20, <3>1, <3>2, ZenonT(30)
    <3> QED
      BY <3>2, <3>3, SMTT(30) DEF HasStatus, Registered, KeyID, p
  <2>2. stream'[e].sequence = promoted'[e]
    BY <1>11, <1>13, <1>14
  <2> QED
    BY <1>9, <1>16, <1>18, <2>1, <2>2, SMTT(30) DEF PromotedInv
<1>22. HandoverInv(e)'
  <2> SUFFICES ASSUME stream'[e].handover # 0
               PROVE  HasStatus(e, stream[e].handover, {"negotiating"})'
    BY DEF HandoverInv
  <2> DEFINE h == stream'[e].handover
  <2>1. h = stream[e].handover /\ h # s /\ h # 0
    BY <1>13, <1>14, SMTT(30)
  <2>2. /\ h \in Created(e) /\ keyStates[e][h].status = "negotiating"
        /\ renegotiations[e][keyStates[e][h].keyID] = h
    BY <1>2, <2>1, Zenon DEF EndInv, HandoverInv, HasStatus, Registered, KeyID
  <2> HIDE DEF h
  <2>3. states[h] = keyStates[e][h]
    BY <1>5, <2>1, <2>2
  <2>4. h \notin gone
    BY <2>2, <2>3, SMTT(30) DEF Pruned
  <2> HIDE DEF gone
  <2>5. /\ h \in Created(e)' /\ keyStates'[e][h].status \in {"negotiating"}
        /\ renegotiations'[e][keyStates'[e][h].keyID] = h
    BY <1>20, <2>1, <2>2, <2>3, <2>4, Zenon
  <2> QED
    BY <2>1, <2>5 DEF HasStatus, Registered, KeyID, h
<1>23. ClosingInv(e)'
  BY <1>2, <1>10, <1>16, Zenon DEF EndInv, ClosingInv
<1>24. \A r \in Created(e) : /\ keyStates'[e][r].keyID = keyStates[e][r].keyID
                             /\ OnceInv(keyStates'[e][r])
  BY <1>4, <1>5, <1>6, <1>9
<1>25. promoted'[e] <= Len(keyStates[e]) /\ stream'[e].handover <= Len(keyStates[e])
  <2>1. s <= Len(keyStates[e]) /\ promoted[e] <= Len(keyStates[e]) /\ Len(keyStates[e]) \in Nat
    BY <1>2, SMT DEF EndInv, Bounded, Created, IInv, TypeInv
  <2> QED
    BY <1>11, <1>12, <1>13, <1>14, <2>1, SMTT(30)
<1>26. Len(keyStates'[e]) = Len(keyStates[e])
  BY <1>8, <1>9
<1> QED
  BY <1>9, <1>10, <1>11, <1>14, <1>15, <1>21, <1>22, <1>23, <1>24, <1>25, <1>26, OneEnd, Zenon

\* finishSoftReset, with a codec or an error, or after failAllRenegotiations.
LEMMA FinishInv ==
  ASSUME IInv, NEW e \in Ends, NEW s, NEW good \in BOOLEAN, FinishSoftReset(e, s, good)
  PROVE  IInv'
<1>1. Running(e, s) /\ UNCHANGED <<trigger, incoming, closing>>
  BY DEF FinishSoftReset
<1>2. CASE keyStates[e][s].once = "done"
  <2> DEFINE new == [keyStates[e][s] EXCEPT !.step = "end"]
  <2>1. /\ keyStates' = [keyStates EXCEPT ![e][s] = new]
        /\ UNCHANGED <<renegotiations, promoted, stream>>
    BY <1>2 DEF FinishSoftReset
  <2>2. s \in Created(e) /\ keyStates[e][s] \in KeyState /\ OnceInv(keyStates[e][s])
    BY <1>1, StateType DEF Running, IInv, TypeInv, EndInv
  <2>3. new \in KeyState /\ Alike(new, keyStates[e][s])
    BY <1>2, <2>2 DEF KeyState, Alike, OnceInv
  <2> HIDE DEF new
  <2> QED
    BY <1>1, <2>1, <2>2, <2>3, AlikeInv, Zenon
<1>3. CASE keyStates[e][s].once # "done" /\ good /\ Registered(e, s)
  <2>1. FinishGood(e, s)
    BY <1>3 DEF FinishSoftReset
  <2> QED
    BY <1>1, <1>3, <2>1, FinishGoodInv
<1>4. CASE keyStates[e][s].once # "done" /\ ~(good /\ Registered(e, s))
  <2>1. FinishBad(e, s)
    BY <1>4 DEF FinishSoftReset
  <2> QED
    BY <1>1, <1>4, <2>1, FinishBadInv
<1> QED
  BY <1>2, <1>3, <1>4

-----------------------------------------------------------------------------
(* The theorems *)

\* Every step of either end keeps the invariant.
LEMMA NextInv == IInv /\ [Next]_vars => IInv'
<1> SUFFICES ASSUME IInv, [Next]_vars PROVE IInv'
  OBVIOUS
<1>1. CASE UNCHANGED vars
  <2>1. /\ trigger' = [x \in Ends |-> trigger'[x]]
        /\ \A x \in Ends : trigger'[x].step = "begin" => trigger'[x].on \in KeyIDs
        /\ incoming' \in [Ends -> SUBSET KeyIDs]
    BY <1>1 DEF vars, IInv, TypeInv, EndInv, Bounded
  <2> QED
    BY <1>1, <2>1, QuietInv DEF vars
<1>2. CASE Handshake
  BY <1>2, HandshakeInv
<1>3. CASE ServerStages \/ KeyMethodArrives
  BY <1>3, NegotiateInv
<1>4. ASSUME NEW e \in Ends,
             \/ TriggerSoftReset(e) \/ ReadSendKey(e) \/ BeginLocal(e) \/ TriggerReturns(e)
             \/ SoftResetArrives(e) \/ BeginIncoming(e)
             \/ ExpireKeyState(e) \/ ExpireReceiveCodec(e)
             \/ MarkClosing(e) \/ FailAllRenegotiations(e) \/ Closed(e)
      PROVE  IInv'
  BY <1>4, TriggerInv, BeginLocalInv, ArriveInv, BeginIncomingInv, ExpireInv, FailAllInv
<1>5. ASSUME NEW e \in Ends, NEW s,
             \/ Succeed(e, s) \/ Fail(e, s) \/ NoteRenegotiated(e, s) \/ CloseDone(e, s)
             \/ FailOne(e, s)
      PROVE  IInv'
  <2>1. CASE Succeed(e, s)
    BY <2>1, FinishInv, Zenon DEF Succeed
  <2>2. CASE Fail(e, s)
    BY <2>2, FinishInv, Zenon DEF Fail
  <2> QED
    BY <1>5, <2>1, <2>2, NoteInv, FailOneInv
<1> QED
  BY <1>1, <1>2, <1>3, <1>4, <1>5 DEF Next

\* The invariant of the key states holds in every reachable state.
THEOREM Invariance == Spec => []IInv
<1>1. Init => IInv
  BY InitInv
<1>2. IInv /\ [Next]_vars => IInv'
  BY NextInv
<1> QED
  BY <1>1, <1>2, PTL DEF Spec

\* Control messages of an open end go over the stream of the key it sends with, and the
\* key state of that key is registered and active.
THEOREM StreamAlwaysServed == Spec => []StreamServed
<1>1. IInv => StreamServed
  BY DEF IInv, EndInv, PromotedInv, StreamServed
<1> QED
  BY <1>1, Invariance, PTL

\* A handover of the control stream belongs to a key state that still negotiates.
THEOREM HandoverAlwaysBacked == Spec => []HandoverBacked
<1>1. IInv => HandoverBacked
  BY DEF IInv, EndInv, HandoverInv, HandoverBacked
<1> QED
  BY <1>1, Invariance, PTL

\* finishSoftReset and failAllRenegotiations together close state.done once at most.
THEOREM DoneClosedOnce == Spec => []DoneOnce
<1>1. IInv => DoneOnce
  <2> SUFFICES ASSUME IInv, NEW e \in Ends, NEW s \in Created(e)
               PROVE  keyStates[e][s].done <= 1
    BY DEF DoneOnce
  <2>1. OnceInv(keyStates[e][s])
    BY DEF IInv, EndInv
  <2> QED
    BY <2>1, SMT DEF OnceInv
<1> QED
  BY <1>1, Invariance, PTL

-----------------------------------------------------------------------------
(* The keys an end uses *)

Codec == [keyID : Nat, sequence : Nat, expires : BOOLEAN]
Live == {"negotiating", "active", "lameDuck"}

\* KeysLive at one end; and the promoted key state has left runSoftResetState, so none that
\* is about to finish is it.
EndLive(e) ==
  /\ \A s \in Created(e) :
       /\ HasStatus(e, s, {"active"}) => s = promoted[e]
       /\ HasStatus(e, s, {"lameDuck"}) => s < promoted[e]
  /\ \A x \in receiveCodecs[e] : x.sequence # 0 => HasStatus(e, x.sequence, Live)
  /\ promoted[e] # 0 => keyStates[e][promoted[e]].step # "run"

LiveInv ==
  /\ receiveCodecs \in [Ends -> SUBSET Codec]
  /\ \A e \in Ends : EndLive(e)

\* What it means to be registered with a status, and that a promoted key state was created.
LEMMA StatusIs ==
  ASSUME IInv, NEW e \in Ends
  PROVE  /\ \A s, T : HasStatus(e, s, T) <=>
              /\ s \in Created(e) /\ s # 0 /\ keyStates[e][s].keyID \in KeyIDs
              /\ renegotiations[e][keyStates[e][s].keyID] = s /\ keyStates[e][s].status \in T
         /\ promoted[e] # 0 => promoted[e] \in Created(e)
         /\ promoted[e] \in Nat /\ Created(e) \subseteq Nat /\ 0 \notin Created(e)
<1>1. /\ promoted[e] # 0 => promoted[e] \in Created(e)
      /\ promoted[e] \in Nat /\ Created(e) \subseteq Nat /\ 0 \notin Created(e)
  BY SMT DEF IInv, TypeInv, EndInv, Bounded, Created
<1>2. \A s \in Created(e) : keyStates[e][s].keyID \in KeyIDs
  BY StateType DEF IInv, TypeInv
<1> QED
  BY <1>1, <1>2 DEF HasStatus, Registered, KeyID

\* A step that creates no key state, finishes none well and registers none.
LEMMA LiveLess ==
  ASSUME IInv, NEW e \in Ends, EndLive(e), Created(e)' = Created(e),
         \A r \in Created(e) :
           /\ keyStates'[e][r].keyID = keyStates[e][r].keyID
           /\ keyStates'[e][r].status \in {"failed", keyStates[e][r].status}
           /\ keyStates'[e][r].step = "run" => keyStates[e][r].step = "run",
         \A k \in KeyIDs : renegotiations'[e][k] \in {0, renegotiations[e][k]},
         promoted'[e] = promoted[e],
         \A x \in receiveCodecs'[e] : x.sequence # 0 => HasStatus(e, x.sequence, Live)'
  PROVE  EndLive(e)'
<1>1. ASSUME NEW s \in Created(e), NEW status, status # "failed", HasStatus(e, s, {status})'
      PROVE  HasStatus(e, s, {status})
  <2>1. s # 0 /\ keyStates[e][s].keyID \in KeyIDs
    BY StatusIs, StateType DEF IInv, TypeInv
  <2>2. /\ renegotiations'[e][keyStates[e][s].keyID] = s
        /\ keyStates'[e][s].status = status
    BY <1>1, <2>1 DEF HasStatus, Registered, KeyID
  <2>3. renegotiations[e][keyStates[e][s].keyID] = s /\ keyStates[e][s].status = status
    BY <1>1, <2>1, <2>2
  <2> QED
    BY <2>1, <2>3, StatusIs
<1>2. \A s \in Created(e)' : /\ HasStatus(e, s, {"active"})' => s = promoted'[e]
                             /\ HasStatus(e, s, {"lameDuck"})' => s < promoted'[e]
  BY <1>1 DEF EndLive
<1>3. promoted'[e] # 0 => keyStates'[e][promoted'[e]].step # "run"
  <2>1. promoted[e] # 0 => promoted[e] \in Created(e)
    BY StatusIs
  <2>2. promoted[e] # 0 => keyStates[e][promoted[e]].step # "run"
    BY DEF EndLive
  <2> QED
    BY <2>1, <2>2
<1> QED
  BY <1>2, <1>3 DEF EndLive

\* What changes at an end is nothing its keys depend on, but for keys that go.
Settled(e) ==
  /\ Len(keyStates'[e]) = Len(keyStates[e])
  /\ \A r \in Created(e) :
       /\ keyStates'[e][r].keyID = keyStates[e][r].keyID
       /\ keyStates'[e][r].status = keyStates[e][r].status
       /\ keyStates'[e][r].step = "run" => keyStates[e][r].step = "run"
  /\ renegotiations'[e] = renegotiations[e] /\ promoted'[e] = promoted[e]
  /\ receiveCodecs'[e] \subseteq receiveCodecs[e]

\* Such a step keeps them.
LEMMA LiveSettled ==
  ASSUME IInv, NEW e \in Ends, EndLive(e), Settled(e)
  PROVE  EndLive(e)'
<1>1. Created(e)' = Created(e)
  BY DEF Settled, Created
<1>2. ASSUME NEW q, HasStatus(e, q, Live) PROVE HasStatus(e, q, Live)'
  BY <1>1, <1>2, StatusIs DEF Settled, HasStatus, Registered, KeyID
<1>3. \A x \in receiveCodecs'[e] : x.sequence # 0 => HasStatus(e, x.sequence, Live)'
  BY <1>2 DEF Settled, EndLive
<1> QED
  BY <1>1, <1>3, LiveLess DEF Settled

\* One key state changes but for its key-id and status, and keys may go.
LEMMA OneSettled ==
  ASSUME IInv, NEW e \in Ends, NEW s \in Created(e), NEW new \in KeyState,
         new.keyID = keyStates[e][s].keyID, new.status = keyStates[e][s].status,
         new.step = "run" => keyStates[e][s].step = "run",
         keyStates' = [keyStates EXCEPT ![e][s] = new],
         UNCHANGED <<renegotiations, promoted>>,
         \A x \in Ends : receiveCodecs'[x] \subseteq receiveCodecs[x]
  PROVE  \A x \in Ends : Settled(x)
<1>0. keyStates \in [Ends -> Seq(KeyState)]
  BY DEF IInv, TypeInv
<1>1. /\ keyStates' \in [Ends -> Seq(KeyState)]
      /\ \A x \in Ends : Len(keyStates'[x]) = Len(keyStates[x])
      /\ keyStates'[e][s] = new
      /\ \A r \in Created(e) \ {s} : keyStates'[e][r] = keyStates[e][r]
      /\ \A x \in Ends \ {e} : keyStates'[x] = keyStates[x]
  BY <1>0, OneState, Zenon
<1> SUFFICES ASSUME NEW x \in Ends PROVE Settled(x)
  OBVIOUS
<1>2. CASE x = e
  BY <1>1, <1>2 DEF Settled
<1>3. CASE x # e
  BY <1>1, <1>3 DEF Settled
<1> QED
  BY <1>2, <1>3

\* The steps after which an end has the keys it had, or fewer: callers, arriving packets, the
\* handshake, the callback and the end of finishOnce, and the start and the end of Close.
LEMMA SettledSteps ==
  ASSUME IInv, LiveInv, NEW e \in Ends, NEW s,
         \/ UNCHANGED vars \/ KeyMethodArrives
         \/ TriggerSoftReset(e) \/ ReadSendKey(e) \/ TriggerReturns(e)
         \/ SoftResetArrives(e) \/ ExpireReceiveCodec(e) \/ MarkClosing(e) \/ Closed(e)
         \/ NoteRenegotiated(e, s) \/ CloseDone(e, s)
  PROVE  LiveInv'
<1>1. /\ receiveCodecs' \in [Ends -> SUBSET Codec]
      /\ \A x \in Ends : receiveCodecs'[x] \subseteq receiveCodecs[x]
      /\ UNCHANGED <<renegotiations, promoted>>
  <2>1. CASE ExpireReceiveCodec(e)
    <3>1. PICK c : receiveCodecs' = [receiveCodecs EXCEPT ![e] = @ \ {c}]
      BY <2>1, Zenon DEF ExpireReceiveCodec
    <3> QED
      BY <2>1, <3>1 DEF ExpireReceiveCodec, LiveInv
  <2>2. CASE ~ExpireReceiveCodec(e)
    <3>1. UNCHANGED <<receiveCodecs, renegotiations, promoted>>
      BY <2>2 DEF vars, KeyMethodArrives, TriggerSoftReset, ReadSendKey, TriggerReturns,
                  SoftResetArrives, MarkClosing, Closed, NoteRenegotiated, CloseDone
    <3> QED
      BY <3>1 DEF LiveInv
  <2> QED
    BY <2>1, <2>2
<1>2. \A x \in Ends : Settled(x)
  <2>1. CASE UNCHANGED keyStates
    BY <1>1, <2>1 DEF Settled
  <2>2. CASE KeyMethodArrives
    <3>1. PICK c \in Created("client") :
            keyStates' = [keyStates EXCEPT !["client"][c] =
                            [keyStates["client"][c] EXCEPT !.got = TRUE]]
      BY <2>2, Zenon DEF KeyMethodArrives
    <3> DEFINE new == [keyStates["client"][c] EXCEPT !.got = TRUE]
    <3>2. keyStates["client"][c] \in KeyState /\ "client" \in Ends
      BY StateType DEF IInv, TypeInv, Ends
    <3>3. /\ new \in KeyState
          /\ new.keyID = keyStates["client"][c].keyID /\ new.status = keyStates["client"][c].status
          /\ new.step = keyStates["client"][c].step
      BY <3>2 DEF KeyState
    <3> HIDE DEF new
    <3> QED
      BY <1>1, <3>1, <3>2, <3>3, OneSettled, Zenon DEF new
  <2>3. CASE NoteRenegotiated(e, s)
    <3> DEFINE new == [keyStates[e][s] EXCEPT !.step = "close"]
    <3>1. s \in Created(e) /\ keyStates' = [keyStates EXCEPT ![e][s] = new]
      BY <2>3 DEF NoteRenegotiated
    <3>2. keyStates[e][s] \in KeyState
      BY <3>1, StateType DEF IInv, TypeInv
    <3>3. /\ new \in KeyState
          /\ new.keyID = keyStates[e][s].keyID /\ new.status = keyStates[e][s].status
          /\ new.step # "run"
      BY <3>2 DEF KeyState
    <3> HIDE DEF new
    <3> QED
      BY <1>1, <3>1, <3>3, OneSettled, Zenon
  <2>4. CASE CloseDone(e, s)
    <3> DEFINE old == keyStates[e][s]
               new == [old EXCEPT !.step = "end", !.once = "done", !.done = old.done + 1]
    <3>1. s \in Created(e) /\ keyStates' = [keyStates EXCEPT ![e][s] = new] /\ old.step = "close"
      BY <2>4 DEF CloseDone
    <3>2. old \in KeyState /\ OnceInv(old)
      BY <3>1, StateType DEF IInv, TypeInv, EndInv
    <3> HIDE DEF old
    <3>3. old.done + 1 \in 0..2
      BY <3>1, <3>2, SMT DEF OnceInv
    <3>4. new \in KeyState /\ new.keyID = old.keyID /\ new.status = old.status /\ new.step # "run"
      BY <3>2, <3>3, Zenon DEF KeyState
    <3> HIDE DEF new
    <3> QED
      BY <1>1, <3>1, <3>4, OneSettled, Zenon DEF old
  <2>5. UNCHANGED keyStates \/ KeyMethodArrives \/ NoteRenegotiated(e, s) \/ CloseDone(e, s)
    BY DEF vars, TriggerSoftReset, ReadSendKey, TriggerReturns, SoftResetArrives,
           ExpireReceiveCodec, MarkClosing, Closed
  <2> QED
    BY <2>1, <2>2, <2>3, <2>4, <2>5
<1> QED
  BY <1>1, <1>2, LiveSettled DEF LiveInv

\* The first flights pair two key states.
LEMMA HandshakeLive ==
  ASSUME IInv, LiveInv, Handshake
  PROVE  LiveInv'
<1>1. PICK c \in Created("client"), t \in Created("server") :
        /\ keyStates' = [keyStates EXCEPT !["client"][c].partner = t, !["server"][t].partner = c]
        /\ UNCHANGED <<renegotiations, promoted, receiveCodecs>>
  BY Zenon DEF Handshake, Negotiating
<1> DEFINE one == [keyStates["client"][c] EXCEPT !.partner = t]
           other == [keyStates["server"][t] EXCEPT !.partner = c]
<1>2. keyStates \in [Ends -> Seq(KeyState)] /\ "client" # "server"
  BY DEF IInv, TypeInv
<1>3. /\ keyStates["client"] \in Seq(KeyState) /\ keyStates["server"] \in Seq(KeyState)
      /\ keyStates["client"][c] \in KeyState /\ keyStates["server"][t] \in KeyState
  BY <1>2, StateType DEF Ends
<1>4. /\ keyStates'["client"] = [keyStates["client"] EXCEPT ![c] = one]
      /\ keyStates'["server"] = [keyStates["server"] EXCEPT ![t] = other]
  BY <1>1, <1>2 DEF Ends
<1>5. /\ one.keyID = keyStates["client"][c].keyID /\ one.status = keyStates["client"][c].status
      /\ one.step = keyStates["client"][c].step
      /\ other.keyID = keyStates["server"][t].keyID /\ other.status = keyStates["server"][t].status
      /\ other.step = keyStates["server"][t].step
  BY <1>3 DEF KeyState
<1> HIDE DEF one, other
<1>6. /\ Len(keyStates'["client"]) = Len(keyStates["client"])
      /\ keyStates'["client"][c] = one
      /\ \A r \in Created("client") \ {c} : keyStates'["client"][r] = keyStates["client"][r]
      /\ Len(keyStates'["server"]) = Len(keyStates["server"])
      /\ keyStates'["server"][t] = other
      /\ \A r \in Created("server") \ {t} : keyStates'["server"][r] = keyStates["server"][r]
  BY <1>3, <1>4, SMT DEF Created
<1>7. Settled("client") /\ Settled("server")
  BY <1>1, <1>5, <1>6 DEF Settled
<1> QED
  BY <1>1, <1>7, LiveSettled DEF LiveInv, Ends

\* A step of one end leaves the keys of the other alone.
LEMMA OneLive ==
  ASSUME IInv, LiveInv, NEW e \in Ends, EndLive(e)', receiveCodecs' \in [Ends -> SUBSET Codec],
         \A x \in Ends \ {e} :
           /\ keyStates'[x] = keyStates[x] /\ renegotiations'[x] = renegotiations[x]
           /\ promoted'[x] = promoted[x] /\ receiveCodecs'[x] = receiveCodecs[x]
  PROVE  LiveInv'
<1>1. ASSUME NEW x \in Ends \ {e} PROVE EndLive(x)'
  <2>1. Settled(x)
    BY DEF Settled
  <2> QED
    BY <2>1, LiveSettled DEF LiveInv
<1> QED
  BY <1>1 DEF LiveInv

\* Key states that fail or lose their registration take their keys with them.
LEMMA LiveGone ==
  ASSUME IInv, NEW e \in Ends, EndLive(e), NEW gone, Created(e)' = Created(e),
         \A r \in Created(e) :
           /\ keyStates'[e][r].keyID = keyStates[e][r].keyID
           /\ keyStates'[e][r].status \in {"failed", keyStates[e][r].status}
           /\ r \notin gone => keyStates'[e][r].status = keyStates[e][r].status
           /\ keyStates'[e][r].step = "run" => keyStates[e][r].step = "run",
         \A k \in KeyIDs :
           /\ renegotiations'[e][k] \in {0, renegotiations[e][k]}
           /\ renegotiations[e][k] \notin gone => renegotiations'[e][k] = renegotiations[e][k],
         promoted'[e] = promoted[e],
         \A x \in receiveCodecs'[e] : x \in receiveCodecs[e] /\ x.sequence \notin gone
  PROVE  EndLive(e)'
<1>1. ASSUME NEW q, q \notin gone, HasStatus(e, q, Live) PROVE HasStatus(e, q, Live)'
  <2>1. /\ q \in Created(e) /\ q # 0 /\ keyStates[e][q].keyID \in KeyIDs
        /\ renegotiations[e][keyStates[e][q].keyID] = q /\ keyStates[e][q].status \in Live
    BY <1>1, StatusIs
  <2> QED
    BY <1>1, <2>1 DEF HasStatus, Registered, KeyID
<1>2. \A x \in receiveCodecs'[e] : x.sequence # 0 => HasStatus(e, x.sequence, Live)'
  BY <1>1 DEF EndLive
<1> QED
  BY <1>2, LiveLess

\* installDataKeyState: the key of the key state, and keys that were there.
LEMMA Installed ==
  ASSUME NEW e \in Ends, receiveCodecs[e] \in SUBSET Codec, NEW s \in Nat, KeyID(e, s) \in Nat,
         NEW promote \in BOOLEAN
  PROVE  /\ InstallDataKeyState(e, s, promote) \subseteq Codec
         /\ \A x \in InstallDataKeyState(e, s, promote) :
              x.sequence = s \/ \E y \in receiveCodecs[e] : y.sequence = x.sequence
<1> DEFINE others == {x \in receiveCodecs[e] : x.keyID # KeyID(e, s)}
           aged == {[x EXCEPT !.expires = @ \/ (promote /\ x.keyID = SendKeyID(e))] : x \in others}
           own == [keyID |-> KeyID(e, s), sequence |-> s, expires |-> ~promote]
<1>1. own \in Codec /\ own.sequence = s
  BY DEF Codec
<1>2. ASSUME NEW x \in others
      PROVE  /\ [x EXCEPT !.expires = @ \/ (promote /\ x.keyID = SendKeyID(e))] \in Codec
             /\ [x EXCEPT !.expires = @ \/ (promote /\ x.keyID = SendKeyID(e))].sequence = x.sequence
  <2>1. x \in Codec
    OBVIOUS
  <2> QED
    BY <2>1 DEF Codec
<1>3. ASSUME NEW z \in aged
      PROVE  z \in Codec /\ \E y \in receiveCodecs[e] : y.sequence = z.sequence
  <2>1. PICK x \in others : z = [x EXCEPT !.expires = @ \/ (promote /\ x.keyID = SendKeyID(e))]
    OBVIOUS
  <2>2. z \in Codec /\ z.sequence = x.sequence
    BY <1>2, <2>1
  <2> QED
    BY <2>2
<1>4. InstallDataKeyState(e, s, promote) = KeepNewest(aged \cup {own})
  BY DEF InstallDataKeyState
<1> HIDE DEF aged, own
<1>5. KeepNewest(aged \cup {own}) \subseteq aged \cup {own}
  BY DEF KeepNewest
<1> QED
  BY <1>1, <1>3, <1>4, <1>5

\* The server stages the key of a key state that negotiates.
LEMMA StagesLive ==
  ASSUME IInv, LiveInv, ServerStages
  PROVE  LiveInv'
<1>1. PICK t \in Created("server") :
        /\ keyStates' = [keyStates EXCEPT !["server"][t] =
                           [keyStates["server"][t] EXCEPT !.staged = TRUE]]
        /\ receiveCodecs' = IF HasStatus("server", t, {"negotiating"})
                            THEN [receiveCodecs EXCEPT !["server"] =
                                    InstallDataKeyState("server", t, FALSE)]
                            ELSE receiveCodecs
        /\ UNCHANGED <<renegotiations, promoted>>
  BY Zenon DEF ServerStages
<1> DEFINE e == "server"
           old == keyStates[e][t]
           new == [old EXCEPT !.staged = TRUE]
<1>2. /\ e \in Ends /\ keyStates \in [Ends -> Seq(KeyState)] /\ old \in KeyState
      /\ EndLive(e) /\ receiveCodecs \in [Ends -> SUBSET Codec]
  BY StateType DEF Ends, IInv, TypeInv, LiveInv
<1>3. /\ new \in KeyState /\ new.keyID = old.keyID /\ new.status = old.status
      /\ new.step = old.step
  BY <1>2 DEF KeyState
<1>4. t \in Created(e) /\ keyStates' = [keyStates EXCEPT ![e][t] = new]
  BY <1>1
<1> HIDE DEF new, old, e
<1>5. /\ keyStates' \in [Ends -> Seq(KeyState)]
      /\ \A x \in Ends : Len(keyStates'[x]) = Len(keyStates[x])
      /\ keyStates'[e][t] = new
      /\ \A r \in Created(e) \ {t} : keyStates'[e][r] = keyStates[e][r]
      /\ \A x \in Ends \ {e} : keyStates'[x] = keyStates[x]
  BY <1>2, <1>3, <1>4, OneState, Zenon
<1>6. CASE ~HasStatus(e, t, {"negotiating"})
  <2>1. receiveCodecs' = receiveCodecs
    BY <1>1, <1>6 DEF e
  <2>2. UNCHANGED <<renegotiations, promoted>>
    BY <1>1
  <2>3. \A x \in Ends : receiveCodecs'[x] \subseteq receiveCodecs[x]
    BY <2>1
  <2>4. \A x \in Ends : Settled(x)
    BY <1>2, <1>3, <1>4, <2>2, <2>3, OneSettled, Zenon DEF old
  <2> QED
    BY <2>1, <2>4, LiveSettled DEF LiveInv
<1>7. CASE HasStatus(e, t, {"negotiating"})
  <2> DEFINE codecs == InstallDataKeyState(e, t, FALSE)
  <2>1. receiveCodecs' = [receiveCodecs EXCEPT ![e] = codecs]
    BY <1>1, <1>7 DEF e
  <2>2. t \in Created(e) /\ t \in Nat /\ KeyID(e, t) \in Nat /\ HasStatus(e, t, Live)
    <3>1. t \in Created(e) /\ t \in Nat /\ keyStates[e][t].keyID \in KeyIDs
      BY <1>2, StatusIs, StateType DEF IInv, TypeInv, e
    <3>2. KeyIDs \subseteq Nat
      BY KeyAssumption, SMT DEF KeyIDs
    <3> QED
      BY <1>7, <3>1, <3>2, StatusIs, <1>2 DEF KeyID, HasStatus, Live
  <2>3. /\ codecs \subseteq Codec
        /\ \A x \in codecs : x.sequence = t \/ \E y \in receiveCodecs[e] : y.sequence = x.sequence
    BY <1>2, <2>2, Installed
  <2> HIDE DEF codecs
  <2>4. /\ receiveCodecs' \in [Ends -> SUBSET Codec] /\ receiveCodecs'[e] = codecs
        /\ \A x \in Ends \ {e} : receiveCodecs'[x] = receiveCodecs[x]
    BY <1>2, <2>1, <2>3
  <2>5. Created(e)' = Created(e)
    BY <1>2, <1>5 DEF Created
  <2>6. \A r \in Created(e) :
          /\ keyStates'[e][r].keyID = keyStates[e][r].keyID
          /\ keyStates'[e][r].status = keyStates[e][r].status
          /\ keyStates'[e][r].step = keyStates[e][r].step
    BY <1>3, <1>5 DEF old
  <2>7. ASSUME NEW q, HasStatus(e, q, Live) PROVE HasStatus(e, q, Live)'
    BY <1>1, <1>2, <2>5, <2>6, <2>7, StatusIs DEF HasStatus, Registered, KeyID
  <2>8. \A x \in codecs : x.sequence # 0 => HasStatus(e, x.sequence, Live)'
    BY <1>2, <2>2, <2>3, <2>7 DEF EndLive
  <2>9. EndLive(e)'
    BY <1>1, <1>2, <2>4, <2>5, <2>6, <2>8, LiveLess
  <2> QED
    BY <1>1, <1>2, <1>5, <2>4, <2>9, OneLive
<1> QED
  BY <1>6, <1>7

\* beginSoftReset: the key of the key state whose key-id is taken over goes with it.
LEMMA BeginLive ==
  ASSUME IInv, LiveInv, NEW e \in Ends, NEW keyID \in KeyIDs, NEW initiator,
         BeginSoftReset(e, keyID, initiator)
  PROVE  LiveInv'
<1> DEFINE n == Len(keyStates[e]) + 1
           state == [keyID |-> keyID, initiator |-> initiator, status |-> "negotiating",
                     step |-> "run", once |-> "free", done |-> 0, partner |-> 0,
                     staged |-> FALSE, got |-> FALSE]
           displaced == renegotiations[e][keyID]
           codecs == IF displaced = 0 THEN receiveCodecs[e]
                     ELSE DiscardDataKeyState(receiveCodecs[e], displaced)
<1>1. /\ keyStates' = [keyStates EXCEPT ![e] = Append(@, state)]
      /\ renegotiations' = [renegotiations EXCEPT ![e][keyID] = n]
      /\ promoted' = promoted
      /\ receiveCodecs' = IF displaced = 0 THEN receiveCodecs
                          ELSE [receiveCodecs EXCEPT ![e] =
                                  DiscardDataKeyState(receiveCodecs[e], displaced)]
  BY DEF BeginSoftReset
<1>2. /\ state.keyID = keyID /\ state.status = "negotiating"
  OBVIOUS
<1> HIDE DEF state
<1>3. /\ keyStates \in [Ends -> Seq(KeyState)] /\ keyStates[e] \in Seq(KeyState)
      /\ renegotiations \in [Ends -> [KeyIDs -> Nat]]
      /\ EndLive(e) /\ receiveCodecs \in [Ends -> SUBSET Codec]
  BY DEF IInv, TypeInv, LiveInv
<1>4. /\ Len(Append(keyStates[e], state)) = n
      /\ Append(keyStates[e], state)[n] = state
      /\ \A s \in 1..Len(keyStates[e]) : Append(keyStates[e], state)[s] = keyStates[e][s]
      /\ 1..n = (1..Len(keyStates[e])) \cup {n} /\ n \notin 1..Len(keyStates[e]) /\ n # 0
  BY <1>3, SMT
<1>5. /\ keyStates'[e] = Append(keyStates[e], state)
      /\ \A x \in Ends \ {e} : keyStates'[x] = keyStates[x]
  BY <1>1, <1>3
<1>6. /\ renegotiations'[e][keyID] = n
      /\ \A k \in KeyIDs \ {keyID} : renegotiations'[e][k] = renegotiations[e][k]
      /\ \A x \in Ends \ {e} : renegotiations'[x] = renegotiations[x]
  BY <1>1, <1>3, SMT
<1> HIDE DEF n, displaced
<1>7. /\ Created(e)' = Created(e) \cup {n} /\ n \notin Created(e) /\ n # 0
      /\ keyStates'[e][n] = state
      /\ \A s \in Created(e) : keyStates'[e][s] = keyStates[e][s]
  BY <1>4, <1>5 DEF Created
<1>8. /\ receiveCodecs' \in [Ends -> SUBSET Codec]
      /\ \A x \in Ends \ {e} : receiveCodecs'[x] = receiveCodecs[x]
      /\ \A x \in receiveCodecs'[e] :
           x \in receiveCodecs[e] /\ (displaced # 0 => x.sequence # displaced)
  <2>1. DiscardDataKeyState(receiveCodecs[e], displaced) =
          {x \in receiveCodecs[e] : x.sequence # displaced}
    BY DEF DiscardDataKeyState
  <2>2. CASE displaced = 0
    BY <1>1, <1>3, <2>2
  <2>3. CASE displaced # 0
    BY <1>1, <1>3, <2>1, <2>3
  <2> QED
    BY <2>2, <2>3
<1>9. \A s \in Created(e)' : /\ HasStatus(e, s, {"active"})' => s = promoted'[e]
                             /\ HasStatus(e, s, {"lameDuck"})' => s < promoted'[e]
  <2>1. ASSUME NEW s \in Created(e)', NEW status \in {"active", "lameDuck"},
               HasStatus(e, s, {status})'
        PROVE  s \in Created(e) /\ HasStatus(e, s, {status})
    <3>1. s # n
      BY <1>2, <1>7, <2>1 DEF HasStatus
    <3>2. /\ s \in Created(e) /\ s # 0 /\ keyStates'[e][s] = keyStates[e][s]
          /\ keyStates[e][s].keyID \in KeyIDs
      BY <1>7, <3>1, StatusIs, StateType DEF IInv, TypeInv
    <3>3. /\ renegotiations'[e][keyStates[e][s].keyID] = s
          /\ keyStates[e][s].status = status
      BY <2>1, <3>2 DEF HasStatus, Registered, KeyID
    <3>4. renegotiations[e][keyStates[e][s].keyID] = s
      BY <1>6, <3>1, <3>2, <3>3
    <3> QED
      BY <3>2, <3>3, <3>4, StatusIs
  <2> QED
    BY <1>1, <1>3, <2>1 DEF EndLive
<1>10. \A x \in receiveCodecs'[e] : x.sequence # 0 => HasStatus(e, x.sequence, Live)'
  <2> SUFFICES ASSUME NEW x \in receiveCodecs'[e], x.sequence # 0
               PROVE  HasStatus(e, x.sequence, Live)'
    OBVIOUS
  <2> DEFINE q == x.sequence
  <2>1. HasStatus(e, q, Live) /\ (displaced # 0 => q # displaced)
    BY <1>3, <1>8 DEF EndLive
  <2>2. q # 0
    OBVIOUS
  <2> HIDE DEF q
  <2>3. /\ q \in Created(e) /\ keyStates[e][q].keyID \in KeyIDs
        /\ renegotiations[e][keyStates[e][q].keyID] = q /\ keyStates[e][q].status \in Live
    BY <2>1, StatusIs
  <2>4. keyStates[e][q].keyID # keyID
    BY <2>1, <2>2, <2>3 DEF displaced
  <2>5. HasStatus(e, q, Live)'
    BY <1>6, <1>7, <2>2, <2>3, <2>4 DEF HasStatus, Registered, KeyID
  <2> QED
    BY <2>5 DEF q
<1>11. promoted'[e] # 0 => keyStates'[e][promoted'[e]].step # "run"
  <2>1. promoted[e] # 0 => promoted[e] \in Created(e)
    BY StatusIs
  <2> QED
    BY <1>1, <1>3, <1>7, <2>1 DEF EndLive
<1>12. EndLive(e)'
  BY <1>9, <1>10, <1>11 DEF EndLive
<1> QED
  BY <1>1, <1>5, <1>6, <1>8, <1>12, OneLive

\* The caller or the packet begins a soft reset, joins one or has nothing to do.
LEMMA BeginsLive ==
  ASSUME IInv, LiveInv, NEW e \in Ends, BeginLocal(e) \/ BeginIncoming(e)
  PROVE  LiveInv'
<1>1. \/ UNCHANGED <<keyStates, renegotiations, promoted, receiveCodecs>>
      \/ \E keyID \in KeyIDs, initiator \in BOOLEAN : BeginSoftReset(e, keyID, initiator)
  <2>1. CASE BeginLocal(e)
    <3>1. trigger[e].on \in KeyIDs
      BY <2>1 DEF BeginLocal, IInv, EndInv, Bounded
    <3>2. \/ UNCHANGED <<keyStates, renegotiations, promoted, receiveCodecs>>
          \/ BeginSoftReset(e, trigger[e].on, TRUE)
      BY <2>1, Zenon DEF BeginLocal
    <3> QED
      BY <3>1, <3>2, Zenon
  <2>2. CASE BeginIncoming(e)
    <3>1. incoming[e] \subseteq KeyIDs
      BY DEF IInv, TypeInv
    <3>2. \/ UNCHANGED <<keyStates, renegotiations, promoted, receiveCodecs>>
          \/ \E keyID \in incoming[e] : BeginSoftReset(e, keyID, FALSE)
      BY <2>2, Zenon DEF BeginIncoming
    <3> QED
      BY <3>1, <3>2, Zenon
  <2> QED
    BY <2>1, <2>2
<1>2. CASE UNCHANGED <<keyStates, renegotiations, promoted, receiveCodecs>>
  <2>1. \A x \in Ends : Settled(x)
    BY <1>2 DEF Settled
  <2> QED
    BY <1>2, <2>1, LiveSettled DEF LiveInv
<1>3. ASSUME NEW keyID \in KeyIDs, NEW initiator \in BOOLEAN, BeginSoftReset(e, keyID, initiator)
      PROVE  LiveInv'
  BY <1>3, BeginLive
<1> QED
  BY <1>1, <1>2, <1>3

\* finishSoftReset with an error, the end of the transition window, and Close.
LEMMA GoneLive ==
  ASSUME IInv, LiveInv, NEW e \in Ends, NEW s,
         \/ Running(e, s) /\ keyStates[e][s].once # "done" /\ FinishBad(e, s)
         \/ ExpireKeyState(e) \/ FailAllRenegotiations(e) \/ FailOne(e, s)
  PROVE  LiveInv'
<1> DEFINE Gone(g) == \A x \in receiveCodecs'[e] : x \in receiveCodecs[e] /\ x.sequence \notin g
<1>1. /\ keyStates \in [Ends -> Seq(KeyState)] /\ renegotiations \in [Ends -> [KeyIDs -> Nat]]
      /\ EndLive(e) /\ receiveCodecs \in [Ends -> SUBSET Codec]
  BY DEF IInv, TypeInv, LiveInv
<1>2. \A c, q : DiscardDataKeyState(c, q) = {x \in c : x.sequence # q}
  BY DEF DiscardDataKeyState
<1>3. CASE Running(e, s) /\ keyStates[e][s].once # "done" /\ FinishBad(e, s)
  <2> DEFINE old == keyStates[e][s]
             new == [old EXCEPT !.once = "held", !.status = "failed", !.step = "close"]
  <2>1. /\ s \in Created(e) /\ keyStates' = [keyStates EXCEPT ![e][s] = new]
        /\ receiveCodecs' = [receiveCodecs EXCEPT ![e] = DiscardDataKeyState(receiveCodecs[e], s)]
        /\ promoted' = promoted
    BY <1>3, Zenon DEF FinishBad, Running
  <2>2. old \in KeyState /\ old.keyID \in KeyIDs /\ KeyID(e, s) = old.keyID
    BY <2>1, StateType, StatusIs DEF IInv, TypeInv, KeyID
  <2>3. renegotiations' = [renegotiations EXCEPT ![e][old.keyID] = IF @ = s THEN 0 ELSE @]
    BY <1>3, <2>2, Zenon DEF FinishBad
  <2> HIDE DEF old
  <2>4. new \in KeyState /\ new.keyID = old.keyID /\ new.status = "failed" /\ new.step = "close"
    BY <2>2 DEF KeyState
  <2> HIDE DEF new
  <2>5. /\ keyStates' \in [Ends -> Seq(KeyState)]
        /\ \A x \in Ends : Len(keyStates'[x]) = Len(keyStates[x])
        /\ keyStates'[e][s] = new
        /\ \A r \in Created(e) \ {s} : keyStates'[e][r] = keyStates[e][r]
        /\ \A x \in Ends \ {e} : keyStates'[x] = keyStates[x]
    BY <1>1, <2>1, <2>4, OneState, Zenon
  <2>6. /\ \A k \in KeyIDs : renegotiations'[e][k] =
             IF k = old.keyID /\ renegotiations[e][k] = s THEN 0 ELSE renegotiations[e][k]
        /\ \A x \in Ends \ {e} : renegotiations'[x] = renegotiations[x]
    BY <1>1, <2>2, <2>3, SMTT(30)
  <2>7. /\ receiveCodecs' \in [Ends -> SUBSET Codec] /\ Gone({s})
        /\ \A x \in Ends \ {e} : receiveCodecs'[x] = receiveCodecs[x]
    BY <1>1, <1>2, <2>1
  <2>8. Created(e)' = Created(e)
    BY <2>5 DEF Created
  <2>9. \A r \in Created(e) :
          /\ keyStates'[e][r].keyID = keyStates[e][r].keyID
          /\ keyStates'[e][r].status \in {"failed", keyStates[e][r].status}
          /\ r \notin {s} => keyStates'[e][r].status = keyStates[e][r].status
          /\ keyStates'[e][r].step = "run" => keyStates[e][r].step = "run"
    BY <2>4, <2>5 DEF old
  <2>10. \A k \in KeyIDs :
           /\ renegotiations'[e][k] \in {0, renegotiations[e][k]}
           /\ renegotiations[e][k] \notin {s} => renegotiations'[e][k] = renegotiations[e][k]
    BY <2>6
  <2>11. EndLive(e)'
    BY <1>1, <2>1, <2>7, <2>8, <2>9, <2>10, LiveGone, Zenon
  <2> QED
    BY <2>1, <2>5, <2>6, <2>7, <2>11, OneLive
<1>4. CASE ExpireKeyState(e)
  <2>1. PICK q \in Created(e) :
          /\ renegotiations' = [renegotiations EXCEPT ![e][KeyID(e, q)] = 0]
          /\ receiveCodecs' = [receiveCodecs EXCEPT ![e] = DiscardDataKeyState(receiveCodecs[e], q)]
          /\ UNCHANGED <<keyStates, promoted>> /\ HasStatus(e, q, {"lameDuck"})
    BY <1>4, Zenon DEF ExpireKeyState
  <2> DEFINE d == KeyID(e, q)
  <2>2. d \in KeyIDs /\ renegotiations[e][d] = q
    BY <2>1, StatusIs DEF KeyID
  <2>3. renegotiations' = [renegotiations EXCEPT ![e][d] = 0]
    BY <2>1
  <2> HIDE DEF d
  <2>4. /\ \A k \in KeyIDs : renegotiations'[e][k] = IF k = d THEN 0 ELSE renegotiations[e][k]
        /\ \A x \in Ends \ {e} : renegotiations'[x] = renegotiations[x]
    BY <1>1, <2>2, <2>3, SMTT(30)
  <2>5. /\ receiveCodecs' \in [Ends -> SUBSET Codec] /\ Gone({q})
        /\ \A x \in Ends \ {e} : receiveCodecs'[x] = receiveCodecs[x]
    BY <1>1, <1>2, <2>1
  <2>6. Created(e)' = Created(e)
    BY <2>1 DEF Created
  <2>7. \A k \in KeyIDs :
           /\ renegotiations'[e][k] \in {0, renegotiations[e][k]}
           /\ renegotiations[e][k] \notin {q} => renegotiations'[e][k] = renegotiations[e][k]
    BY <2>2, <2>4
  <2>8. EndLive(e)'
    BY <1>1, <2>1, <2>5, <2>6, <2>7, LiveGone, Zenon
  <2> QED
    BY <2>1, <2>4, <2>5, <2>8, OneLive
<1>5. CASE FailAllRenegotiations(e)
  <2> DEFINE all == {r \in Created(e) : Registered(e, r)}
  <2>1. /\ renegotiations' = [renegotiations EXCEPT ![e] = [k \in KeyIDs |-> 0]]
        /\ receiveCodecs' = [receiveCodecs EXCEPT ![e] =
                               {x \in receiveCodecs[e] : x.sequence \notin all}]
        /\ UNCHANGED <<keyStates, promoted>>
    BY <1>5, Zenon DEF FailAllRenegotiations
  <2>2. \A k \in KeyIDs : renegotiations[e][k] # 0 => renegotiations[e][k] \in all
    BY DEF IInv, EndInv, Bounded, Registered, KeyID
  <2> HIDE DEF all
  <2>3. /\ \A k \in KeyIDs : renegotiations'[e][k] = 0
        /\ \A x \in Ends \ {e} : renegotiations'[x] = renegotiations[x]
    BY <1>1, <2>1
  <2>4. /\ receiveCodecs' \in [Ends -> SUBSET Codec] /\ Gone(all)
        /\ \A x \in Ends \ {e} : receiveCodecs'[x] = receiveCodecs[x]
    BY <1>1, <2>1
  <2>5. Created(e)' = Created(e)
    BY <2>1 DEF Created
  <2>6. \A k \in KeyIDs :
           /\ renegotiations'[e][k] \in {0, renegotiations[e][k]}
           /\ renegotiations[e][k] \notin all => renegotiations'[e][k] = renegotiations[e][k]
    BY <2>2, <2>3
  <2>7. EndLive(e)'
    BY <1>1, <2>1, <2>4, <2>5, <2>6, LiveGone, Zenon
  <2> QED
    BY <2>1, <2>3, <2>4, <2>7, OneLive
<1>6. CASE FailOne(e, s)
  <2>1. /\ s \in closing[e].left /\ UNCHANGED <<renegotiations, promoted, receiveCodecs>>
        /\ \/ keyStates' = keyStates
           \/ keyStates' = [keyStates EXCEPT ![e][s] =
                [keyStates[e][s] EXCEPT !.status = "failed", !.once = "done",
                                        !.done = keyStates[e][s].done + 1]]
        /\ keyStates[e][s].once # "held"
        /\ keyStates[e][s].once = "done" => keyStates' = keyStates
    BY <1>6, Zenon DEF FailOne
  <2>2. s \in Created(e) /\ \A k \in KeyIDs : renegotiations[e][k] = 0
    BY <2>1 DEF IInv, TypeInv, EndInv, ClosingInv, ClosingSteps
  <2>3. \A x \in receiveCodecs[e] : x.sequence = 0
    <3>1. ASSUME NEW q, HasStatus(e, q, Live) PROVE FALSE
      <4>1. /\ q # 0 /\ keyStates[e][q].keyID \in KeyIDs
            /\ renegotiations[e][keyStates[e][q].keyID] = q
        BY <3>1, StatusIs
      <4> QED
        BY <2>2, <4>1
    <3> QED
      BY <1>1, <3>1 DEF EndLive
  <2>4. CASE keyStates' = keyStates
    <3>1. \A x \in Ends : Settled(x)
      BY <2>1, <2>4 DEF Settled
    <3> QED
      BY <1>1, <2>1, <3>1, LiveSettled DEF LiveInv
  <2>5. CASE keyStates' # keyStates
    <3> DEFINE old == keyStates[e][s]
               new == [old EXCEPT !.status = "failed", !.once = "done", !.done = old.done + 1]
    <3>1. s \in Created(e) /\ keyStates' = [keyStates EXCEPT ![e][s] = new]
      BY <2>1, <2>2, <2>5
    <3>2. old \in KeyState /\ OnceInv(old) /\ old.once # "done" /\ s # 0
      <4>1. old \in KeyState /\ OnceInv(old)
        BY <3>1, StateType DEF IInv, TypeInv, EndInv
      <4>2. s # 0
        BY <3>1, StatusIs
      <4> QED
        BY <2>1, <2>5, <4>1, <4>2
    <3> HIDE DEF old
    <3>3. old.done + 1 \in 0..2
      BY <3>2, SMT DEF OnceInv
    <3>4. /\ new \in KeyState /\ new.keyID = old.keyID /\ new.status = "failed"
          /\ new.step = old.step
      BY <3>2, <3>3, Zenon DEF KeyState
    <3> HIDE DEF new
    <3>5. /\ keyStates' \in [Ends -> Seq(KeyState)]
          /\ \A x \in Ends : Len(keyStates'[x]) = Len(keyStates[x])
          /\ keyStates'[e][s] = new
          /\ \A r \in Created(e) \ {s} : keyStates'[e][r] = keyStates[e][r]
          /\ \A x \in Ends \ {e} : keyStates'[x] = keyStates[x]
      BY <1>1, <3>1, <3>4, OneState, Zenon
    <3>6. Created(e)' = Created(e)
      BY <3>5 DEF Created
    <3>7. \A r \in Created(e) :
            /\ keyStates'[e][r].keyID = keyStates[e][r].keyID
            /\ keyStates'[e][r].status \in {"failed", keyStates[e][r].status}
            /\ r \notin {s} => keyStates'[e][r].status = keyStates[e][r].status
            /\ keyStates'[e][r].step = "run" => keyStates[e][r].step = "run"
      BY <3>4, <3>5 DEF old
    <3>8. Gone({s})
      BY <2>1, <2>3, <3>2
    <3>9. \A k \in KeyIDs :
             /\ renegotiations'[e][k] \in {0, renegotiations[e][k]}
             /\ renegotiations[e][k] \notin {s} => renegotiations'[e][k] = renegotiations[e][k]
      BY <2>1
    <3>10. EndLive(e)'
      BY <1>1, <2>1, <3>6, <3>7, <3>8, <3>9, LiveGone, Zenon
    <3> QED
      BY <1>1, <2>1, <3>5, <3>10, OneLive
  <2> QED
    BY <2>4, <2>5
<1> QED
  BY <1>3, <1>4, <1>5, <1>6

\* finishSoftReset with a codec: the key state is the newest and retires the one before, or
\* comes late and is a lame duck; a key state that is pruned takes its key with it.
LEMMA FinishGoodLive ==
  ASSUME IInv, IInv', LiveInv, NEW e \in Ends, NEW s, Running(e, s), Registered(e, s),
         FinishGood(e, s)
  PROVE  LiveInv'
<1> DEFINE old == keyStates[e][s]
           newest == Newest(e, s)
           retired == {r \in Created(e) \ {s} : HasStatus(e, r, {"active"})}
           finished == [old EXCEPT !.once = "held",
                          !.status = IF newest THEN "active" ELSE "lameDuck",
                          !.step = IF newest THEN "note" ELSE "close"]
           states == [r \in Created(e) |->
                        IF r = s THEN finished
                        ELSE IF newest /\ r \in retired
                             THEN [keyStates[e][r] EXCEPT !.status = "lameDuck"]
                             ELSE keyStates[e][r]]
           gone == Pruned(e, states)
           kept == [k \in KeyIDs |-> IF renegotiations[e][k] \in gone THEN 0
                                     ELSE renegotiations[e][k]]
           codecs == {x \in InstallDataKeyState(e, s, newest) : x.sequence \notin gone}
<1>1. /\ keyStates' = [keyStates EXCEPT ![e] = states]
      /\ renegotiations' = [renegotiations EXCEPT ![e] = kept]
      /\ promoted' = IF newest THEN [promoted EXCEPT ![e] = s] ELSE promoted
      /\ receiveCodecs' = [receiveCodecs EXCEPT ![e] = codecs]
  BY SMTT(30) DEF FinishGood
<1>2. /\ keyStates \in [Ends -> Seq(KeyState)] /\ keyStates' \in [Ends -> Seq(KeyState)]
      /\ renegotiations \in [Ends -> [KeyIDs -> Nat]] /\ promoted \in [Ends -> Nat]
      /\ EndLive(e) /\ receiveCodecs \in [Ends -> SUBSET Codec]
  BY DEF IInv, TypeInv, LiveInv
<1>3. /\ s \in Created(e) /\ s \in Nat /\ s # 0 /\ old \in KeyState /\ old.step = "run"
      /\ old.keyID \in KeyIDs /\ renegotiations[e][old.keyID] = s /\ KeyID(e, s) = old.keyID
  <2>1. s \in Created(e) /\ old.step = "run"
    BY DEF Running
  <2>2. s \in Nat /\ s # 0
    BY <2>1, StatusIs
  <2>3. old \in KeyState /\ old.keyID \in KeyIDs
    BY <1>2, <2>1, StateType
  <2> QED
    BY <2>1, <2>2, <2>3 DEF Registered, KeyID
<1>4. /\ newest \in BOOLEAN /\ (newest <=> s > promoted[e])
      /\ s # promoted[e] /\ promoted[e] \in Nat /\ (~newest => s < promoted[e])
  <2>1. s # promoted[e]
    BY <1>2, <1>3 DEF EndLive
  <2>2. promoted[e] \in Nat
    BY <1>2
  <2>3. newest \in BOOLEAN /\ (newest <=> s > promoted[e])
    BY <1>3, <2>2, SMT DEF Newest
  <2>4. ~(s > promoted[e]) => s < promoted[e]
    BY <1>3, <2>1, <2>2, SMT
  <2> QED
    BY <2>1, <2>2, <2>3, <2>4
<1> HIDE DEF newest
<1>5. /\ finished.keyID = old.keyID /\ finished.step # "run"
      /\ finished.status = IF newest THEN "active" ELSE "lameDuck"
  BY <1>3, <1>4 DEF KeyState
<1> HIDE DEF finished
<1>6. ASSUME NEW r \in Created(e), r # s
      PROVE  /\ states[r].keyID = keyStates[e][r].keyID /\ states[r].step = keyStates[e][r].step
             /\ states[r].status = IF newest /\ r \in retired THEN "lameDuck"
                                   ELSE keyStates[e][r].status
  <2>1. keyStates[e][r] \in KeyState
    BY <1>2, StateType
  <2>2. CASE newest /\ r \in retired
    <3>1. states[r] = [keyStates[e][r] EXCEPT !.status = "lameDuck"]
      BY <1>6, <2>2
    <3> HIDE DEF states, retired
    <3> QED
      BY <2>1, <2>2, <3>1 DEF KeyState
  <2>3. CASE ~(newest /\ r \in retired)
    <3>1. states[r] = keyStates[e][r]
      BY <1>6, <2>3
    <3> HIDE DEF states, retired
    <3> QED
      BY <2>3, <3>1
  <2> QED
    BY <2>2, <2>3
<1>7. states[s] = finished /\ DOMAIN states = Created(e)
  BY <1>3
<1> HIDE DEF states, gone
<1>8. keyStates'[e] = states /\ \A x \in Ends \ {e} : keyStates'[x] = keyStates[x]
  BY <1>1, <1>2
<1>9. Created(e)' = Created(e)
  <2>1. keyStates'[e] \in Seq(KeyState)
    BY <1>2
  <2>2. DOMAIN keyStates'[e] = 1..Len(keyStates'[e])
    BY <2>1, SMT
  <2> QED
    BY <1>7, <1>8, <2>2 DEF Created
<1>10. /\ \A k \in KeyIDs : renegotiations'[e][k] =
            IF renegotiations[e][k] \in gone THEN 0 ELSE renegotiations[e][k]
       /\ \A x \in Ends \ {e} : renegotiations'[x] = renegotiations[x]
  BY <1>1, <1>2
<1>11. /\ promoted'[e] = IF newest THEN s ELSE promoted[e]
       /\ \A x \in Ends \ {e} : promoted'[x] = promoted[x]
  BY <1>1, <1>2, <1>4
<1>12. /\ receiveCodecs' \in [Ends -> SUBSET Codec]
       /\ \A x \in Ends \ {e} : receiveCodecs'[x] = receiveCodecs[x]
       /\ \A x \in receiveCodecs'[e] : x.sequence \notin gone /\
            (x.sequence = s \/ \E y \in receiveCodecs[e] : y.sequence = x.sequence)
  <2>1. KeyIDs \subseteq Nat
    BY KeyAssumption, SMT DEF KeyIDs
  <2>2. /\ InstallDataKeyState(e, s, newest) \subseteq Codec
        /\ \A x \in InstallDataKeyState(e, s, newest) :
             x.sequence = s \/ \E y \in receiveCodecs[e] : y.sequence = x.sequence
    BY <1>2, <1>3, <1>4, <2>1, Installed
  <2>3. codecs \subseteq InstallDataKeyState(e, s, newest) /\ \A x \in codecs : x.sequence \notin gone
    OBVIOUS
  <2> HIDE DEF codecs
  <2>4. receiveCodecs'[e] = codecs /\ receiveCodecs' \in [Ends -> SUBSET Codec]
    BY <1>1, <1>2, <2>2, <2>3
  <2>5. \A x \in Ends \ {e} : receiveCodecs'[x] = receiveCodecs[x]
    BY <1>1, <1>2
  <2> QED
    BY <2>2, <2>3, <2>4, <2>5
<1> HIDE DEF codecs, kept
<1>13. \A r \in Created(e) : /\ states[r].keyID = keyStates[e][r].keyID
                             /\ keyStates[e][r].keyID \in KeyIDs /\ r # 0
  <2>1. \A r \in Created(e) : keyStates[e][r].keyID \in KeyIDs
    BY <1>2, StateType
  <2>2. 0 \notin Created(e)
    BY StatusIs
  <2>3. \A r \in Created(e) : states[r].keyID = keyStates[e][r].keyID
    BY <1>5, <1>6, <1>7
  <2> QED
    BY <2>1, <2>2, <2>3
<1>14. \A r \in Created(e) :
         renegotiations'[e][keyStates[e][r].keyID] = r /\ states[r].status \in Live
           => HasStatus(e, r, Live)'
  BY <1>8, <1>9, <1>13 DEF HasStatus, Registered, KeyID
<1>15. \A r \in Created(e) : /\ HasStatus(e, r, {"active"})' => r = promoted'[e]
                             /\ HasStatus(e, r, {"lameDuck"})' => r < promoted'[e]
  <2> SUFFICES ASSUME NEW r \in Created(e)
               PROVE  /\ HasStatus(e, r, {"active"})' => r = promoted'[e]
                      /\ HasStatus(e, r, {"lameDuck"})' => r < promoted'[e]
    OBVIOUS
  <2>1. CASE r = s
    <3>1. /\ HasStatus(e, r, {"active"})' => finished.status = "active"
          /\ HasStatus(e, r, {"lameDuck"})' => finished.status = "lameDuck"
      BY <1>7, <1>8, <2>1 DEF HasStatus
    <3> QED
      BY <1>4, <1>5, <1>11, <2>1, <3>1
  <2>2. CASE r # s
    <3>1. ASSUME NEW status, HasStatus(e, r, {status})'
          PROVE  renegotiations[e][keyStates[e][r].keyID] = r /\ states[r].status = status
      <4>1. /\ renegotiations'[e][keyStates[e][r].keyID] = r /\ states[r].status = status
            /\ keyStates[e][r].keyID \in KeyIDs /\ r # 0
        BY <1>8, <1>13, <3>1 DEF HasStatus, Registered, KeyID
      <4> QED
        BY <1>10, <4>1
    <3>2. \A status : renegotiations[e][keyStates[e][r].keyID] = r /\ keyStates[e][r].status = status
            => HasStatus(e, r, {status})
      BY <1>13, StatusIs
    <3>3. /\ HasStatus(e, r, {"active"}) => r = promoted[e]
          /\ HasStatus(e, r, {"lameDuck"}) => r < promoted[e]
      BY <1>2 DEF EndLive
    <3>4. r \in Nat
      BY StatusIs
    <3>5. r \in retired <=> HasStatus(e, r, {"active"})
      BY <2>2
    <3> HIDE DEF retired
    <3>6. CASE newest
      <4>1. promoted'[e] = s /\ promoted[e] < s
        BY <1>3, <1>4, <1>11, <3>6, SMT
      <4>2. ~HasStatus(e, r, {"active"})'
        <5>1. CASE r \in retired
          <6>1. states[r].status = "lameDuck"
            BY <1>6, <2>2, <3>6, <5>1
          <6>2. HasStatus(e, r, {"active"})' => states[r].status = "active"
            BY <3>1
          <6> QED
            BY <6>1, <6>2
        <5>2. CASE r \notin retired
          BY <1>6, <2>2, <3>1, <3>2, <3>5, <5>2
        <5> QED
          BY <5>1, <5>2
      <4>3. HasStatus(e, r, {"lameDuck"})' => r <= promoted[e]
        <5>1. HasStatus(e, r, {"lameDuck"})' => r = promoted[e] \/ r < promoted[e]
          BY <1>6, <2>2, <3>1, <3>2, <3>3, <3>5, <3>6
        <5> QED
          BY <1>4, <3>4, <5>1, SMT
      <4> QED
        BY <1>3, <1>4, <3>4, <4>1, <4>2, <4>3, SMT
    <3>7. CASE ~newest
      BY <1>6, <1>11, <2>2, <3>1, <3>2, <3>3, <3>7
    <3> QED
      BY <1>4, <3>6, <3>7
  <2> QED
    BY <2>1, <2>2
<1>16. \A x \in receiveCodecs'[e] : x.sequence # 0 => HasStatus(e, x.sequence, Live)'
  <2>1. ASSUME NEW q, q # 0, q \notin gone, q = s \/ HasStatus(e, q, Live)
        PROVE  HasStatus(e, q, Live)'
    <3>1. /\ q \in Created(e) /\ renegotiations[e][keyStates[e][q].keyID] = q
          /\ q # s => keyStates[e][q].status \in Live
      BY <1>3, <2>1, StatusIs
    <3>2. renegotiations'[e][keyStates[e][q].keyID] = q
      BY <1>10, <1>13, <2>1, <3>1
    <3>3. states[q].status \in Live
      <4>1. CASE q = s
        BY <1>4, <1>5, <1>7, <4>1 DEF Live
      <4>2. CASE q # s
        <5> HIDE DEF retired
        <5> QED
          BY <1>6, <3>1, <4>2 DEF Live
      <4> QED
        BY <4>1, <4>2
    <3> QED
      BY <1>14, <3>1, <3>2, <3>3
  <2> QED
    BY <1>2, <1>12, <2>1 DEF EndLive
<1>17. promoted'[e] # 0 => keyStates'[e][promoted'[e]].step # "run"
  <2>1. CASE newest
    BY <1>5, <1>7, <1>8, <1>11, <2>1
  <2>2. CASE ~newest
    <3>1. promoted[e] # 0 => promoted[e] \in Created(e)
      BY StatusIs
    <3>2. promoted[e] # 0 => states[promoted[e]].step = keyStates[e][promoted[e]].step
      BY <1>4, <1>6, <3>1
    <3> QED
      BY <1>2, <1>8, <1>11, <2>2, <3>2 DEF EndLive
  <2> QED
    BY <1>4, <2>1, <2>2
<1>18. EndLive(e)'
  BY <1>9, <1>15, <1>16, <1>17 DEF EndLive
<1> QED
  BY <1>8, <1>10, <1>11, <1>12, <1>18, OneLive

\* Every way finishSoftReset ends.
LEMMA FinishLive ==
  ASSUME IInv, IInv', LiveInv, NEW e \in Ends, NEW s, NEW good \in BOOLEAN,
         FinishSoftReset(e, s, good)
  PROVE  LiveInv'
<1>1. CASE keyStates[e][s].once = "done"
  <2> DEFINE new == [keyStates[e][s] EXCEPT !.step = "end"]
  <2>1. /\ keyStates' = [keyStates EXCEPT ![e][s] = new]
        /\ UNCHANGED <<renegotiations, promoted, receiveCodecs>> /\ s \in Created(e)
    BY <1>1 DEF FinishSoftReset, Running
  <2>2. keyStates[e][s] \in KeyState
    BY <2>1, StateType DEF IInv, TypeInv
  <2>3. /\ new \in KeyState /\ new.keyID = keyStates[e][s].keyID
        /\ new.status = keyStates[e][s].status /\ new.step # "run"
    BY <2>2 DEF KeyState
  <2> HIDE DEF new
  <2>4. \A x \in Ends : receiveCodecs'[x] \subseteq receiveCodecs[x]
    BY <2>1
  <2>5. \A x \in Ends : Settled(x)
    BY <2>1, <2>3, <2>4, OneSettled, Zenon
  <2> QED
    BY <2>1, <2>5, LiveSettled DEF LiveInv
<1>2. CASE keyStates[e][s].once # "done" /\ good /\ Registered(e, s)
  BY <1>2, FinishGoodLive DEF FinishSoftReset
<1>3. CASE keyStates[e][s].once # "done" /\ ~(good /\ Registered(e, s))
  BY <1>3, GoneLive DEF FinishSoftReset
<1> QED
  BY <1>1, <1>2, <1>3

\* Every step keeps the keys in use those of live key states.
LEMMA LiveStep == IInv /\ IInv' /\ LiveInv /\ [Next]_vars => LiveInv'
<1> SUFFICES ASSUME IInv, IInv', LiveInv, [Next]_vars PROVE LiveInv'
  OBVIOUS
<1>1. CASE UNCHANGED vars \/ KeyMethodArrives
  <2>1. "client" \in Ends
    BY DEF Ends
  <2> QED
    BY <1>1, <2>1, SettledSteps
<1>2. CASE Handshake
  BY <1>2, HandshakeLive
<1>3. CASE ServerStages
  BY <1>3, StagesLive
<1>4. ASSUME NEW e \in Ends,
             \/ TriggerSoftReset(e) \/ ReadSendKey(e) \/ TriggerReturns(e)
             \/ SoftResetArrives(e) \/ ExpireReceiveCodec(e)
             \/ MarkClosing(e) \/ Closed(e)
      PROVE  LiveInv'
  BY <1>4, SettledSteps
<1>5. ASSUME NEW e \in Ends, BeginLocal(e) \/ BeginIncoming(e) PROVE LiveInv'
  BY <1>5, BeginsLive
<1>6. ASSUME NEW e \in Ends, ExpireKeyState(e) \/ FailAllRenegotiations(e) PROVE LiveInv'
  BY <1>6, GoneLive
<1>7. ASSUME NEW e \in Ends, NEW s,
             \/ Succeed(e, s) \/ Fail(e, s) \/ NoteRenegotiated(e, s) \/ CloseDone(e, s)
             \/ FailOne(e, s)
      PROVE  LiveInv'
  <2>1. CASE Succeed(e, s)
    BY <2>1, FinishLive, Zenon DEF Succeed
  <2>2. CASE Fail(e, s)
    BY <2>2, FinishLive, Zenon DEF Fail
  <2>3. CASE NoteRenegotiated(e, s) \/ CloseDone(e, s)
    BY <2>3, SettledSteps
  <2>4. CASE FailOne(e, s)
    BY <2>4, GoneLive
  <2> QED
    BY <1>7, <2>1, <2>2, <2>3, <2>4
<1> QED
  BY <1>1, <1>2, <1>3, <1>4, <1>5, <1>6, <1>7 DEF Next

\* promoteKeyStateLocked, discardDataKeyState: an end uses the keys of live key states only, in
\* whichever order negotiations end, fail, expire or displace one another.
THEOREM KeysAlwaysLive == Spec => []KeysLive
<1>1. Init => LiveInv
  <2> SUFFICES ASSUME Init PROVE LiveInv
    OBVIOUS
  <2> DEFINE x == [keyID |-> 0, sequence |-> 0, expires |-> FALSE]
  <2>1. x \in Codec /\ x.sequence = 0
    BY SMT DEF Codec
  <2>2. receiveCodecs = [e \in Ends |-> {x}]
    BY DEF Init
  <2> HIDE DEF x
  <2>3. \A e \in Ends : keyStates[e] = <<>> /\ promoted[e] = 0 /\ receiveCodecs[e] = {x}
    BY <2>2 DEF Init
  <2>4. \A e \in Ends : Created(e) = {}
    BY <2>3, SMT DEF Created
  <2> QED
    BY <2>1, <2>2, <2>3, <2>4 DEF LiveInv, EndLive
<1>2. IInv /\ IInv' /\ LiveInv /\ [Next]_vars => LiveInv'
  BY LiveStep
<1>3. LiveInv => KeysLive
  BY DEF LiveInv, EndLive, KeysLive, Live
<1> QED
  BY <1>1, <1>2, <1>3, Invariance, PTL DEF Spec

-----------------------------------------------------------------------------
(* The control stream *)

Handover == [sequence : 0..MaxHandovers, handover : 0..MaxHandovers]
WriterStep == [step : {"idle", "snapshot", "write", "wait"}, on : Nat]

\* A message of the history.
Known(history, m) == \E i \in 1..Len(history) : history[i] = m

\* One message is in the history before another.
Before(history, m, other) ==
  \A i, j \in 1..Len(history) : history[i] = m /\ history[j] = other => i < j

\* No message is written twice.
WrittenOnce ==
  /\ \A i \in 1..Len(written) : written[i][2] <= sent[written[i][1]]
  /\ \A i, j \in 1..Len(written) : written[i] = written[j] => i = j

\* What is on its way was written, and in the order of the streams and within each.
CarriedInOrder ==
  /\ \A s \in 0..MaxHandovers : \A i \in 1..Len(carried[s]) : Known(written, carried[s][i])
  /\ \A s, t \in 0..MaxHandovers :
       \A i \in 1..Len(carried[s]) : \A j \in 1..Len(carried[t]) :
         s < t \/ (s = t /\ i < j) => Before(written, carried[s][i], carried[t][j])

\* What was read came before what its stream and later ones still carry.
ReadBefore ==
  /\ \A i \in 1..Len(read) : Known(written, read[i][1]) /\ read[i][2] = read[i][3]
  /\ \A i, j \in 1..Len(read) : i < j => Before(written, read[i][1], read[j][1])
  /\ \A i \in 1..Len(read) : \A s \in 0..MaxHandovers : \A j \in 1..Len(carried[s]) :
       read[i][3] <= s => Before(written, read[i][1], carried[s][j])

\* The reader reads a stream that is not older than what it read, and so is the record it
\* looks at.
ReaderAhead ==
  /\ \A i \in 1..Len(read) : read[i][3] <= primary["reading"].sequence
  /\ reader.step \in {"read", "check"} =>
       /\ reader.on <= primary["reading"].sequence
       /\ \A i \in 1..Len(read) : read[i][3] <= reader.on
  /\ reader.step = "check" =>
       /\ Known(written, reader.record)
       /\ \A i \in 1..Len(read) : Before(written, read[i][1], reader.record)
       /\ \A s \in 0..MaxHandovers : \A j \in 1..Len(carried[s]) :
            reader.on <= s => Before(written, reader.record, carried[s][j])

\* The writer writes to a stream that is not older than those that carry something.
WriterAhead ==
  /\ \A s \in 0..MaxHandovers : carried[s] # <<>> => s <= primary["writing"].sequence
  /\ \A w \in Writers : writer[w].step # "idle" => sent[w] < MaxMessages
  /\ \A w \in Writers : writer[w].step = "write" =>
       /\ writer[w].on <= primary["writing"].sequence
       /\ \A s \in 0..MaxHandovers : carried[s] # <<>> => s <= writer[w].on

OrderInv ==
  /\ StreamTypeOK /\ OneWriter /\ WrittenOnce /\ CarriedInOrder /\ ReadBefore /\ ReaderAhead
  /\ WriterAhead

\* Where a message was written.
LEMMA PositionIs ==
  ASSUME WrittenOnce, NEW i \in 1..Len(written)
  PROVE  Position(written[i]) = i
BY DEF Position, WrittenOnce

\* What an entry of the histories is.
LEMMA HistoryTyped ==
  ASSUME StreamTypeOK
  PROVE  /\ \A i \in 1..Len(read) : read[i][3] \in Nat
         /\ \A i \in 1..Len(written) : written[i][1] \in Writers /\ written[i][2] \in Nat
<1>1. read \in Seq(Messages \X Nat \X Nat) /\ written \in Seq(Messages)
  BY DEF StreamTypeOK
<1>2. \A m \in Messages : m[1] \in Writers /\ m[2] \in Nat
  BY SMT DEF Messages
<1>3. \A i \in 1..Len(written) : written[i] \in Messages
  BY <1>1, SMT
<1> QED
  BY <1>1, <1>2, <1>3, SMT

\* The initial state: nothing was written.
LEMMA OrderInit == StreamInit => OrderInv
<1> SUFFICES ASSUME StreamInit PROVE OrderInv
  OBVIOUS
<1>1. StreamTypeOK
  <2>1. 0 \in 0..MaxHandovers /\ 0 \in 0..MaxMessages
    BY StreamAssumption, SMT
  <2>2. primary \in [Sides -> [sequence : 0..MaxHandovers, handover : 0..MaxHandovers]]
    BY <2>1 DEF StreamInit, NoHandover
  <2>3. writer \in [Writers -> [step : {"idle", "snapshot", "write", "wait"}, on : Nat]]
    BY DEF StreamInit
  <2>4. reader \in [step : {"snapshot", "read", "check", "wait"}, on : Nat,
                    record : Messages \cup {<<>>}]
    BY DEF StreamInit
  <2>5. carried \in [0..MaxHandovers -> Seq(Messages)]
    BY SMT DEF StreamInit
  <2>6. written \in Seq(Messages) /\ read \in Seq(Messages \X Nat \X Nat)
    BY SMT DEF StreamInit
  <2>7. begun \in [Sides -> 0..MaxHandovers] /\ negotiating \in [Sides -> SUBSET (1..MaxHandovers)]
    BY <2>1 DEF StreamInit
  <2> QED
    BY <2>1, <2>2, <2>3, <2>4, <2>5, <2>6, <2>7 DEF StreamInit, StreamTypeOK
<1>2. OneWriter
  BY StreamAssumption DEF StreamInit, OneWriter
<1>3. WrittenOnce /\ CarriedInOrder /\ ReadBefore
  BY SMT DEF StreamInit, WrittenOnce, CarriedInOrder, ReadBefore
<1>4. ReaderAhead /\ WriterAhead
  BY SMT DEF StreamInit, ReaderAhead, WriterAhead
<1> QED
  BY <1>1, <1>2, <1>3, <1>4 DEF OrderInv

\* install, beginHandover and abortHandover: the stream moves on, never back.
LEMMA StreamMoves ==
  ASSUME NEW x \in Handover, NEW s \in 1..MaxHandovers
  PROVE  /\ BeginHandover(x, s) \in Handover /\ BeginHandover(x, s).sequence = x.sequence
         /\ Install(x, s) \in Handover /\ Install(x, s).sequence >= x.sequence
         /\ AbortHandover(x, s) \in Handover /\ AbortHandover(x, s).sequence = x.sequence
<1>1. s \in 0..MaxHandovers /\ 0 \in 0..MaxHandovers /\ MaxHandovers \in Nat
  BY StreamAssumption, SMT
<1>2. x.sequence \in Nat /\ x.handover \in Nat
  BY <1>1, SMT DEF Handover
<1>3. BeginHandover(x, s) \in Handover /\ BeginHandover(x, s).sequence = x.sequence
  BY <1>1, <1>2 DEF BeginHandover, Handover
<1>4. AbortHandover(x, s) \in Handover /\ AbortHandover(x, s).sequence = x.sequence
  BY <1>1, <1>2 DEF AbortHandover, Handover
<1>5. Install(x, s) \in Handover /\ Install(x, s).sequence >= x.sequence
  <2> DEFINE h == IF x.handover <= s THEN 0 ELSE x.handover
  <2>1. h \in 0..MaxHandovers
    BY <1>1, <1>2 DEF Handover
  <2>2. Install(x, s) = IF s < x.sequence THEN x ELSE [sequence |-> s, handover |-> h]
    BY DEF Install
  <2> HIDE DEF h
  <2> QED
    BY <1>1, <1>2, <2>1, <2>2, SMT DEF Handover
<1> QED
  BY <1>3, <1>4, <1>5

\* A soft reset begins or ends at one end.
LEMMA ResetOrder ==
  ASSUME OrderInv, NEW e \in Sides, Begin(e) \/ End(e)
  PROVE  OrderInv'
<1>1. StreamTypeOK /\ OneWriter /\ WrittenOnce /\ CarriedInOrder /\ ReadBefore /\ ReaderAhead
      /\ WriterAhead
  BY DEF OrderInv
<1>2. /\ primary \in [Sides -> Handover] /\ begun \in [Sides -> 0..MaxHandovers]
      /\ negotiating \in [Sides -> SUBSET (1..MaxHandovers)] /\ changed \in [Sides -> Nat]
      /\ MaxHandovers \in Nat
  BY <1>1, StreamAssumption DEF StreamTypeOK, Handover
<1>3. PICK next \in Handover :
        /\ Moves(e, next) /\ next.sequence >= primary[e].sequence
        /\ begun' \in [Sides -> 0..MaxHandovers]
        /\ negotiating' \in [Sides -> SUBSET (1..MaxHandovers)]
        /\ UNCHANGED <<writeAccess, writer, sent, carried, reader, written, read>>
  <2>1. CASE Begin(e)
    <3>1. /\ begun[e] < MaxHandovers /\ begun' = [begun EXCEPT ![e] = @ + 1]
          /\ negotiating' = [negotiating EXCEPT ![e] = @ \cup {begun'[e]}]
          /\ Moves(e, BeginHandover(primary[e], begun'[e]))
          /\ UNCHANGED <<writeAccess, writer, sent, carried, reader, written, read>>
      BY <2>1 DEF Begin
    <3>2. begun'[e] \in 1..MaxHandovers /\ begun' \in [Sides -> 0..MaxHandovers]
      BY <1>2, <3>1, SMT
    <3>3. negotiating' \in [Sides -> SUBSET (1..MaxHandovers)]
      BY <1>2, <3>1, <3>2
    <3>4. /\ BeginHandover(primary[e], begun'[e]) \in Handover
          /\ BeginHandover(primary[e], begun'[e]).sequence = primary[e].sequence
      BY <1>2, <3>2, StreamMoves
    <3>5. primary[e].sequence \in Nat
      BY <1>2, SMT DEF Handover
    <3> QED
      BY <3>1, <3>2, <3>3, <3>4, <3>5, SMT
  <2>2. CASE End(e)
    <3>1. PICK s \in negotiating[e] :
            /\ negotiating' = [negotiating EXCEPT ![e] = @ \ {s}]
            /\ Moves(e, Install(primary[e], s)) \/ Moves(e, AbortHandover(primary[e], s))
            /\ UNCHANGED <<begun, writeAccess, writer, sent, carried, reader, written, read>>
      BY <2>2 DEF End
    <3>2. s \in 1..MaxHandovers
      BY <1>2
    <3>3. negotiating' \in [Sides -> SUBSET (1..MaxHandovers)]
      BY <1>2, <3>1
    <3>4. /\ Install(primary[e], s) \in Handover
          /\ Install(primary[e], s).sequence >= primary[e].sequence
          /\ AbortHandover(primary[e], s) \in Handover
          /\ AbortHandover(primary[e], s).sequence = primary[e].sequence
      BY <1>2, <3>2, StreamMoves
    <3>5. primary[e].sequence \in Nat
      BY <1>2, SMT DEF Handover
    <3> QED
      BY <1>2, <3>1, <3>3, <3>4, <3>5, SMT
  <2> QED
    BY <2>1, <2>2
<1>4. /\ primary' \in [Sides -> Handover]
      /\ \A f \in Sides : primary'[f].sequence >= primary[f].sequence
      /\ \A f \in Sides : primary[f].sequence \in Nat /\ primary'[f].sequence \in Nat
  <2>1. primary' = [primary EXCEPT ![e] = next]
    BY <1>3 DEF Moves
  <2>2. \A f \in Sides : primary[f].sequence \in Nat
    BY <1>2, SMT DEF Handover
  <2> QED
    BY <1>2, <1>3, <2>1, <2>2, SMT DEF Handover
<1>5. changed' \in [Sides -> Nat]
  BY <1>2, <1>3, SMT DEF Moves, Signal
<1>6. StreamTypeOK'
  BY <1>1, <1>3, <1>4, <1>5 DEF StreamTypeOK, Handover
<1>7. OneWriter' /\ WrittenOnce' /\ CarriedInOrder' /\ ReadBefore'
  BY <1>1, <1>3 DEF OneWriter, WrittenOnce, CarriedInOrder, ReadBefore
<1>8. ReaderAhead'
  <2>1. \A i \in 1..Len(read) : read[i][3] \in Nat
    BY <1>1, HistoryTyped
  <2>2. reader.on \in Nat
    BY <1>1 DEF StreamTypeOK
  <2>3. primary'["reading"].sequence >= primary["reading"].sequence
    BY <1>4 DEF Sides
  <2>4. primary["reading"].sequence \in Nat /\ primary'["reading"].sequence \in Nat
    BY <1>4 DEF Sides
  <2>5. \A i \in 1..Len(read') : read'[i][3] <= primary'["reading"].sequence
    BY <1>1, <1>3, <2>1, <2>3, <2>4, SMT DEF ReaderAhead
  <2>6. reader'.step \in {"read", "check"} => reader'.on <= primary'["reading"].sequence
    BY <1>1, <1>3, <2>2, <2>3, <2>4, SMT DEF ReaderAhead
  <2> QED
    BY <1>1, <1>3, <2>5, <2>6 DEF ReaderAhead
<1>9. WriterAhead'
  <2>1. primary'["writing"].sequence >= primary["writing"].sequence
    BY <1>4 DEF Sides
  <2>2. primary["writing"].sequence \in Nat /\ primary'["writing"].sequence \in Nat
    BY <1>4 DEF Sides
  <2>3. \A w \in Writers : writer[w].on \in Nat
    BY <1>1 DEF StreamTypeOK
  <2> QED
    BY <1>1, <1>3, <2>1, <2>2, <2>3, SMT DEF WriterAhead
<1> QED
  BY <1>6, <1>7, <1>8, <1>9 DEF OrderInv

\* A writer takes the lock, looks at the stream, waits or gives up.
LEMMA WaitOrder ==
  ASSUME OrderInv, NEW w \in Writers, Lock(w) \/ WriterLooks(w) \/ WriterWakes(w) \/ WriterTimesOut(w)
  PROVE  OrderInv'
<1>1. /\ StreamTypeOK /\ OneWriter /\ WrittenOnce /\ CarriedInOrder /\ ReadBefore /\ ReaderAhead
      /\ WriterAhead
  BY DEF OrderInv
<1>2. /\ writer \in [Writers -> WriterStep] /\ sent \in [Writers -> 0..MaxMessages]
      /\ writeAccess \in Writers \cup {NoWriter} /\ MaxMessages \in Nat
      /\ changed["writing"] \in Nat /\ primary["writing"].sequence \in Nat
      /\ \A v \in Writers : sent[v] \in Nat /\ sent[v] <= sent[v]
  <2>1. writer \in [Writers -> WriterStep]
    BY <1>1 DEF StreamTypeOK, WriterStep
  <2>2. sent \in [Writers -> 0..MaxMessages] /\ MaxMessages \in Nat /\ MaxHandovers \in Nat
    BY <1>1, StreamAssumption DEF StreamTypeOK
  <2>3. changed["writing"] \in Nat /\ primary["writing"].sequence \in 0..MaxHandovers
    BY <1>1 DEF StreamTypeOK, Sides
  <2>4. writeAccess \in Writers \cup {NoWriter}
    BY <1>1 DEF StreamTypeOK
  <2> QED
    BY <2>1, <2>2, <2>3, <2>4, SMT
<1>3. PICK to \in WriterStep :
        /\ writer' = [writer EXCEPT ![w] = to]
        /\ writeAccess' = IF to.step = "idle" THEN NoWriter ELSE w
        /\ writeAccess \in {NoWriter, w}
        /\ to.step # "idle" => sent'[w] < MaxMessages
        /\ to.step = "write" => to.on = primary["writing"].sequence
        /\ sent' \in [Writers -> 0..MaxMessages] /\ \A v \in Writers : sent[v] <= sent'[v]
        /\ \A v \in Writers \ {w} : sent'[v] = sent[v]
        /\ UNCHANGED <<primary, begun, negotiating, changed, carried, reader, written, read>>
  <2>1. CASE Lock(w)
    <3> DEFINE to == [writer[w] EXCEPT !.step = "snapshot"]
    <3>1. to \in WriterStep /\ to.step = "snapshot"
      BY <1>2 DEF WriterStep
    <3>2. /\ writer' = [writer EXCEPT ![w] = to] /\ writeAccess = NoWriter /\ writeAccess' = w
          /\ sent[w] < MaxMessages
          /\ UNCHANGED <<primary, begun, negotiating, changed, sent, carried, reader, written, read>>
      BY <2>1 DEF Lock
    <3> HIDE DEF to
    <3> QED
      BY <1>2, <3>1, <3>2
  <2>2. CASE WriterLooks(w)
    <3> DEFINE to == Snapshot("writing")
    <3>1. to \in WriterStep /\ to.step # "idle"
      BY <1>2 DEF WriterStep, Snapshot
    <3>2. to.step = "write" => to.on = primary["writing"].sequence
      BY DEF Snapshot
    <3>3. /\ writer[w].step = "snapshot" /\ writer' = [writer EXCEPT ![w] = to]
          /\ UNCHANGED <<primary, begun, negotiating, changed, writeAccess, sent, carried, reader,
                         written, read>>
      BY <2>2 DEF WriterLooks
    <3> HIDE DEF to
    <3>4. writeAccess = w /\ sent[w] < MaxMessages
      BY <1>1, <3>3 DEF OneWriter, WriterAhead
    <3> QED
      BY <1>2, <3>1, <3>2, <3>3, <3>4
  <2>3. CASE WriterWakes(w)
    <3> DEFINE to == [writer[w] EXCEPT !.step = "snapshot"]
    <3>1. to \in WriterStep /\ to.step = "snapshot"
      BY <1>2 DEF WriterStep
    <3>2. /\ writer[w].step = "wait" /\ writer' = [writer EXCEPT ![w] = to]
          /\ UNCHANGED <<primary, begun, negotiating, changed, writeAccess, sent, carried, reader,
                         written, read>>
      BY <2>3 DEF WriterWakes
    <3> HIDE DEF to
    <3>3. writeAccess = w /\ sent[w] < MaxMessages
      BY <1>1, <3>2 DEF OneWriter, WriterAhead
    <3> QED
      BY <1>2, <3>1, <3>2, <3>3
  <2>4. CASE WriterTimesOut(w)
    <3> DEFINE to == [step |-> "idle", on |-> 0]
    <3>1. to \in WriterStep /\ to.step = "idle"
      BY DEF WriterStep
    <3>2. /\ writer[w].step = "wait" /\ writer' = [writer EXCEPT ![w] = to]
          /\ sent' = [sent EXCEPT ![w] = @ + 1] /\ writeAccess' = NoWriter
          /\ UNCHANGED <<primary, begun, negotiating, changed, carried, reader, written, read>>
      BY <2>4 DEF WriterTimesOut
    <3> HIDE DEF to
    <3>3. writeAccess = w /\ sent[w] < MaxMessages
      BY <1>1, <3>2 DEF OneWriter, WriterAhead
    <3>4. sent' \in [Writers -> 0..MaxMessages] /\ \A v \in Writers : sent[v] <= sent'[v]
      BY <1>2, <3>2, <3>3, SMT
    <3> QED
      BY <1>2, <3>1, <3>2, <3>3, <3>4
  <2> QED
    BY <2>1, <2>2, <2>3, <2>4
<1>4. /\ writer' \in [Writers -> WriterStep] /\ writer'[w] = to
      /\ \A v \in Writers \ {w} : writer'[v] = writer[v] /\ writer[v].step = "idle"
  BY <1>1, <1>2, <1>3, StreamAssumption DEF OneWriter
<1>5. StreamTypeOK'
  <2>1. writeAccess' \in Writers \cup {NoWriter}
    BY <1>3
  <2> QED
    BY <1>1, <1>3, <1>4, <2>1 DEF StreamTypeOK, WriterStep
<1>6. OneWriter'
  BY <1>3, <1>4, StreamAssumption DEF OneWriter
<1>7. WrittenOnce'
  <2>1. ASSUME NEW i \in 1..Len(written) PROVE written[i][2] <= sent'[written[i][1]]
    <3>1. written[i][1] \in Writers /\ written[i][2] \in Nat
      BY <1>1, HistoryTyped
    <3>2. written[i][2] <= sent[written[i][1]]
      BY <1>1 DEF WrittenOnce
    <3> QED
      BY <1>2, <1>3, <3>1, <3>2, SMT
  <2> QED
    BY <1>1, <1>3, <2>1 DEF WrittenOnce
<1>8. CarriedInOrder' /\ ReadBefore' /\ ReaderAhead'
  BY <1>1, <1>3 DEF CarriedInOrder, ReadBefore, ReaderAhead
<1>9. WriterAhead'
  BY <1>1, <1>2, <1>3, <1>4, SMT DEF WriterAhead
<1> QED
  BY <1>5, <1>6, <1>7, <1>8, <1>9 DEF OrderInv

\* A message is written, the last so far.
LEMMA WriteOrder ==
  ASSUME OrderInv, NEW w \in Writers, Write(w)
  PROVE  OrderInv'
<1>1. /\ StreamTypeOK /\ OneWriter /\ WrittenOnce /\ CarriedInOrder /\ ReadBefore /\ ReaderAhead
      /\ WriterAhead
  BY DEF OrderInv
<1> DEFINE message == <<w, sent[w] + 1>>
           o == writer[w].on
           n == Len(written)
<1>2. /\ writer[w].step = "write" /\ writer' = [writer EXCEPT ![w] = [step |-> "idle", on |-> 0]]
      /\ carried' = [carried EXCEPT ![o] = Append(@, message)]
      /\ written' = Append(written, message) /\ sent' = [sent EXCEPT ![w] = @ + 1]
      /\ writeAccess' = NoWriter
      /\ UNCHANGED <<primary, begun, negotiating, changed, reader, read>>
  BY DEF Write
<1>3. /\ writer \in [Writers -> WriterStep] /\ sent \in [Writers -> 0..MaxMessages]
      /\ carried \in [0..MaxHandovers -> Seq(Messages)] /\ written \in Seq(Messages)
      /\ primary["writing"].sequence \in 0..MaxHandovers /\ read \in Seq(Messages \X Nat \X Nat)
      /\ MaxMessages \in Nat /\ MaxHandovers \in Nat
  BY <1>1, StreamAssumption DEF StreamTypeOK, WriterStep, Sides
<1>4. /\ o \in 0..MaxHandovers /\ sent[w] < MaxMessages /\ writeAccess = w
      /\ \A s \in 0..MaxHandovers : carried[s] # <<>> => s <= o
  <2>1. /\ writer[w].on \in Nat /\ writer[w].on <= primary["writing"].sequence
        /\ sent[w] < MaxMessages /\ writeAccess = w
        /\ \A s \in 0..MaxHandovers : carried[s] # <<>> => s <= writer[w].on
    BY <1>1, <1>2, <1>3 DEF WriterAhead, OneWriter, WriterStep
  <2> QED
    BY <1>3, <2>1, SMT
<1>5. message \in Messages
  BY <1>3, <1>4, SMTT(30) DEF Messages
<1>6. message[1] = w /\ message[2] = sent[w] + 1
  OBVIOUS
<1> HIDE DEF message, o
<1>7. /\ n \in Nat /\ Len(written') = n + 1 /\ written'[n + 1] = message
      /\ \A i \in 1..n : written'[i] = written[i]
  BY <1>2, <1>3, <1>5, SMT
<1>8. \A v \in Writers : sent'[v] = IF v = w THEN sent[w] + 1 ELSE sent[v]
  BY <1>2, <1>3
<1> HIDE DEF n
<1>9. \A i \in 1..n : /\ written[i] # message /\ written[i][1] \in Writers /\ written[i][2] \in Nat
                      /\ written[i][2] <= sent[written[i][1]]
  <2> SUFFICES ASSUME NEW i \in 1..n
               PROVE  /\ written[i] # message /\ written[i][1] \in Writers /\ written[i][2] \in Nat
                      /\ written[i][2] <= sent[written[i][1]]
    OBVIOUS
  <2>1. written[i][1] \in Writers /\ written[i][2] \in Nat
    BY <1>1, HistoryTyped DEF n
  <2>2. written[i][2] <= sent[written[i][1]]
    BY <1>1 DEF n, WrittenOnce
  <2>3. written[i] # message
    BY <1>3, <1>6, <2>1, <2>2, SMT
  <2> QED
    BY <2>1, <2>2, <2>3
<1>10. WrittenOnce'
  <2>1. ASSUME NEW i \in 1..(n + 1) PROVE written'[i][2] <= sent'[written'[i][1]]
    <3>1. CASE i = n + 1
      BY <1>3, <1>6, <1>7, <1>8, <3>1, SMTT(30)
    <3>2. CASE i # n + 1
      <4>1. i \in 1..n
        BY <1>7, <3>2, SMT
      <4>2. sent[written[i][1]] \in Nat /\ sent[w] \in Nat
        BY <1>3, <1>9, <4>1, SMT
      <4> QED
        <5>1. /\ written'[i] = written[i] /\ written[i][1] \in Writers /\ written[i][2] \in Nat
              /\ written[i][2] <= sent[written[i][1]]
          BY <1>7, <1>9, <4>1
        <5>2. written[i][2] <= sent[written[i][1]] + 1
          BY <4>2, <5>1, SMT
        <5> QED
          BY <1>8, <5>1, <5>2
    <3> QED
      BY <3>1, <3>2
  <2>2. ASSUME NEW i \in 1..(n + 1), NEW j \in 1..(n + 1), written'[i] = written'[j] PROVE i = j
    <3>1. \A k \in 1..(n + 1) : k \in 1..n \/ k = n + 1
      BY <1>7, SMT
    <3>2. \A k, l \in 1..n : written[k] = written[l] => k = l
      BY <1>1 DEF WrittenOnce, n
    <3> QED
      BY <1>7, <1>9, <2>2, <3>1, <3>2
  <2> QED
    BY <1>7, <2>1, <2>2 DEF WrittenOnce
<1>11. /\ \A m : Known(written, m) => Known(written', m) /\ Before(written', m, message)
       /\ \A m, other : Known(written, m) /\ Known(written, other) /\ Before(written, m, other)
                         => Before(written', m, other)
       /\ Known(written', message)
  <2>1. \A k \in 1..n : k \in 1..(n + 1) /\ k < n + 1
    BY <1>7, SMT
  <2>2. \A k \in 1..(n + 1) : k \in 1..n \/ k = n + 1
    BY <1>7, SMT
  <2>3. \A m : Known(written, m) => m # message /\ \E k \in 1..n : written[k] = m
    BY <1>9 DEF Known, n
  <2>4. n + 1 \in 1..(n + 1)
    BY <1>7, SMT
  <2>5. ASSUME NEW m, Known(written, m) PROVE Known(written', m) /\ Before(written', m, message)
    BY <1>7, <1>9, <2>1, <2>2, <2>3, <2>5 DEF Known, Before
  <2>6. ASSUME NEW m, NEW other, Known(written, m), Known(written, other), Before(written, m, other)
        PROVE  Before(written', m, other)
    BY <1>7, <2>2, <2>3, <2>6 DEF Before, n
  <2>7. Known(written', message)
    BY <1>7, <2>4 DEF Known
  <2> QED
    BY <2>5, <2>6, <2>7
<1>13. /\ carried' \in [0..MaxHandovers -> Seq(Messages)]
       /\ \A s \in 0..MaxHandovers :
            /\ Len(carried'[s]) = IF s = o THEN Len(carried[s]) + 1 ELSE Len(carried[s])
            /\ Len(carried[s]) \in Nat
            /\ \A i \in 1..Len(carried[s]) : carried'[s][i] = carried[s][i]
       /\ carried'[o][Len(carried[o]) + 1] = message
  <2>1. Append(carried[o], message) \in Seq(Messages)
    BY <1>3, <1>4, <1>5, SMT
  <2>2. /\ Len(Append(carried[o], message)) = Len(carried[o]) + 1
        /\ \A i \in 1..Len(carried[o]) : Append(carried[o], message)[i] = carried[o][i]
        /\ Append(carried[o], message)[Len(carried[o]) + 1] = message
    BY <1>3, <1>4, <1>5, SMT
  <2>3. \A s \in 0..MaxHandovers :
          carried'[s] = IF s = o THEN Append(carried[o], message) ELSE carried[s]
    BY <1>2, <1>3
  <2>4. \A s \in 0..MaxHandovers : Len(carried[s]) \in Nat
    BY <1>3, SMT
  <2>5. carried' \in [0..MaxHandovers -> Seq(Messages)]
    BY <1>2, <1>3, <2>1
  <2> QED
    BY <1>4, <2>2, <2>3, <2>4, <2>5
<1>14. \A s \in 0..MaxHandovers : \A i \in 1..Len(carried'[s]) :
         \/ i \in 1..Len(carried[s]) /\ carried'[s][i] = carried[s][i] /\ Known(written, carried[s][i])
         \/ s = o /\ i = Len(carried[o]) + 1 /\ carried'[s][i] = message
  <2> SUFFICES ASSUME NEW s \in 0..MaxHandovers, NEW i \in 1..Len(carried'[s])
               PROVE  \/ /\ i \in 1..Len(carried[s]) /\ carried'[s][i] = carried[s][i]
                         /\ Known(written, carried[s][i])
                      \/ s = o /\ i = Len(carried[o]) + 1 /\ carried'[s][i] = message
    OBVIOUS
  <2>1. i \in 1..Len(carried[s]) \/ (s = o /\ i = Len(carried[o]) + 1)
    BY <1>13, SMT
  <2> QED
    BY <1>1, <1>13, <2>1 DEF CarriedInOrder
<1>15. CarriedInOrder'
  <2>1. ASSUME NEW s \in 0..MaxHandovers, NEW i \in 1..Len(carried'[s])
        PROVE  Known(written', carried'[s][i])
    BY <1>11, <1>14
  <2>2. ASSUME NEW s \in 0..MaxHandovers, NEW t \in 0..MaxHandovers,
               NEW i \in 1..Len(carried'[s]), NEW j \in 1..Len(carried'[t]),
               s < t \/ (s = t /\ i < j)
        PROVE  Before(written', carried'[s][i], carried'[t][j])
    <3>1. CASE s = o /\ i = Len(carried[o]) + 1
      <4>1. carried[t] # <<>> => t <= o
        BY <1>4
      <4>2. t > o \/ (t = o /\ j > Len(carried[o]) + 1)
        BY <1>4, <2>2, <3>1
      <4>3. j \in 1..Len(carried[t]) => carried[t] # <<>>
        BY <1>3, SMT
      <4> QED
        BY <1>4, <1>13, <4>1, <4>2, <4>3, SMT
    <3>2. CASE /\ i \in 1..Len(carried[s]) /\ carried'[s][i] = carried[s][i]
               /\ Known(written, carried[s][i])
      <4>1. CASE t = o /\ j = Len(carried[o]) + 1 /\ carried'[t][j] = message
        BY <1>7, <1>11, <3>2, <4>1
      <4>2. CASE /\ j \in 1..Len(carried[t]) /\ carried'[t][j] = carried[t][j]
                 /\ Known(written, carried[t][j])
        BY <1>1, <1>11, <2>2, <3>2, <4>2 DEF CarriedInOrder
      <4> QED
        BY <1>14, <4>1, <4>2
    <3> QED
      BY <1>14, <3>1, <3>2
  <2> QED
    BY <2>1, <2>2 DEF CarriedInOrder
<1>16. ReadBefore'
  <2>1. \A i \in 1..Len(read) : Known(written, read[i][1])
    BY <1>1 DEF ReadBefore
  <2>2. ASSUME NEW i \in 1..Len(read), NEW s \in 0..MaxHandovers, NEW j \in 1..Len(carried'[s]),
               read[i][3] <= s
        PROVE  Before(written', read[i][1], carried'[s][j])
    <3>1. CASE s = o /\ j = Len(carried[o]) + 1 /\ carried'[s][j] = message
      BY <1>11, <2>1, <3>1
    <3>2. CASE /\ j \in 1..Len(carried[s]) /\ carried'[s][j] = carried[s][j]
               /\ Known(written, carried[s][j])
      BY <1>1, <1>11, <2>1, <2>2, <3>2 DEF ReadBefore
    <3> QED
      BY <1>14, <3>1, <3>2
  <2>3. \A i, j \in 1..Len(read) : i < j => Before(written', read[i][1], read[j][1])
    BY <1>1, <1>11, <2>1 DEF ReadBefore
  <2>4. \A i \in 1..Len(read) : Known(written', read[i][1]) /\ read[i][2] = read[i][3]
    BY <1>1, <1>11, <2>1 DEF ReadBefore
  <2>5. read' = read
    BY <1>2
  <2> QED
    BY <2>2, <2>3, <2>4, <2>5 DEF ReadBefore
<1>17. ReaderAhead'
  <2>1. ASSUME reader.step = "check"
        PROVE  /\ Known(written', reader.record)
               /\ \A i \in 1..Len(read) : Before(written', read[i][1], reader.record)
               /\ \A s \in 0..MaxHandovers : \A j \in 1..Len(carried'[s]) :
                    reader.on <= s => Before(written', reader.record, carried'[s][j])
    <3>1. Known(written, reader.record) /\ \A i \in 1..Len(read) : Known(written, read[i][1])
      BY <1>1, <2>1 DEF ReaderAhead, ReadBefore
    <3>2. ASSUME NEW s \in 0..MaxHandovers, NEW j \in 1..Len(carried'[s]), reader.on <= s
          PROVE  Before(written', reader.record, carried'[s][j])
      <4>1. CASE s = o /\ j = Len(carried[o]) + 1 /\ carried'[s][j] = message
        BY <1>7, <1>11, <3>1, <4>1
      <4>2. CASE /\ j \in 1..Len(carried[s]) /\ carried'[s][j] = carried[s][j]
                 /\ Known(written, carried[s][j])
        BY <1>1, <1>11, <2>1, <3>1, <3>2, <4>2 DEF ReaderAhead
      <4> QED
        BY <1>14, <4>1, <4>2
    <3> QED
      BY <1>1, <1>11, <2>1, <3>1, <3>2 DEF ReaderAhead
  <2>2. reader' = reader /\ read' = read /\ primary' = primary
    BY <1>2
  <2> QED
    BY <1>1, <2>1, <2>2 DEF ReaderAhead
<1>18. /\ writer' \in [Writers -> WriterStep] /\ writer'[w].step = "idle"
       /\ \A v \in Writers \ {w} : writer'[v] = writer[v] /\ writer[v].step = "idle"
  BY <1>1, <1>2, <1>3, <1>4 DEF OneWriter, WriterStep
<1>19. WriterAhead' /\ OneWriter'
  <2>1. ASSUME NEW s \in 0..MaxHandovers, carried'[s] # <<>> PROVE s <= primary["writing"].sequence
    <3>1. CASE s = o
      BY <1>1, <1>2, <3>1 DEF o, WriterAhead
    <3>2. CASE s # o
      <4>1. carried'[s] = carried[s]
        BY <1>2, <1>3, <3>2
      <4> QED
        BY <1>1, <2>1, <4>1 DEF WriterAhead
    <3> QED
      BY <3>1, <3>2
  <2>2. \A v \in Writers : writer'[v].step = "idle"
    BY <1>18
  <2> QED
    BY <1>2, <2>1, <2>2, StreamAssumption DEF WriterAhead, OneWriter
<1>20. StreamTypeOK'
  <2>1. sent' \in [Writers -> 0..MaxMessages]
    BY <1>2, <1>3, <1>4, SMTT(30)
  <2>2. written' \in Seq(Messages)
    BY <1>2, <1>3, <1>5, SMT
  <2> QED
    BY <1>1, <1>2, <1>13, <1>18, <2>1, <2>2 DEF StreamTypeOK, WriterStep
<1> QED
  BY <1>10, <1>15, <1>16, <1>17, <1>19, <1>20 DEF OrderInv

\* The reader looks at the stream.
LEMMA LookOrder ==
  ASSUME OrderInv, ReaderLooks
  PROVE  OrderInv'
<1>1. /\ StreamTypeOK /\ OneWriter /\ WrittenOnce /\ CarriedInOrder /\ ReadBefore /\ ReaderAhead
      /\ WriterAhead
  BY DEF OrderInv
<1>2. /\ reader' = [step |-> Snapshot("reading").step, on |-> Snapshot("reading").on,
                    record |-> <<>>]
      /\ UNCHANGED <<primary, begun, negotiating, changed, writeAccess, writer, sent, carried,
                     written, read>>
  BY DEF ReaderLooks
<1>3. changed["reading"] \in Nat /\ primary["reading"].sequence \in Nat
  BY <1>1, StreamAssumption, SMT DEF StreamTypeOK, Sides
<1>4. /\ Snapshot("reading").step \in {"read", "wait"} /\ Snapshot("reading").on \in Nat
      /\ Snapshot("reading").step = "read" => Snapshot("reading").on = primary["reading"].sequence
  BY <1>3 DEF Snapshot
<1>5. StreamTypeOK'
  BY <1>1, <1>2, <1>4, ZenonT(40) DEF StreamTypeOK
<1>6. OneWriter' /\ WrittenOnce' /\ CarriedInOrder' /\ ReadBefore' /\ WriterAhead'
  <2>1. OneWriter' /\ WrittenOnce' /\ WriterAhead'
    BY <1>1, <1>2 DEF OneWriter, WrittenOnce, WriterAhead
  <2>2. CarriedInOrder' /\ ReadBefore'
    BY <1>1, <1>2 DEF CarriedInOrder, ReadBefore
  <2> QED
    BY <2>1, <2>2
<1>7. ReaderAhead'
  <2>1. /\ reader'.step = Snapshot("reading").step /\ reader'.on = Snapshot("reading").on
        /\ primary' = primary /\ read' = read
    BY <1>2
  <2>2. reader'.step # "check"
    BY <1>4, <2>1
  <2>3. \A i \in 1..Len(read) : read[i][3] <= primary["reading"].sequence
    BY <1>1 DEF ReaderAhead
  <2>4. reader'.step = "read" => reader'.on = primary["reading"].sequence
    BY <1>4, <2>1
  <2>5. primary["reading"].sequence <= primary["reading"].sequence
    BY <1>3, SMT
  <2> QED
    BY <2>1, <2>2, <2>3, <2>4, <2>5 DEF ReaderAhead
<1> QED
  BY <1>5, <1>6, <1>7 DEF OrderInv

\* The reader takes a record from a stream.
LEMMA RecordOrder ==
  ASSUME OrderInv, ReadRecord
  PROVE  OrderInv'
<1>1. /\ StreamTypeOK /\ OneWriter /\ WrittenOnce /\ CarriedInOrder /\ ReadBefore /\ ReaderAhead
      /\ WriterAhead
  BY DEF OrderInv
<1> DEFINE o == reader.on
<1>2. /\ reader.step = "read" /\ carried[o] # <<>>
      /\ reader' = [reader EXCEPT !.step = "check", !.record = Head(carried[o])]
      /\ carried' = [carried EXCEPT ![o] = Tail(@)]
      /\ UNCHANGED <<primary, begun, negotiating, changed, writeAccess, writer, sent, written,
                     read>>
  BY DEF ReadRecord
<1>3. /\ carried \in [0..MaxHandovers -> Seq(Messages)] /\ MaxHandovers \in Nat
      /\ reader \in [step : {"snapshot", "read", "check", "wait"}, on : Nat,
                     record : Messages \cup {<<>>}]
      /\ primary["reading"].sequence \in 0..MaxHandovers
  BY <1>1, StreamAssumption DEF StreamTypeOK, Sides
<1>4. o \in 0..MaxHandovers /\ \A i \in 1..Len(read) : read[i][3] <= o
  <2>1. reader.on \in Nat /\ reader.on <= primary["reading"].sequence
    BY <1>1, <1>2, <1>3 DEF ReaderAhead
  <2>2. \A i \in 1..Len(read) : read[i][3] <= reader.on
    BY <1>1, <1>2 DEF ReaderAhead
  <2> QED
    BY <1>3, <2>1, <2>2, SMT
<1>5. reader'.step = "check" /\ reader'.on = o /\ reader'.record = Head(carried[o])
  BY <1>2, <1>3
<1> HIDE DEF o
<1>6. /\ Head(carried[o]) \in Messages /\ Head(carried[o]) = carried[o][1]
      /\ 1 \in 1..Len(carried[o]) /\ Tail(carried[o]) \in Seq(Messages)
      /\ Len(carried[o]) \in Nat /\ Len(Tail(carried[o])) = Len(carried[o]) - 1
      /\ \A i \in 1..(Len(carried[o]) - 1) :
           Tail(carried[o])[i] = carried[o][i + 1] /\ i + 1 \in 1..Len(carried[o])
  BY <1>2, <1>3, <1>4, SMT
<1>7. \A s \in 0..MaxHandovers : carried'[s] = IF s = o THEN Tail(carried[o]) ELSE carried[s]
  BY <1>2, <1>3
<1>8. \A s \in 0..MaxHandovers : \A i \in 1..Len(carried'[s]) :
        \/ s # o /\ i \in 1..Len(carried[s]) /\ carried'[s][i] = carried[s][i]
        \/ s = o /\ i \in Nat /\ i + 1 \in 1..Len(carried[o]) /\ i + 1 > 1
           /\ carried'[s][i] = carried[o][i + 1]
  <2> SUFFICES ASSUME NEW s \in 0..MaxHandovers, NEW i \in 1..Len(carried'[s])
               PROVE  \/ s # o /\ i \in 1..Len(carried[s]) /\ carried'[s][i] = carried[s][i]
                      \/ s = o /\ i \in Nat /\ i + 1 \in 1..Len(carried[o]) /\ i + 1 > 1
                         /\ carried'[s][i] = carried[o][i + 1]
    OBVIOUS
  <2>1. CASE s = o
    <3>1. i \in 1..(Len(carried[o]) - 1) /\ carried'[s] = Tail(carried[o])
      BY <1>6, <1>7, <2>1
    <3>2. i \in Nat /\ i + 1 > 1
      BY <1>6, <3>1, SMT
    <3> QED
      BY <1>6, <2>1, <3>1, <3>2
  <2>2. CASE s # o
    BY <1>7, <2>2
  <2> QED
    BY <2>1, <2>2
<1>9. StreamTypeOK'
  <2>1. carried' \in [0..MaxHandovers -> Seq(Messages)]
    BY <1>2, <1>3, <1>4, <1>6
  <2>2. reader' \in [step : {"snapshot", "read", "check", "wait"}, on : Nat,
                     record : Messages \cup {<<>>}]
    BY <1>2, <1>3, <1>6
  <2> QED
    BY <1>1, <1>2, <2>1, <2>2 DEF StreamTypeOK
<1>10. OneWriter' /\ WrittenOnce'
  BY <1>1, <1>2 DEF OneWriter, WrittenOnce
<1>12. CarriedInOrder'
  <2>1. ASSUME NEW s \in 0..MaxHandovers, NEW i \in 1..Len(carried'[s])
        PROVE  Known(written, carried'[s][i])
    BY <1>1, <1>4, <1>8 DEF CarriedInOrder
  <2>2. ASSUME NEW s \in 0..MaxHandovers, NEW t \in 0..MaxHandovers,
               NEW i \in 1..Len(carried'[s]), NEW j \in 1..Len(carried'[t]),
               s < t \/ (s = t /\ i < j)
        PROVE  Before(written, carried'[s][i], carried'[t][j])
    <3>1. PICK k \in 1..Len(carried[s]) : /\ carried'[s][i] = carried[s][k]
                                         /\ k = IF s = o THEN i + 1 ELSE i
      BY <1>8
    <3>2. PICK l \in 1..Len(carried[t]) : /\ carried'[t][j] = carried[t][l]
                                         /\ l = IF t = o THEN j + 1 ELSE j
      BY <1>8
    <3>3. s < t \/ (s = t /\ k < l)
      BY <2>2, <3>1, <3>2, SMT
    <3> QED
      BY <1>1, <3>1, <3>2, <3>3 DEF CarriedInOrder
  <2> QED
    BY <1>2, <2>1, <2>2 DEF CarriedInOrder
<1>13. ReadBefore'
  <2>1. ASSUME NEW i \in 1..Len(read), NEW s \in 0..MaxHandovers, NEW j \in 1..Len(carried'[s]),
               read[i][3] <= s
        PROVE  Before(written, read[i][1], carried'[s][j])
    BY <1>1, <1>4, <1>8, <2>1 DEF ReadBefore
  <2> QED
    BY <1>1, <1>2, <2>1 DEF ReadBefore
<1>14. ReaderAhead'
  <2>1. Known(written, carried[o][1]) /\ \A i \in 1..Len(read) : Before(written, read[i][1], carried[o][1])
    BY <1>1, <1>4, <1>6 DEF CarriedInOrder, ReadBefore
  <2>2. ASSUME NEW s \in 0..MaxHandovers, NEW j \in 1..Len(carried'[s]), o <= s
        PROVE  Before(written, carried[o][1], carried'[s][j])
    <3>1. CASE s # o
      <4>1. o < s /\ j \in 1..Len(carried[s]) /\ carried'[s][j] = carried[s][j]
        BY <1>4, <1>8, <2>2, <3>1, SMT
      <4> QED
        BY <1>1, <1>4, <1>6, <4>1 DEF CarriedInOrder
    <3>2. CASE s = o
      <4>1. j + 1 \in 1..Len(carried[o]) /\ 1 < j + 1 /\ carried'[s][j] = carried[o][j + 1]
        BY <1>8, <3>2
      <4> QED
        BY <1>1, <1>4, <1>6, <4>1 DEF CarriedInOrder
    <3> QED
      BY <3>1, <3>2
  <2>3. o <= primary["reading"].sequence
    BY <1>1, <1>2 DEF ReaderAhead, o
  <2>4. reader'.record = carried[o][1]
    BY <1>5, <1>6
  <2>5. \A i \in 1..Len(read') : read'[i][3] <= primary'["reading"].sequence
    BY <1>1, <1>2 DEF ReaderAhead
  <2> QED
    BY <1>2, <1>4, <1>5, <2>1, <2>2, <2>3, <2>4, <2>5 DEF ReaderAhead
<1>15. WriterAhead'
  <2>1. \A s \in 0..MaxHandovers : carried'[s] # <<>> => carried[s] # <<>>
    BY <1>2, <1>7
  <2> QED
    BY <1>1, <1>2, <2>1 DEF WriterAhead
<1> QED
  BY <1>9, <1>10, <1>12, <1>13, <1>14, <1>15 DEF OrderInv

\* The reader returns its record, or drops it.
LEMMA CheckOrder ==
  ASSUME OrderInv, CheckCurrent
  PROVE  OrderInv'
<1>1. /\ StreamTypeOK /\ OneWriter /\ WrittenOnce /\ CarriedInOrder /\ ReadBefore /\ ReaderAhead
      /\ WriterAhead
  BY DEF OrderInv
<1> DEFINE current == primary["reading"] = [sequence |-> reader.on, handover |-> 0]
           entry == <<reader.record, primary["reading"].sequence, reader.on>>
<1>2. /\ reader.step = "check" /\ read' = IF current THEN Append(read, entry) ELSE read
      /\ reader' = [step |-> "snapshot", on |-> 0, record |-> <<>>]
      /\ UNCHANGED <<primary, begun, negotiating, changed, writeAccess, writer, sent, carried,
                     written>>
  BY DEF CheckCurrent
<1>3. /\ read \in Seq(Messages \X Nat \X Nat) /\ written \in Seq(Messages)
      /\ reader.on \in Nat /\ primary["reading"].sequence \in Nat
  BY <1>1, StreamAssumption, SMT DEF StreamTypeOK, Sides
<1>4. reader'.step = "snapshot"
  BY <1>2
<1>5. OneWriter' /\ WrittenOnce' /\ CarriedInOrder' /\ WriterAhead'
  BY <1>1, <1>2 DEF OneWriter, WrittenOnce, CarriedInOrder, WriterAhead
<1>6. reader' \in [step : {"snapshot", "read", "check", "wait"}, on : Nat,
                   record : Messages \cup {<<>>}]
  BY <1>2
<1>7. CASE ~current
  <2>1. read' = read
    BY <1>2, <1>7
  <2>2. StreamTypeOK'
    BY <1>1, <1>2, <1>6, <2>1 DEF StreamTypeOK
  <2>3. ReadBefore' /\ ReaderAhead'
    BY <1>1, <1>2, <1>4, <2>1 DEF ReadBefore, ReaderAhead
  <2> QED
    BY <1>5, <2>2, <2>3 DEF OrderInv
<1>8. CASE current
  <2>1. primary["reading"].sequence = reader.on
    BY <1>8, SMT
  <2>2. Known(written, reader.record) /\ reader.record \in Messages
    <3>1. Known(written, reader.record)
      BY <1>1, <1>2 DEF ReaderAhead
    <3> QED
      BY <1>3, <3>1, SMT DEF Known
  <2>3. /\ entry \in Messages \X Nat \X Nat /\ entry[1] = reader.record /\ entry[2] = entry[3]
        /\ entry[3] = reader.on
    BY <1>3, <2>1, <2>2
  <2>4. read' = Append(read, entry)
    BY <1>2, <1>8
  <2> HIDE DEF entry, current
  <2> DEFINE n == Len(read)
  <2>5. /\ n \in Nat /\ Len(read') = n + 1 /\ read'[n + 1] = entry
        /\ \A i \in 1..n : read'[i] = read[i]
        /\ read' \in Seq(Messages \X Nat \X Nat)
    BY <1>3, <2>3, <2>4, SMT
  <2>6. \A i \in 1..(n + 1) : (i \in 1..n /\ read'[i] = read[i]) \/ (i = n + 1 /\ read'[i] = entry)
    BY <2>5, SMTT(30)
  <2>7. /\ \A i \in 1..n : /\ Known(written, read[i][1]) /\ read[i][2] = read[i][3]
                           /\ Before(written, read[i][1], reader.record)
                           /\ read[i][3] <= primary["reading"].sequence
        /\ \A i, j \in 1..n : i < j => Before(written, read[i][1], read[j][1])
        /\ \A i \in 1..n : \A s \in 0..MaxHandovers : \A j \in 1..Len(carried[s]) :
             read[i][3] <= s => Before(written, read[i][1], carried[s][j])
        /\ \A s \in 0..MaxHandovers : \A j \in 1..Len(carried[s]) :
             reader.on <= s => Before(written, reader.record, carried[s][j])
    BY <1>1, <1>2 DEF ReadBefore, ReaderAhead
  <2>8. StreamTypeOK'
    BY <1>1, <1>2, <1>6, <2>5 DEF StreamTypeOK
  <2> HIDE DEF n
  <2>9. \A i \in 1..(n + 1) : Known(written, read'[i][1]) /\ read'[i][2] = read'[i][3]
    BY <2>2, <2>3, <2>6, <2>7
  <2>10. ASSUME NEW i \in 1..(n + 1), NEW j \in 1..(n + 1), i < j
         PROVE  Before(written, read'[i][1], read'[j][1])
    <3>1. i \in 1..n /\ read'[i] = read[i]
      BY <2>5, <2>6, <2>10, SMT
    <3> QED
      BY <2>3, <2>6, <2>7, <2>10, <3>1
  <2>11. ASSUME NEW i \in 1..(n + 1), NEW s \in 0..MaxHandovers, NEW j \in 1..Len(carried[s]),
                read'[i][3] <= s
         PROVE  Before(written, read'[i][1], carried[s][j])
    BY <2>3, <2>6, <2>7, <2>11
  <2>12. ReadBefore'
    BY <1>2, <2>5, <2>9, <2>10, <2>11 DEF ReadBefore
  <2>13. ReaderAhead'
    <3>1. ASSUME NEW i \in 1..(n + 1) PROVE read'[i][3] <= primary["reading"].sequence
      <4>1. CASE i \in 1..n /\ read'[i] = read[i]
        BY <2>7, <4>1
      <4>2. CASE read'[i] = entry
        BY <1>3, <2>1, <2>3, <4>2, SMT
      <4> QED
        BY <2>6, <4>1, <4>2
    <3> QED
      BY <1>2, <1>4, <2>5, <3>1 DEF ReaderAhead
  <2> QED
    BY <1>5, <2>8, <2>12, <2>13 DEF OrderInv
<1> QED
  BY <1>7, <1>8

\* The invariant holds in every state.
THEOREM OrderInvariance == StreamSpec => []OrderInv
<1>1. OrderInv /\ [StreamNext]_streamVars => OrderInv'
  <2> SUFFICES ASSUME OrderInv, [StreamNext]_streamVars PROVE OrderInv'
    OBVIOUS
  <2>1. CASE UNCHANGED streamVars
    BY <2>1 DEF streamVars, OrderInv, StreamTypeOK, OneWriter, WrittenOnce, CarriedInOrder,
                ReadBefore, ReaderAhead, WriterAhead
  <2>2. ASSUME NEW w \in Writers,
               Lock(w) \/ WriterLooks(w) \/ Write(w) \/ WriterWakes(w) \/ WriterTimesOut(w)
        PROVE  OrderInv'
    BY <2>2, WaitOrder, WriteOrder
  <2> QED
    BY <2>1, <2>2, ResetOrder, LookOrder, RecordOrder, CheckOrder DEF StreamNext
<1> QED
  BY <1>1, OrderInit, PTL DEF StreamSpec

\* writeControlChannelPayload and readControlChannelRecord: control messages are read in the
\* order they were written, for any number of writers, messages and handovers.
THEOREM AlwaysReadInOrder == StreamSpec => []ReadInOrder
<1>1. OrderInv => ReadInOrder
  <2> SUFFICES ASSUME OrderInv PROVE ReadInOrder
    OBVIOUS
  <2>1. StreamTypeOK /\ OneWriter /\ WrittenOnce /\ ReadBefore
    BY DEF OrderInv
  <2>2. ASSUME NEW i \in 1..Len(read), NEW j \in 1..Len(read), i < j
        PROVE  Position(read[i][1]) < Position(read[j][1])
    <3>1. PICK k \in 1..Len(written) : written[k] = read[i][1]
      BY <2>1 DEF ReadBefore, Known
    <3>2. PICK l \in 1..Len(written) : written[l] = read[j][1]
      BY <2>1 DEF ReadBefore, Known
    <3>3. Position(read[i][1]) = k /\ Position(read[j][1]) = l
      BY <2>1, <3>1, <3>2, PositionIs
    <3>4. k < l
      BY <2>1, <2>2, <3>1, <3>2 DEF ReadBefore, Before
    <3> QED
      BY <3>3, <3>4
  <2> QED
    BY <2>1, <2>2 DEF ReadInOrder, ReadBefore
<1> QED
  BY <1>1, OrderInvariance, PTL

=============================================================================
