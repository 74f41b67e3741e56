--------------------------- MODULE PacketIDProofs ----------------------------
(***************************************************************************)
(* What the sender of packets promises: PacketIDOnce, OneResetAtATime and  *)
(* BudgetOwnTraffic of RenegotiationBudget for every limit of the budget,  *)
(* every id space, any sizes of packets and of batches and any number of   *)
(* keys, and FreshAccepted of LongFormIDs for every window, every width of *)
(* the ids, any number of packets, sessions and seconds.  And what a       *)
(* static key tunnel promises, which has nothing but those ids to go by:   *)
(* NothingLeftBehind of StaticKey for every role, any number of sessions   *)
(* and queues of any capacity.                                             *)
(*                                                                         *)
(* The writer holds ids of a key that may be an older one by now.  What    *)
(* makes them safe is that they are below the next id of their key and     *)
(* above all ids that were sent with it.  A budget is for a key that was   *)
(* promoted, and counts no more than came and went with it.  Long-form     *)
(* packets are sent in the order of their timestamps and ids, and the      *)
(* receiver's window stands at a packet that arrived.  Only the session    *)
(* the static key supervisor runs can have a connection, and Close waits   *)
(* for the supervisor.                                                     *)
(***************************************************************************)
EXTENDS RenegotiationBudget, LongFormIDs, StaticKey, FiniteSetTheorems, TLAPS

\* The prover of a leaf that names none.
USE Zenon

Reset == [step : {"negotiating", "promoted", "done"}, key : Keys]

TypeInv ==
  /\ sendKey \in Keys /\ noting \subseteq Keys
  /\ nextID \in [Keys -> Nat \ {0}]
  /\ inProgress \in BOOLEAN /\ resets \in Seq(Reset)
  /\ sent \in Seq(Keys \X Nat)

\* The flag and the list of soft resets agree.
FlagInv == (inProgress => Len(resets) = 1) /\ (~inProgress => resets = <<>>)

Holding == writer.step \in {"account", "request"}

WriterInv ==
  /\ writer.step \in {"idle", "number", "account", "request"}
  /\ writer.step = "number" => writer.key \in Keys /\ writer.count \in Nat \ {0}
  /\ Holding => /\ writer = [step |-> writer.step, key |-> writer.key, ids |-> writer.ids]
                /\ writer.key \in Keys /\ writer.ids \in Seq(Nat) /\ writer.ids # <<>>

\* Ids that were sent are below the next one.
SentInv == \A i \in 1..Len(sent) : sent[i][2] < nextID[sent[i][1]]

\* Ids in hand ascend, and are below the next one.
HandInv ==
  Holding =>
    /\ \A i \in 1..Len(writer.ids) : writer.ids[i] < nextID[writer.key]
    /\ \A i, j \in 1..Len(writer.ids) : i < j => writer.ids[i] < writer.ids[j]

\* All of them are to come, except that a writer which asks for a soft reset has
\* accounted for the first.
FreshInv ==
  Holding =>
    \A i \in 1..Len(sent) : sent[i][1] = writer.key =>
      IF writer.step = "account" THEN sent[i][2] < writer.ids[1] ELSE sent[i][2] <= writer.ids[1]

OnceInv == \A i, j \in 1..Len(sent) : i # j => sent[i] # sent[j]

IInv == TypeInv /\ FlagInv /\ WriterInv /\ SentInv /\ HandInv /\ FreshInv /\ OnceInv

\* The numbers among the constants.
LEMMA Numbers == MaxUint32 \in Nat /\ MaxKey \in Nat /\ Batches \subseteq Nat \ {0}
  BY BudgetAssumption

\* The remainder of a number below the divisor.
LEMMA SmallRemainder ==
  ASSUME NEW a \in Nat, NEW m \in Nat, a < m
  PROVE  a % m = a
  BY SMT

\* The initial state: nothing was sent and no soft reset runs.
LEMMA InitInv == Init => IInv
<1> SUFFICES ASSUME Init PROVE IInv
  OBVIOUS
<1>1. TypeInv /\ FlagInv
  <2>1. 0 \in Keys
    BY Numbers, SMT DEF Keys
  <2>2. inProgress = FALSE /\ resets = <<>> /\ sent = <<>> /\ noting = {} /\ sendKey = 0
    BY DEF Init
  <2>3. nextID \in [Keys -> Nat \ {0}]
    BY SMT DEF Init
  <2>4. resets \in Seq(Reset) /\ sent \in Seq(Keys \X Nat)
    BY <2>2, SMT
  <2>5. inProgress \in BOOLEAN /\ ~inProgress
    BY <2>2
  <2> QED
    BY <2>1, <2>2, <2>3, <2>4, <2>5 DEF TypeInv, FlagInv
<1>2. WriterInv /\ HandInv /\ FreshInv /\ SentInv /\ OnceInv
  BY SMT DEF Init, WriterInv, HandInv, FreshInv, SentInv, OnceInv, Holding, Idle
<1> QED
  BY <1>1, <1>2 DEF IInv

\* The part of the invariant that concerns the packets and the part that concerns
\* the soft resets do not touch each other.
WriterVars == <<nextID, writer, sent>>
ResetVars == <<inProgress, resets>>
KeyVars == <<sendKey, noting>>

ResetPart == resets \in Seq(Reset) /\ inProgress \in BOOLEAN /\ FlagInv
KeyPart == sendKey \in Keys /\ noting \subseteq Keys
PacketPart ==
  /\ nextID \in [Keys -> Nat \ {0}] /\ sent \in Seq(Keys \X Nat)
  /\ WriterInv /\ SentInv /\ HandInv /\ FreshInv /\ OnceInv

\* The invariant is made of these parts.
LEMMA Parts ==
  /\ IInv => ResetPart /\ KeyPart /\ PacketPart
  /\ ResetPart' /\ KeyPart' /\ PacketPart' => IInv'
  BY DEF IInv, TypeInv, ResetPart, KeyPart, PacketPart

\* Steps that leave the flag and the soft resets alone.
LEMMA ResetsUntouched == ResetPart /\ UNCHANGED ResetVars => ResetPart'
  BY SMT DEF ResetPart, ResetVars, FlagInv

\* Steps that leave the writer and its packets alone.
LEMMA PacketsUntouched == PacketPart /\ UNCHANGED WriterVars => PacketPart'
  BY DEF PacketPart, WriterVars, WriterInv, SentInv, HandInv, FreshInv, OnceInv, Holding

\* requestSoftReset starts a soft reset when none is in progress.
LEMMA RequestPart == ASSUME ResetPart, RequestSoftReset PROVE ResetPart'
<1>1. CASE inProgress
  BY <1>1, ResetsUntouched DEF RequestSoftReset, ResetVars
<1>2. CASE ~inProgress
  <2>1. Negotiating \in Reset
    BY Numbers, SMT DEF Negotiating, Reset, Keys
  <2> HIDE DEF Negotiating
  <2>2. inProgress' = TRUE /\ resets' = Append(resets, Negotiating)
    BY <1>2 DEF RequestSoftReset
  <2> QED
    BY <1>2, <2>1, <2>2, SMT DEF ResetPart, FlagInv
<1> QED
  BY <1>1, <1>2

\* A soft reset goes on: the list keeps its length.
LEMMA ProgressPart ==
  ASSUME ResetPart, KeyPart,
         \/ \E i \in DOMAIN resets : Promoted(i) \/ Failed(i)
         \/ NoteRenegotiated
  PROVE  ResetPart'
<1>1. /\ resets \in Seq(Reset) /\ Len(resets) \in Nat /\ DOMAIN resets = 1..Len(resets)
      /\ \A i \in 1..Len(resets) : resets[i] \in Reset
  BY SMT DEF ResetPart
<1>2. /\ DOMAIN resets' = DOMAIN resets /\ UNCHANGED inProgress
      /\ \A i \in DOMAIN resets : resets'[i] \in Reset
      /\ resets' = [i \in DOMAIN resets |-> resets'[i]]
  <2>1. CASE \E i \in DOMAIN resets : Promoted(i)
    <3>1. PICK i \in DOMAIN resets : Promoted(i)
      BY <2>1
    <3>2. [step |-> "promoted", key |-> sendKey + 1] \in Reset
      BY <3>1, Numbers, SMT DEF KeyPart, Promoted, Reset, Keys
    <3> QED
      BY <1>1, <3>1, <3>2 DEF Promoted
  <2>2. CASE \E i \in DOMAIN resets : Failed(i)
    <3>1. PICK i \in DOMAIN resets : Failed(i)
      BY <2>2
    <3>2. [resets[i] EXCEPT !.step = "done"] \in Reset
      BY <1>1, <3>1 DEF Reset
    <3> QED
      BY <1>1, <3>1, <3>2 DEF Failed
  <2>3. CASE NoteRenegotiated
    BY <1>1, <2>3, SMT DEF NoteRenegotiated, Reset
  <2> QED
    BY <2>1, <2>2, <2>3
<1>3. resets' \in Seq(Reset) /\ Len(resets') = Len(resets)
  BY <1>1, <1>2, SMT
<1> QED
  BY <1>1, <1>2, <1>3, SMT DEF ResetPart, FlagInv

\* The soft reset that returns is the only one.
LEMMA ReturnPart == ASSUME ResetPart, ResetReturns PROVE ResetPart'
<1>1. PICK i \in DOMAIN resets :
        resets' = SubSeq(resets, 1, i - 1) \o SubSeq(resets, i + 1, Len(resets))
  BY DEF ResetReturns
<1>2. Len(resets) = 1 /\ i = 1
  BY <1>1, SMT DEF ResetPart, FlagInv
<1>3. SubSeq(resets, 1, 0) = <<>> /\ SubSeq(resets, 2, 1) = <<>>
  BY <1>2, SMT DEF ResetPart
<1>4. resets' = <<>>
  BY <1>1, <1>2, <1>3, SMT
<1>5. inProgress' = FALSE
  BY DEF ResetReturns
<1>6. inProgress' \in BOOLEAN /\ ~inProgress'
  BY <1>5
<1> QED
  BY <1>4, <1>6, SMT DEF ResetPart, FlagInv

\* NewDataPacketIDs: the ids of the batch begin at the next one of the key, which
\* does not wrap around.
LEMMA NumberPart == ASSUME PacketPart, NewDataPacketIDs PROVE PacketPart'
<1> DEFINE key == writer.key
           count == writer.count
           first == nextID[key]
           batch == [i \in 1..count |-> first + i - 1]
<1>1. writer.step = "number" /\ key \in Keys /\ count \in Nat \ {0} /\ first \in Nat \ {0}
  BY DEF PacketPart, WriterInv, NewDataPacketIDs
<1>2. CASE count > MaxUint32 - first
  <2>1. writer'.step = "idle" /\ UNCHANGED <<nextID, sent>>
    BY <1>2, SMT DEF NewDataPacketIDs, Idle
  <2> QED
    BY <2>1 DEF PacketPart, WriterInv, SentInv, HandInv, FreshInv, OnceInv, Holding
<1>3. CASE ~(count > MaxUint32 - first)
  <2>1. (first + count) % (MaxUint32 + 1) = first + count
    <3> HIDE DEF first, count, key
    <3>1. first + count \in Nat /\ MaxUint32 + 1 \in Nat /\ first + count < MaxUint32 + 1
      BY <1>1, <1>3, Numbers, SMT
    <3> QED
      BY <3>1, SmallRemainder
  <2>2. /\ nextID' = [nextID EXCEPT ![key] = first + count]
        /\ writer' = [step |-> "account", key |-> key, ids |-> batch]
        /\ UNCHANGED sent
    BY <1>3, <2>1 DEF NewDataPacketIDs
  <2>3. /\ batch \in Seq(Nat) /\ Len(batch) = count /\ batch # <<>>
        /\ \A i \in 1..count : batch[i] = first + i - 1
    <3> HIDE DEF first, count, key
    <3>1. \A i \in 1..count : first + i - 1 \in Nat
      BY <1>1, SMT
    <3> QED
      BY <1>1, <3>1, SMT
  <2> HIDE DEF batch
  <2>4. /\ writer'.step = "account" /\ writer'.key = key /\ writer'.ids = batch
        /\ nextID' \in [Keys -> Nat \ {0}] /\ nextID'[key] = first + count
        /\ \A k \in Keys : nextID'[k] >= nextID[k]
    BY <1>1, <2>2, SMT DEF PacketPart
  <2> HIDE DEF key, count, first
  <2>5. WriterInv'
    BY <1>1, <2>2, <2>3, <2>4 DEF WriterInv, Holding
  <2>6. HandInv'
    <3>1. /\ \A i \in 1..count : batch[i] < first + count
          /\ \A i, j \in 1..count : i < j => batch[i] < batch[j]
      BY <1>1, <2>3, SMT
    <3> QED
      BY <2>3, <2>4, <3>1 DEF HandInv
  <2>7. sent' = sent /\ \A i \in 1..Len(sent) : /\ sent[i][1] \in Keys /\ sent[i][2] \in Nat
                                               /\ sent[i][2] < nextID[sent[i][1]]
    BY <2>2, SMT DEF PacketPart, SentInv
  <2>8. SentInv'
    <3> SUFFICES ASSUME NEW i \in 1..Len(sent) PROVE sent[i][2] < nextID'[sent[i][1]]
      BY <2>7 DEF SentInv
    <3>1. /\ sent[i][1] \in Keys /\ sent[i][2] \in Nat /\ sent[i][2] < nextID[sent[i][1]]
          /\ nextID[sent[i][1]] \in Nat /\ nextID'[sent[i][1]] \in Nat
          /\ nextID'[sent[i][1]] >= nextID[sent[i][1]]
      BY <2>4, <2>7 DEF PacketPart
    <3> QED
      BY <3>1, SMT
  <2>9. FreshInv'
    <3>1. batch[1] = nextID[key]
      BY <1>1, <2>3, SMT DEF first
    <3> QED
      BY <2>4, <2>7, <3>1 DEF FreshInv, Holding
  <2> QED
    BY <2>4, <2>5, <2>6, <2>7, <2>8, <2>9 DEF PacketPart, OnceInv
<1> QED
  BY <1>1, <1>2, <1>3

\* What is left of ids in hand when the first is gone.
LEMMA TailAscends ==
  ASSUME NEW s \in Seq(Nat), Len(s) > 1, NEW n \in Nat,
         \A i \in 1..Len(s) : s[i] < n,
         \A i, j \in 1..Len(s) : i < j => s[i] < s[j]
  PROVE  /\ Tail(s) \in Seq(Nat) /\ Tail(s) # <<>>
         /\ \A i \in 1..Len(Tail(s)) : Tail(s)[i] < n
         /\ \A i, j \in 1..Len(Tail(s)) : i < j => Tail(s)[i] < Tail(s)[j]
         /\ s[1] < Tail(s)[1] /\ s[1] \in Nat /\ Tail(s)[1] \in Nat
<1> DEFINE t == Tail(s)
<1>1. /\ s # <<>> /\ Len(s) \in Nat
      /\ t \in Seq(Nat) /\ Len(t) = Len(s) - 1
      /\ \A i \in 1..Len(t) : t[i] = s[i + 1]
  BY SMT
<1> HIDE DEF t
<1>2. \A i \in 1..Len(t) : i + 1 \in 1..Len(s)
  BY <1>1, SMT
<1>3. t # <<>> /\ 1 \in 1..Len(t) /\ 1 \in 1..Len(s)
  BY <1>1, SMT
<1>4. \A i \in 1..Len(t) : t[i] < n
  BY <1>1, <1>2
<1>5. \A i, j \in 1..Len(t) : i < j => t[i] < t[j]
  <2> TAKE i, j \in 1..Len(t)
  <2> HAVE i < j
  <2>1. t[i] = s[i + 1] /\ t[j] = s[j + 1]
    BY <1>1
  <2>2. i + 1 \in 1..Len(s) /\ j + 1 \in 1..Len(s)
    BY <1>2
  <2>3. i + 1 < j + 1
    BY SMT
  <2> QED
    BY <2>1, <2>2, <2>3
<1>6. s[1] < t[1] /\ s[1] \in Nat /\ t[1] \in Nat
  <2>1. t[1] = s[2] /\ 1 \in 1..Len(s) /\ 2 \in 1..Len(s)
    BY <1>1, <1>3, SMT
  <2>2. s[1] \in Nat /\ s[2] \in Nat
    BY <2>1, SMT
  <2>3. s[1] < s[2]
    BY <2>1, SMT
  <2> QED
    BY <2>1, <2>2, <2>3
<1> QED
  BY <1>1, <1>3, <1>4, <1>5, <1>6 DEF t

\* ConsumeOutbound: the first id in hand is sent, and the others stay in hand.
LEMMA AccountPart == ASSUME PacketPart, ConsumeOutbound PROVE PacketPart'
<1> DEFINE key == writer.key
           ids == writer.ids
           p == <<key, Head(ids)>>
<1>1. /\ writer.step = "account" /\ Holding
      /\ writer = [step |-> "account", key |-> key, ids |-> ids]
      /\ key \in Keys /\ ids \in Seq(Nat) /\ ids # <<>>
  BY DEF PacketPart, WriterInv, ConsumeOutbound, Holding
<1>2. /\ UNCHANGED nextID /\ sent' = Append(sent, p)
      /\ \/ writer' = [writer EXCEPT !.step = "request"]
         \/ writer' = Idle /\ Len(ids) = 1
         \/ writer' = [writer EXCEPT !.ids = Tail(@)] /\ Len(ids) # 1
  BY DEF ConsumeOutbound
<1>3. /\ Len(ids) \in Nat \ {0} /\ Head(ids) = ids[1] /\ \A i \in 1..Len(ids) : ids[i] \in Nat
      /\ p \in Keys \X Nat /\ p[1] = key /\ p[2] = ids[1]
  BY <1>1, SMT
<1>4. /\ sent \in Seq(Keys \X Nat) /\ sent' \in Seq(Keys \X Nat) /\ Len(sent) \in Nat
      /\ Len(sent') = Len(sent) + 1 /\ sent'[Len(sent) + 1] = p
      /\ \A i \in 1..Len(sent) : sent'[i] = sent[i] /\ sent[i] \in Keys \X Nat
  BY <1>2, <1>3, SMT DEF PacketPart
<1>5. \A i \in 1..Len(ids) : ids[i] < nextID[key]
  BY <1>1 DEF PacketPart, HandInv
<1>6. \A i, j \in 1..Len(ids) : i < j => ids[i] < ids[j]
  BY <1>1 DEF PacketPart, HandInv
<1>7. \A i \in 1..Len(sent) : sent[i][1] = key => sent[i][2] < ids[1]
  BY <1>1 DEF PacketPart, FreshInv
<1>8. \/ writer' = [step |-> "request", key |-> key, ids |-> ids]
      \/ writer'.step = "idle"
      \/ writer' = [step |-> "account", key |-> key, ids |-> Tail(ids)] /\ Len(ids) > 1
  <2>1. CASE writer' = [writer EXCEPT !.step = "request"]
    BY <1>1, <2>1
  <2>2. CASE writer' = Idle
    BY <2>2 DEF Idle
  <2>3. CASE writer' = [writer EXCEPT !.ids = Tail(@)] /\ Len(ids) # 1
    <3>1. Len(ids) > 1
      <4> DEFINE n == Len(ids)
      <4>1. n # 1 /\ n \in Nat /\ n # 0
        BY <1>3, <2>3
      <4> HIDE DEF n
      <4>2. n > 1
        BY <4>1, SMT
      <4> QED
        BY <4>2 DEF n
    <3>2. writer' = [step |-> "account", key |-> key, ids |-> Tail(ids)]
      BY <1>1, <2>3
    <3> QED
      BY <3>1, <3>2
  <2> QED
    BY <1>2, <2>1, <2>2, <2>3
<1> HIDE DEF p, key, ids
<1>9. SentInv'
  <2> SUFFICES ASSUME NEW i \in 1..Len(sent') PROVE sent'[i][2] < nextID[sent'[i][1]]
    BY <1>2 DEF SentInv
  <2>1. CASE i \in 1..Len(sent)
    BY <2>1, <1>4 DEF PacketPart, SentInv
  <2>2. CASE i = Len(sent) + 1
    <3>1. sent'[i] = p
      BY <2>2, <1>4
    <3>2. p[1] = key /\ p[2] = ids[1] /\ ids[1] < nextID[key]
      BY <1>3, <1>5, SMT
    <3> QED
      BY <3>1, <3>2
  <2> QED
    BY <1>4, <2>1, <2>2, SMT
<1>10. OnceInv'
  <2>1. \A i \in 1..Len(sent) : sent[i] # p
    <3> SUFFICES ASSUME NEW i \in 1..Len(sent), sent[i] = p PROVE FALSE
      OBVIOUS
    <3>1. ids[1] < ids[1] /\ ids[1] \in Nat
      BY <1>3, <1>7
    <3> QED
      BY <3>1, SMT
  <2>2. \A i, j \in 1..Len(sent) : i # j => sent[i] # sent[j]
    BY DEF PacketPart, OnceInv
  <2> SUFFICES ASSUME NEW i \in 1..Len(sent'), NEW j \in 1..Len(sent'), i # j
               PROVE  sent'[i] # sent'[j]
    BY DEF OnceInv
  <2>3. Len(sent) \in Nat /\ Len(sent') = Len(sent) + 1
    BY <1>4
  <2>4. /\ i \in 1..Len(sent) \/ i = Len(sent) + 1
        /\ j \in 1..Len(sent) \/ j = Len(sent) + 1
    BY <2>3, SMT
  <2>5. \A k \in 1..Len(sent) : sent'[k] = sent[k]
    BY <1>4
  <2>6. sent'[Len(sent) + 1] = p
    BY <1>4
  <2>7. CASE i \in 1..Len(sent) /\ j \in 1..Len(sent)
    BY <2>2, <2>5, <2>7
  <2>8. CASE i \in 1..Len(sent) /\ j = Len(sent) + 1
    BY <2>1, <2>5, <2>6, <2>8
  <2>9. CASE i = Len(sent) + 1 /\ j \in 1..Len(sent)
    BY <2>1, <2>5, <2>6, <2>9
  <2> QED
    BY <2>4, <2>7, <2>8, <2>9
<1>11. \A i \in 1..Len(sent') : sent'[i][1] = key => sent'[i][2] <= ids[1]
  <2> SUFFICES ASSUME NEW i \in 1..Len(sent'), sent'[i][1] = key PROVE sent'[i][2] <= ids[1]
    OBVIOUS
  <2>1. CASE i \in 1..Len(sent)
    <3>1. sent'[i] = sent[i] /\ sent[i][2] \in Nat /\ sent[i][2] < ids[1] /\ ids[1] \in Nat
      BY <2>1, <1>3, <1>4, <1>7
    <3> QED
      BY <3>1, SMT
  <2>2. CASE i = Len(sent) + 1
    BY <2>2, <1>3, <1>4, SMT
  <2> QED
    BY <1>4, <2>1, <2>2, SMT
<1>12. WriterInv' /\ HandInv' /\ FreshInv'
  <2>1. CASE writer' = [step |-> "request", key |-> key, ids |-> ids]
    <3>1. writer'.step = "request" /\ writer'.key = key /\ writer'.ids = ids
      BY <2>1
    <3>2. WriterInv'
      BY <2>1, <3>1, <1>1 DEF WriterInv, Holding
    <3>3. HandInv'
      BY <3>1, <1>2, <1>5, <1>6 DEF HandInv
    <3>4. FreshInv'
      BY <3>1, <1>11 DEF FreshInv
    <3> QED
      BY <3>2, <3>3, <3>4
  <2>2. CASE writer'.step = "idle"
    BY <2>2 DEF WriterInv, HandInv, FreshInv, Holding
  <2>3. CASE writer' = [step |-> "account", key |-> key, ids |-> Tail(ids)] /\ Len(ids) > 1
    <3> DEFINE rest == Tail(ids)
    <3>0. writer' = [step |-> "account", key |-> key, ids |-> rest]
      BY <2>3
    <3>1. writer'.step = "account" /\ writer'.key = key /\ writer'.ids = rest
      BY <2>3
    <3>2. nextID[key] \in Nat
      BY <1>1 DEF PacketPart
    <3>3. /\ rest \in Seq(Nat) /\ rest # <<>>
          /\ \A i \in 1..Len(rest) : rest[i] < nextID[key]
          /\ \A i, j \in 1..Len(rest) : i < j => rest[i] < rest[j]
          /\ ids[1] < rest[1] /\ ids[1] \in Nat /\ rest[1] \in Nat
      BY <2>3, <3>2, <1>1, <1>5, <1>6, TailAscends
    <3> HIDE DEF rest
    <3>4. WriterInv'
      BY <3>0, <3>1, <3>3, <1>1 DEF WriterInv, Holding
    <3>5. HandInv'
      BY <3>1, <3>3, <1>2 DEF HandInv
    <3>6. \A i \in 1..Len(sent') : sent'[i][1] = key =>
            sent'[i][2] \in Nat /\ sent'[i][2] < rest[1]
      <4> SUFFICES ASSUME NEW i \in 1..Len(sent'), sent'[i][1] = key
                   PROVE  sent'[i][2] \in Nat /\ sent'[i][2] < rest[1]
        OBVIOUS
      <4>1. sent'[i][2] \in Nat /\ sent'[i][2] <= ids[1]
        BY <1>4, <1>11, SMT
      <4>2. ids[1] < rest[1] /\ ids[1] \in Nat /\ rest[1] \in Nat
        BY <3>3
      <4> QED
        BY <4>1, <4>2, SMT
    <3>7. FreshInv'
      BY <3>1, <3>6 DEF FreshInv
    <3> QED
      BY <3>4, <3>5, <3>7
  <2> QED
    BY <1>8, <2>1, <2>2, <2>3
<1> QED
  BY <1>2, <1>4, <1>9, <1>10, <1>12 DEF PacketPart

\* WriterRequests: the first id, which was sent, leaves the hand.
LEMMA RequestedPart == ASSUME PacketPart, WriterRequests PROVE PacketPart'
<1> DEFINE key == writer.key
           ids == writer.ids
           rest == Tail(ids)
<1>1. /\ writer.step = "request" /\ Holding
      /\ writer = [step |-> "request", key |-> key, ids |-> ids]
      /\ key \in Keys /\ ids \in Seq(Nat) /\ ids # <<>>
      /\ UNCHANGED <<nextID, sent>>
  BY DEF PacketPart, WriterInv, WriterRequests, Holding
<1>2. CASE Len(ids) = 1
  <2>1. writer'.step = "idle"
    BY <1>2 DEF WriterRequests, Idle
  <2> QED
    BY <1>1, <2>1 DEF PacketPart, WriterInv, SentInv, HandInv, FreshInv, OnceInv, Holding
<1>3. CASE Len(ids) # 1
  <2>1. writer' = [step |-> "account", key |-> key, ids |-> rest]
    BY <1>1, <1>3 DEF WriterRequests
  <2>2. writer'.step = "account" /\ writer'.key = key /\ writer'.ids = rest
    BY <2>1
  <2>3. nextID[key] \in Nat
    BY <1>1 DEF PacketPart
  <2>4. Len(ids) > 1
    <3> DEFINE n == Len(ids)
    <3>1. n # 1 /\ n \in Nat /\ n # 0
      BY <1>1, <1>3, SMT
    <3> HIDE DEF n
    <3>2. n > 1
      BY <3>1, SMT
    <3> QED
      BY <3>2 DEF n
  <2>5. /\ \A i \in 1..Len(ids) : ids[i] < nextID[key]
        /\ \A i, j \in 1..Len(ids) : i < j => ids[i] < ids[j]
    BY <1>1 DEF PacketPart, HandInv
  <2>6. \A i \in 1..Len(sent) : sent[i][1] = key => sent[i][2] <= ids[1]
    BY <1>1 DEF PacketPart, FreshInv
  <2> HIDE DEF key, ids
  <2>7. /\ rest \in Seq(Nat) /\ rest # <<>>
        /\ \A i \in 1..Len(rest) : rest[i] < nextID[key]
        /\ \A i, j \in 1..Len(rest) : i < j => rest[i] < rest[j]
        /\ ids[1] < rest[1] /\ ids[1] \in Nat /\ rest[1] \in Nat
    BY <1>1, <2>3, <2>4, <2>5, TailAscends
  <2> HIDE DEF rest
  <2>8. WriterInv'
    BY <2>1, <2>2, <2>7, <1>1 DEF WriterInv, Holding
  <2>9. HandInv'
    BY <2>2, <2>7, <1>1 DEF HandInv
  <2>10. \A i \in 1..Len(sent) : sent[i][1] = key => sent[i][2] < rest[1]
    <3> SUFFICES ASSUME NEW i \in 1..Len(sent), sent[i][1] = key PROVE sent[i][2] < rest[1]
      OBVIOUS
    <3>1. sent[i][2] \in Nat /\ sent[i][2] <= ids[1]
      BY <2>6, SMT DEF PacketPart
    <3>2. ids[1] < rest[1] /\ ids[1] \in Nat /\ rest[1] \in Nat
      BY <2>7
    <3> QED
      BY <3>1, <3>2, SMT
  <2>11. FreshInv'
    BY <2>2, <2>10, <1>1 DEF FreshInv
  <2> QED
    BY <2>8, <2>9, <2>11, <1>1 DEF PacketPart, SentInv, OnceInv
<1> QED
  BY <1>2, <1>3

\* WriterReadsKey: the writer has a key and no ids yet.
LEMMA ReadsKeyPart == ASSUME PacketPart, KeyPart, WriterReadsKey PROVE PacketPart'
<1>1. PICK count \in Batches : writer' = [step |-> "number", key |-> sendKey, count |-> count]
  BY DEF WriterReadsKey
<1>2. writer'.step = "number" /\ writer'.key \in Keys /\ writer'.count \in Nat \ {0}
  BY <1>1, Numbers DEF KeyPart
<1>3. UNCHANGED <<nextID, sent>>
  BY DEF WriterReadsKey
<1> QED
  BY <1>2, <1>3 DEF PacketPart, WriterInv, SentInv, HandInv, FreshInv, OnceInv, Holding

\* One step of whoever it is.
LEMMA StepInv == ASSUME IInv, [Next]_vars PROVE IInv'
<1>0. ResetPart /\ KeyPart /\ PacketPart
  BY Parts
<1>1. ResetPart'
  <2>1. CASE \/ NoteRenegotiated \/ ResetReturns \/ WriterRequests \/ ReaderRequests
             \/ LoopRequests \/ \E i \in DOMAIN resets : Promoted(i) \/ Failed(i)
    BY <1>0, <2>1, ProgressPart, ReturnPart, RequestPart
       DEF WriterRequests, ReaderRequests, LoopRequests
  <2>2. CASE UNCHANGED ResetVars
    BY <1>0, <2>2, ResetsUntouched
  <2> QED
    BY <2>1, <2>2
       DEF Next, vars, PeerPromotes, WriterReadsKey, NewDataPacketIDs, ConsumeOutbound,
           ConsumeInboundCounter, ConsumeInboundUsage, DeadlinePasses, LoopReadsDeadline, ResetVars
<1>2. KeyPart'
  <2>1. CASE PeerPromotes \/ NoteRenegotiated \/ \E i \in DOMAIN resets : Promoted(i)
    BY <1>0, <2>1, Numbers, SMT DEF PeerPromotes, NoteRenegotiated, Promoted, KeyPart, Keys
  <2>2. CASE UNCHANGED KeyVars
    BY <1>0, <2>2 DEF KeyPart, KeyVars
  <2> QED
    BY <2>1, <2>2
       DEF Next, vars, Failed, ResetReturns, WriterReadsKey, NewDataPacketIDs, ConsumeOutbound,
           WriterRequests, ConsumeInboundCounter, ConsumeInboundUsage, ReaderRequests,
           DeadlinePasses, LoopReadsDeadline, LoopRequests, KeyVars
<1>3. PacketPart'
  <2>1. CASE WriterReadsKey \/ NewDataPacketIDs \/ ConsumeOutbound \/ WriterRequests
    BY <1>0, <2>1, ReadsKeyPart, NumberPart, AccountPart, RequestedPart
  <2>2. CASE UNCHANGED WriterVars
    BY <1>0, <2>2, PacketsUntouched
  <2> QED
    BY <2>1, <2>2
       DEF Next, vars, PeerPromotes, NoteRenegotiated, ResetReturns, Promoted, Failed,
           ConsumeInboundCounter, ConsumeInboundUsage, ReaderRequests, DeadlinePasses,
           LoopReadsDeadline, LoopRequests, WriterVars
<1> QED
  BY <1>1, <1>2, <1>3, Parts

\* The invariant holds in every state.
THEOREM Invariance == Spec => []IInv
  BY InitInv, StepInv, PTL DEF Spec

\* NewDataPacketIDs: no packet id is used twice with a key, for every id space and
\* whatever promotions come between numbering a batch and sending it.
THEOREM EveryPacketIDOnce == Spec => []PacketIDOnce
<1>1. IInv => PacketIDOnce
  <2>1. IInv => DOMAIN sent = 1..Len(sent)
    BY SMT DEF IInv, TypeInv
  <2> QED
    BY <2>1 DEF IInv, OnceInv, PacketIDOnce
<1> QED
  BY <1>1, Invariance, PTL

\* requestSoftReset: one soft reset of this end's asking at a time, and the flag stands
\* for it, however the writer, the reader and the loop ask.
THEOREM OneResetAlways == Spec => []OneResetAtATime
<1>1. IInv => OneResetAtATime
  BY SMT DEF IInv, FlagInv, OneResetAtATime
<1> QED
  BY <1>1, Invariance, PTL

-----------------------------------------------------------------------------
(* What the budget counts *)

Usage == [highest : Nat, blocks : Nat]
Budgets == [activeKeyID : Keys, bytes : Nat, packets : Nat, send : Usage, receive : Usage]

BudgetType ==
  /\ budget \in Budgets
  /\ received \in [Keys -> Nat] /\ \A k \in Keys : received[k] <= MaxReceived
  /\ deadline \in {"none", "ahead", "past"}
  /\ reader.step \in {"usage", "request", "last"} =>
       reader = [step |-> reader.step, key |-> reader.key] /\ reader.key \in Keys

\* Keys are noted once they are promoted, and the budget is for one that was noted.
NotedInv == budget.activeKeyID <= sendKey /\ \A k \in noting : k <= sendKey

WithKey(s, k) == Cardinality({i \in 1..Len(s) : s[i][1] = k})
SentWith(k) == WithKey(sent, k)

\* The counters stop beyond their limits, where received tells more apart.
CountInv ==
  /\ budget.packets <= received[budget.activeKeyID] + SentWith(budget.activeKeyID)
  /\ budget.packets <= packetsLimit + 1
  /\ budget.send.blocks <= SentWith(budget.activeKeyID)

OwnInv == BudgetType /\ NotedInv /\ CountInv

\* The packets sent with a key are so many, and one more when one more is sent.
LEMMA SentGrows ==
  ASSUME NEW s \in Seq(Keys \X Nat), NEW p \in Keys \X Nat, NEW k
  PROVE  /\ WithKey(s, k) \in Nat
         /\ p[1] = k => WithKey(Append(s, p), k) = WithKey(s, k) + 1
         /\ p[1] # k => WithKey(Append(s, p), k) = WithKey(s, k)
<1> USE DEF WithKey
<1> DEFINE old == {i \in 1..Len(s) : s[i][1] = k}
           n == Len(s) + 1
           t == Append(s, p)
           new == {i \in 1..Len(t) : t[i][1] = k}
<1>1. Len(s) \in Nat /\ Len(t) = n /\ t[n] = p /\ \A i \in 1..Len(s) : t[i] = s[i]
  BY SMT
<1>2. IsFiniteSet(1..Len(s))
  BY <1>1, FS_Interval, SMT
<1>3. IsFiniteSet(old) /\ n \notin old
  BY <1>1, <1>2, FS_Subset, SMT
<1>4. Cardinality(old) \in Nat
  BY <1>3, FS_CardinalityType
<1>5. CASE p[1] = k
  <2>1. new = old \cup {n}
    BY <1>1, <1>5, SMT
  <2> HIDE DEF old, new, n, t
  <2>2. Cardinality(new) = Cardinality(old) + 1
    BY <1>3, <2>1, FS_AddElement
  <2> QED BY <1>4, <1>5, <2>2 DEF old, new, t
<1>6. CASE p[1] # k
  <2>1. new = old
    BY <1>1, <1>6, SMT
  <2> HIDE DEF old, new, n, t
  <2> QED BY <1>4, <1>6, <2>1 DEF old, new, t
<1> QED BY <1>5, <1>6
\* A counter grows by what it is given at most, and no further than its limit.
LEMMA GrownBound ==
  ASSUME NEW n \in Nat, NEW by \in Nat, NEW limit \in Nat
  PROVE  /\ Grown(n, by, limit) \in Nat
         /\ Grown(n, by, limit) <= n + by
         /\ Grown(n, by, limit) <= limit + 1
BY SMT DEF Grown

\* consumeTransfer counts a packet of the budget's own key alone.
LEMMA TransferEffect ==
  ASSUME NEW b \in Budgets, NEW key, NEW size \in Nat
  PROVE  LET c == consumeTransfer(b, key, size).budget
         IN  /\ c \in Budgets /\ c.activeKeyID = b.activeKeyID /\ c.send = b.send
             /\ c.packets = b.packets \/ (/\ key = b.activeKeyID /\ c.packets <= b.packets + 1
                                        /\ c.packets <= packetsLimit + 1)
<1> DEFINE bytes == Grown(b.bytes, size, bytesLimit)
           number == Grown(b.packets, 1, packetsLimit)
           c == [b EXCEPT !.bytes = bytes, !.packets = number]
           d == consumeTransfer(b, key, size).budget
<1>1. /\ bytesLimit \in Nat /\ packetsLimit \in Nat
      /\ b.bytes \in Nat /\ b.packets \in Nat
  BY BudgetAssumption DEF Budgets
<1>2. bytes \in Nat /\ number \in Nat /\ number <= b.packets + 1 /\ number <= packetsLimit + 1
  BY <1>1, GrownBound
<1>3. \/ d = b
      \/ key = b.activeKeyID /\ d = c
  BY DEF consumeTransfer
<1> HIDE DEF bytes, number, d
<1>4. c \in Budgets /\ c.activeKeyID = b.activeKeyID /\ c.send = b.send /\ c.packets = number
  BY <1>2 DEF Budgets
<1> HIDE DEF c
<1>5. /\ d \in Budgets /\ d.activeKeyID = b.activeKeyID /\ d.send = b.send
      /\ d.packets = b.packets \/ (/\ key = b.activeKeyID /\ d.packets <= b.packets + 1
                                 /\ d.packets <= packetsLimit + 1)
  BY <1>2, <1>3, <1>4
<1> QED BY <1>5 DEF d

\* What consumeUsage makes of the usage of one direction.
LEMMA UsedGrows ==
  ASSUME NEW usage \in Usage, NEW id \in Nat
  PROVE  Used(usage, id) \in Usage /\ Used(usage, id).blocks <= usage.blocks + 1
<1>1. usage.blocks \in Nat /\ usage.highest \in Nat /\ aeadUsageLimit \in Nat
  BY BudgetAssumption DEF Usage
<1>2. /\ Grown(usage.blocks, 1, aeadUsageLimit) \in Nat
      /\ Grown(usage.blocks, 1, aeadUsageLimit) <= usage.blocks + 1
  BY <1>1, GrownBound
<1> QED BY <1>1, <1>2 DEF Used, Usage

\* consumeUsage of a packet sent counts a block of the budget's own key alone.
LEMMA SendUsage ==
  ASSUME NEW b \in Budgets, NEW key, NEW id \in Nat
  PROVE  LET c == consumeUsage(b, key, "send", id).budget
         IN  /\ c \in Budgets /\ c.activeKeyID = b.activeKeyID /\ c.packets = b.packets
             /\ \/ c.send = b.send
                \/ key = b.activeKeyID /\ c.send.blocks <= b.send.blocks + 1
<1> DEFINE u == Used(b.send, id)
           c == [b EXCEPT !.send = u]
           d == consumeUsage(b, key, "send", id).budget
<1>1. b.send \in Usage
  BY DEF Budgets
<1>2. u \in Usage /\ u.blocks <= b.send.blocks + 1
  BY <1>1, UsedGrows
<1>3. d = b \/ (key = b.activeKeyID /\ d = c)
  BY DEF consumeUsage
<1> HIDE DEF u, d
<1>4. /\ c \in Budgets /\ c.activeKeyID = b.activeKeyID /\ c.packets = b.packets /\ c.send = u
  BY <1>2 DEF Budgets
<1> HIDE DEF c
<1>5. /\ d \in Budgets /\ d.activeKeyID = b.activeKeyID /\ d.packets = b.packets
      /\ \/ d.send = b.send
         \/ key = b.activeKeyID /\ d.send.blocks <= b.send.blocks + 1
  BY <1>2, <1>3, <1>4
<1> QED BY <1>5 DEF d

\* consumeUsage of a packet received leaves what was sent alone.
LEMMA ReceiveUsage ==
  ASSUME NEW b \in Budgets, NEW key, NEW id \in Nat
  PROVE  LET c == consumeUsage(b, key, "receive", id).budget
         IN  /\ c \in Budgets /\ c.activeKeyID = b.activeKeyID /\ c.packets = b.packets
             /\ c.send = b.send
<1> DEFINE u == Used(b.receive, id)
           c == [b EXCEPT !.receive = u]
           d == consumeUsage(b, key, "receive", id).budget
<1>1. u \in Usage
  BY UsedGrows DEF Budgets
<1>2. d = b \/ d = c
  BY DEF consumeUsage
<1> HIDE DEF u, d
<1>3. c \in Budgets /\ c.activeKeyID = b.activeKeyID /\ c.packets = b.packets /\ c.send = b.send
  BY <1>1 DEF Budgets
<1> HIDE DEF c
<1>4. /\ d \in Budgets /\ d.activeKeyID = b.activeKeyID /\ d.packets = b.packets
      /\ d.send = b.send
  BY <1>2, <1>3
<1> QED BY <1>4 DEF d

\* What the constants say of the bounds.
LEMMA Bounds ==
  /\ packetsLimit \in Nat /\ MaxReceived \in Nat /\ packetsLimit < MaxReceived
  /\ Sizes \subseteq Nat
BY BudgetAssumption

\* The packets sent with a key are a natural number.
LEMMA SentWithType == ASSUME TypeInv, NEW k PROVE SentWith(k) \in Nat
<1>1. <<0, 0>> \in Keys \X Nat
  BY Numbers, SMT DEF Keys
<1>2. sent \in Seq(Keys \X Nat)
  BY DEF TypeInv
<1> QED BY <1>1, <1>2, SentGrows DEF SentWith

\* Steps that touch neither the budget nor what it is compared with.
LEMMA OwnUntouched ==
  ASSUME OwnInv, UNCHANGED <<budget, received, sent, deadline, reader>>,
         sendKey' = sendKey /\ noting' = noting
  PROVE  OwnInv'
BY DEF OwnInv, BudgetType, NotedInv, CountInv, SentWith

\* A key is promoted, and is to be noted.
LEMMA OwnPromoted ==
  ASSUME OwnInv, KeyPart, UNCHANGED <<budget, received, sent, deadline, reader>>,
         sendKey' = sendKey + 1, noting' = noting \cup {sendKey + 1}
  PROVE  OwnInv'
<1>1. BudgetType' /\ CountInv'
  BY DEF OwnInv, BudgetType, CountInv, SentWith
<1>2. NotedInv'
  <2>1. sendKey \in Nat /\ noting \subseteq Nat /\ budget.activeKeyID \in Nat
    BY Numbers, SMT DEF KeyPart, Keys, OwnInv, BudgetType, Budgets
  <2> QED BY <2>1, SMT DEF OwnInv, NotedInv
<1> QED BY <1>1, <1>2 DEF OwnInv

\* noteRenegotiated: a new budget has counted nothing.
LEMMA OwnNoted == ASSUME OwnInv, TypeInv, NoteRenegotiated PROVE OwnInv'
<1>1. PICK k \in noting :
        /\ budget' = NewBudget(k) /\ deadline' = NewDeadline /\ noting' = noting \ {k}
        /\ UNCHANGED <<sendKey, received, reader, sent>>
  BY DEF NoteRenegotiated
<1>2. k \in Keys /\ k <= sendKey
  BY DEF TypeInv, OwnInv, NotedInv
<1>3. /\ budget' \in Budgets /\ budget'.activeKeyID = k /\ budget'.packets = 0
      /\ budget'.send.blocks = 0
  BY <1>1, <1>2 DEF NewBudget, Budgets, Usage, Unused
<1>4. BudgetType'
  BY <1>1, <1>3 DEF OwnInv, BudgetType, NewDeadline
<1>5. NotedInv'
  BY <1>1, <1>2, <1>3 DEF OwnInv, NotedInv
<1>6. CountInv'
  <2>1. SentWith(k) \in Nat /\ SentWith(k)' = SentWith(k)
    BY <1>1, SentWithType DEF SentWith
  <2>2. received[k] \in Nat /\ received' = received
    BY <1>1, <1>2 DEF OwnInv, BudgetType
  <2> QED BY <1>3, <2>1, <2>2, Bounds, SMT DEF CountInv
<1> QED BY <1>4, <1>5, <1>6 DEF OwnInv

\* ConsumeOutbound: the packet is counted once, and sent.
LEMMA OwnOutbound ==
  ASSUME OwnInv, PacketPart, TypeInv, ConsumeOutbound
  PROVE  OwnInv'
<1> DEFINE key == writer.key
           id == Head(writer.ids)
           own == budget.activeKeyID
<1>1. PICK size \in Sizes :
        /\ budget' = consumeUsage(consumeTransfer(budget, key, size).budget, key, "send", id).budget
        /\ sent' = Append(sent, <<key, id>>)
        /\ UNCHANGED <<sendKey, received, deadline, noting, reader>>
  BY DEF ConsumeOutbound
<1>2. key \in Keys /\ id \in Nat /\ size \in Nat
  <2>1. writer.ids \in Seq(Nat) /\ writer.ids # <<>> /\ key \in Keys
    BY DEF PacketPart, WriterInv, ConsumeOutbound, Holding
  <2> QED BY <2>1, Bounds, SMT
<1>3. budget \in Budgets
  BY DEF OwnInv, BudgetType
<1> DEFINE b == consumeTransfer(budget, key, size).budget
<1>4. /\ b \in Budgets /\ b.activeKeyID = own /\ b.send = budget.send
      /\ b.packets = budget.packets \/ (/\ key = own /\ b.packets <= budget.packets + 1
                                      /\ b.packets <= packetsLimit + 1)
  BY <1>2, <1>3, TransferEffect
<1>5. /\ budget' \in Budgets /\ budget'.activeKeyID = b.activeKeyID /\ budget'.packets = b.packets
      /\ \/ budget'.send = b.send
         \/ key = b.activeKeyID /\ budget'.send.blocks <= b.send.blocks + 1
  <2> HIDE DEF b
  <2>1. budget' = consumeUsage(b, key, "send", id).budget
    BY <1>1 DEF b
  <2> DEFINE c == consumeUsage(b, key, "send", id).budget
  <2>2. /\ c \in Budgets /\ c.activeKeyID = b.activeKeyID /\ c.packets = b.packets
        /\ \/ c.send = b.send
           \/ key = b.activeKeyID /\ c.send.blocks <= b.send.blocks + 1
    <3>1. b \in Budgets /\ id \in Nat
      BY <1>2, <1>4
    <3> HIDE DEF key, id
    <3> QED BY ONLY <3>1, SendUsage
  <2> HIDE DEF c
  <2> QED BY <2>1, <2>2 DEF c
<1> HIDE DEF b
<1>6. BudgetType' /\ NotedInv'
  BY <1>1, <1>4, <1>5 DEF OwnInv, BudgetType, NotedInv
<1>7. /\ SentWith(own) \in Nat
      /\ key = own => SentWith(own)' = SentWith(own) + 1
      /\ key # own => SentWith(own)' = SentWith(own)
  <2>1. sent \in Seq(Keys \X Nat) /\ <<key, id>> \in Keys \X Nat /\ <<key, id>>[1] = key
    BY <1>2 DEF TypeInv
  <2> DEFINE p == <<key, id>>
  <2> HIDE DEF p
  <2>2. sent' = Append(sent, p) /\ p \in Keys \X Nat /\ p[1] = key
    BY <1>1, <2>1 DEF p
  <2>3. /\ WithKey(sent, own) \in Nat
        /\ p[1] = own => WithKey(Append(sent, p), own) = WithKey(sent, own) + 1
        /\ p[1] # own => WithKey(Append(sent, p), own) = WithKey(sent, own)
    <3>1. PICK k : k = own
      OBVIOUS
    <3>2. /\ WithKey(sent, k) \in Nat
          /\ p[1] = k => WithKey(Append(sent, p), k) = WithKey(sent, k) + 1
          /\ p[1] # k => WithKey(Append(sent, p), k) = WithKey(sent, k)
      BY <2>1, <2>2, SentGrows
    <3> QED
      BY <3>1, <3>2
  <2>4. own' = own
    BY <1>4, <1>5
  <2> HIDE DEF own
  <2> QED BY Zenon, <2>2, <2>3, <2>4 DEF SentWith
<1>8. /\ budget.packets \in Nat /\ budget.send.blocks \in Nat /\ budget'.packets \in Nat
      /\ budget'.send.blocks \in Nat /\ received[own] \in Nat
  BY <1>3, <1>5 DEF OwnInv, BudgetType, Budgets, Usage
<1>9. /\ budget.packets <= received[own] + SentWith(own) /\ budget.packets <= packetsLimit + 1
      /\ budget.send.blocks <= SentWith(own)
  BY DEF OwnInv, CountInv
<1>10. own' = own /\ received' = received
  BY <1>1, <1>4, <1>5
<1>11. /\ budget'.packets <= received[own] + SentWith(own)'
       /\ budget'.packets <= packetsLimit + 1
       /\ budget'.send.blocks <= SentWith(own)'
  <2> HIDE DEF own, key
  <2> QED BY <1>4, <1>5, <1>7, <1>8, <1>9, Bounds, SMT
<1> QED BY <1>6, <1>10, <1>11 DEF OwnInv, CountInv
\* consumeInboundRenegotiationCounter: a packet of the budget's key is counted, as far as the
\* limit of the counter, which received tells apart from less.
LEMMA OwnCounter ==
  ASSUME OwnInv, TypeInv, NEW k \in Keys, ConsumeInboundCounter(k)
  PROVE  OwnInv'
<1> DEFINE own == budget.activeKeyID
<1>1. PICK size \in Sizes :
        /\ budget' = consumeTransfer(budget, k, size).budget
        /\ reader' = [step |-> reader'.step, key |-> k]
        /\ received' = [received EXCEPT ![k] = IF @ < MaxReceived THEN @ + 1 ELSE @]
        /\ UNCHANGED <<sendKey, sent, deadline, noting>>
  BY SMT DEF ConsumeInboundCounter
<1>2. budget \in Budgets /\ size \in Nat
  BY Bounds DEF OwnInv, BudgetType
<1>3. /\ budget' \in Budgets /\ budget'.activeKeyID = own /\ budget'.send = budget.send
      /\ budget'.packets = budget.packets \/ (/\ k = own /\ budget'.packets <= budget.packets + 1
                                            /\ budget'.packets <= packetsLimit + 1)
  <2> DEFINE c == consumeTransfer(budget, k, size).budget
  <2>1. /\ c \in Budgets /\ c.activeKeyID = own /\ c.send = budget.send
        /\ c.packets = budget.packets \/ (/\ k = own /\ c.packets <= budget.packets + 1
                                        /\ c.packets <= packetsLimit + 1)
    BY <1>2, TransferEffect
  <2>2. budget' = c
    BY <1>1
  <2> HIDE DEF c
  <2> QED BY <2>1, <2>2
<1>4. /\ received \in [Keys -> Nat] /\ \A key \in Keys : received[key] <= MaxReceived
      /\ own \in Keys
  BY <1>2 DEF OwnInv, BudgetType, Budgets
<1>5. /\ received' \in [Keys -> Nat] /\ \A key \in Keys : received'[key] <= MaxReceived
      /\ received[k] < MaxReceived => received'[k] = received[k] + 1
      /\ received[k] >= MaxReceived => received'[k] = MaxReceived
      /\ \A key \in Keys : received'[key] >= received[key]
  BY <1>1, <1>4, Bounds, SMTT(30)
<1>6. BudgetType' /\ NotedInv'
  BY <1>1, <1>3, <1>5, SMT DEF OwnInv, BudgetType, NotedInv
<1>7. SentWith(own) \in Nat /\ SentWith(own)' = SentWith(own)
  <2>1. own' = own /\ sent' = sent
    BY <1>1, <1>3
  <2> HIDE DEF own
  <2> QED BY <2>1, SentWithType DEF SentWith
<1>8. /\ budget.packets \in Nat /\ budget.send.blocks \in Nat /\ budget'.packets \in Nat
      /\ received[own] \in Nat /\ received'[own] \in Nat /\ received[own] <= received'[own]
  BY <1>2, <1>3, <1>4, <1>5 DEF Budgets, Usage
<1>9. /\ budget.packets <= received[own] + SentWith(own) /\ budget.packets <= packetsLimit + 1
      /\ budget.send.blocks <= SentWith(own)
  BY DEF OwnInv, CountInv
<1>10. /\ budget'.packets <= received'[own] + SentWith(own)
       /\ budget'.packets <= packetsLimit + 1
  <2> HIDE DEF own
  <2>1. CASE budget'.packets = budget.packets
    BY <1>7, <1>8, <1>9, <2>1, SMT
  <2>2. CASE k = own /\ budget'.packets <= budget.packets + 1 /\ budget'.packets <= packetsLimit + 1
    <3>1. received'[own] = received[own] + 1 \/ received'[own] = MaxReceived
      BY <1>4, <1>5, <2>2, Bounds, SMT
    <3> QED BY <1>7, <1>8, <1>9, <2>2, <3>1, Bounds, SMTT(30)
  <2> QED BY <1>3, <2>1, <2>2
<1>11. own' = own
  BY <1>3
<1> QED BY <1>3, <1>6, <1>7, <1>9, <1>10, <1>11 DEF OwnInv, CountInv

\* consumeInboundRenegotiationUsage does not touch what is counted of the packets sent.
LEMMA OwnUsage == ASSUME OwnInv, ConsumeInboundUsage PROVE OwnInv'
<1>1. /\ reader = [step |-> "usage", key |-> reader.key] /\ reader.key \in Keys
      /\ UNCHANGED <<sendKey, received, deadline, noting, sent>>
  BY DEF OwnInv, BudgetType, ConsumeInboundUsage
<1>2. reader'.step \in {"usage", "request", "last"} =>
        reader' = [step |-> reader'.step, key |-> reader'.key] /\ reader'.key \in Keys
  <2>1. reader' = Idle \/ reader' = [step |-> "last", key |-> reader.key]
    BY <1>1 DEF ConsumeInboundUsage
  <2>2. Idle.step = "idle"
    BY DEF Idle
  <2> QED BY <1>1, <2>1, <2>2, SMT
<1>3. /\ budget' \in Budgets /\ budget'.activeKeyID = budget.activeKeyID
      /\ budget'.packets = budget.packets /\ budget'.send = budget.send
  <2>1. budget \in Budgets /\ received[reader.key] \in Nat
    BY <1>1 DEF OwnInv, BudgetType
  <2> DEFINE key == reader.key
             id == received[reader.key]
             c == consumeUsage(budget, key, "receive", id).budget
  <2>2. /\ c \in Budgets /\ c.activeKeyID = budget.activeKeyID /\ c.packets = budget.packets
        /\ c.send = budget.send
    <3>1. budget \in Budgets /\ id \in Nat
      BY <2>1
    <3> HIDE DEF key, id
    <3> QED BY ONLY <3>1, ReceiveUsage, SMT
  <2>3. budget' = budget \/ budget' = c
    BY DEF ConsumeInboundUsage
  <2> HIDE DEF c
  <2> QED BY <2>1, <2>2, <2>3
<1> QED BY <1>1, <1>2, <1>3 DEF OwnInv, BudgetType, NotedInv, CountInv, SentWith

\* The reader asks for a soft reset, and the deadline passes.
LEMMA OwnOthers ==
  ASSUME OwnInv, ReaderRequests \/ DeadlinePasses
  PROVE  OwnInv'
<1>1. /\ UNCHANGED <<sendKey, received, budget, noting, sent>>
      /\ deadline' \in {deadline, "past"}
  BY DEF ReaderRequests, DeadlinePasses
<1>2. reader'.step \in {"usage", "request", "last"} =>
        reader' = [step |-> reader'.step, key |-> reader'.key] /\ reader'.key \in Keys
  <2>1. CASE ReaderRequests
    <3>0. reader.key \in Keys /\ reader = [step |-> reader.step, key |-> reader.key]
      BY <2>1 DEF OwnInv, BudgetType, ReaderRequests
    <3>1. /\ reader.key \in Keys
          /\ reader' = Idle \/ reader' = [step |-> "usage", key |-> reader.key]
      BY <2>1, <3>0 DEF ReaderRequests
    <3>2. Idle.step = "idle"
      BY DEF Idle
    <3> QED BY <3>1, <3>2, SMT
  <2>2. CASE DeadlinePasses
    BY <2>2 DEF OwnInv, BudgetType, DeadlinePasses
  <2> QED BY <2>1, <2>2
<1> QED BY <1>1, <1>2 DEF OwnInv, BudgetType, NotedInv, CountInv, SentWith

\* One step of whoever it is.
LEMMA OwnStep == ASSUME IInv, OwnInv, [Next]_vars PROVE OwnInv'
<1>0. ResetPart /\ KeyPart /\ PacketPart /\ TypeInv
  BY Parts DEF IInv
<1>1. CASE \/ ResetReturns \/ WriterReadsKey \/ NewDataPacketIDs \/ WriterRequests
           \/ LoopReadsDeadline \/ LoopRequests \/ UNCHANGED vars
           \/ \E i \in DOMAIN resets : Failed(i)
  BY <1>1, OwnUntouched
     DEF ResetReturns, WriterReadsKey, NewDataPacketIDs, WriterRequests, LoopReadsDeadline,
         LoopRequests, Failed, vars
<1>2. CASE PeerPromotes \/ \E i \in DOMAIN resets : Promoted(i)
  BY <1>0, <1>2, OwnPromoted DEF PeerPromotes, Promoted
<1>3. CASE NoteRenegotiated BY <1>0, <1>3, OwnNoted
<1>4. CASE ConsumeOutbound BY <1>0, <1>4, OwnOutbound
<1>5. CASE \E k \in Keys : ConsumeInboundCounter(k) BY <1>0, <1>5, OwnCounter
<1>6. CASE ConsumeInboundUsage BY <1>6, OwnUsage
<1>7. CASE ReaderRequests \/ DeadlinePasses BY <1>7, OwnOthers
<1> QED BY <1>1, <1>2, <1>3, <1>4, <1>5, <1>6, <1>7 DEF Next

\* BudgetOwnTraffic: what is counted is traffic of the key the budget is for, for all limits,
\* sizes and batches, and whenever noteRenegotiated comes after a promotion.
THEOREM BudgetCountsItsKey == Spec => []BudgetOwnTraffic
<1>1. Init => OwnInv
  <2> SUFFICES ASSUME Init PROVE OwnInv
    OBVIOUS
  <2>1. 0 \in Keys /\ MaxReceived \in Nat
    BY Numbers, Bounds, SMT DEF Keys
  <2>2. /\ budget \in Budgets /\ budget.activeKeyID = 0 /\ budget.packets = 0
        /\ budget.send.blocks = 0
    BY <2>1 DEF Init, NewBudget, Budgets, Usage, Unused
  <2>3. received \in [Keys -> Nat] /\ (\A k \in Keys : received[k] = 0) /\ sendKey = 0 /\ noting = {}
    BY DEF Init
  <2>4. reader.step = "idle" /\ deadline \in {"none", "ahead", "past"}
    BY DEF Init, Idle, NewDeadline
  <2>5. SentWith(0) \in Nat
    BY InitInv, SentWithType DEF IInv
  <2> QED BY <2>1, <2>2, <2>3, <2>4, <2>5, Bounds, SMT DEF OwnInv, BudgetType, NotedInv, CountInv
<1>2. IInv /\ OwnInv /\ [Next]_vars => OwnInv'
  BY OwnStep
<1>3. IInv /\ OwnInv => BudgetOwnTraffic
  <2> SUFFICES ASSUME IInv, OwnInv PROVE BudgetOwnTraffic
    OBVIOUS
  <2>1. DOMAIN sent = 1..Len(sent)
    BY SMT DEF IInv, TypeInv
  <2>2. budget.activeKeyID \in 0..sendKey
    BY Numbers, SMT DEF IInv, TypeInv, OwnInv, BudgetType, NotedInv, Budgets, Keys
  <2>3. /\ budget.packets <= received[budget.activeKeyID] + SentWith(budget.activeKeyID)
        /\ budget.send.blocks <= SentWith(budget.activeKeyID)
        /\ deadline \in {"none", "ahead", "past"}
    BY DEF OwnInv, CountInv, BudgetType
  <2> QED BY Zenon, <2>1, <2>2, <2>3 DEF BudgetOwnTraffic, Count, SentWith, WithKey
<1> QED BY <1>1, <1>2, <1>3, Invariance, PTL DEF Spec

-----------------------------------------------------------------------------
(* Long-form packet ids *)

Pair == Timestamps \X PacketIDs

Before(one, other) ==
  \/ one[1] < other[1]
  \/ one[1] = other[1] /\ one[2] < other[2]

IDTypeInv ==
  /\ now \in Timestamps /\ timestamp \in Timestamps /\ lastID \in PacketIDs
  /\ ended \in Timestamps \cup {-1}
  /\ suspended \in BOOLEAN /\ repeats \in BOOLEAN
  /\ packets \in Seq(Pair)
  /\ arrived \subseteq 1..Len(packets)
  /\ epoch \in Timestamps \cup {-1} /\ top \in PacketIDs

\* What the sender used is behind it, unless its session repeats, and its timestamp
\* is not ahead of the clock, nor of the end of its session.
SenderInv ==
  /\ timestamp <= now
  /\ ended # -1 => timestamp <= ended
  /\ \A i \in 1..Len(packets) :
       /\ packets[i][2] # 0 /\ packets[i][1] <= timestamp
       /\ ~repeats => ~Before(<<timestamp, lastID>>, packets[i])

\* A packet is after those sent earlier; of one that is repeated only the timestamp
\* is not before theirs.
OrderInv ==
  \A i, j \in 1..Len(packets) :
    i < j => /\ packets[i][1] <= packets[j][1]
             /\ j \notin repeated => Before(packets[i], packets[j])

FilterInv == epoch = -1 \/ \E i \in arrived : packets[i] = <<epoch, top>>

IDInv == IDTypeInv /\ SenderInv /\ OrderInv /\ FilterInv

USE LongFormAssumption

\* The initial state: nothing was sent and the window is empty.
LEMMA IDInitInv == IDInit => IDInv
<1> SUFFICES ASSUME IDInit PROVE IDInv
  OBVIOUS
<1>1. suspended \in BOOLEAN /\ repeats \in BOOLEAN
  BY DEF IDInit
<1>2. /\ now = 1 /\ timestamp = 1 /\ lastID = 0 /\ ended = -1
      /\ packets = <<>> /\ arrived = {} /\ epoch = -1 /\ top = 0
  BY DEF IDInit, Filter!Init
<1>3. IDTypeInv
  BY <1>1, <1>2, SMT DEF IDTypeInv, Timestamps, PacketIDs, Pair
<1>4. SenderInv /\ OrderInv /\ FilterInv
  BY <1>2, SMT DEF SenderInv, OrderInv, FilterInv
<1> QED
  BY <1>3, <1>4 DEF IDInv

\* What is not after a packet is before all that are.
LEMMA BeforeLater ==
  ASSUME NEW a \in Pair, NEW b \in Pair, NEW c \in Pair, ~Before(b, a), Before(b, c)
  PROVE  Before(a, c)
BY SMT DEF Before, Pair, Timestamps, PacketIDs

\* Every packet gets an id after all that were used (NextID, Wrap).
LEMMA NextIDLater ==
  ASSUME IDTypeInv, SenderInv, NextID
  PROVE  /\ timestamp' \in Timestamps /\ lastID' \in PacketIDs
         /\ lastID' # 0 /\ timestamp <= timestamp' /\ timestamp' <= now
         /\ Before(<<timestamp, lastID>>, <<timestamp', lastID'>>)
  BY SMT DEF IDTypeInv, SenderInv, NextID, Wrap, Before, Timestamps, PacketIDs

\* Send appends a packet that is after all others.
LEMMA SendInv ==
  ASSUME IDInv, Send
  PROVE  IDInv'
<1> DEFINE p == <<timestamp', lastID'>>
<1>1. /\ timestamp' \in Timestamps /\ lastID' \in PacketIDs
      /\ lastID' # 0 /\ timestamp <= timestamp' /\ timestamp' <= now
      /\ Before(<<timestamp, lastID>>, p)
  BY NextIDLater DEF IDInv, Send
<1>2. /\ ended = -1 /\ packets' = Append(packets, p)
      /\ repeated' = IF repeats THEN repeated \cup {Len(packets')} ELSE repeated
      /\ UNCHANGED <<now, ended, suspended, repeats, arrived, epoch, top>>
  BY DEF Send, filter
<1>3. p \in Pair
  BY <1>1 DEF Pair
<1>4. /\ packets \in Seq(Pair) /\ packets' \in Seq(Pair)
      /\ Len(packets') = Len(packets) + 1 /\ Len(packets) \in Nat
      /\ packets'[Len(packets) + 1] = p
      /\ \A i \in 1..Len(packets) : packets'[i] = packets[i] /\ packets[i] \in Pair
  BY <1>2, <1>3, SMT DEF IDInv, IDTypeInv
<1> HIDE DEF p
<1>5. IDTypeInv'
  BY <1>1, <1>2, <1>4, SMT DEF IDInv, IDTypeInv
<1>6. ASSUME NEW i \in 1..Len(packets)
      PROVE  /\ packets[i][1] <= timestamp'
             /\ ~repeats => Before(packets[i], p)
  <2>1. /\ packets[i] \in Pair /\ packets[i][1] <= timestamp
        /\ ~repeats => ~Before(<<timestamp, lastID>>, packets[i])
    BY <1>4 DEF IDInv, SenderInv
  <2>2. <<timestamp, lastID>> \in Pair /\ timestamp \in Timestamps
    BY DEF IDInv, IDTypeInv, Pair
  <2>3. p \in Pair /\ Before(<<timestamp, lastID>>, p)
    BY <1>1, <1>3 DEF p
  <2>4. packets[i][1] \in Timestamps
    BY <2>1 DEF Pair
  <2>5. packets[i][1] <= timestamp'
    BY <2>1, <2>2, <2>4, <1>1, SMT DEF Timestamps
  <2> QED
    BY <2>1, <2>2, <2>3, <2>5, BeforeLater
<1>7. SenderInv'
  <2> SUFFICES ASSUME NEW i \in 1..Len(packets')
               PROVE  /\ packets'[i][2] # 0 /\ packets'[i][1] <= timestamp'
                      /\ ~repeats => ~Before(p, packets'[i])
    BY <1>1, <1>2 DEF SenderInv, p
  <2>1. CASE i \in 1..Len(packets)
    <3>1. /\ packets'[i] = packets[i] /\ packets[i] \in Pair /\ packets[i][2] # 0
          /\ packets[i][1] <= timestamp'
          /\ ~repeats => Before(packets[i], p)
      BY <2>1, <1>4, <1>6 DEF IDInv, SenderInv
    <3> QED
      BY <3>1, <1>3, SMT DEF Before, Pair, Timestamps, PacketIDs
  <2>2. CASE i = Len(packets) + 1
    BY <2>2, <1>1, <1>4, SMT DEF Before, p, Timestamps, PacketIDs
  <2> QED
    BY <2>1, <2>2, <1>4, SMT
<1>8. OrderInv'
  <2> SUFFICES ASSUME NEW i \in 1..Len(packets'), NEW j \in 1..Len(packets'), i < j
               PROVE  /\ packets'[i][1] <= packets'[j][1]
                      /\ j \notin repeated' => Before(packets'[i], packets'[j])
    BY DEF OrderInv
  <2>1. i \in 1..Len(packets) /\ (j \in 1..Len(packets) \/ j = Len(packets) + 1)
    BY <1>4, SMT
  <2>2. CASE j \in 1..Len(packets)
    BY <2>1, <2>2, <1>2, <1>4 DEF IDInv, OrderInv
  <2>3. CASE j = Len(packets) + 1
    <3>1. j \in repeated' \/ ~repeats
      BY <2>3, <1>2, <1>4
    <3>2. packets'[j][1] = timestamp'
      BY <2>3, <1>4, SMT DEF p
    <3> QED
      BY <3>1, <3>2, <2>1, <2>3, <1>4, <1>6
  <2> QED
    BY <2>1, <2>2, <2>3
<1>9. FilterInv'
  <2>1. CASE epoch = -1
    BY <2>1, <1>2 DEF FilterInv
  <2>2. CASE epoch # -1
    <3>1. PICK i \in arrived : packets[i] = <<epoch, top>>
      BY <2>2 DEF IDInv, FilterInv
    <3> QED
      BY <3>1, <1>2, <1>4 DEF IDInv, IDTypeInv, FilterInv
  <2> QED
    BY <2>1, <2>2
<1> QED
  BY <1>5, <1>7, <1>8, <1>9 DEF IDInv

\* What an arrival does to the window (AcceptLongForm).
LEMMA ReceiveStep ==
  ASSUME IDInv, NEW serial \in 1..Len(packets),
         Filter!Accept(packets[serial][1], packets[serial][2])
           \/ Filter!Reject(packets[serial][1], packets[serial][2])
  PROVE  /\ epoch' \in Timestamps \cup {-1} /\ top' \in PacketIDs
         /\ <<epoch', top'>> \in {<<epoch, top>>, packets[serial]}
         /\ (epoch = -1 \/ Before(<<epoch, top>>, packets[serial])) => verdict'[3]
<1>1. /\ packets[serial] \in Pair /\ packets[serial][2] # 0
      /\ epoch \in Timestamps \cup {-1} /\ top \in PacketIDs
  BY SMT DEF IDInv, IDTypeInv, SenderInv
<1>2. PICK ts \in Timestamps, id \in PacketIDs : packets[serial] = <<ts, id>>
  BY <1>1, SMT DEF Pair
<1>3. id # 0 /\ packets[serial][1] = ts /\ packets[serial][2] = id
  BY <1>1, <1>2, SMT
<1>4. CASE Filter!Accept(ts, id)
  BY <1>1, <1>2, <1>4 DEF Filter!Accept, Filter!Opens, Filter!Continues, Timestamps, PacketIDs
<1>5. CASE Filter!Reject(ts, id)
  <2>1. ~(epoch = -1 \/ Before(<<epoch, top>>, <<ts, id>>))
    BY <1>1, <1>3, <1>5, SMT
       DEF Filter!Reject, Filter!Opens, Filter!Continues, Before, Timestamps, PacketIDs
  <2> QED
    BY <2>1, <1>1, <1>2, <1>5 DEF Filter!Reject
<1> QED
  BY <1>3, <1>4, <1>5

\* An arrival leaves the window where it was or at the packet that arrived.
LEMMA ReceiveInv ==
  ASSUME IDInv, Receive
  PROVE  IDInv'
<1>1. PICK serial \in 1..Len(packets) :
        /\ Filter!Accept(packets[serial][1], packets[serial][2])
           \/ Filter!Reject(packets[serial][1], packets[serial][2])
        /\ arrived' = arrived \cup {serial}
        /\ UNCHANGED <<now, sender, network>>
  BY DEF Receive
<1>2. /\ epoch' \in Timestamps \cup {-1} /\ top' \in PacketIDs
      /\ <<epoch', top'>> \in {<<epoch, top>>, packets[serial]}
  BY <1>1, ReceiveStep
<1>3. IDTypeInv' /\ SenderInv' /\ OrderInv'
  BY <1>1, <1>2 DEF IDInv, IDTypeInv, SenderInv, OrderInv, sender, network
<1>4. FilterInv'
  <2>1. CASE <<epoch', top'>> = packets[serial]
    BY <2>1, <1>1 DEF FilterInv, network
  <2>2. CASE <<epoch', top'>> = <<epoch, top>>
    BY <2>2, <1>1 DEF IDInv, FilterInv, network
  <2> QED
    BY <1>2, <2>1, <2>2
<1> QED
  BY <1>3, <1>4 DEF IDInv

\* The steps of the sender's sessions, of the clock and of a receiver that
\* restarts: a new session begins in a later second than the last one, or repeats
\* its timestamp.
LEMMA OtherInv ==
  ASSUME IDInv, SessionEnds \/ NewSession \/ ReceiverRestarts \/ Second \/ UNCHANGED idVars
  PROVE  IDInv'
<1>1. CASE SessionEnds
  BY <1>1 DEF IDInv, SessionEnds, IDTypeInv, SenderInv, OrderInv, FilterInv, network, filter,
     Timestamps
<1>2. CASE NewSession
  <2>1. /\ timestamp' = now /\ lastID' = 0 /\ ended' = -1
        /\ suspended' = FALSE /\ repeats' = (suspended /\ now = timestamp)
        /\ UNCHANGED <<now, packets, repeated, arrived, epoch, top>>
    BY <1>2 DEF NewSession, network, filter
  <2>2. /\ now \in Timestamps /\ timestamp \in Timestamps /\ timestamp <= now
        /\ suspended \in BOOLEAN
    BY DEF IDInv, IDTypeInv, SenderInv
  <2>3. ~repeats' => timestamp < now
    <3>1. CASE suspended
      <4>1. ~repeats' => now # timestamp
        BY <3>1, <2>1
      <4> QED
        BY <4>1, <2>2, SMT DEF Timestamps
    <3>2. CASE ~suspended
      BY <3>2, <1>2, <2>2, SMT DEF NewSession, BackoffOver, IDInv, IDTypeInv, SenderInv, Timestamps
    <3> QED
      BY <3>1, <3>2
  <2>4. ASSUME NEW i \in 1..Len(packets)
        PROVE  /\ packets[i][2] # 0 /\ packets[i][1] <= now
               /\ ~repeats' => ~Before(<<now, 0>>, packets[i])
    <3>1. packets \in Seq(Pair)
      BY DEF IDInv, IDTypeInv
    <3>2. packets[i] \in Pair
      BY <3>1, SMT
    <3>3. packets[i][2] # 0 /\ packets[i][1] <= timestamp
      BY DEF IDInv, SenderInv
    <3>4. packets[i][1] \in Int /\ packets[i][2] \in Int
      BY <3>2, SMT DEF Pair, Timestamps, PacketIDs
    <3> QED
      BY <2>2, <2>3, <3>3, <3>4, SMT DEF Before, Timestamps
  <2>5. IDTypeInv'
    <3>1. suspended' \in BOOLEAN /\ repeats' \in BOOLEAN
      BY <2>1
    <3>2. 0 \in PacketIDs
      BY SMT DEF PacketIDs
    <3> QED
      BY <2>1, <3>1, <3>2 DEF IDInv, IDTypeInv
  <2>6. SenderInv'
    <3>1. timestamp' <= now' /\ ended' = -1
      BY <2>1, <2>2, SMT DEF Timestamps
    <3> QED
      BY <3>1, <2>1, <2>4 DEF SenderInv
  <2>7. OrderInv' /\ FilterInv'
    BY <2>1 DEF IDInv, OrderInv, FilterInv
  <2> QED
    BY <2>5, <2>6, <2>7 DEF IDInv
<1>3. CASE ReceiverRestarts
  BY <1>3, SMT DEF IDInv, ReceiverRestarts, IDTypeInv, SenderInv, OrderInv, FilterInv, sender,
     network, PacketIDs
<1>4. CASE Second
  <2>1. /\ now < MaxTime /\ now' = now + 1
        /\ UNCHANGED <<timestamp, lastID, ended, suspended, repeats, packets, repeated, arrived,
                       epoch, top>>
    BY <1>4 DEF Second, sender, network, filter
  <2>2. IDTypeInv'
    BY <2>1, SMT DEF IDInv, IDTypeInv, Timestamps
  <2>3. SenderInv'
    BY <2>1, SMT DEF IDInv, IDTypeInv, SenderInv, Timestamps
  <2>4. OrderInv' /\ FilterInv'
    BY <2>1 DEF IDInv, OrderInv, FilterInv
  <2> QED
    BY <2>2, <2>3, <2>4 DEF IDInv
<1>5. CASE UNCHANGED idVars
  BY <1>5 DEF IDInv, idVars, IDTypeInv, SenderInv, OrderInv, FilterInv, sender, network, filter
<1> QED
  BY <1>1, <1>2, <1>3, <1>4, <1>5

\* The invariant holds in every state.
THEOREM IDInvariance == IDSpec => []IDInv
<1>1. IDInv /\ [IDNext]_idVars => IDInv'
  BY SendInv, ReceiveInv, OtherInv DEF IDNext
<1> QED
  BY IDInitInv, <1>1, PTL DEF IDSpec

\* A packet that overtakes nothing is accepted, for every value of the constants:
\* ids that start again in a new session or wrap around come with a timestamp
\* that the replay window takes for new, and those of a session resumed within
\* the second are taken once they are past the ids it has seen.
THEOREM FreshIsAccepted == IDSpec => FreshAccepted
<1> DEFINE InOrder(serial) ==
             \A other \in arrived :
               /\ other < serial
               /\ serial \in repeated /\ packets[other][1] = packets[serial][1]
                    => packets[other][2] < packets[serial][2]
           Fresh == \A serial \in arrived' \ arrived : InOrder(serial) => verdict'[3]
<1>1. IDInv /\ [IDNext]_idVars => [Fresh]_idVars
  <2> SUFFICES ASSUME IDInv, IDNext PROVE Fresh
    OBVIOUS
  <2>1. CASE Receive
    <3>1. PICK serial \in 1..Len(packets) :
            /\ Filter!Accept(packets[serial][1], packets[serial][2])
               \/ Filter!Reject(packets[serial][1], packets[serial][2])
            /\ arrived' = arrived \cup {serial}
      BY <2>1 DEF Receive
    <3>2. ASSUME InOrder(serial)
          PROVE  epoch = -1 \/ Before(<<epoch, top>>, packets[serial])
      <4>1. SUFFICES ASSUME epoch # -1
                     PROVE  Before(<<epoch, top>>, packets[serial])
        OBVIOUS
      <4>2. PICK i \in arrived : packets[i] = <<epoch, top>>
        BY <4>1 DEF IDInv, FilterInv
      <4>3. i \in 1..Len(packets) /\ i < serial
        BY <3>2, <4>2 DEF IDInv, IDTypeInv
      <4>4. /\ packets[i][1] <= packets[serial][1]
            /\ serial \notin repeated => Before(packets[i], packets[serial])
        BY <4>3 DEF IDInv, OrderInv
      <4>5. CASE serial \notin repeated
        BY <4>2, <4>4, <4>5
      <4>6. CASE serial \in repeated
        <5>1. packets[i][1] = packets[serial][1] => packets[i][2] < packets[serial][2]
          BY <3>2, <4>2, <4>6
        <5>2. packets \in Seq(Pair)
          BY DEF IDInv, IDTypeInv
        <5>3. packets[i] \in Pair /\ packets[serial] \in Pair
          BY <5>2, <4>3, SMT
        <5> HIDE DEF InOrder
        <5> QED
          BY <5>1, <5>3, <4>2, <4>4, SMT DEF Before, Pair, Timestamps
      <4> QED
        BY <4>5, <4>6
    <3> HIDE DEF InOrder
    <3> QED
      BY <3>1, <3>2, ReceiveStep
  <2>2. CASE ~Receive
    BY <2>2 DEF IDNext, Send, SessionEnds, NewSession, ReceiverRestarts, Second
  <2> QED
    BY <2>1, <2>2
<1> QED
  BY <1>1, IDInvariance, PTL DEF FreshAccepted, IDSpec

-----------------------------------------------------------------------------
(* The static key tunnel *)

HIDE LongFormAssumption

\* A packet queue that takes one more packet stays within its capacity: a full one drops its
\* oldest packet.
LEMMA QueueCapped ==
  ASSUME NEW q \in 0..QueueLimit
  PROVE  Min({q + 1, QueueLimit}) \in 0..QueueLimit
<1>1. QueueLimit \in Nat /\ q \in Nat
  BY TunnelAssumption, SMT
<1>2. \E m \in {q + 1, QueueLimit} : \A y \in {q + 1, QueueLimit} : m <= y
  BY <1>1, SMT
<1>3. /\ Min({q + 1, QueueLimit}) \in {q + 1, QueueLimit}
      /\ \A y \in {q + 1, QueueLimit} : Min({q + 1, QueueLimit}) <= y
  BY <1>2 DEF Min
<1>4. QED
  BY <1>1, <1>3, SMT

\* A slot that nobody has used yet.
LEMMA NoSessionTyped == NoSession \in SessionStates
BY SMT DEF NoSession, SessionStates

\* The tunnel begins without a session.
LEMMA TunnelBegins == TunnelInit => TunnelInv
<1> SUFFICES ASSUME TunnelInit PROVE TunnelInv
  OBVIOUS
<1>1. NoSession \in SessionStates
  BY NoSessionTyped
<1>2. TunnelTypeOK
  <2>1. role \in Roles /\ pc \in Steps /\ session = None /\ current = None /\ watched = None
    BY DEF TunnelInit, Steps
  <2>2. sess \in [Slots -> SessionStates] /\ toClose \subseteq Slots
    BY <1>1 DEF TunnelInit
  <2>3. /\ cancelled \in BOOLEAN /\ reads \in BOOLEAN /\ stored \in BOOLEAN
        /\ listening \in BOOLEAN
    BY DEF TunnelInit, Server
  <2>4. queue \in 0..QueueLimit /\ serverQueue \in 0..QueueLimit
    BY TunnelAssumption, SMT DEF TunnelInit
  <2>5. serverLoop \in {"idle", "hand", "over"} /\ closing = "no"
    BY DEF TunnelInit
  <2>6. QED
    BY <2>1, <2>2, <2>3, <2>4, <2>5 DEF TunnelTypeOK
<1>3. SessionsRight
  BY SMT DEF TunnelInit, SessionsRight, SessionRight, NoSession, None, Slots, Unconnected,
             Connected
<1>4. SupervisorRight
  BY DEF TunnelInit, SupervisorRight, Unconnected, Connected
<1>5. ClosingRight
  BY DEF TunnelInit, ClosingRight
<1>6. QED
  BY <1>2, <1>3, <1>4, <1>5 DEF TunnelInv

\* A step that changes one session, and neither the supervisor nor who runs it.
LEMMA SlotKeeps ==
  ASSUME SessionsRight, sess \in [Slots -> SessionStates],
         NEW n \in Slots, NEW s \in SessionStates, sess' = [sess EXCEPT ![n] = s],
         SessionRight(s, n, session, pc, role),
         session' = session, pc' = pc, role' = role
  PROVE  sess' \in [Slots -> SessionStates] /\ SessionsRight'
<1>1. \A m \in Slots : sess'[m] = IF m = n THEN s ELSE sess[m]
  BY SMT
<1>2. sess' \in [Slots -> SessionStates]
  BY SMT
<1>3. Slots' = Slots
  BY DEF Slots
<1>4. ASSUME NEW m \in Slots PROVE SessionRight(sess'[m], m, session', pc', role')
  <2>1. CASE m = n
    BY <1>1, <2>1
  <2>2. CASE m # n
    BY <1>1, <2>2 DEF SessionsRight
  <2>3. QED
    BY <2>1, <2>2
<1>5. QED
  BY <1>2, <1>3, <1>4 DEF SessionsRight

\* A step of a readLoop: it leaves the supervisor and Close alone, and a server's may change the
\* queue only while the supervisor waits for it.
LEMMA ReaderKeeps ==
  ASSUME TunnelInv, role' = role,
         NEW n \in Slots, NEW s \in SessionStates, Reader(n, s),
         SessionRight(s, n, session, pc, role),
         queue' \in 0..QueueLimit,
         queue' = queue \/ ~Server \/ pc = "wait"
  PROVE  TunnelInv'
<1> USE DEF TunnelInv, Reader, supervisor, transport
<1>1. sess' \in [Slots -> SessionStates] /\ SessionsRight'
  BY SlotKeeps DEF TunnelTypeOK
<1>2. TunnelTypeOK'
  BY <1>1, SMT DEF TunnelTypeOK, Slots
<1>3. SupervisorRight'
  BY DEF SupervisorRight
<1>4. ClosingRight'
  <2>1. closing \in {"drained", "done"} => pc # "wait"
    BY DEF ClosingRight
  <2>2. closing \in {"drained", "done"} /\ Server => queue' = 0
    BY <2>1 DEF ClosingRight
  <2>3. QED
    BY <2>2 DEF ClosingRight, Server
<1>5. QED
  BY <1>1, <1>2, <1>3, <1>4

\* Ready is a flag of the session.
LEMMA ReadyTyped ==
  ASSUME NEW s \in SessionStates, NEW b \in BOOLEAN
  PROVE  [s EXCEPT !.ready = b] \in SessionStates
BY SMT DEF SessionStates

\* finish: a session that is not ready any more, and that keeps the first error it ended with.
LEMMA FinishedRight ==
  ASSUME NEW s \in SessionStates, NEW err \in {"nil", "error"}
  PROVE  /\ Finished(s, err) \in SessionStates
         /\ Finished(s, err).ready = FALSE /\ Finished(s, err).done # "open"
         /\ Finished(s, err).life = s.life /\ Finished(s, err).conn = s.conn
         /\ Finished(s, err).messages = s.messages /\ Finished(s, err).reader = s.reader
<1>1. PICK d : d = IF s.done = "open" THEN err ELSE s.done
  OBVIOUS
<1>2. d \in {"open", "nil", "error"} /\ d # "open"
  BY <1>1, SMT DEF SessionStates
<1>3. Finished(s, err) = [s EXCEPT !.ready = FALSE, !.done = d]
  BY <1>1, SMT DEF Finished
<1>4. PICK r \in SessionStates : r = [s EXCEPT !.ready = FALSE]
  BY ReadyTyped
<1>5. /\ r.ready = FALSE /\ r.life = s.life /\ r.conn = s.conn /\ r.messages = s.messages
      /\ r.reader = s.reader
  BY <1>4, SMT DEF SessionStates
<1>6. Finished(s, err) = [r EXCEPT !.done = d]
  BY <1>3, <1>4, SMT DEF SessionStates
<1>7. PICK f : f = [r EXCEPT !.done = d]
  OBVIOUS
<1>8. f \in SessionStates
  BY <1>2, <1>7, SMT DEF SessionStates
<1>9. /\ f.done = d /\ f.life = r.life /\ f.conn = r.conn /\ f.messages = r.messages
      /\ f.reader = r.reader /\ f.ready = r.ready
  BY <1>7, SMT DEF SessionStates
<1>10. QED
  BY <1>2, <1>5, <1>6, <1>7, <1>8, <1>9

\* What a running readLoop may be at.
Running == {"top", "arm", "reading", "hand", "handLast", "check"}

\* A running readLoop that goes on, or ends.
LEMMA ReaderRight ==
  ASSUME TunnelInv, NEW n \in Slots, sess[n].reader \in Running
  PROVE  /\ sess[n] \in SessionStates /\ SessionRight(sess[n], n, session, pc, role)
         /\ Server => pc = "wait"
         /\ \A err \in {"nil", "error"} :
              /\ Ends(n, err) \in SessionStates
              /\ SessionRight(Ends(n, err), n, session, pc, role)
         /\ \A step \in Running :
              /\ Goes(n, step) \in SessionStates
              /\ SessionRight(Goes(n, step), n, session, pc, role)
<1>1. sess[n] \in SessionStates /\ SessionRight(sess[n], n, session, pc, role)
  BY SMT DEF TunnelInv, TunnelTypeOK, SessionsRight
<1>2. sess[n].reader \notin {"none", "over"}
  BY DEF Running
<1>3. Server => pc = "wait"
  BY <1>1, <1>2 DEF SessionRight, Server
<1>4. ASSUME NEW err \in {"nil", "error"}
      PROVE  /\ Ends(n, err) \in SessionStates
             /\ SessionRight(Ends(n, err), n, session, pc, role)
  <2>1. PICK s \in SessionStates : s = sess[n]
    BY <1>1
  <2>2. /\ Ends(n, err) \in SessionStates
        /\ Ends(n, err).ready = FALSE /\ Ends(n, err).reader = "over"
        /\ Ends(n, err).life = s.life /\ Ends(n, err).conn = s.conn
        /\ Ends(n, err).messages = s.messages
    <3>1. PICK f : f = Finished(s, err)
      OBVIOUS
    <3>2. /\ f \in SessionStates /\ f.ready = FALSE /\ f.life = s.life /\ f.conn = s.conn
          /\ f.messages = s.messages
      BY <3>1, FinishedRight
    <3>3. Ends(n, err) = [f EXCEPT !.reader = "over"]
      BY <2>1, <3>1 DEF Ends
    <3>4. QED
      BY <3>2, <3>3, SMT DEF SessionStates
  <2>3. QED
    BY <1>1, <1>2, <2>1, <2>2, SMT DEF SessionRight
<1>5. ASSUME NEW step \in Running
      PROVE  /\ Goes(n, step) \in SessionStates
             /\ SessionRight(Goes(n, step), n, session, pc, role)
  <2>1. PICK s \in SessionStates : s = sess[n]
    BY <1>1
  <2>2. /\ Goes(n, step) \in SessionStates
        /\ Goes(n, step).ready = s.ready /\ Goes(n, step).reader = step
        /\ Goes(n, step).life = s.life /\ Goes(n, step).conn = s.conn
        /\ Goes(n, step).messages = s.messages /\ Goes(n, step).done = s.done
    BY <2>1, SMT DEF Goes, SessionStates, Running
  <2>3. step \notin {"none", "over"}
    BY DEF Running
  <2>4. QED
    BY <1>1, <1>2, <2>1, <2>2, <2>3, SMT DEF SessionRight
<1>6. QED
  BY <1>1, <1>3, <1>4, <1>5

\* readLoop: whatever it reads, and whether it goes on or ends.
LEMMA ReadLoopKeeps ==
  ASSUME TunnelInv, role' = role, NEW n \in Slots,
         \/ LoopTop(n) \/ SetReadDeadline(n) \/ ReadTimesOut(n) \/ PingRestart(n)
         \/ ReadClosed(n) \/ PeerGone(n) \/ HandOver(n)
         \/ \E kind \in Kinds : ReadPackets(n, kind)
         \/ \E due \in BOOLEAN : CheckKeepalive(n, due)
  PROVE  TunnelInv'
<1> DEFINE Allowed(s) == s \in SessionStates /\ SessionRight(s, n, session, pc, role)
<1>1. queue \in 0..QueueLimit
  BY DEF TunnelInv, TunnelTypeOK
<1>2. ASSUME NEW s, Reader(n, s), UNCHANGED queue, Allowed(s) PROVE TunnelInv'
  BY <1>1, <1>2, ReaderKeeps
<1>3. ASSUME sess[n].reader \in Running
      PROVE  /\ Allowed(sess[n]) /\ Allowed(Ends(n, "nil")) /\ Allowed(Ends(n, "error"))
             /\ \A step \in Running : Allowed(Goes(n, step))
             /\ Server => pc = "wait"
  BY <1>3, ReaderRight
<1>4. {"top", "arm", "reading", "hand", "handLast", "check"} \subseteq Running
  BY DEF Running
<1> HIDE DEF Allowed
<1>5. CASE LoopTop(n)
  BY <1>2, <1>3, <1>4, <1>5 DEF LoopTop
<1>6. CASE SetReadDeadline(n)
  BY <1>2, <1>3, <1>4, <1>6 DEF SetReadDeadline
<1>7. CASE ReadTimesOut(n) \/ PingRestart(n) \/ ReadClosed(n) \/ PeerGone(n)
  BY <1>2, <1>3, <1>4, <1>7 DEF ReadTimesOut, PingRestart, ReadClosed, PeerGone
<1>8. CASE HandOver(n)
  <2>1. sess[n].reader \in Running
    BY <1>4, <1>8 DEF HandOver
  <2>2. queue' \in 0..QueueLimit
    BY <1>1, <1>8, QueueCapped DEF HandOver
  <2>3. PICK s : Reader(n, s) /\ Allowed(s)
    BY <1>3, <1>4, <1>8, <2>1 DEF HandOver
  <2>4. QED
    BY <1>3, <2>1, <2>2, <2>3, ReaderKeeps DEF Allowed
<1>9. ASSUME NEW kind \in Kinds, ReadPackets(n, kind) PROVE TunnelInv'
  <2>1. sess[n].reader \in Running
    BY <1>4, <1>9 DEF ReadPackets
  <2>2. PICK s : Reader(n, s) /\ s \in {Goes(n, "hand"), Goes(n, "handLast"), Goes(n, "check"),
                                        Ends(n, "error")}
    BY <1>9, SMT DEF ReadPackets
  <2>3. QED
    BY <1>2, <1>3, <1>4, <1>9, <2>1, <2>2 DEF ReadPackets
<1>10. ASSUME NEW due \in BOOLEAN, CheckKeepalive(n, due) PROVE TunnelInv'
  <2>1. sess[n].reader \in Running
    BY <1>4, <1>10 DEF CheckKeepalive
  <2>2. PICK g : g = Goes(n, "top")
    OBVIOUS
  <2>3. PICK m : m = IF due /\ sess[n].life = "open" /\ g.messages = "none"
                     THEN "running" ELSE g.messages
    OBVIOUS
  <2>4. Reader(n, [g EXCEPT !.messages = m])
    BY <1>10, <2>2, <2>3, SMT DEF CheckKeepalive
  <2>5. g \in SessionStates /\ SessionRight(g, n, session, pc, role)
    BY <1>3, <1>4, <2>1, <2>2 DEF Allowed
  <2>6. sess[n].life = g.life
    BY <1>3, <2>1, <2>2, SMT DEF Goes, Allowed, SessionStates
  <2>7. m \in {"none", "running", "shut"} /\ (g.life = "closed" => m # "running")
    <3>1. g.messages \in {"none", "running", "shut"}
      BY <2>5, SMT DEF SessionStates
    <3>2. g.life = "closed" => g.messages # "running"
      BY <2>5 DEF SessionRight
    <3>3. QED
      BY <2>3, <2>6, <3>1, <3>2
  <2>8. PICK s : s = [g EXCEPT !.messages = m]
    OBVIOUS
  <2>9. /\ s \in SessionStates /\ s.messages = m /\ s.life = g.life /\ s.conn = g.conn
        /\ s.ready = g.ready /\ s.done = g.done /\ s.reader = g.reader
    BY <2>5, <2>7, <2>8, SMTT(30) DEF SessionStates
  <2>10. SessionRight(s, n, session, pc, role)
    BY <2>5, <2>7, <2>9, SMT DEF SessionRight
  <2>11. QED
    BY <1>2, <1>10, <2>4, <2>8, <2>9, <2>10 DEF CheckKeepalive, Allowed
<1>11. QED
  BY <1>5, <1>6, <1>7, <1>8, <1>9, <1>10

\* A step that changes the session in one slot and who is about to close which session, and
\* nothing else.
LEMMA CloserKeeps ==
  ASSUME TunnelInv, role' = role, NEW n \in Slots, NEW s \in SessionStates,
         sess' = [sess EXCEPT ![n] = s], SessionRight(s, n, session, pc, role),
         toClose' \subseteq Slots,
         pc \in Unconnected \cup {"current"} => session \notin toClose',
         UNCHANGED <<supervisor, cancelled, reads, transport, queues, closing>>
  PROVE  TunnelInv'
<1> USE DEF TunnelInv, supervisor, transport, queues
<1>1. sess' \in [Slots -> SessionStates] /\ SessionsRight'
  BY SlotKeeps DEF TunnelTypeOK
<1>2. TunnelTypeOK'
  BY <1>1, SMT DEF TunnelTypeOK, Slots
<1>3. SupervisorRight'
  BY DEF SupervisorRight
<1>4. ClosingRight'
  BY DEF ClosingRight, Server
<1>5. QED
  BY <1>1, <1>2, <1>3, <1>4

\* Close of a session, by whoever calls it.
LEMMA SessionCloseKeeps ==
  ASSUME TunnelInv, role' = role, NEW n \in Slots,
         CloseMarks(n) \/ CloseEnds(n) \/ CloseAgain(n)
  PROVE  TunnelInv'
<1>1. /\ sess \in [Slots -> SessionStates] /\ sess[n] \in SessionStates
      /\ SessionRight(sess[n], n, session, pc, role)
  BY SMT DEF TunnelInv, TunnelTypeOK, SessionsRight
<1>2. /\ toClose \subseteq Slots
      /\ pc \in Unconnected \cup {"current"} => session \notin toClose
  BY DEF TunnelInv, TunnelTypeOK, SupervisorRight
<1>3. PICK s \in SessionStates : s = sess[n]
  BY <1>1
<1>4. CASE CloseMarks(n)
  <2>1. PICK r \in SessionStates : r = [s EXCEPT !.ready = FALSE]
    BY ReadyTyped
  <2>2. /\ r.ready = FALSE /\ r.life = s.life /\ r.conn = s.conn /\ r.messages = s.messages
        /\ r.reader = s.reader /\ r.done = s.done
    BY <2>1, SMT DEF SessionStates
  <2>3. PICK f : f = [r EXCEPT !.life = "closing"]
    OBVIOUS
  <2>4. /\ f \in SessionStates /\ f.ready = FALSE /\ f.life = "closing" /\ f.conn = s.conn
        /\ f.messages = s.messages /\ f.reader = s.reader /\ f.done = s.done
    BY <2>2, <2>3, SMT DEF SessionStates
  <2>5. sess' = [sess EXCEPT ![n] = f]
    <3>1. f = Marked(s)
      BY <2>1, <2>3, SMT DEF Marked, SessionStates
    <3>2. QED
      BY <1>3, <1>4, <3>1 DEF CloseMarks
  <2>6. s.life = "open" /\ (n = session => pc \notin Unconnected \cup {"current"})
    BY <1>2, <1>3, <1>4 DEF CloseMarks
  <2>7. SessionRight(f, n, session, pc, role)
    BY <1>1, <1>3, <2>4, <2>6, SMTT(30) DEF SessionRight, Unconnected, Connected
  <2>8. QED
    BY <1>2, <1>4, <2>4, <2>5, <2>7, CloserKeeps DEF CloseMarks
<1>5. CASE CloseEnds(n)
  <2>1. PICK m, c : /\ m = IF s.messages = "running" THEN "shut" ELSE s.messages
                    /\ c = IF s.conn = "open" THEN "closed" ELSE s.conn
    OBVIOUS
  <2>2. m \in {"none", "shut"} /\ c \in {"none", "closed"}
    BY <2>1, SMT DEF SessionStates
  <2>3. PICK f : f = [[[s EXCEPT !.life = "closed"] EXCEPT !.messages = m] EXCEPT !.conn = c]
    OBVIOUS
  <2>4. /\ f \in SessionStates /\ f.ready = s.ready /\ f.life = "closed" /\ f.conn = c
        /\ f.messages = m /\ f.reader = s.reader /\ f.done = s.done
    <3>1. PICK a : a = [s EXCEPT !.life = "closed"]
      OBVIOUS
    <3>2. /\ a \in SessionStates /\ a.ready = s.ready /\ a.life = "closed"
          /\ a.reader = s.reader /\ a.done = s.done
      BY <3>1, SMT DEF SessionStates
    <3>3. PICK b : b = [a EXCEPT !.messages = m]
      OBVIOUS
    <3>4. /\ b \in SessionStates /\ b.ready = s.ready /\ b.life = "closed" /\ b.messages = m
          /\ b.reader = s.reader /\ b.done = s.done
      BY <2>2, <3>2, <3>3, SMTT(30) DEF SessionStates
    <3>5. f = [b EXCEPT !.conn = c]
      BY <2>3, <3>1, <3>3
    <3>6. QED
      BY <2>2, <3>4, <3>5, SMT DEF SessionStates
  <2>5. sess' = [sess EXCEPT ![n] = f]
    <3>1. f = Closed(s)
      BY <2>1, <2>3, SMT DEF Closed, SessionStates
    <3>2. QED
      BY <1>3, <1>5, <3>1 DEF CloseEnds
  <2>6. s.life = "closing"
    BY <1>3, <1>5 DEF CloseEnds
  <2>7. SessionRight(f, n, session, pc, role)
    BY <1>1, <1>3, <2>2, <2>4, <2>6, SMTT(30) DEF SessionRight, Unconnected, Connected
  <2>8. QED
    BY <1>2, <1>5, <2>4, <2>5, <2>7, CloserKeeps DEF CloseEnds
<1>6. CASE CloseAgain(n)
  <2>1. sess' = [sess EXCEPT ![n] = s]
    BY <1>1, <1>3, <1>6, SMT DEF CloseAgain
  <2>2. QED
    BY <1>1, <1>2, <1>3, <1>6, <2>1, CloserKeeps DEF CloseAgain
<1>7. QED
  BY <1>4, <1>5, <1>6

\* RestartSession of an application.
LEMMA RestartKeeps ==
  ASSUME TunnelInv, role' = role, RestartSession
  PROVE  TunnelInv'
<1>1. current \in Slots /\ current = session /\ pc \notin Unconnected \cup {"current"}
  BY SMT DEF TunnelInv, TunnelTypeOK, SupervisorRight, RestartSession, Slots, None
<1>2. PICK s \in SessionStates :
        s = sess[current] /\ SessionRight(s, current, session, pc, role)
  BY <1>1, SMT DEF TunnelInv, TunnelTypeOK, SessionsRight
<1>3. PICK f : f = Finished(s, "error")
  OBVIOUS
<1>4. /\ f \in SessionStates /\ f.ready = FALSE /\ f.life = s.life /\ f.conn = s.conn
      /\ f.messages = s.messages /\ f.reader = s.reader
  BY <1>3, FinishedRight
<1>5. sess' = [sess EXCEPT ![current] = f]
  BY <1>2, <1>3 DEF RestartSession
<1>6. SessionRight(f, current, session, pc, role)
  BY <1>2, <1>4, SMT DEF SessionRight, RestartSession
<1>7. toClose' \subseteq Slots
  BY <1>1 DEF RestartSession, TunnelInv, TunnelTypeOK
<1>8. QED
  BY <1>1, <1>4, <1>5, <1>6, <1>7, CloserKeeps DEF RestartSession

-----------------------------------------------------------------------------
\* A step of the supervisor that leaves the sessions and Close alone: it goes from one step to
\* the next with the session it has.
LEMMA SupervisorGoes ==
  ASSUME TunnelInv, role' = role, NEW next \in Steps, Supervise(next),
         sess' = sess, session' = session, reads' = reads,
         current' \in {None, session}, watched' \in {None, session}, toClose' \subseteq Slots,
         \A n \in Slots : SessionRight(sess[n], n, session, next, role),
         SupervisorRight', pc # "done"
  PROVE  TunnelInv'
<1> USE DEF TunnelInv, Supervise, transport, queues
<1>1. TunnelTypeOK'
  BY SMT DEF TunnelTypeOK, Slots
<1>2. SessionsRight'
  BY DEF SessionsRight, Slots
<1>3. ClosingRight'
  BY DEF ClosingRight, Server
<1>4. QED
  BY <1>1, <1>2, <1>3

\* What a step of the supervisor needs to know of the sessions: the one it runs, and the others,
\* which have no connection and, on a server, no readLoop.
LEMMA OthersRight ==
  ASSUME TunnelInv, NEW next \in Steps, NEW running \in Slots \cup {None},
         \A n \in Slots : n # session /\ n = running =>
                            SessionRight(sess[n], n, running, next, role),
         session \in Slots => SessionRight(sess[session], session, running, next, role)
  PROVE  \A n \in Slots : SessionRight(sess[n], n, running, next, role)
<1> TAKE n \in Slots
<1>1. CASE n = session
  BY <1>1
<1>2. CASE n # session /\ n = running
  BY <1>2
<1>3. CASE n # session /\ n # running
  <2>1. SessionRight(sess[n], n, session, pc, role)
    BY DEF TunnelInv, SessionsRight
  <2>2. QED
    BY <1>3, <2>1 DEF SessionRight
<1>4. QED
  BY <1>1, <1>2, <1>3

\* The supervisor's steps that leave the sessions as they are: dialling, accepting, making the
\* session current, giving it up, and waiting for the next one.
LEMMA SupervisorKeeps ==
  ASSUME TunnelInv, role' = role,
         \/ Leave \/ DialContext \/ Accept \/ AcceptFails \/ SetCurrentSession \/ SessionOver
         \/ Backoff
  PROVE  TunnelInv'
<1> DEFINE Fits(next) ==
             session \in Slots => SessionRight(sess[session], session, session, next, role)
<1>1. /\ session \in Slots \cup {None} /\ toClose \subseteq Slots /\ current \in {None, session}
      /\ watched \in {None, session} /\ pc \in Steps
  BY DEF TunnelInv, TunnelTypeOK
<1>2. None \notin Slots
  BY SMT DEF None, Slots
<1>3. ASSUME session \in Slots
      PROVE  SessionRight(sess[session], session, session, pc, role)
  BY <1>3 DEF TunnelInv, SessionsRight
<1>4. SupervisorRight
  BY DEF TunnelInv
<1>5. ASSUME NEW next \in Steps, Supervise(next), Fits(next), SupervisorRight', pc # "done",
             sess' = sess, session' = session, reads' = reads,
             current' \in {None, session}, watched' \in {None, session}, toClose' \subseteq Slots
      PROVE  TunnelInv'
  <2>1. \A n \in Slots : SessionRight(sess[n], n, session, next, role)
    BY <1>1, <1>5, OthersRight
  <2>2. QED
    BY <1>5, <2>1, SupervisorGoes
<1>6. ASSUME NEW next \in {"exit", "top"}, Supervise(next), pc \in {"top", "backoff"},
             UNCHANGED <<session, current, watched, sess, toClose, reads>>
      PROVE  TunnelInv'
  <2>1. session = None /\ watched = None
    BY <1>1, <1>4, <1>6 DEF SupervisorRight, Unconnected, Connected
  <2>2. SupervisorRight'
    BY <1>6, <2>1 DEF SupervisorRight, Supervise, Unconnected, Connected
  <2>3. next \in Steps /\ pc # "done" /\ Fits(next)
    BY <1>2, <1>6, <2>1 DEF Steps
  <2>4. QED
    BY <1>1, <1>5, <1>6, <2>2, <2>3
<1>7. ASSUME NEW next \in {"accept", "install", "failed"}, Supervise(next),
             pc \in {"dial", "accept"},
             UNCHANGED <<session, current, watched, sess, toClose, reads>>
      PROVE  TunnelInv'
  <2>1. watched = None /\ current = None /\ session \notin toClose /\ session \in Slots
    BY <1>1, <1>4, <1>7 DEF SupervisorRight, Unconnected, Connected
  <2>2. SupervisorRight'
    BY <1>2, <1>7, <2>1 DEF SupervisorRight, Supervise, Unconnected, Connected
  <2>3. next \in Steps /\ pc # "done"
    BY <1>7 DEF Steps
  <2>4. PICK s : s = sess[session]
    OBVIOUS
  <2>5. s.conn # "open" /\ s.life = "open" /\ s.reader = "none"
    BY <1>3, <1>7, <2>1, <2>4 DEF SessionRight, Unconnected, Connected
  <2>6. SessionRight(s, session, session, next, role)
    BY <1>3, <1>7, <2>1, <2>4, <2>5 DEF SessionRight, Unconnected, Connected
  <2>7. QED
    BY <1>1, <1>5, <1>7, <2>2, <2>3, <2>4, <2>6
<1>8. CASE Leave \/ Backoff
  BY <1>6, <1>8 DEF Leave, Backoff
<1>9. CASE DialContext \/ Accept \/ AcceptFails
  <2>1. \E next \in {"accept", "install", "failed"} : Supervise(next)
    BY <1>9 DEF DialContext, Accept, AcceptFails
  <2>2. QED
    BY <1>7, <1>9, <2>1 DEF DialContext, Accept, AcceptFails
<1>10. CASE SetCurrentSession
  <2>1. session \in Slots /\ watched = None
    BY <1>1, <1>4, <1>10 DEF SetCurrentSession, SupervisorRight, Unconnected, Connected
  <2>2. PICK next \in {"failed", "start"} :
          /\ Supervise(next)
          /\ current' \in {None, session} /\ watched' \in {None, session}
          /\ next = "failed" => watched' = None
    BY <1>1, <1>10, <2>1 DEF SetCurrentSession
  <2>3. PICK s : s = sess[session]
    OBVIOUS
  <2>4. /\ s.conn = "open" /\ s.life = "open" /\ s.reader = "none"
        /\ SessionRight(s, session, session, pc, role)
    BY <1>3, <1>10, <2>1, <2>3 DEF SessionRight, SetCurrentSession, Unconnected
  <2>5. SessionRight(s, session, session, next, role)
    BY <2>4 DEF SessionRight, Unconnected, Connected
  <2>6. SupervisorRight'
    BY <1>2, <1>10, <2>1, <2>2 DEF SupervisorRight, Supervise, SetCurrentSession, Unconnected,
                                   Connected
  <2>7. next \in Steps /\ pc # "done"
    BY <1>10 DEF Steps, SetCurrentSession
  <2>8. QED
    BY <1>1, <1>5, <1>10, <2>2, <2>3, <2>5, <2>6, <2>7 DEF SetCurrentSession
<1>11. CASE SessionOver
  <2>1. session \in Slots /\ pc \in {"wait", "failed"} /\ Supervise("closing")
    BY <1>1, <1>4, <1>11 DEF SessionOver, SupervisorRight, Unconnected, Connected
  <2>2. PICK s : s = sess[session]
    OBVIOUS
  <2>3. SessionRight(s, session, session, pc, role) /\ (pc = "wait" => s.done # "open")
    BY <1>3, <1>11, <2>1, <2>2 DEF SessionOver
  <2>4. SessionRight(s, session, session, "closing", role)
    BY <2>1, <2>3 DEF SessionRight, Unconnected, Connected
  <2>5. SupervisorRight'
    BY <1>2, <1>11, <2>1 DEF SupervisorRight, Supervise, SessionOver, Unconnected, Connected
  <2>6. "closing" \in Steps /\ pc # "done" /\ toClose' \subseteq Slots
    BY <1>1, <1>11, <2>1 DEF Steps, SessionOver
  <2>7. QED
    BY <1>1, <1>5, <1>11, <2>1, <2>2, <2>4, <2>5, <2>6 DEF SessionOver
<1>12. QED
  BY <1>8, <1>9, <1>10, <1>11

\* A step of the supervisor that changes the session it runs.
LEMMA SupervisorChanges ==
  ASSUME TunnelInv, role' = role, NEW next \in Steps, Supervise(next),
         NEW n \in Slots, session \in {None, n}, session' = n,
         NEW s \in SessionStates, sess' = [sess EXCEPT ![n] = s],
         SessionRight(s, n, n, next, role),
         current' \in {None, n}, watched' \in {None, n},
         UNCHANGED <<toClose, reads>>, SupervisorRight', pc # "done"
  PROVE  TunnelInv'
<1> USE DEF Supervise, transport, queues
<1>1. sess \in [Slots -> SessionStates]
  BY DEF TunnelInv, TunnelTypeOK
<1>2. /\ \A m \in Slots : sess'[m] = IF m = n THEN s ELSE sess[m]
      /\ sess' \in [Slots -> SessionStates]
  BY <1>1, SMT
<1>3. TunnelTypeOK'
  BY <1>2, SMT DEF TunnelInv, TunnelTypeOK, Slots
<1>4. None \notin Slots
  BY SMT DEF None, Slots
<1>5. ASSUME NEW m \in Slots PROVE SessionRight(sess'[m], m, n, next, role)
  <2>1. CASE m = n
    BY <1>2, <2>1
  <2>2. CASE m # n
    <3>1. SessionRight(sess[m], m, session, pc, role) /\ m # session
      BY <1>4, <2>2 DEF TunnelInv, SessionsRight
    <3>2. QED
      BY <1>2, <2>2, <3>1 DEF SessionRight
  <2>3. QED
    BY <2>1, <2>2
<1>6. SessionsRight'
  BY <1>5 DEF SessionsRight, Slots
<1>7. ClosingRight'
  BY DEF TunnelInv, ClosingRight, Server
<1>8. QED
  BY <1>3, <1>6, <1>7 DEF TunnelInv

\* A new session, its connection, and its readLoop.
LEMMA SessionBegins ==
  ASSUME TunnelInv, role' = role, NewClientSession \/ Initialize \/ Start
  PROVE  TunnelInv'
<1>1. /\ session \in Slots \cup {None} /\ toClose \subseteq Slots /\ current \in {None, session}
      /\ watched \in {None, session} /\ pc \in Steps /\ sess \in [Slots -> SessionStates]
      /\ cancelled \in BOOLEAN
  BY DEF TunnelInv, TunnelTypeOK
<1>2. None \notin Slots
  BY SMT DEF None, Slots
<1>3. SupervisorRight
  BY DEF TunnelInv
<1>4. CASE NewClientSession
  <2>1. PICK n \in Slots : /\ Free(n) /\ session' = n
                           /\ sess' = [sess EXCEPT ![n] = NewStaticKeyClientSession]
    BY <1>4 DEF NewClientSession
  <2>2. session = None /\ current = None /\ watched = None
    BY <1>1, <1>3, <1>4 DEF NewClientSession, SupervisorRight, Unconnected, Connected
  <2>3. PICK s : s = NewStaticKeyClientSession
    OBVIOUS
  <2>4. /\ s \in SessionStates /\ s.life = "open" /\ s.conn = "none" /\ s.reader = "none"
        /\ s.done = "open" /\ s.messages = "none"
    <3>1. PICK o \in SessionStates : o = NoSession
      BY NoSessionTyped
    <3>2. s = [o EXCEPT !.life = "open"]
      BY <2>3, <3>1 DEF NewStaticKeyClientSession
    <3>3. /\ o.conn = "none" /\ o.reader = "none" /\ o.done = "open" /\ o.messages = "none"
      BY <3>1, SMT DEF NoSession
    <3>4. QED
      BY <3>1, <3>2, <3>3, SMTT(30) DEF SessionStates
  <2>5. s.ready = FALSE
    BY <2>3, SMT DEF NewStaticKeyClientSession, NoSession
  <2>6. SessionRight(s, n, n, "dial", role)
    BY <2>4, <2>5 DEF SessionRight
  <2>7. pc' = "dial" /\ n \notin toClose /\ n # None
    BY <1>2, <1>4, <2>1 DEF NewClientSession, Supervise, Free
  <2>8. SupervisorRight'
    BY <1>4, <2>1, <2>2, <2>7 DEF NewClientSession, SupervisorRight, Unconnected, Connected
  <2>9. "dial" \in Steps /\ pc # "done"
    BY <1>4 DEF NewClientSession, Steps
  <2>10. QED
    BY <1>4, <2>1, <2>2, <2>3, <2>4, <2>6, <2>8, <2>9, SupervisorChanges DEF NewClientSession
<1>5. CASE Initialize
  <2>1. session \in Slots /\ session \notin toClose /\ current = None /\ watched = None
    BY <1>1, <1>3, <1>5 DEF Initialize, SupervisorRight, Unconnected, Connected
  <2>2. PICK s \in SessionStates :
          s = sess[session] /\ SessionRight(s, session, session, pc, role)
    BY <1>1, <2>1 DEF TunnelInv, SessionsRight
  <2>3. s.life = "open" /\ s.reader = "none" /\ s.conn # "open"
    BY <1>5, <2>2 DEF Initialize, SessionRight, Unconnected, Connected
  <2>4. PICK c \in {"closed", "open"}, next \in {"failed", "current"} :
          /\ c = IF cancelled THEN "closed" ELSE "open"
          /\ next = IF cancelled THEN "failed" ELSE "current"
    OBVIOUS
  <2>5. PICK f : f = [s EXCEPT !.conn = c]
    OBVIOUS
  <2>6. /\ f \in SessionStates /\ f.conn = c /\ f.life = "open" /\ f.reader = "none"
        /\ f.ready = s.ready /\ f.done = s.done /\ f.messages = s.messages
    BY <2>3, <2>5, SMT DEF SessionStates
  <2>7. Supervise(next) /\ pc' = next
    BY <1>5, <2>4 DEF Initialize, Supervise
  <2>8. sess' = [sess EXCEPT ![session] = f]
    BY <1>1, <1>5, <2>1, <2>2, <2>4, <2>5, SMTT(30) DEF Initialize, SessionStates
  <2>9. SessionRight(f, session, session, next, role)
    <3>1. c = "open" => next = "current"
      BY <2>4
    <3>2. next = "current" => c = "open"
      BY <2>4
    <3>3. ~s.ready
      BY <2>2, <2>3 DEF SessionRight
    <3>4. QED
      BY <2>2, <2>3, <2>6, <3>1, <3>2, <3>3 DEF SessionRight, Unconnected, Connected
  <2>10. SupervisorRight'
    BY <1>2, <1>5, <2>1, <2>7 DEF Initialize, SupervisorRight, Unconnected, Connected
  <2>11. next \in Steps /\ pc # "done"
    BY <1>5 DEF Initialize, Steps
  <2>12. QED
    BY <1>5, <2>1, <2>6, <2>7, <2>8, <2>9, <2>10, <2>11, SupervisorChanges DEF Initialize
<1>6. CASE Start
  <2>1. session \in Slots
    BY <1>1, <1>3, <1>6 DEF Start, SupervisorRight, Unconnected, Connected
  <2>2. PICK s \in SessionStates :
          s = sess[session] /\ SessionRight(s, session, session, pc, role)
    BY <1>1, <2>1 DEF TunnelInv, SessionsRight
  <2>3. s.reader = "none" /\ (s.life # "closed" => s.conn = "open")
    BY <1>6, <2>2 DEF Start, SessionRight
  <2>4. PICK next \in {"failed", "wait"} : Supervise(next) /\ pc' = next
    BY <1>6 DEF Start, Supervise
  <2>5. SupervisorRight'
    BY <1>2, <1>3, <1>6, <2>1, <2>4 DEF Start, SupervisorRight, Unconnected, Connected
  <2>6. next \in Steps /\ pc # "done" /\ "wait" \in Steps /\ "failed" \in Steps
    BY <1>6 DEF Start, Steps
  <2>7. CASE cancelled \/ sess[session].life # "open"
    <3>1. sess' = [sess EXCEPT ![session] = s] /\ Supervise("failed")
      BY <1>1, <1>6, <2>2, <2>7, SMTT(30) DEF Start
    <3>2. SessionRight(s, session, session, "failed", role)
      BY <2>2, <2>3 DEF SessionRight, Unconnected, Connected
    <3>3. QED
      BY <1>1, <1>6, <2>1, <2>5, <2>6, <3>1, <3>2, SupervisorChanges DEF Start
  <2>8. CASE ~(cancelled \/ sess[session].life # "open")
    <3>1. PICK r \in SessionStates : r = [s EXCEPT !.ready = TRUE]
      BY ReadyTyped
    <3>2. /\ r.life = s.life /\ r.conn = s.conn /\ r.messages = s.messages
          /\ r.reader = s.reader /\ r.done = s.done
      BY <3>1, SMT DEF SessionStates
    <3>3. PICK f : f = [r EXCEPT !.reader = "top"]
      OBVIOUS
    <3>4. /\ f \in SessionStates /\ f.life = s.life /\ f.conn = s.conn
          /\ f.messages = s.messages /\ f.reader = "top" /\ f.done = s.done
      BY <3>2, <3>3, SMT DEF SessionStates
    <3>5. f = Started(s)
      BY <3>1, <3>3, SMT DEF Started, SessionStates
    <3>6. sess' = [sess EXCEPT ![session] = f] /\ Supervise("wait")
      BY <1>6, <2>2, <2>8, <3>5 DEF Start
    <3>7. s.life = "open" /\ s.conn = "open" /\ (role # "dial" => s.done = "open")
      BY <2>2, <2>3, <2>8 DEF SessionRight
    <3>8. SessionRight(f, session, session, "wait", role)
      BY <2>2, <3>4, <3>7 DEF SessionRight, Unconnected, Connected
    <3>9. QED
      BY <1>1, <1>6, <2>1, <2>5, <2>6, <3>4, <3>6, <3>8, SupervisorChanges DEF Start
  <2>9. QED
    BY <2>7, <2>8
<1>7. QED
  BY <1>4, <1>5, <1>6

\* The end of a session, the context that ends under it, and the end of the supervisor.
LEMMA SessionEndKeeps ==
  ASSUME TunnelInv, role' = role, SessionClosed \/ ContextCloses \/ Exit
  PROVE  TunnelInv'
<1> USE DEF Supervise, supervisor, transport, queues
<1>1. /\ session \in Slots \cup {None} /\ toClose \subseteq Slots /\ current \in {None, session}
      /\ watched \in {None, session} /\ pc \in Steps /\ sess \in [Slots -> SessionStates]
  BY DEF TunnelInv, TunnelTypeOK
<1>2. None \notin Slots
  BY SMT DEF None, Slots
<1>3. SupervisorRight
  BY DEF TunnelInv
<1>4. \A n \in Slots : SessionRight(sess[n], n, session, pc, role)
  BY DEF TunnelInv, SessionsRight
<1>5. CASE SessionClosed
  <2>1. pc' \in {"exit", "backoff"} /\ pc = "closing" /\ sess[session].life = "closed"
    BY <1>5 DEF SessionClosed
  <2>2. session \in Slots /\ watched = None
    BY <1>1, <1>3, <2>1 DEF SupervisorRight, Unconnected, Connected
  <2>3. session' = None /\ current' = None /\ watched' = None
    BY <1>1, <1>5, <2>2 DEF SessionClosed
  <2>4. TunnelTypeOK'
    <3>1. pc' \in Steps
      BY <2>1 DEF Steps
    <3>2. QED
      BY <1>5, <2>3, <3>1, SMTT(30) DEF TunnelInv, TunnelTypeOK, SessionClosed, Slots, None
  <2>5. ASSUME NEW n \in Slots PROVE SessionRight(sess[n], n, None, pc', role)
    <3>1. SessionRight(sess[n], n, session, pc, role)
      BY <1>4
    <3>2. sess[n].conn # "open" /\ n # None
      BY <1>2, <2>1, <3>1 DEF SessionRight
    <3>3. QED
      BY <2>1, <3>1, <3>2 DEF SessionRight
  <2>6. SessionsRight'
    BY <1>5, <2>3, <2>5 DEF SessionsRight, SessionClosed, Slots
  <2>7. SupervisorRight'
    BY <2>1, <2>3 DEF SupervisorRight, Unconnected, Connected
  <2>8. ClosingRight'
    BY <1>5, <2>1 DEF TunnelInv, ClosingRight, SessionClosed, Server
  <2>9. QED
    BY <2>4, <2>6, <2>7, <2>8 DEF TunnelInv
<1>6. CASE ContextCloses
  <2>1. watched \in Slots /\ pc \in {"start", "wait", "failed"}
    BY <1>1, <1>3, <1>6 DEF ContextCloses, SupervisorRight
  <2>2. TunnelTypeOK'
    BY <1>6, <2>1, SMT DEF TunnelInv, TunnelTypeOK, ContextCloses, Slots
  <2>3. SessionsRight'
    BY <1>4, <1>6 DEF SessionsRight, ContextCloses, Slots
  <2>4. SupervisorRight'
    BY <1>3, <1>6, <2>1 DEF SupervisorRight, ContextCloses, Unconnected, Connected
  <2>5. ClosingRight'
    BY <1>6 DEF TunnelInv, ClosingRight, ContextCloses, Server
  <2>6. QED
    BY <2>2, <2>3, <2>4, <2>5 DEF TunnelInv
<1>7. CASE Exit
  <2>1. pc = "exit" /\ pc' = "done" /\ session = None /\ watched = None
    BY <1>1, <1>3, <1>7 DEF Exit, SupervisorRight, Unconnected, Connected
  <2>2. TunnelTypeOK'
    <3>1. pc' \in Steps
      BY <2>1 DEF Steps
    <3>2. /\ reads' \in BOOLEAN /\ current' = None
          /\ UNCHANGED <<session, watched, sess, toClose, cancelled, stored, listening, queue,
                         serverLoop, serverQueue, closing>>
      BY <1>7 DEF Exit
    <3>3. QED
      BY <3>1, <3>2, SMTT(30) DEF TunnelInv, TunnelTypeOK, Slots
  <2>3. ASSUME NEW n \in Slots PROVE SessionRight(sess[n], n, None, "done", role)
    <3>1. SessionRight(sess[n], n, None, "exit", role) /\ n # None
      BY <1>2, <1>4, <2>1
    <3>2. QED
      BY <3>1 DEF SessionRight, Connected
  <2>4. SessionsRight'
    BY <1>7, <2>1, <2>3 DEF SessionsRight, Exit, Slots
  <2>5. SupervisorRight'
    BY <1>7, <2>1 DEF SupervisorRight, Exit, Unconnected, Connected
  <2>6. ClosingRight'
    BY <1>7, <2>1 DEF TunnelInv, ClosingRight, Exit, Server
  <2>7. QED
    BY <2>2, <2>4, <2>5, <2>6 DEF TunnelInv
<1>8. QED
  BY <1>5, <1>6, <1>7

-----------------------------------------------------------------------------
\* The readers of the queues take packets out and, while the server's readLoop runs, hand them
\* on; a queue that was drained stays empty.
LEMMA QueuesKeep ==
  ASSUME TunnelInv, role' = role, LoopReads \/ LoopPushes \/ LoopEnds \/ ApplicationReads
  PROVE  TunnelInv'
<1> USE DEF Queues, supervisor, transport
<1>1. /\ queue \in 0..QueueLimit /\ serverQueue \in 0..QueueLimit
      /\ serverLoop \in {"idle", "hand", "over"}
  BY DEF TunnelInv, TunnelTypeOK
<1>2. QueueLimit \in Nat
  BY TunnelAssumption
<1>3. /\ queue' \in 0..QueueLimit /\ serverQueue' \in 0..QueueLimit
      /\ serverLoop' \in {"idle", "hand", "over"}
  <2>1. CASE LoopReads
    BY <1>1, <1>2, <2>1, SMT DEF LoopReads
  <2>2. CASE LoopPushes
    BY <1>1, <2>2, QueueCapped DEF LoopPushes
  <2>3. CASE LoopEnds
    BY <1>1, <2>3 DEF LoopEnds
  <2>4. CASE ApplicationReads
    BY <1>1, <1>2, <2>4, SMTT(30) DEF ApplicationReads
  <2>5. QED
    BY <2>1, <2>2, <2>3, <2>4
<1>4. /\ UNCHANGED <<pc, session, current, watched, sess, toClose, cancelled, reads, stored,
                     listening, closing>>
  BY DEF LoopReads, LoopPushes, LoopEnds, ApplicationReads
<1>5. /\ queue = 0 => queue' = 0
      /\ serverLoop = "over" => serverLoop' = "over"
      /\ serverLoop = "over" /\ serverQueue = 0 => serverQueue' = 0
  <2>1. ~(0 > 0)
    BY SMTT(30)
  <2>2. QED
    BY <2>1 DEF LoopReads, LoopPushes, LoopEnds, ApplicationReads
<1>6. TunnelTypeOK'
  BY <1>3, <1>4, SMTT(30) DEF TunnelInv, TunnelTypeOK, Slots
<1>7. SessionsRight' /\ SupervisorRight'
  BY <1>4 DEF TunnelInv, SessionsRight, SupervisorRight, Slots
<1>8. ClosingRight'
  BY <1>4, <1>5 DEF TunnelInv, ClosingRight, Server
<1>9. QED
  BY <1>6, <1>7, <1>8 DEF TunnelInv

\* A step of Close leaves the supervisor where it is; it may take the current session out of its
\* hands.
LEMMA ClosingKeeps ==
  ASSUME TunnelInv, role' = role,
         UNCHANGED <<pc, session, watched, sess>>,
         current' \in {None, current}, toClose' \subseteq toClose \cup ({current} \ {None}),
         cancelled' \in BOOLEAN, reads' \in BOOLEAN, stored' \in BOOLEAN, listening' \in BOOLEAN,
         queue' \in 0..QueueLimit, serverQueue' \in 0..QueueLimit, serverLoop' = serverLoop,
         closing' \in {"no", "cancelled", "unlinked", "transportClosed", "clientClosed",
                       "drained", "done"},
         ClosingRight'
  PROVE  TunnelInv'
<1>1. /\ session \in Slots \cup {None} /\ toClose \subseteq Slots /\ current \in {None, session}
      /\ SupervisorRight
  BY DEF TunnelInv, TunnelTypeOK
<1>2. toClose' \subseteq Slots /\ current' \in {None, session}
  BY <1>1
<1>3. TunnelTypeOK'
  BY <1>2, SMTT(30) DEF TunnelInv, TunnelTypeOK, Slots
<1>4. SessionsRight'
  BY DEF TunnelInv, SessionsRight, Slots
<1>5. SupervisorRight'
  BY <1>1 DEF SupervisorRight
<1>6. QED
  BY <1>3, <1>4, <1>5 DEF TunnelInv

\* Close, and the context that ends: the transport goes first, then the sessions, and each drain
\* waits for the one that pushes.
LEMMA CloseKeeps ==
  ASSUME TunnelInv, role' = role, ContextDone \/ CloseCancels \/ CloseSteps
  PROVE  TunnelInv'
<1> USE DEF supervisor, transport, queues, Closing
<1>1. /\ cancelled \in BOOLEAN /\ reads \in BOOLEAN /\ stored \in BOOLEAN
      /\ listening \in BOOLEAN /\ queue \in 0..QueueLimit /\ serverQueue \in 0..QueueLimit
      /\ closing \in {"no", "cancelled", "unlinked", "transportClosed", "clientClosed",
                      "drained", "done"}
      /\ ClosingRight
  BY DEF TunnelInv, TunnelTypeOK
<1>2. 0 \in 0..QueueLimit
  BY TunnelAssumption, SMT
<1>3. CASE ContextDone
  <2>1. ClosingRight'
    BY <1>1, <1>3 DEF ContextDone, ClosingRight, Server
  <2>2. QED
    BY <1>1, <1>3, <2>1, ClosingKeeps DEF ContextDone
<1>4. CASE CloseCancels
  <2>1. /\ closing' \in {"cancelled", "transportClosed"} /\ (Server => closing' = "cancelled")
        /\ cancelled' \in BOOLEAN
    BY <1>1, <1>4 DEF CloseCancels
  <2>2. ClosingRight'
    BY <1>1, <1>4, <2>1 DEF CloseCancels, ClosingRight, Server
  <2>3. QED
    BY <1>1, <1>4, <2>1, <2>2, ClosingKeeps DEF CloseCancels
<1>5. CASE CloseTransport
  <2>1. closing' \in {"unlinked", "transportClosed"} /\ closing \in {"cancelled", "unlinked"}
    BY <1>5 DEF CloseTransport
  <2>2. stored' \in BOOLEAN /\ listening' \in BOOLEAN
    BY <1>1, <1>5 DEF CloseTransport
  <2>3. listening' => listening /\ closing' = "unlinked"
    BY <1>5 DEF CloseTransport
  <2>4. ClosingRight'
    BY <1>1, <2>1, <2>3 DEF ClosingRight, Server
  <2>5. QED
    BY <1>1, <1>5, <2>1, <2>2, <2>4, ClosingKeeps DEF CloseTransport
<1>6. CASE CloseClient
  <2>1. ClosingRight'
    BY <1>1, <1>6 DEF CloseClient, ClosingRight, Server
  <2>2. QED
    BY <1>1, <1>6, <2>1, ClosingKeeps DEF CloseClient
<1>7. CASE DrainClient
  <2>1. ClosingRight'
    BY <1>1, <1>7 DEF DrainClient, ClosingRight, Server
  <2>2. QED
    BY <1>1, <1>2, <1>7, <2>1, ClosingKeeps DEF DrainClient
<1>8. CASE DrainServer
  <2>1. ClosingRight'
    BY <1>1, <1>8 DEF DrainServer, ClosingRight, Server
  <2>2. QED
    BY <1>1, <1>2, <1>8, <2>1, ClosingKeeps DEF DrainServer
<1>9. QED
  BY <1>3, <1>4, <1>5, <1>6, <1>7, <1>8 DEF CloseSteps

\* Every step of the tunnel keeps the inductive invariant.
LEMMA TunnelKeeps == TunnelInv /\ [TunnelNext]_tunnelVars => TunnelInv'
<1> SUFFICES ASSUME TunnelInv, [TunnelNext]_tunnelVars PROVE TunnelInv'
  OBVIOUS
<1>1. CASE UNCHANGED tunnelVars
  <2> USE <1>1 DEF TunnelInv, tunnelVars, supervisor, transport, queues
  <2>1. TunnelTypeOK'
    BY SMT DEF TunnelTypeOK, Slots
  <2>2. SessionsRight' /\ SupervisorRight' /\ ClosingRight'
    BY DEF SessionsRight, SupervisorRight, ClosingRight, Slots, Server
  <2>3. QED
    BY <2>1, <2>2
<1>2. CASE TunnelNext
  <2>1. role' = role
    BY <1>2 DEF TunnelNext
  <2>2. ASSUME NEW n \in Slots, SessionSteps(n) PROVE TunnelInv'
    BY <2>1, <2>2, SessionCloseKeeps, ReadLoopKeeps DEF SessionSteps
  <2>3. CASE SupervisorSteps
    BY <2>1, <2>3, SupervisorKeeps, SessionBegins, SessionEndKeeps DEF SupervisorSteps
  <2>4. CASE LoopReads \/ LoopPushes \/ LoopEnds
    BY <2>1, <2>4, QueuesKeep
  <2>5. CASE CloseSteps
    BY <2>1, <2>5, CloseKeeps
  <2>6. CASE Outside
    BY <2>1, <2>6, SupervisorKeeps, ReadLoopKeeps DEF Outside
  <2>7. CASE Calls
    BY <2>1, <2>7, RestartKeeps, QueuesKeep, CloseKeeps DEF Calls
  <2>8. QED
    BY <1>2, <2>2, <2>3, <2>4, <2>5, <2>6, <2>7 DEF TunnelNext
<1>3. QED
  BY <1>1, <1>2

\* However a static key tunnel is restarted, cancelled or closed while it dials, accepts, starts
\* or reads, a ready session has a connection, a closed one no sender, and when Close has
\* returned no connection, listener or queued packet of a server is left.
THEOREM AlwaysNothingLeftBehind == TunnelSpec => []NothingLeftBehind
<1>1. TunnelInv => NothingLeftBehind
  <2> SUFFICES ASSUME TunnelInv PROVE NothingLeftBehind
    OBVIOUS
  <2>1. \A n \in Slots : SessionRight(sess[n], n, session, pc, role)
    BY DEF TunnelInv, SessionsRight
  <2>2. ReadyWhileOpen /\ NoSenderLeft
    BY <2>1 DEF ReadyWhileOpen, NoSenderLeft, SessionRight
  <2>3. closing = "done" => pc \notin Connected /\ ~listening
    BY DEF TunnelInv, ClosingRight, Connected
  <2>4. NothingLeftOpen
    BY <2>1, <2>3 DEF NothingLeftOpen, SessionRight
  <2>5. Server => DrainedEmpty
    BY DEF TunnelInv, ClosingRight, DrainedEmpty
  <2>6. QED
    BY <2>2, <2>4, <2>5 DEF NothingLeftBehind, TunnelInv
<1>2. QED
  BY <1>1, TunnelBegins, TunnelKeeps, PTL DEF TunnelSpec

=============================================================================
