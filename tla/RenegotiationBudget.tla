------------------------ MODULE RenegotiationBudget -------------------------
(***************************************************************************)
(* When an end of a session renegotiates: dataRenegotiationBudget of       *)
(* renegotiation.go, its use by tlsClientKeepalive and tlsServerSession,   *)
(* and the packet ids of proto/session.go.  A writer and a reader account  *)
(* for the packets of a key, a loop watches the deadline, and each asks    *)
(* for a soft reset when a limit is reached.                               *)
(*                                                                         *)
(* The soft reset itself is the subject of KeyStates; here it promotes a   *)
(* new key, reports that, and returns, or it fails.  Keys are numbered in  *)
(* the order of their promotion.  The client's and the server's copy of    *)
(* this code differ in the jitter of the deadline alone, which is left     *)
(* out: a deadline passes at some time.                                    *)
(***************************************************************************)
EXTENDS Integers, Sequences, FiniteSets

CONSTANTS
  bytesLimit, packetsLimit, aeadUsageLimit,  \* the limits, 0 for none
  packetIDWrapTrigger,    \* 0xFF000000 in the code
  MaxUint32,              \* 2^32 - 1 in the code
  RenegotiationInterval,  \* whether there is a deadline
  Sizes,                  \* the sizes of packets
  Batches,                \* the packets written at once
  MaxKey,                 \* bound: the keys
  MaxReceived             \* bound: the packets received with a key that are told apart

ASSUME BudgetAssumption ==
  /\ {bytesLimit, packetsLimit, aeadUsageLimit, packetIDWrapTrigger, MaxUint32, MaxKey,
      MaxReceived} \subseteq Nat
  /\ packetsLimit < MaxReceived
  /\ RenegotiationInterval \in BOOLEAN
  /\ Sizes \subseteq Nat \ {0} /\ Batches \subseteq Nat \ {0}

VARIABLES
  sendKey,   \* the promoted key
  nextID,    \* key -> localDataPacketID of its session manager
  received,  \* key -> the packets that came with it, as far as MaxReceived
  budget,    \* the dataRenegotiationBudget
  deadline,  \* renegotiationDeadline: none, ahead or past
  inProgress,\* renegotiationInProgress
  resets,    \* the steps of the goroutines of requestSoftReset
  noting,    \* keys promoted whose noteRenegotiated is to come, the peer's doing
  writer, reader, loop,  \* what they are at
  sent       \* history: the key and packet id of every packet sent, in order

vars == <<sendKey, nextID, received, budget, deadline, inProgress, resets, noting, writer,
          reader, loop, sent>>

Keys == 0..MaxKey
Idle == [step |-> "idle"]
Unused == [highest |-> 0, blocks |-> 0]

\* A counter grows no further than its limit can tell.
Grown(n, by, limit) == IF n + by > limit THEN limit + 1 ELSE n + by

NewBudget(key) ==
  [activeKeyID |-> key, bytes |-> 0, packets |-> 0, send |-> Unused, receive |-> Unused]

NewDeadline == IF RenegotiationInterval THEN "ahead" ELSE "none"

\* configureRenegotiation, once the session is established.
Init ==
  /\ sendKey = 0
  /\ nextID = [k \in Keys |-> 1] /\ received = [k \in Keys |-> 0]
  /\ budget = NewBudget(0)
  /\ deadline = NewDeadline
  /\ inProgress = FALSE /\ resets = <<>> /\ noting = {}
  /\ writer = Idle /\ reader = Idle /\ loop = "wait"
  /\ sent = <<>>

-----------------------------------------------------------------------------
(* The budget *)

\* Mutant: every packet counts, whatever its key.
consumeTransferAny(b, key, size) ==
  LET c == [b EXCEPT !.bytes = Grown(@, size, bytesLimit), !.packets = Grown(@, 1, packetsLimit)]
  IN  [budget |-> c, due |-> packetsLimit > 0 /\ c.packets >= packetsLimit]

consumeTransfer(b, key, size) ==
  LET c == [b EXCEPT !.bytes = Grown(@, size, bytesLimit), !.packets = Grown(@, 1, packetsLimit)]
  IN  IF key # b.activeKeyID THEN [budget |-> b, due |-> FALSE]
      ELSE [budget |-> c,
            due |-> \/ bytesLimit > 0 /\ c.bytes >= bytesLimit
                    \/ packetsLimit > 0 /\ c.packets >= packetsLimit]

\* A packet of these sizes is one block.
Used(usage, id) == [highest |-> IF id > usage.highest THEN id ELSE usage.highest,
                    blocks |-> Grown(usage.blocks, 1, aeadUsageLimit)]

consumeUsage(b, key, direction, id) ==
  LET c == [b EXCEPT ![direction] = Used(@, id)]
  IN  IF key # b.activeKeyID THEN [budget |-> b, due |-> FALSE]
      ELSE [budget |-> c,
            due |-> \/ direction = "send" /\ id >= packetIDWrapTrigger
                    \/ /\ aeadUsageLimit > 0
                       /\ c[direction].blocks + c[direction].highest > aeadUsageLimit]

-----------------------------------------------------------------------------
(* The soft reset *)

Negotiating == [step |-> "negotiating", key |-> 0]

\* Mutant: the flag is tested before the lock is taken.
RequestSoftResetUnlocked ==
  /\ inProgress' = TRUE
  /\ resets' = Append(resets, Negotiating)

\* requestSoftReset.
RequestSoftReset ==
  IF inProgress THEN UNCHANGED <<inProgress, resets>>
  ELSE /\ inProgress' = TRUE
       /\ resets' = Append(resets, Negotiating)

\* triggerSoftReset succeeds: the key is promoted, or
Promoted(i) ==
  /\ resets[i].step = "negotiating" /\ sendKey < MaxKey
  /\ sendKey' = sendKey + 1
  /\ noting' = noting \cup {sendKey + 1}
  /\ resets' = [resets EXCEPT ![i] = [step |-> "promoted", key |-> sendKey + 1]]
  /\ UNCHANGED <<nextID, received, budget, deadline, inProgress, writer, reader, loop, sent>>

\* it fails.
Failed(i) ==
  /\ resets[i].step = "negotiating"
  /\ resets' = [resets EXCEPT ![i].step = "done"]
  /\ UNCHANGED <<sendKey, nextID, received, budget, deadline, inProgress, noting, writer,
                 reader, loop, sent>>

\* The peer's soft reset promotes a key without anybody here having asked.
PeerPromotes ==
  /\ sendKey < MaxKey
  /\ sendKey' = sendKey + 1
  /\ noting' = noting \cup {sendKey + 1}
  /\ UNCHANGED <<nextID, received, budget, deadline, inProgress, resets, writer, reader,
                 loop, sent>>

\* noteRenegotiated, outside the lock of the promotion and so in any order; then a
\* triggerSoftReset that waits for this key returns.
NoteRenegotiated ==
  \E k \in noting :
    /\ budget' = NewBudget(k)
    /\ deadline' = NewDeadline
    /\ noting' = noting \ {k}
    /\ resets' = [i \in DOMAIN resets |->
                    IF resets[i].step = "promoted" /\ resets[i].key = k
                    THEN [resets[i] EXCEPT !.step = "done"] ELSE resets[i]]
    /\ UNCHANGED <<sendKey, nextID, received, inProgress, writer, reader, loop, sent>>

\* Mutant: a soft reset that failed leaves the flag set.
ResetReturnsSet ==
  /\ \E i \in DOMAIN resets :
       /\ resets[i].step = "done"
       /\ resets' = SubSeq(resets, 1, i - 1) \o SubSeq(resets, i + 1, Len(resets))
       /\ inProgress' = (resets[i].key = 0)
  /\ UNCHANGED <<sendKey, nextID, received, budget, deadline, noting, writer, reader, loop, sent>>

ResetReturns ==
  /\ \E i \in DOMAIN resets :
       /\ resets[i].step = "done"
       /\ resets' = SubSeq(resets, 1, i - 1) \o SubSeq(resets, i + 1, Len(resets))
  /\ inProgress' = FALSE
  /\ UNCHANGED <<sendKey, nextID, received, budget, deadline, noting, writer, reader, loop, sent>>

-----------------------------------------------------------------------------
(* Writing *)

\* currentSendKeyState: the key, with the session manager that numbers its packets.
WriterReadsKey ==
  /\ writer.step = "idle"
  /\ \E count \in Batches : writer' = [step |-> "number", key |-> sendKey, count |-> count]
  /\ UNCHANGED <<sendKey, nextID, received, budget, deadline, inProgress, resets, noting,
                 reader, loop, sent>>

\* Mutant: the ids left are not counted, and the id wraps.
NewDataPacketIDsWrapping ==
  /\ writer.step = "number"
  /\ LET ids == [i \in 1..writer.count |-> (nextID[writer.key] + i - 1) % (MaxUint32 + 1)]
     IN  /\ nextID' = [nextID EXCEPT ![writer.key] = (@ + writer.count) % (MaxUint32 + 1)]
         /\ writer' = [step |-> "account", key |-> writer.key, ids |-> ids]
  /\ UNCHANGED <<sendKey, received, budget, deadline, inProgress, resets, noting, reader,
                 loop, sent>>

\* NewDataPacketIDs of that session manager: all of the batch or none of it.
NewDataPacketIDs ==
  /\ writer.step = "number"
  /\ IF writer.count > MaxUint32 - nextID[writer.key]
     THEN writer' = Idle /\ UNCHANGED nextID
     ELSE /\ nextID' = [nextID EXCEPT ![writer.key] = (@ + writer.count) % (MaxUint32 + 1)]
          /\ writer' = [step |-> "account", key |-> writer.key,
                        ids |-> [i \in 1..writer.count |-> nextID[writer.key] + i - 1]]
  /\ UNCHANGED <<sendKey, received, budget, deadline, inProgress, resets, noting, reader,
                 loop, sent>>

\* consumeOutboundRenegotiationBudget for the next packet of the batch; the lock is
\* released before the soft reset is asked for, and the batch is written last.
ConsumeOutbound ==
  /\ writer.step = "account"
  /\ \E size \in Sizes :
       LET transfer == consumeTransfer(budget, writer.key, size)
           usage == consumeUsage(transfer.budget, writer.key, "send", Head(writer.ids))
       IN  /\ budget' = usage.budget
           /\ sent' = Append(sent, <<writer.key, Head(writer.ids)>>)
           /\ writer' = IF transfer.due \/ usage.due THEN [writer EXCEPT !.step = "request"]
                        ELSE IF Len(writer.ids) = 1 THEN Idle
                        ELSE [writer EXCEPT !.ids = Tail(@)]
  /\ UNCHANGED <<sendKey, nextID, received, deadline, inProgress, resets, noting, reader, loop>>

WriterRequests ==
  /\ writer.step = "request"
  /\ RequestSoftReset
  /\ writer' = IF Len(writer.ids) = 1 THEN Idle
               ELSE [writer EXCEPT !.step = "account", !.ids = Tail(@)]
  /\ UNCHANGED <<sendKey, nextID, received, budget, deadline, noting, reader, loop, sent>>

-----------------------------------------------------------------------------
(* Reading, and the deadline *)

\* consumeInboundRenegotiationCounter before the packet is decrypted; the peer may
\* still use an older key.
ConsumeInboundCounter(k) ==
  /\ reader.step = "idle" /\ k <= sendKey
  /\ \E size \in Sizes :
       LET transfer == consumeTransfer(budget, k, size)
       IN  /\ budget' = transfer.budget
           /\ reader' = [step |-> IF transfer.due THEN "request" ELSE "usage", key |-> k]
  /\ received' = [received EXCEPT ![k] = IF @ < MaxReceived THEN @ + 1 ELSE @]
  /\ UNCHANGED <<sendKey, nextID, deadline, inProgress, resets, noting, writer, loop, sent>>

\* consumeInboundRenegotiationUsage after it, unless it does not decrypt.
ConsumeInboundUsage ==
  /\ reader.step = "usage"
  /\ \/ reader' = Idle /\ UNCHANGED budget
     \/ LET usage == consumeUsage(budget, reader.key, "receive", received[reader.key])
        IN  /\ budget' = usage.budget
            /\ reader' = IF usage.due THEN [reader EXCEPT !.step = "last"] ELSE Idle
  /\ UNCHANGED <<sendKey, nextID, received, deadline, inProgress, resets, noting, writer,
                 loop, sent>>

ReaderRequests ==
  /\ reader.step \in {"request", "last"}
  /\ RequestSoftReset
  /\ reader' = IF reader.step = "request" THEN [reader EXCEPT !.step = "usage"] ELSE Idle
  /\ UNCHANGED <<sendKey, nextID, received, budget, deadline, noting, writer, loop, sent>>

DeadlinePasses ==
  /\ deadline = "ahead" /\ deadline' = "past"
  /\ UNCHANGED <<sendKey, nextID, received, budget, inProgress, resets, noting, writer,
                 reader, loop, sent>>

\* runRenegotiationLoop and the client's runLoop: the deadline is read under the lock,
\* the request comes after.
LoopReadsDeadline ==
  /\ loop = "wait" /\ deadline = "past"
  /\ loop' = "request"
  /\ UNCHANGED <<sendKey, nextID, received, budget, deadline, inProgress, resets, noting,
                 writer, reader, sent>>

LoopRequests ==
  /\ loop = "request"
  /\ RequestSoftReset
  /\ loop' = "wait"
  /\ UNCHANGED <<sendKey, nextID, received, budget, deadline, noting, writer, reader, sent>>

Next ==
  \/ PeerPromotes \/ NoteRenegotiated \/ ResetReturns
  \/ \E i \in DOMAIN resets : Promoted(i) \/ Failed(i)
  \/ WriterReadsKey \/ NewDataPacketIDs \/ ConsumeOutbound \/ WriterRequests
  \/ \E k \in Keys : ConsumeInboundCounter(k)
  \/ ConsumeInboundUsage \/ ReaderRequests
  \/ DeadlinePasses \/ LoopReadsDeadline \/ LoopRequests

Spec == Init /\ [][Next]_vars

-----------------------------------------------------------------------------
(* Properties *)

Count(k) == received[k] + Cardinality({i \in DOMAIN sent : sent[i][1] = k})

\* The budget is for a key that was promoted, and what is counted is traffic of that key:
\* neither an older key that is still used to receive nor a batch that was begun before
\* the promotion wears the new key out (consumeTransfer, consumeUsage).
BudgetOwnTraffic ==
  /\ budget.activeKeyID \in 0..sendKey /\ deadline \in {"none", "ahead", "past"}
  /\ budget.packets <= Count(budget.activeKeyID)
  /\ budget.send.blocks <= Cardinality({i \in DOMAIN sent : sent[i][1] = budget.activeKeyID})

\* The flag allows one soft reset of this end's asking at a time, and stands for it.
OneResetAtATime == inProgress <=> Len(resets) = 1

\* No packet id is used twice with a key: promotions and the end of the id space included.
PacketIDOnce ==
  \A i, j \in DOMAIN sent : i # j => sent[i] # sent[j]

\* A key past its deadline, or worn out by traffic that goes on, is replaced, however
\* many attempts fail first.
Exhausted == \/ bytesLimit > 0 /\ budget.bytes >= bytesLimit
             \/ packetsLimit > 0 /\ budget.packets >= packetsLimit

=============================================================================
