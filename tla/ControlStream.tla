---------------------------- MODULE ControlStream ---------------------------
(***************************************************************************)
(* control_stream.go: control messages on their way from the writers of    *)
(* one end to the reader of the other, while soft resets move the control  *)
(* stream from key state to key state at each end on its own.  What        *)
(* KeyStates shows of an end is assumed here: handovers have growing       *)
(* sequences and each is installed or aborted.                             *)
(***************************************************************************)
EXTENDS Integers, Sequences, ControlHandover

CONSTANTS
  Writers,       \* the goroutines that write control messages
  MaxHandovers,  \* bound: the soft resets of an end
  MaxMessages    \* bound: the messages of a writer

NoWriter == "none"

ASSUME StreamAssumption == MaxHandovers \in Nat /\ MaxMessages \in Nat /\ NoWriter \notin Writers

VARIABLES
  primary,       \* end -> its primary control stream
  begun,         \* end -> the soft resets begun so far
  negotiating,   \* end -> the ones that neither took over nor failed
  changed,       \* end -> how often its changed channel was closed and replaced
  writeAccess,   \* the writer that holds writeAccess, or none
  writer,        \* writer -> its step and the channel it waits on
  sent,          \* writer -> messages written
  carried,       \* sequence -> the messages in its TLS stream, to the reader
  reader,        \* the reader's step
  written, read  \* history: the messages in the order written, and in the order read

streamVars == <<primary, begun, negotiating, changed, writeAccess, writer, sent, carried,
                reader, written, read>>

Sides == {"writing", "reading"}
Messages == Writers \X (1..MaxMessages)

StreamInit ==
  /\ primary = [e \in Sides |-> NoHandover]
  /\ begun = [e \in Sides |-> 0] /\ negotiating = [e \in Sides |-> {}]
  /\ changed = [e \in Sides |-> 0]
  /\ writeAccess = NoWriter
  /\ writer = [w \in Writers |-> [step |-> "idle", on |-> 0]]
  /\ sent = [w \in Writers |-> 0]
  /\ carried = [s \in 0..MaxHandovers |-> <<>>]
  /\ reader = [step |-> "snapshot", on |-> 0, record |-> <<>>]
  /\ written = <<>> /\ read = <<>>

-----------------------------------------------------------------------------
(* The soft resets of an end *)

Signal(e) == changed' = [changed EXCEPT ![e] = @ + 1]

Moves(e, next) ==
  /\ primary' = [primary EXCEPT ![e] = next]
  /\ IF next # primary[e] THEN Signal(e) ELSE UNCHANGED changed

Begin(e) ==
  /\ begun[e] < MaxHandovers
  /\ begun' = [begun EXCEPT ![e] = @ + 1]
  /\ negotiating' = [negotiating EXCEPT ![e] = @ \cup {begun'[e]}]
  /\ Moves(e, BeginHandover(primary[e], begun'[e]))
  /\ UNCHANGED <<writeAccess, writer, sent, carried, reader, written, read>>

End(e) ==
  \E s \in negotiating[e] :
    /\ negotiating' = [negotiating EXCEPT ![e] = @ \ {s}]
    /\ Moves(e, Install(primary[e], s)) \/ Moves(e, AbortHandover(primary[e], s))
    /\ UNCHANGED <<begun, writeAccess, writer, sent, carried, reader, written, read>>

-----------------------------------------------------------------------------
(* writeControlChannelPayload *)

Lock(w) ==
  /\ writer[w].step = "idle" /\ sent[w] < MaxMessages /\ writeAccess = NoWriter
  /\ writeAccess' = w
  /\ writer' = [writer EXCEPT ![w].step = "snapshot"]
  /\ UNCHANGED <<primary, begun, negotiating, changed, sent, carried, reader, written, read>>

\* snapshot: while a handover runs there is no stream, only the channel to wait on.
Snapshot(e) ==
  IF primary[e].handover # 0 THEN [step |-> "wait", on |-> changed[e]]
  ELSE [step |-> IF e = "writing" THEN "write" ELSE "read", on |-> primary[e].sequence]

WriterLooks(w) ==
  /\ writer[w].step = "snapshot"
  /\ writer' = [writer EXCEPT ![w] = Snapshot("writing")]
  /\ UNCHANGED <<primary, begun, negotiating, changed, writeAccess, sent, carried, reader,
                 written, read>>

\* The stream may have begun to hand over since the snapshot.
Write(w) ==
  LET message == <<w, sent[w] + 1>>
  IN  /\ writer[w].step = "write"
      /\ carried' = [carried EXCEPT ![writer[w].on] = Append(@, message)]
      /\ written' = Append(written, message)
      /\ sent' = [sent EXCEPT ![w] = @ + 1]
      /\ writer' = [writer EXCEPT ![w] = [step |-> "idle", on |-> 0]]
      /\ writeAccess' = NoWriter
      /\ UNCHANGED <<primary, begun, negotiating, changed, reader, read>>

\* awaitPrimaryControlStream: the channel it waits on was closed.
WriterWakes(w) ==
  /\ writer[w].step = "wait" /\ changed["writing"] > writer[w].on
  /\ writer' = [writer EXCEPT ![w].step = "snapshot"]
  /\ UNCHANGED <<primary, begun, negotiating, changed, writeAccess, sent, carried, reader,
                 written, read>>

\* awaitPrimaryControlStream: the deadline came first, and the message is given up.
WriterTimesOut(w) ==
  /\ writer[w].step = "wait"
  /\ writer' = [writer EXCEPT ![w] = [step |-> "idle", on |-> 0]]
  /\ sent' = [sent EXCEPT ![w] = @ + 1]
  /\ writeAccess' = NoWriter
  /\ UNCHANGED <<primary, begun, negotiating, changed, carried, reader, written, read>>

-----------------------------------------------------------------------------
(* readControlChannelRecord *)

ReaderLooks ==
  /\ \/ reader.step = "snapshot"
     \/ reader.step = "wait" /\ changed["reading"] > reader.on
     \/ reader.step = "read"        \* the poll interval of a read that finds nothing
  /\ reader' = [step |-> Snapshot("reading").step, on |-> Snapshot("reading").on, record |-> <<>>]
  /\ UNCHANGED <<primary, begun, negotiating, changed, writeAccess, writer, sent, carried,
                 written, read>>

ReadRecord ==
  /\ reader.step = "read" /\ carried[reader.on] # <<>>
  /\ reader' = [reader EXCEPT !.step = "check", !.record = Head(carried[reader.on])]
  /\ carried' = [carried EXCEPT ![reader.on] = Tail(@)]
  /\ UNCHANGED <<primary, begun, negotiating, changed, writeAccess, writer, sent, written, read>>

\* Mutant: a record is returned whatever happened to its stream.
CheckNothing ==
  /\ reader.step = "check"
  /\ read' = Append(read, <<reader.record, primary["reading"].sequence, reader.on>>)
  /\ reader' = [step |-> "snapshot", on |-> 0, record |-> <<>>]
  /\ UNCHANGED <<primary, begun, negotiating, changed, writeAccess, writer, sent, carried, written>>

\* isCurrent: a record of a stream that is retired, or about to be, is dropped.
CheckCurrent ==
  /\ reader.step = "check"
  /\ read' = IF primary["reading"] = [sequence |-> reader.on, handover |-> 0]
             THEN Append(read, <<reader.record, primary["reading"].sequence, reader.on>>)
             ELSE read
  /\ reader' = [step |-> "snapshot", on |-> 0, record |-> <<>>]
  /\ UNCHANGED <<primary, begun, negotiating, changed, writeAccess, writer, sent, carried, written>>

StreamNext ==
  \/ \E e \in Sides : Begin(e) \/ End(e)
  \/ \E w \in Writers : Lock(w) \/ WriterLooks(w) \/ Write(w) \/ WriterWakes(w) \/ WriterTimesOut(w)
  \/ ReaderLooks \/ ReadRecord \/ CheckCurrent

StreamSpec == StreamInit /\ [][StreamNext]_streamVars

-----------------------------------------------------------------------------
(* Properties *)

StreamTypeOK ==
  /\ primary \in [Sides -> [sequence : 0..MaxHandovers, handover : 0..MaxHandovers]]
  /\ begun \in [Sides -> 0..MaxHandovers]
  /\ negotiating \in [Sides -> SUBSET (1..MaxHandovers)]
  /\ changed \in [Sides -> Nat]
  /\ writer \in [Writers -> [step : {"idle", "snapshot", "write", "wait"}, on : Nat]]
  /\ writeAccess \in Writers \cup {NoWriter}
  /\ sent \in [Writers -> 0..MaxMessages]
  /\ carried \in [0..MaxHandovers -> Seq(Messages)]
  /\ reader \in [step : {"snapshot", "read", "check", "wait"}, on : Nat,
                 record : Messages \cup {<<>>}]
  /\ written \in Seq(Messages)
  /\ read \in Seq(Messages \X Nat \X Nat)

\* writeAccess: one writer at a time is past the lock.
OneWriter == \A w \in Writers : writer[w].step # "idle" <=> writeAccess = w

Position(message) == CHOOSE i \in 1..Len(written) : written[i] = message

\* readControlChannelRecord: control messages are read in the order they were written,
\* whichever streams carried them and whenever the ends changed over, and none is read twice;
\* a record is returned only from the stream in charge.
ReadInOrder ==
  /\ StreamTypeOK /\ OneWriter
  /\ \A i, j \in 1..Len(read) : i < j => Position(read[i][1]) < Position(read[j][1])
  /\ \A i \in 1..Len(read) : read[i][2] = read[i][3]

=============================================================================
