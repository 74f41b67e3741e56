--------------------------- MODULE StreamFraming ----------------------------
(***************************************************************************)
(* streamPacketConnection of proto/connection.go: packets over a byte      *)
(* stream, each behind its length.  Two goroutines write batches, whose    *)
(* writes may stop at any byte; one goroutine reads, in pieces that end    *)
(* anywhere, perhaps with a timeout in the middle of a packet.             *)
(*                                                                         *)
(* A byte is a number and a length takes two of them, as in the code.  The *)
(* two slices and the compaction of the read buffer are reduced to the     *)
(* bytes it holds and the room it has.                                     *)
(***************************************************************************)
EXTENDS Integers, Sequences, FiniteSets, SequencesExt

CONSTANTS
  MaxUint16,                   \* the longest packet, 65535 in the code
  streamPacketReadBufferSize,  \* the room of the read buffer to begin with
  Lengths,                     \* the lengths of the packets written
  MaxPackets,                  \* bound: the packets written
  MaxBatch,                    \* bound: the packets of a call
  MaxTimeouts                  \* bound: reads that time out

VARIABLES
  offered,     \* the packets given to WritePackets so far
  wire,        \* the bytes under way
  closed,      \* the writer's end closed the connection
  readBuffer,  \* the bytes between readStart and readEnd
  readErr,     \* the error of the last read, "" for none
  timeouts,    \* reads that timed out
  delivered,   \* the packets ReadPacket returned
  reader,      \* "reading" until it gets an error that is not a timeout
  accepted,    \* history: the packets whose last byte was written
  claimed      \* history: the packets the callers were told of as written

vars == <<offered, wire, closed, readBuffer, readErr, timeouts, delivered, reader, accepted,
          claimed>>

Init ==
  /\ offered = 0 /\ wire = <<>> /\ closed = FALSE
  /\ readBuffer = <<>> /\ readErr = "" /\ timeouts = 0
  /\ delivered = <<>> /\ reader = "reading"
  /\ accepted = <<>> /\ claimed = <<>>

-----------------------------------------------------------------------------
(* Writing *)

\* A packet of this length: its bytes are its number.
Packet(n, length) == [i \in 1..length |-> n]

\* The length as two bytes, the higher one first.
Frame(packet) == <<Len(packet) \div 256, Len(packet) % 256>> \o packet

\* The bytes of a batch, without the packets that are empty.
Framed(packets) == FoldLeft(LAMBDA bytes, p : IF p = <<>> THEN bytes ELSE bytes \o Frame(p),
                            <<>>, packets)

\* Of a batch, how many packets come before the first that is too large.
Valid(packets) ==
  LET large == {i \in DOMAIN packets : Len(packets[i]) > MaxUint16}
  IN  IF large = {} THEN Len(packets) ELSE CHOOSE i \in 0..Len(packets) :
        /\ i + 1 \in large /\ \A j \in large : i < j

NotEmpty(packet) == packet # <<>>

\* The frames that n bytes hold in full.
FramesWithin(packets, n) == {i \in 0..Len(packets) : Len(Framed(SubSeq(packets, 1, i))) <= n}

\* What writeFramesLocked returns when it wrote n of the bytes with an error: the index
\* of the first packet that has a frame and was not written in full.
Written(packets, n) ==
  LET frames == {i \in DOMAIN packets : packets[i] # <<>>}
      left == {i \in frames : i \notin FramesWithin(packets, n)}
  IN  IF left = {} THEN Len(packets) ELSE (CHOOSE i \in left : \A j \in left : i <= j) - 1

\* Mutant: an error leaves the connection open.
StopsWithinNever(packets, n) == FALSE

\* The bytes written end inside a frame.
StopsWithin(packets, n) ==
  \A i \in 0..Len(packets) : Len(Framed(SubSeq(packets, 1, i))) # n

\* WritePackets and WritePacketBuffers under writeAccess: of the valid packets of the
\* batch, all bytes are written, or some and an error; inside a frame, that closes.
WritePackets ==
  \E lengths \in UNION {[1..n -> Lengths] : n \in 1..MaxBatch} :
    LET batch == [i \in DOMAIN lengths |-> Packet(offered + i, lengths[i])]
        packets == SubSeq(batch, 1, Valid(batch))
        bytes == Framed(packets)
    IN  /\ offered + Len(lengths) <= MaxPackets
        /\ offered' = offered + Len(lengths)
        /\ \E n \in 0..Len(bytes), failed \in BOOLEAN :
             /\ failed \/ n = Len(bytes)
             /\ closed => failed /\ n = 0
             /\ wire' = wire \o SubSeq(bytes, 1, n)
             /\ closed' = (closed \/ (failed /\ StopsWithin(packets, n)))
             /\ LET whole == {i \in 0..Len(packets) : Len(Framed(SubSeq(packets, 1, i))) <= n}
                    last == CHOOSE i \in whole : \A j \in whole : j <= i
                IN  accepted' = accepted \o SelectSeq(SubSeq(packets, 1, last), NotEmpty)
             /\ LET told == IF failed THEN Written(packets, n) ELSE Len(packets)
                IN  claimed' = claimed \o SelectSeq(SubSeq(packets, 1, told), NotEmpty)
        /\ UNCHANGED <<readBuffer, readErr, timeouts, delivered, reader>>

-----------------------------------------------------------------------------
(* Reading *)

PacketLength == readBuffer[1] * 256 + readBuffer[2]
HasLength == Len(readBuffer) >= 2
HasPacket == HasLength /\ Len(readBuffer) >= 2 + PacketLength

\* bufferedPacketLocked finds a whole packet in the buffer, or a length of 0, which
\* ends the connection.
TakePacket ==
  /\ reader = "reading" /\ HasPacket
  /\ IF PacketLength = 0
     THEN reader' = "bad length" /\ UNCHANGED <<delivered, readBuffer>>
     ELSE /\ delivered' = Append(delivered, SubSeq(readBuffer, 3, 2 + PacketLength))
          /\ readBuffer' = SubSeq(readBuffer, 3 + PacketLength, Len(readBuffer))
          /\ UNCHANGED reader
  /\ UNCHANGED <<offered, wire, closed, readErr, timeouts, accepted, claimed>>

NoPacket == reader = "reading" /\ ~HasPacket

\* readPacketLocked returns an error once the packets read before it are gone; the
\* caller calls again after a timeout.
ReturnError ==
  /\ NoPacket /\ readErr # ""
  /\ readErr' = ""
  /\ reader' = IF readErr = "timeout" THEN reader ELSE readErr
  /\ UNCHANGED <<offered, wire, closed, readBuffer, timeouts, delivered, accepted, claimed>>

\* The room fillLocked makes: a packet that is larger than the buffer makes it grow.
Required ==
  IF HasLength /\ 2 + PacketLength > streamPacketReadBufferSize THEN 2 + PacketLength
  ELSE streamPacketReadBufferSize

\* fillLocked reads what the connection has and the buffer takes, with or without an
\* error; the end of the stream comes after the last byte.
Fill ==
  /\ NoPacket /\ readErr = ""
  /\ \E n \in 0..Len(wire) :
       /\ n <= Required - Len(readBuffer)
       /\ readBuffer' = readBuffer \o SubSeq(wire, 1, n)
       /\ wire' = SubSeq(wire, n + 1, Len(wire))
       /\ \/ n > 0 /\ readErr' = "" /\ UNCHANGED timeouts
          \/ timeouts < MaxTimeouts /\ readErr' = "timeout" /\ timeouts' = timeouts + 1
          \/ closed /\ n = Len(wire) /\ readErr' = "closed" /\ UNCHANGED timeouts
  /\ UNCHANGED <<offered, closed, delivered, reader, accepted, claimed>>

Next == WritePackets \/ TakePacket \/ ReturnError \/ Fill

Spec == Init /\ [][Next]_vars

-----------------------------------------------------------------------------
(* Properties *)

\* Whatever the pieces in which the bytes travel and wherever writes stop, the reader
\* gets packets that were written in full, in their order, none of them twice, and never
\* takes bytes of a packet for a length.
DeliversInOrder == IsPrefix(delivered, accepted) /\ reader # "bad length"

\* The count a write returns, by which the session judges its activity, is right: the
\* packets it covers are those whose last byte was written.
CountsRight == claimed = accepted

=============================================================================
