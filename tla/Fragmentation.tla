--------------------------- MODULE Fragmentation ----------------------------
(***************************************************************************)
(* data_channel_fragmentation.go: packets are cut into fragments that bear *)
(* a sequence number of few bits, and put together again by the peer,      *)
(* within a window of sequence numbers, a timeout and a bound on memory.   *)
(*                                                                         *)
(* Packet n has the length PacketLength[n] and is sent with the sequence   *)
(* number n modulo the mask.  The network may lose, repeat and reorder     *)
(* fragments.  Time is reduced to the order of the buffers' last updates:  *)
(* `incoming' has the oldest first, and what expires is a prefix of it.    *)
(***************************************************************************)
EXTENDS Integers, Sequences, FiniteSets, SequencesExt

CONSTANTS
  SequenceMask,         \* openVPNFragmentSequenceMask, 255 in the code
  ReceiveWindow,        \* openVPNFragmentReceiveWindow, 25
  Round,                \* 1 << openVPNFragmentSizeRoundShift, 4
  MaxParts,             \* openVPNFragmentMaxParts, 32
  maxPacketBytes, maxReassemblyBytes,
  PacketLength,         \* the lengths of the packets sent, in turn
  FragmentSize,         \* for each, what calculateDataPayloadBudget leaves for a fragment
  MaxPackets,           \* bound: the packets sent
  MaxJump,              \* how far an arrival is from the last that moved the window
  InOrder               \* the network keeps and orders everything, nothing expires

VARIABLES
  incoming,          \* incomingBySequence, in the order of the updates
  incomingBytes,
  incomingSequence,  \* -1 until incomingSequenceSet
  at,                \* history: the packet whose arrival set incomingSequence
  next,              \* InOrder: the packet and the fragment that arrive next
  last               \* what the last call put together, <<>> for nothing

vars == <<incoming, incomingBytes, incomingSequence, at, next, last>>

Modulus == SequenceMask + 1

Init ==
  /\ incoming = <<>> /\ incomingBytes = 0 /\ incomingSequence = -1
  /\ at = 0 /\ next = <<1, 0>> /\ last = <<>>

-----------------------------------------------------------------------------
(* encodeFragments *)

Turn(n) == ((n - 1) % Len(PacketLength)) + 1
LengthOf(n) == PacketLength[Turn(n)]
Rounded(n) == FragmentSize[Turn(n)] - (FragmentSize[Turn(n)] % Round)
Parts(n) == (LengthOf(n) + Rounded(n) - 1) \div Rounded(n)

\* A packet that fits goes whole, and one that needs too many fragments not at all.
Fragmented(n) == LengthOf(n) > Rounded(n) /\ Parts(n) <= MaxParts

\* Fragment i of packet n: the last one tells the size of the others.
Fragment(n, i) ==
  [packet |-> n, id |-> i, sequence |-> n % Modulus, last |-> i = Parts(n) - 1,
   length |-> IF i = Parts(n) - 1 THEN LengthOf(n) - i * Rounded(n) ELSE Rounded(n),
   maxSize |-> IF i = Parts(n) - 1 THEN (Rounded(n) \div Round) * Round ELSE 0]

-----------------------------------------------------------------------------
(* storeIncomingFragment *)

\* The shorter of the direct difference and the one around the end of the numbers.
fragmentSequenceDifference(s, reference) ==
  LET direct == s - reference
      wrapped == IF s > reference THEN direct - Modulus ELSE direct + Modulus
  IN  IF direct = 0 THEN 0
      ELSE IF direct < 0 THEN IF -direct <= wrapped THEN direct ELSE wrapped
      ELSE IF direct <= -wrapped THEN direct ELSE wrapped

\* From here on a state is the buffers and the count of their bytes, between the steps of
\* one call.
BytesOf(buffers) ==
  LET sum[i \in 0..Len(buffers)] == IF i = 0 THEN 0 ELSE sum[i - 1] + buffers[i].bytes
  IN  sum[Len(buffers)]

SequencesOf(buffers) == {buffers[i].sequence : i \in DOMAIN buffers}

\* deleteIncomingFragmentBuffer for each of these sequence numbers.
Deleted(state, gone) ==
  LET bytes == state.bytes - BytesOf(SelectSeq(state.buffers, LAMBDA b : b.sequence \in gone))
  IN  [buffers |-> SelectSeq(state.buffers, LAMBDA b : b.sequence \notin gone),
       bytes |-> IF bytes < 0 THEN 0 ELSE bytes]

\* clearIncomingFragments
Cleared(state) == Deleted(state, SequencesOf(state.buffers))

Without(state, s) == Deleted(state, {s})

OutOfWindow(difference) == difference >= ReceiveWindow \/ difference <= -ReceiveWindow

\* Mutant: the window moves and everything in it stays.
AdvancedKeeping(state, s) == state

\* advanceIncomingFragmentWindow: the buffers that stay when s arrives.
Advanced(state, s) ==
  LET difference == fragmentSequenceDifference(s, incomingSequence)
      InWindow(r) == LET d == fragmentSequenceDifference(r, s)
                     IN  d > -ReceiveWindow /\ d <= 0
  IN  IF incomingSequence < 0 THEN state
      ELSE IF OutOfWindow(difference) THEN Cleared(state)
      ELSE IF difference <= 0 THEN state
      ELSE Deleted(state, {r \in SequencesOf(state.buffers) : ~InWindow(r)})

\* Whether s becomes incomingSequence.
Moves(s) ==
  LET difference == fragmentSequenceDifference(s, incomingSequence)
  IN  incomingSequence < 0 \/ OutOfWindow(difference) \/ difference > 0

\* The buffer of a sequence number, a new one if there is none or of another size.
BufferOf(state, f) ==
  LET size == IF f.maxSize > 0 THEN f.maxSize ELSE f.length
      found == SelectSeq(state.buffers, LAMBDA b : b.sequence = f.sequence /\ b.maxSize = size)
  IN  IF found # <<>> THEN Head(found)
      ELSE [sequence |-> f.sequence, maxSize |-> size, lastID |-> -1, parts |-> {}, bytes |-> 0]

\* The buffers left when the n oldest others have given way.
EvictOldest(state, s, n) ==
  LET others == SelectSeq(state.buffers, LAMBDA b : b.sequence # s)
  IN  Deleted(state, {others[i].sequence : i \in DOMAIN others \cap 1..n})

Fits(state, additional) == state.bytes + additional <= maxReassemblyBytes

\* How many of the oldest others give way for more bytes; more than there are
\* when all of them are not enough.
Evictions(state, s, additional) ==
  LET others == Len(SelectSeq(state.buffers, LAMBDA b : b.sequence # s))
      enough == {n \in 0..others : Fits(EvictOldest(state, s, n), additional)}
  IN  IF enough = {} THEN Len(state.buffers) + 1 ELSE CHOOSE n \in enough : \A m \in enough : n <= m

\* What a buffer holds of a fragment id, none or one.
PartOf(b, id) == {p \in b.parts : p.id = id}

Complete(b) == b.lastID >= 0 /\ \A id \in 0..b.lastID : PartOf(b, id) # {}

Reassembled(b) == [id \in 1..b.lastID + 1 |-> CHOOSE p \in PartOf(b, id - 1) : TRUE]

\* The fragment in its buffer, which becomes the newest.
Stored(b, f, additional) ==
  [b EXCEPT !.maxSize = IF f.maxSize > 0 THEN f.maxSize ELSE @,
            !.parts = {p \in @ : p.id # f.id} \cup {f},
            !.bytes = @ + additional,
            !.lastID = IF f.last THEN f.id ELSE @]

\* What a call makes of the buffers that have not expired: those left, and the packet that
\* became complete.
Result(fresh, f) ==
  LET advanced == Advanced(fresh, f.sequence)
      b == BufferOf(advanced, f)
      state == IF b.bytes = 0 THEN Without(advanced, f.sequence) ELSE advanced
      previous == PartOf(b, f.id)
      additional == f.length - IF previous = {} THEN 0 ELSE (CHOOSE p \in previous : TRUE).length
      n == Evictions(state, f.sequence, additional)
      room == EvictOldest(state, f.sequence, n)
      stored == Stored(b, f, additional)
      others == SelectSeq(room.buffers, LAMBDA o : o.sequence # f.sequence)
  IN  IF b.bytes + additional > maxPacketBytes THEN <<Without(state, f.sequence), <<>>>>
      ELSE IF n > Len(state.buffers) THEN <<Cleared(state), <<>>>>
      ELSE IF Complete(stored) THEN <<Without(room, f.sequence), Reassembled(stored)>>
      ELSE <<[buffers |-> Append(others, stored), bytes |-> room.bytes + additional], <<>>>>

\* A fragment arrives, and the buffers that were updated long ago have expired.
storeIncomingFragment(f, expired) ==
  LET fresh == Deleted([buffers |-> incoming, bytes |-> incomingBytes],
                       {incoming[i].sequence : i \in 1..expired})
  IN  /\ \E r \in {IF f.length > maxPacketBytes THEN <<fresh, <<>>>> ELSE Result(fresh, f)} :
           incoming' = r[1].buffers /\ incomingBytes' = r[1].bytes /\ last' = r[2]
      /\ IF f.length <= maxPacketBytes /\ Moves(f.sequence)
         THEN incomingSequence' = f.sequence /\ at' = f.packet
         ELSE UNCHANGED <<incomingSequence, at>>

-----------------------------------------------------------------------------
\* Any fragment of any packet arrives, or again.
Arrives ==
  /\ ~InOrder
  /\ \E n \in 1..MaxPackets, expired \in 0..Len(incoming) :
       /\ Fragmented(n) /\ (at > 0 => n - at <= MaxJump /\ at - n <= MaxJump)
       /\ \E i \in 0..Parts(n) - 1 : storeIncomingFragment(Fragment(n, i), expired)
  /\ UNCHANGED next

\* The fragments arrive as they were sent.
ArrivesNext ==
  /\ InOrder /\ next[1] <= MaxPackets
  /\ LET n == next[1]
         more == Fragmented(n) /\ next[2] + 1 < Parts(n)
     IN  /\ next' = IF more THEN <<n, next[2] + 1>> ELSE <<n + 1, 0>>
         /\ IF Fragmented(n) THEN storeIncomingFragment(Fragment(n, next[2]), 0)
            ELSE UNCHANGED <<incoming, incomingBytes, incomingSequence, at>> /\ last' = <<>>

Next == Arrives \/ ArrivesNext

Spec == Init /\ [][Next]_vars

-----------------------------------------------------------------------------
(* Properties *)

\* What is put together is one packet, whole: fragments of two packets that bear the same
\* sequence number never meet, as long as an arrival is at most Modulus - ReceiveWindow
\* numbers away from the last that moved the window.
NeverMixed ==
  last # <<>> =>
    LET n == last[1].packet
    IN  last = [i \in 1..Parts(n) |-> Fragment(n, i - 1)]

\* The count of bytes is that of the buffers, and stays within its bound, as each packet
\* within its own.
MemoryBound ==
  /\ incomingBytes = BytesOf(incoming) /\ incomingBytes <= maxReassemblyBytes
  /\ \A i \in DOMAIN incoming : incoming[i].bytes <= maxPacketBytes

\* A network that loses and reorders nothing delivers every packet that is cut into
\* fragments, around the end of the sequence numbers too.
DeliversAll ==
  LET n == next[1] - 1
  IN  InOrder /\ next[2] = 0 /\ n > 0 /\ Fragmented(n) /\ LengthOf(n) <= maxPacketBytes =>
        last # <<>> /\ last[1].packet = n
=============================================================================
