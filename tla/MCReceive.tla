----------------------------- MODULE MCReceive ------------------------------
(***************************************************************************)
(* What happens to a data packet that arrives: the replay window and the   *)
(* reassembly of fragments, each by itself.  An initial state chooses the  *)
(* part; the window rests in its initial state and the other variables at  *)
(* Unused when it is not theirs.                                           *)
(***************************************************************************)
EXTENDS ReplayWindow

VARIABLES
  part,
  incoming, incomingBytes, incomingSequence, at, next, last  \* of Fragmentation

fragmentVars == <<incoming, incomingBytes, incomingSequence, at, next, last>>
receiveVars == <<part, vars, fragmentVars>>

Unused == 0

\* Packets of three fragments, two of which are full, and of two, in any order around the end
\* of the sequence numbers.
Mixed == INSTANCE Fragmentation WITH
  SequenceMask <- 7, ReceiveWindow <- 3, Round <- 4, MaxParts <- 4, maxPacketBytes <- 12,
  maxReassemblyBytes <- 22, MaxPackets <- 10, MaxJump <- 5, InOrder <- FALSE,
  PacketLength <- <<11, 7>>, FragmentSize <- <<4, 4>>

\* A packet that is too long, one of two fragments, and one of two larger ones.
Large == INSTANCE Fragmentation WITH
  SequenceMask <- 7, ReceiveWindow <- 3, Round <- 4, MaxParts <- 4, maxPacketBytes <- 12,
  maxReassemblyBytes <- 14, MaxPackets <- 9, MaxJump <- 9, InOrder <- FALSE,
  PacketLength <- <<15, 7, 11>>, FragmentSize <- <<4, 4, 8>>

\* Two fragments, three, a packet that goes whole, and one with too many fragments, over a
\* network that keeps the order.
Ordered == INSTANCE Fragmentation WITH
  SequenceMask <- 7, ReceiveWindow <- 3, Round <- 4, MaxParts <- 4, maxPacketBytes <- 12,
  maxReassemblyBytes <- 22, MaxPackets <- 60, MaxJump <- 5, InOrder <- TRUE,
  PacketLength <- <<7, 12, 3, 21>>, FragmentSize <- <<6, 6, 6, 5>>

NoFragments ==
  /\ incoming = Unused /\ incomingBytes = Unused /\ incomingSequence = Unused
  /\ at = Unused /\ next = Unused /\ last = Unused

ReceiveInit ==
  \/ part = "window" /\ Init /\ NoFragments
  \/ part = "mixed" /\ Init /\ Mixed!Init
  \/ part = "large" /\ Init /\ Large!Init
  \/ part = "ordered" /\ Init /\ Ordered!Init

ReceiveNext ==
  \/ part = "window" /\ Next /\ UNCHANGED <<part, fragmentVars>>
  \/ /\ \/ part = "mixed" /\ Mixed!Next
        \/ part = "large" /\ Large!Next
        \/ part = "ordered" /\ Ordered!Next
     /\ UNCHANGED <<part, vars>>

ReceiveSpec == ReceiveInit /\ [][ReceiveNext]_receiveVars

-----------------------------------------------------------------------------
\* The reassembly of fragments: what is put together is one packet, whole, although sequence
\* numbers come round; the bytes it keeps are counted and stay within their bounds, whatever is
\* never completed; and of a network that loses and reorders nothing every packet comes through.
ReassembledWhole ==
  /\ part = "mixed" => Mixed!NeverMixed /\ Mixed!MemoryBound
  /\ part = "large" => Large!MemoryBound
  /\ part = "ordered" => Ordered!DeliversAll
=============================================================================
