----------------------------- MODULE MCDataPath -----------------------------
(***************************************************************************)
(* The way of data packets: the rings between readers and pushers, a call  *)
(* that writes packets, and the framing of packets on a stream, each by    *)
(* itself.  An initial state chooses the part; the ring rests in its       *)
(* initial state and the other variables at Unused when it is not theirs.  *)
(***************************************************************************)
EXTENDS DataQueue, TLC

CONSTANTS w1, w2, r1, r2, a1, a2

TwoPushers == {w1, w2}
TwoReaders == {r1, r2}

VARIABLES
  part,
  packets, raw, index, route, current, prepared, encoded, encodeErr, owned, faulty, misses, pc,
  result, left, made, counted,                              \* of DataWrites
  offered, wire, ended, readBuffer, readErr, timeouts, delivered, reader, accepted, claimed
                                                            \* of StreamFraming

writeVars == <<packets, raw, index, route, current, prepared, encoded, encodeErr, owned,
               faulty, misses, pc, result, left, made, counted>>
streamVars == <<offered, wire, ended, readBuffer, readErr, timeouts, delivered, reader,
                accepted, claimed>>
pathVars == <<part, queueVars, writeVars, streamVars>>

Unused == 0

TwoAddresses == {a1, a2}

\* The ring of the client, and that of a connection: new packets are dropped when it is full,
\* and a batch comes from one of two addresses.
TwoUses ==
  {[peerConnection |-> FALSE, maxPackets |-> {0, 1}, sources |-> {a1}, batches |-> {1, 3}],
   [peerConnection |-> TRUE, maxPackets |-> {1, 2}, sources |-> {a1, a2}, batches |-> {1, 2}]}

\* The server's call by destination, with packets that have no route or no destination.
ServerWrites == INSTANCE DataWrites WITH
  Server <- TRUE, Kinds <- {"p", "q", "miss", "bad"}, Framing <- FALSE, MaxBatch <- 4,
  MaxFragments <- 1

\* The client's call, with framing that drops packets or cuts them into fragments.
ClientWrites == INSTANCE DataWrites WITH
  Server <- FALSE, Kinds <- {"p", "empty"}, Framing <- TRUE, MaxBatch <- 3, MaxFragments <- 2

\* Empty packets, packets larger than the buffer, and packets that are too long.
Stream == INSTANCE StreamFraming WITH
  closed <- ended, MaxUint16 <- 5, streamPacketReadBufferSize <- 3, Lengths <- {0, 1, 3, 6},
  MaxPackets <- 4, MaxBatch <- 2, MaxTimeouts <- 2

-----------------------------------------------------------------------------
NoWrites ==
  /\ packets = Unused /\ raw = Unused /\ index = Unused /\ route = Unused
  /\ current = Unused /\ prepared = Unused /\ encoded = Unused /\ encodeErr = Unused
  /\ owned = Unused /\ faulty = Unused /\ misses = Unused /\ pc = Unused
  /\ result = Unused /\ left = Unused /\ made = Unused /\ counted = Unused

NoStream ==
  /\ offered = Unused /\ wire = Unused /\ ended = Unused /\ readBuffer = Unused
  /\ readErr = Unused /\ timeouts = Unused /\ delivered = Unused /\ reader = Unused
  /\ accepted = Unused /\ claimed = Unused

PathInit ==
  \/ part = "ring" /\ QueueInit /\ NoWrites /\ NoStream
  \/ /\ QueueInit /\ PeerConnection
     /\ \/ part = "serverWrites" /\ ServerWrites!Init /\ NoStream
        \/ part = "clientWrites" /\ ClientWrites!Init /\ NoStream
        \/ part = "stream" /\ NoWrites /\ Stream!Init

PathNext ==
  \/ part = "ring" /\ QueueNext /\ UNCHANGED <<part, writeVars, streamVars>>
  \/ /\ \/ part = "serverWrites" /\ ServerWrites!Next
        \/ part = "clientWrites" /\ ClientWrites!Next
     /\ UNCHANGED <<part, queueVars, streamVars>>
  \/ part = "stream" /\ Stream!Next /\ UNCHANGED <<part, queueVars, writeVars>>

PathSpec == PathInit /\ [][PathNext]_pathVars

Symmetry == Permutations({w1, w2}) \cup Permutations({r1, r2})

-----------------------------------------------------------------------------
\* Whatever stage of a call fails, each buffer is released once by whoever owns it then; what
\* leaves goes in order to the peer it was routed to, what counts as activity is what left
\* whole, and a call that returns no error has sent or reported every packet.
WritesAccounted ==
  /\ part = "serverWrites" =>
       /\ ServerWrites!ReleasedOnce /\ ServerWrites!LeavesInOrder
       /\ ServerWrites!CountedLeft /\ ServerWrites!NoSilentLoss
  /\ part = "clientWrites" =>
       ClientWrites!ReleasedOnce /\ ClientWrites!LeavesInOrder /\ ClientWrites!CountedLeft

\* Whatever the pieces in which the bytes of a stream travel and wherever writes stop, the
\* reader gets whole packets in order and once, and a write claims those it wrote in full.
StreamInOrder == part = "stream" => Stream!DeliversInOrder /\ Stream!CountsRight
=============================================================================
