---------------------------- MODULE MCStaticKey -----------------------------
(***************************************************************************)
(* Static key mode and what long-form packet ids rest on: the ids that     *)
(* sessions give their packets, the two other forms of the replay window,  *)
(* and the lifecycle of a static key tunnel, each by itself.  An initial   *)
(* state chooses the part; the ids and the tunnel rest in an initial state *)
(* and the window's variables at Unused when it is not theirs.             *)
(***************************************************************************)
EXTENDS LongFormIDs, StaticKey

VARIABLES
  part,
  initialized, highestID, highestTimestamp, bitmap, arrivalTimes, minimumID, clock, accepted,
  answer                                                     \* of ReplayWindow

windowVars == <<initialized, highestID, highestTimestamp, bitmap, arrivalTimes, minimumID,
                clock, accepted, answer>>
modeVars == <<part, idVars, windowVars, tunnelVars>>

Unused == 0

\* Wrapped control packets.  The constants of the configuration are those of static key mode.
Control == INSTANCE LongFormIDs WITH StaticKey <- FALSE, MaxPackets <- 6

\* Ids around the borders of a window of two words, without timestamps.
Short == INSTANCE ReplayWindow WITH
  now <- clock, accepts <- accepted, verdict <- answer,
  WindowSize <- 66, TimeWindow <- 0, MaxPacketID <- 130,
  PacketIDs <- {0, 1, 2, 3, 64, 65, 66, 67, 68, 129, 130}, Timestamps <- {0},
  LongForm <- FALSE, MaxTime <- 0

\* No window: ids are strictly monotonic.
Monotonic == INSTANCE ReplayWindow WITH
  now <- clock, accepts <- accepted, verdict <- answer,
  WindowSize <- 0, TimeWindow <- 0, MaxPacketID <- 5, PacketIDs <- 0..5,
  Timestamps <- {0, 1, 2}, LongForm <- TRUE, MaxTime <- 0

-----------------------------------------------------------------------------
NoWindow ==
  /\ initialized = Unused /\ highestID = Unused /\ highestTimestamp = Unused
  /\ bitmap = Unused /\ arrivalTimes = Unused /\ minimumID = Unused /\ clock = Unused
  /\ accepted = Unused /\ answer = Unused

NoTunnel == TunnelInit /\ role = "dial"

ModeInit ==
  \/ part = "static" /\ IDInit /\ NoWindow /\ NoTunnel
  \/ part = "control" /\ Control!IDInit /\ NoWindow /\ NoTunnel
  \/ /\ IDInit /\ NoTunnel
     /\ \/ part = "short" /\ Short!Init
        \/ part = "monotonic" /\ Monotonic!Init
  \/ part = "tunnel" /\ IDInit /\ NoWindow /\ TunnelInit

ModeNext ==
  \/ /\ \/ part = "static" /\ IDNext
        \/ part = "control" /\ Control!IDNext
     /\ UNCHANGED <<part, windowVars, tunnelVars>>
  \/ /\ \/ part = "short" /\ Short!Next
        \/ part = "monotonic" /\ Monotonic!Next
     /\ UNCHANGED <<part, idVars, tunnelVars>>
  \/ part = "tunnel" /\ TunnelNext /\ UNCHANGED <<part, idVars, windowVars>>

ModeSpec == ModeInit /\ [][ModeNext]_modeVars

-----------------------------------------------------------------------------
\* Without timestamps, and without a window, too, the packets acceptLocked accepts are those
\* the filter accepts: none of them twice.
WindowsAreFilters ==
  [][ /\ part = "short" => Short!Filter!Step
      /\ part = "monotonic" => Monotonic!Filter!Step ]_modeVars
=============================================================================
