---------------------------- MODULE LongFormIDs -----------------------------
(***************************************************************************)
(* Packets that carry a timestamp beside their id: the data packets of     *)
(* static key mode (data_codec_static.go, ids from proto/session.go) and   *)
(* the wrapped control packets (control_wrap.go).  The key outlives the    *)
(* ids.  A static key client starts again at id 1 with every session,      *)
(* while its peer may keep the replay window of the session before; a      *)
(* control packet id wraps around.  In both cases the timestamp must tell  *)
(* the new ids from the old.  It cannot for a client that is suspended and *)
(* resumed within a second.                                                *)
(*                                                                         *)
(* The receiver is ReplayFilter, which ReplayWindow implements.  The       *)
(* network loses, repeats and reorders packets.                            *)
(***************************************************************************)
EXTENDS Integers, Sequences

CONSTANTS
  StaticKey,   \* data packets of static key mode, otherwise wrapped control packets
  WindowSize,  \* --replay-window
  MaxPacketID, \* 2^32 - 1
  MaxTime,     \* bound: the last second
  MaxPackets   \* bound: packets ever sent

ASSUME LongFormAssumption ==
  /\ StaticKey \in BOOLEAN
  /\ WindowSize \in Nat \ {0} /\ MaxPacketID \in Nat \ {0, 1}
  /\ MaxTime \in Nat \ {0} /\ MaxPackets \in Nat

VARIABLES
  now,        \* the clock, in seconds
  timestamp,  \* sendTimestamp, s.timestamp; 0 before it is taken
  lastID,     \* localDataPacketID - 1, s.nextID: the last id that was used
  ended,      \* the second in which the last session of the sender ended, -1: it runs
  suspended,  \* whether it ended because the client was suspended
  repeats,    \* history: the session was resumed in the second of the one before
  packets,    \* history: the packets in the order they were sent
  repeated,   \* history: those among them of a session that repeats
  arrived,    \* history: the packets that reached this session of the receiver
  epoch, top, floor, accepts, verdict  \* the replay filter of the receiver

filter == <<epoch, top, floor, accepts, verdict>>
sender == <<timestamp, lastID, ended, suspended, repeats>>
network == <<packets, repeated>>
idVars == <<now, sender, network, arrived, filter>>

PacketIDs == 0..MaxPacketID
Timestamps == 0..MaxTime
Filter == INSTANCE ReplayFilter WITH TimeWindow <- 0

IDInit ==
  /\ now = 1
  /\ timestamp = 1 /\ lastID = 0
  /\ ended = -1 /\ suspended = FALSE /\ repeats = FALSE
  /\ packets = <<>> /\ repeated = {} /\ arrived = {}
  /\ Filter!Init

-----------------------------------------------------------------------------

\* tlsPacketIDState.next: the timestamp moves when the id wraps around.  That
\* 2^32 - 1 packets take more than a second is the guard.
Wrap ==
  /\ now > timestamp
  /\ timestamp' = now /\ lastID' = 1

\* NewDataPacketIDs never gives out the last id; next gives it out and wraps.
NextID ==
  \/ /\ lastID < MaxPacketID - (IF StaticKey THEN 1 ELSE 0)
     /\ lastID' = lastID + 1 /\ timestamp' = timestamp
  \/ ~StaticKey /\ lastID = MaxPacketID /\ Wrap

Send ==
  /\ ended = -1 /\ Len(packets) < MaxPackets
  /\ NextID
  /\ packets' = Append(packets, <<timestamp', lastID'>>)
  /\ repeated' = IF repeats THEN repeated \cup {Len(packets')} ELSE repeated
  /\ UNCHANGED <<now, ended, suspended, repeats, arrived, filter>>

\* The session fails, for whatever reason, or Suspend ends it.
SessionEnds ==
  /\ StaticKey /\ ended = -1
  /\ ended' = now
  /\ suspended' \in BOOLEAN
  /\ UNCHANGED <<now, timestamp, lastID, repeats, network, arrived, filter>>

\* Mutant: the supervisor connects again at once.
BackoffSkipped == TRUE

\* waitClientReconnectBackoff takes a second at least.
BackoffOver == now > ended

\* newStaticKeyClientSession: a new codec and a new session manager.  A client
\* that was suspended starts it as soon as it is resumed.
NewSession ==
  /\ ended # -1
  /\ suspended \/ BackoffOver
  /\ timestamp' = now /\ lastID' = 0 /\ ended' = -1
  /\ suspended' = FALSE
  /\ repeats' = (suspended /\ now = timestamp)
  /\ UNCHANGED <<now, network, arrived, filter>>

\* A packet comes out of the network, perhaps again, perhaps late.
Receive ==
  \E serial \in 1..Len(packets) :
    /\ Filter!Accept(packets[serial][1], packets[serial][2])
       \/ Filter!Reject(packets[serial][1], packets[serial][2])
    /\ arrived' = arrived \cup {serial}
    /\ UNCHANGED <<now, sender, network>>

\* The receiver starts a new session, with a new replay window.
ReceiverRestarts ==
  /\ StaticKey /\ arrived # {}
  /\ epoch' = -1 /\ top' = 0 /\ floor' = 0
  /\ accepts' = [pair \in Filter!Pairs |-> 0]
  /\ verdict' = Filter!NoVerdict
  /\ arrived' = {}
  /\ UNCHANGED <<now, sender, network>>

Second ==
  /\ now < MaxTime
  /\ now' = now + 1
  /\ UNCHANGED <<sender, network, arrived, filter>>

IDNext == Send \/ SessionEnds \/ NewSession \/ Receive \/ ReceiverRestarts \/ Second

IDSpec == IDInit /\ [][IDNext]_idVars

-----------------------------------------------------------------------------
\* A packet that overtakes nothing, sent after all that reached the receiver so
\* far, is accepted in whichever session of the sender; one of a session that was
\* resumed in the second of the one before as soon as its id is past those that
\* arrived with the same timestamp.
FreshAccepted ==
  [][\A serial \in arrived' \ arrived :
       (\A other \in arrived :
          /\ other < serial
          /\ serial \in repeated /\ packets[other][1] = packets[serial][1]
               => packets[other][2] < packets[serial][2])
         => verdict'[3]]_idVars
=============================================================================
