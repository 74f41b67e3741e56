------------------------------ MODULE MCServer ------------------------------
(***************************************************************************)
(* The server: its sessions and their registries, its address pool and its *)
(* admission of new peers, each by itself.  An initial state chooses the   *)
(* part; the sessions and the admission rest in an initial state while     *)
(* another part moves, the variables of the pool stay at Unused.           *)
(***************************************************************************)
EXTENDS ServerSessions, Admission

VARIABLES
  part,
  config, pool, ifconfig, routes, identity, step    \* of IPPool

poolVars == <<config, pool, ifconfig, routes, identity, step>>
vars == <<part, serverVars, poolVars, admissionVars>>

Unused == 0

\* Three sessions of one address and identity compete for one slot, authentication may fail.
Replace ==
  [transport |-> "udp", arriving |-> {"A"}, shown |-> {"x"}, dataV2 |-> {TRUE},
   mayFail |-> BOOLEAN, floating |-> {}, closes |-> FALSE, maxClients |-> 1, sessions |-> 3]

\* Two peers move between two source addresses.
Move ==
  [transport |-> "udp", arriving |-> {"A", "B"}, shown |-> {"x", "y"}, dataV2 |-> {TRUE},
   mayFail |-> {FALSE}, floating |-> {"A", "B"}, closes |-> FALSE, maxClients |-> 2,
   sessions |-> 2]

\* The server is closed while two sessions begin.
Closing ==
  [transport |-> "udp", arriving |-> {"A", "B"}, shown |-> {"x"}, dataV2 |-> {TRUE},
   mayFail |-> {FALSE}, floating |-> {}, closes |-> TRUE, maxClients |-> 2, sessions |-> 2]

\* Three stream connections of one identity.
Stream ==
  [transport |-> "tcp", arriving |-> {"A"}, shown |-> {"x"}, dataV2 |-> BOOLEAN,
   mayFail |-> {FALSE}, floating |-> {}, closes |-> FALSE, maxClients |-> 2, sessions |-> 3]

AllOptions == {Replace, Move, Closing, Stream}

\* Three sessions, two of them with the same identity or with none, and room for two.
Leases == INSTANCE IPPool WITH
  Sessions <- {1, 2, 3}, Identities <- {"a"}, Anonymous <- "", Topologies <- {"net30"},
  PrefixBits <- {28}, IPv6Size <- 3, LocalAddresses <- {0}, ipPoolMaximumSize <- 65536

\* More identities than the pool may remember.
Memory == INSTANCE IPPool WITH
  Sessions <- {1, 2}, Identities <- {"a", "b", "c"}, Anonymous <- "", Topologies <- {"net30"},
  PrefixBits <- {0}, IPv6Size <- 5, LocalAddresses <- {0, 2}, ipPoolMaximumSize <- 3

\* Every topology, and server addresses in and around the leases.
Layout == INSTANCE IPPool WITH
  Sessions <- {1}, Identities <- {"a"}, Anonymous <- "",
  Topologies <- {"subnet", "p2p", "net30"}, PrefixBits <- {27, 28, 29}, IPv6Size <- 0,
  LocalAddresses <- {0} \cup 2..14 \cup {20, 21, 22, 25, 26, 29, 30, 31},
  ipPoolMaximumSize <- 65536

-----------------------------------------------------------------------------
NoPool ==
  /\ config = Unused /\ pool = Unused /\ ifconfig = Unused /\ routes = Unused
  /\ identity = Unused /\ step = Unused

NoAdmission == AdmissionInit /\ now = 0

Init ==
  \/ part = "sessions" /\ ServerInit /\ NoPool /\ NoAdmission
  \/ /\ ServerInit /\ options = Replace /\ NoAdmission
     /\ \/ part = "leases" /\ Leases!Init
        \/ part = "memory" /\ Memory!Init
        \/ part = "layout" /\ Layout!Init
  \/ part = "admit" /\ ServerInit /\ options = Replace /\ NoPool /\ AdmissionInit

Next ==
  \/ part = "sessions" /\ ServerNext /\ UNCHANGED <<part, poolVars, admissionVars>>
  \/ /\ \/ part = "leases" /\ Leases!Next
        \/ part = "memory" /\ Memory!Next
        \/ part = "layout" /\ Layout!Next
     /\ UNCHANGED <<part, serverVars, admissionVars>>
  \/ part = "admit" /\ AdmissionNext /\ UNCHANGED <<part, serverVars, poolVars>>

Spec == Init /\ [][Next]_vars

-----------------------------------------------------------------------------
\* While sessions come, fail half way and go: an address is leased to one session at a time and
\* never to the server, its route leads to that session only, the memory of earlier leases is
\* consistent and bounded, and in every accepted configuration the leases are disjoint.
LeasesTrue ==
  /\ part = "leases" => Leases!TypeOK /\ Leases!LeaseExclusive /\ Leases!RoutesFollowLeases
  /\ part = "memory" => Memory!MemoryConsistent /\ Memory!LeaseExclusive
  /\ part = "layout" => Layout!LeasesUsable

\* findAvailableIPv6Address: a session takes the address another identity is remembered with
\* only when every free address is remembered, and then the one released longest ago.
StickyKept == [][part = "memory" => Memory!KeepsSticky]_vars
=============================================================================
