------------------------------ MODULE MCClient ------------------------------
(***************************************************************************)
(* The client: its supervisor, its credentials and challenges, the options *)
(* it is pushed and the events it tells the application of, each by        *)
(* itself.  An initial state chooses the part; the supervisor and the      *)
(* credentials rest in an initial state while another part moves, the      *)
(* variables of the other parts stay at Unused.                            *)
(***************************************************************************)
EXTENDS ClientSupervisor, ClientCredentials

VARIABLES
  part,
  configuration, modern, pushes,                                 \* of PushedOptions
  events, emitted, signalling, wake, started, stopped, dispatcher, event, shutting
                                                                 \* of TunnelEvents

pushVars == <<configuration, modern, pushes>>
eventVars == <<events, emitted, signalling, wake, started, stopped, dispatcher, event,
               shutting>>
vars == <<part, clientVars, credentialVars, pushVars, eventVars>>

Unused == 0

\* Every client: with and without a static challenge, a token with and without a user name
\* of its own, both ways to go on after a refusal.
AllSettings ==
  [staticChallenge : BOOLEAN, tokenNamed : BOOLEAN, authRetry : {"none", "interact"}]

\* The settings of a client whose credentials are not the matter.
SomeSettings ==
  settings = [staticChallenge |-> FALSE, tokenNamed |-> FALSE, authRetry |-> "none"]

\* Pushed routes name their gateway or leave it open.
Pushed == INSTANCE PushedOptions WITH
  Destinations <- {"p1"}, Gateways <- {"g1", "g2"}, OwnGateways <- {"none", "g1"},
  LegacyServers <- {"l1"}, ModernServers <- {"m1"}, RouteNoPull <- FALSE, MaxPushes <- 3

\* A client that ignores pushed routes and name servers.
NoPull == INSTANCE PushedOptions WITH
  Destinations <- {"p1"}, Gateways <- {"g1"}, OwnGateways <- {"none", "g1"},
  LegacyServers <- {"l1"}, ModernServers <- {"m1"}, RouteNoPull <- TRUE, MaxPushes <- 2

\* Four events from two goroutines.
Events == INSTANCE TunnelEvents WITH
  close <- shutting, MaxEvents <- 4, Emitters <- {"supervisor", "loop"}

-----------------------------------------------------------------------------
NoPushes ==
  /\ configuration = Unused /\ modern = Unused /\ pushes = Unused

NoEvents ==
  /\ events = Unused /\ emitted = Unused /\ signalling = Unused /\ wake = Unused
  /\ started = Unused /\ stopped = Unused /\ dispatcher = Unused /\ event = Unused
  /\ shutting = Unused

Init ==
  \/ part = "supervisor" /\ ClientInit /\ CredentialInit /\ SomeSettings /\ NoPushes /\ NoEvents
  \/ part = "credentials" /\ CredentialInit /\ ClientInit /\ NoPushes /\ NoEvents
  \/ /\ ClientInit /\ CredentialInit /\ SomeSettings /\ NoEvents
     /\ \/ part = "pushed" /\ Pushed!Init
        \/ part = "noPull" /\ NoPull!Init
  \/ /\ part = "events" /\ Events!Init
     /\ ClientInit /\ CredentialInit /\ SomeSettings /\ NoPushes

Next ==
  \/ /\ part = "supervisor" /\ ClientNext
     /\ UNCHANGED <<part, credentialVars, pushVars, eventVars>>
  \/ /\ part = "credentials" /\ CredentialNext
     /\ UNCHANGED <<part, clientVars, pushVars, eventVars>>
  \/ /\ \/ part = "pushed" /\ Pushed!Next
        \/ part = "noPull" /\ NoPull!Next
     /\ UNCHANGED <<part, clientVars, credentialVars, eventVars>>
  \/ /\ part = "events" /\ Events!Next
     /\ UNCHANGED <<part, clientVars, credentialVars, pushVars>>

Spec == Init /\ [][Next]_vars

-----------------------------------------------------------------------------
\* What the application is told of the tunnel: no route without a gateway while one is known,
\* name servers of one form, at most one ping timer, nothing of what RouteNoPull ignores, and
\* events in the order the sessions emitted them.
TunnelTrue ==
  /\ part = "pushed" =>
       /\ Pushed!TypeOK /\ Pushed!RoutesResolved
       /\ Pushed!ServersOfOneForm /\ Pushed!TimersExclusive
  /\ part = "noPull" => NoPull!NothingPulled /\ NoPull!TimersExclusive
  /\ part = "events" => Events!QueueOrdered
=============================================================================
