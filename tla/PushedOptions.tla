--------------------------- MODULE PushedOptions ---------------------------
(***************************************************************************)
(* applyPushedOptions of client_tunnel.go: how the options a server pushes *)
(* are merged into the configuration of the tunnel.  A server pushes more  *)
(* than once: in a reply to a repeated request, in an update, after a      *)
(* renegotiation.  The configuration starts anew with every session.       *)
(*                                                                         *)
(* Kept are the options whose merging depends on what is there already:    *)
(* routes and the gateways they are given, name servers of the old and of  *)
(* the modern form, and the two exclusive ping timers.  The others         *)
(* overwrite one field each.                                               *)
(***************************************************************************)
EXTENDS Naturals, Sequences, SequencesExt

CONSTANTS
  Destinations,         \* destinations of routes
  Gateways,         \* addresses that may be a gateway
  OwnGateways,      \* gateways a pushed route may name itself
  LegacyServers,    \* name servers pushed as DHCP options
  ModernServers,    \* name servers pushed with the dns option
  RouteNoPull,      \* whether routes and name servers are ignored
  MaxPushes         \* bound: pushes applied to one session

None == "none"

VARIABLES
  configuration,   \* tunnel.configuration
  modern,          \* tunnel.modernDNSConfigured
  pushes           \* pushes applied since the session began

vars == <<configuration, modern, pushes>>

AtMostOne(S) == {<<>>} \cup {<<x>> : x \in S}

\* What a push carries once it is parsed.  An address comes with the peer that is
\* the gateway of a point-to-point tunnel, or without one; never with one in the
\* push that says the topology is a subnet.  Of the two ping timers the last of a
\* push counts, which may also switch the timer off.
Pushes ==
  {push \in [routes : AtMostOne([prefix : Destinations, gateway : OwnGateways]),
             topology : {None, "subnet", "net30"},
             local : {None, "noPeer"} \cup Gateways,
             routeGateway : {None, "vpn_gateway"} \cup Gateways,
             dns : AtMostOne(LegacyServers),
             modern : AtMostOne(ModernServers),
             timer : {None, "restart", "exit", "off"}] :
     push.topology = "subnet" => push.local \notin Gateways}

\* buildInitialTunnelConfiguration: the ping-restart of a UDP client, no routes or
\* gateways of its own.
InitialConfiguration ==
  [routes |-> <<>>, topology |-> None, vpnGateway |-> None, routeGateway |-> None,
   dns |-> <<>>, restart |-> TRUE, exit |-> FALSE]

Init ==
  /\ configuration = InitialConfiguration
  /\ modern = FALSE
  /\ pushes = 0

\* appendUniqueAddresses, appendUniqueStringValues, appendUniqueTunnelRoutes
AppendUnique(destination, values) ==
  FoldLeft(LAMBDA merged, value : IF Contains(merged, value) THEN merged ELSE Append(merged, value),
           destination, values)

\* Mutant: the gateway of a route is resolved before the push is applied.
FillNone(routes, gateway) == routes

\* fillTunnelRouteGateways: an unknown gateway fills nothing.
FillGateways(routes, gateway) ==
  [i \in DOMAIN routes |-> IF routes[i].gateway = None THEN [routes[i] EXCEPT !.gateway = gateway]
                           ELSE routes[i]]

\* The first push with a dns option drops what came as DHCP options, and from
\* then on nothing of that form is taken.
MergedServers(c, push) ==
  IF RouteNoPull THEN c.dns
  ELSE IF modern THEN AppendUnique(c.dns, push.modern)
  ELSE IF push.modern # <<>> THEN AppendUnique(<<>>, push.modern)
  ELSE AppendUnique(c.dns, push.dns)

\* Pushing one of the ping timers takes the other back.
MergedTimers(c, push) ==
  IF push.timer = None THEN [restart |-> c.restart, exit |-> c.exit]
  ELSE [restart |-> push.timer = "restart", exit |-> push.timer = "exit"]

\* The peer of the pushed address, which is none when the address has none.
MergedVPNGateway(c, push) ==
  IF push.local = None THEN c.vpnGateway
  ELSE IF push.local = "noPeer" THEN None ELSE push.local

\* routeGateway: a push that asks for the gateway of the tunnel gets what that is
\* now, and nothing in a subnet.  One that resolves to nothing is ignored.
MergedRouteGateway(c, push, vpnGateway, topology) ==
  LET asked == IF push.routeGateway # "vpn_gateway" THEN push.routeGateway
               ELSE IF topology = "subnet" THEN None ELSE vpnGateway
  IN  IF asked = None THEN c.routeGateway ELSE asked

\* The gateway of a route that names none.
OpenGateway(routeGateway, vpnGateway) == IF routeGateway = None THEN vpnGateway ELSE routeGateway

Merged(c, push) ==
  LET topology == IF push.topology = None THEN c.topology ELSE push.topology
      vpnGateway == MergedVPNGateway(c, push)
      routeGateway == MergedRouteGateway(c, push, vpnGateway, topology)
      timers == MergedTimers(c, push)
      routes == IF RouteNoPull THEN c.routes ELSE AppendUnique(c.routes, push.routes)
  IN  [routes |-> FillGateways(routes, OpenGateway(routeGateway, vpnGateway)),
       topology |-> topology, vpnGateway |-> vpnGateway, routeGateway |-> routeGateway,
       dns |-> MergedServers(c, push), restart |-> timers.restart, exit |-> timers.exit]

ApplyPushedOptions(push) ==
  /\ pushes < MaxPushes
  /\ pushes' = pushes + 1
  /\ configuration' = Merged(configuration, push)
  /\ modern' = (modern \/ (push.modern # <<>> /\ ~RouteNoPull))

\* resetSessionConfiguration
Reset ==
  /\ configuration' = InitialConfiguration
  /\ modern' = FALSE
  /\ pushes' = 0

Next == Reset \/ \E push \in Pushes : ApplyPushedOptions(push)

Spec == Init /\ [][Next]_vars

-----------------------------------------------------------------------------
(* Properties *)

\* The variables hold what their comments say.
TypeOK ==
  /\ configuration.routes \in Seq([prefix : Destinations, gateway : Gateways \cup {None}])
  /\ configuration.vpnGateway \in Gateways \cup {None}
  /\ configuration.routeGateway \in Gateways \cup {None}
  /\ configuration.dns \in Seq(LegacyServers \cup ModernServers)
  /\ configuration.restart \in BOOLEAN /\ configuration.exit \in BOOLEAN
  /\ modern \in BOOLEAN
  /\ pushes \in 0..MaxPushes

\* fillTunnelRouteGateways, "only after route-gateway and pulled ifconfig endpoints
\* are available": whatever the order of the pushes, and though a later address
\* may take the gateway of the tunnel back, no route is left without a gateway
\* while one is known.
RoutesResolved ==
  OpenGateway(configuration.routeGateway, configuration.vpnGateway) # None =>
    \A i \in DOMAIN configuration.routes : configuration.routes[i].gateway # None

\* modernDNSConfigured: name servers of the two forms are never in use together.
ServersOfOneForm ==
  LET servers == {configuration.dns[i] : i \in DOMAIN configuration.dns}
  IN  servers \subseteq IF modern THEN ModernServers ELSE LegacyServers

\* pushedPingTimeoutAction: the last ping timer pushed replaces the other, also the
\* one the client began with.
TimersExclusive == ~(configuration.restart /\ configuration.exit)

\* RouteNoPull: however often the server pushes them, no route and no name server
\* is taken.
NothingPulled == RouteNoPull => configuration.routes = <<>> /\ configuration.dns = <<>>
=============================================================================
