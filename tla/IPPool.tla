------------------------------- MODULE IPPool -------------------------------
(***************************************************************************)
(* ip_pool.go, peer_route_registry.go and server_tunnel.go: the addresses  *)
(* a TLS server leases to its sessions, the memory of which identity last  *)
(* held which address, and the routes that follow the leases.              *)
(*                                                                         *)
(* An address is its offset in the pool's prefix; 0, the network itself,   *)
(* stands for an invalid netip.Addr.  The IPv4 and the IPv6 half of the    *)
(* pool are two records of the same shape.  Only the order of release      *)
(* times is ever compared, so released is the sequence of the remembered   *)
(* free addresses, the one released longest ago first.  A session runs     *)
(* allocateAndRegisterTunnelAddress and releaseTunnelAddress in one        *)
(* goroutine; every acquisition of a lock in them is a step.               *)
(***************************************************************************)
EXTENDS Integers, Sequences, FiniteSets, SequencesExt, FiniteSetsExt

CONSTANTS
  Sessions,           \* sessions, numbers from 1
  Identities,         \* authenticated identities, not empty
  Anonymous,          \* the empty identity
  Topologies,         \* values of --topology tried
  PrefixBits,         \* IPv4 prefix lengths tried, 0 for no IPv4 pool
  IPv6Size,           \* addresses in the IPv6 prefix, 0 for no IPv6 pool
  LocalAddresses,     \* server addresses tried as offsets, 0 for the default
  ipPoolMaximumSize   \* 65536 in the code

VARIABLES
  config,     \* topology, bits, and the server's addresses
  pool,       \* family -> used set, identity and address maps, release order
  ifconfig,   \* family -> session -> the address it holds
  routes,     \* family -> address -> the session the route leads to, 0 for none
  identity,   \* session -> stickyIdentity
  step        \* session -> where its goroutine is

vars == <<config, pool, ifconfig, routes, identity, step>>

Families == {4, 6}

-----------------------------------------------------------------------------
(* The addresses of the pool *)

Size(bits) == 2^(32 - bits)
LastIPv4InPrefix(bits) == Size(bits) - 1

IPv4Start(topology) == IF topology = "subnet" THEN 2 ELSE 4
IPv4End(topology, bits) ==
  LastIPv4InPrefix(bits)
    - (IF topology = "subnet" THEN 1 ELSE IF bits = 29 THEN 0 ELSE 4)

\* SetServerIPv4 wants a host of the prefix; no address was leased yet.
IPv4Configured(topology, bits, server) ==
  /\ bits \in 16..29
  /\ IPv4Start(topology) <= IPv4End(topology, bits)
  /\ server \in 1..(LastIPv4InPrefix(bits) - 1)

\* visitIPv4Leases, whose order is that of the client addresses.
IPv4Leases(topology, bits, server) ==
  LET all == IPv4Start(topology)..IPv4End(topology, bits)
  IN  IF topology = "net30"
      THEN {[client |-> a, peer |-> a - 1] :
              a \in {x \in all : x % 4 = 2 /\ server \notin {x - 1, x}}}
      ELSE {[client |-> a, peer |-> IF topology = "p2p" THEN server ELSE 0] :
              a \in all \ {server}}

\* ipv4Lease: the lease of an address that an identity held before.
IPv4Lease(topology, server, a) ==
  [client |-> a,
   peer |-> IF topology = "p2p" THEN server ELSE IF topology = "net30" THEN a - 1 ELSE 0]

HasIPv4 == config.bits # 0
HasIPv6 == IPv6Size # 0
Has(f) == IF f = 4 THEN HasIPv4 ELSE HasIPv6
Server(f) == IF f = 4 THEN config.server4 ELSE config.server6

Ascending(S, last) == SelectSeq([n \in 1..last |-> n], LAMBDA a : a \in S)

Candidates(f) ==
  IF f = 4
  THEN Ascending({l.client : l \in IPv4Leases(config.topology, config.bits, config.server4)},
                 LastIPv4InPrefix(config.bits))
  ELSE LET hosts == Ascending(1..(IPv6Size - 1) \ {config.server6}, IPv6Size - 1)
       IN  SubSeq(hosts, 1, Min({Len(hosts), ipPoolMaximumSize}))

PoolAddresses == 0..(IPv6Size + Size(IF config.bits = 0 THEN 32 ELSE config.bits))

-----------------------------------------------------------------------------
(* Finding an address *)

NotReleased == 0
ReleaseTime(p, a) ==
  IF \E n \in 1..Len(p.released) : p.released[n] = a
  THEN CHOOSE n \in 1..Len(p.released) : p.released[n] = a
  ELSE NotReleased

Remembered(p) == {i \in Identities : p.address[i] # 0}

\* Mutant: the first free address is taken, whoever remembers it.
VisitFirst(f, i, p, found, a) ==
  IF found.stop \/ a \in p.used THEN found ELSE [found EXCEPT !.address = a, !.stop = TRUE]

\* One turn of the loop over the candidates.
Visit(f, i, p, found, a) ==
  IF found.stop \/ a \in p.used THEN found
  ELSE IF i = Anonymous THEN [found EXCEPT !.address = a, !.stop = TRUE]
  ELSE IF /\ f = 6 /\ p.identity[a] = Anonymous
          /\ Cardinality(Remembered(p)) >= ipPoolMaximumSize
  THEN found
  ELSE LET time == ReleaseTime(p, a)
           chosen == IF found.address = 0 \/ time < found.time
                     THEN [found EXCEPT !.address = a, !.time = time] ELSE found
       IN  [chosen EXCEPT !.stop = time = NotReleased]

Scan(f, i) ==
  FoldLeft(LAMBDA found, a : Visit(f, i, pool[f], found, a),
           [address |-> 0, time |-> NotReleased, stop |-> FALSE], Candidates(f)).address

\* Mutant: nobody looks whether the address is still in use.
PreviousAnyway(f, i) == IF i = Anonymous THEN 0 ELSE pool[f].address[i]

\* The address the identity held before, when it is free.
Previous(f, i) ==
  IF i = Anonymous THEN 0
  ELSE LET a == pool[f].address[i]
       IN  IF a \in pool[f].used \/ (f = 6 /\ a = config.server6) THEN 0 ELSE a

Find(f, i) == IF Previous(f, i) # 0 THEN Previous(f, i) ELSE Scan(f, i)

-----------------------------------------------------------------------------
(* Leasing and releasing *)

Without(s, gone) == SelectSeq(s, LAMBDA a : a \notin gone)

Commit(p, a, i) ==
  LET before == IF i = Anonymous THEN 0 ELSE p.address[i]
      left == IF before = a THEN {} ELSE {before}
  IN  [used |-> p.used \cup {a},
       released |-> Without(p.released, {a} \cup left),
       identity |-> [x \in DOMAIN p.identity |->
                       IF x = a THEN i ELSE IF x \in left THEN Anonymous ELSE p.identity[x]],
       address |-> [j \in Identities |->
                      IF j = i THEN a
                      ELSE IF j = p.identity[a] /\ p.address[j] = a THEN 0 ELSE p.address[j]]]

\* The IPv6 half has a copy of the same code.
CommitIPv6(p, a, i) == Commit(p, a, i)

Release(p, a) ==
  [p EXCEPT !.used = @ \ {a},
            !.released = IF p.identity[a] = Anonymous THEN Without(@, {a})
                         ELSE Append(Without(@, {a}), a)]

-----------------------------------------------------------------------------
(* The sessions *)

NewIPPool(server6) ==
  [f \in Families |->
     [used |-> IF f = 6 THEN {server6} ELSE {},
      identity |-> [a \in PoolAddresses |-> Anonymous],
      address |-> [i \in Identities |-> 0], released |-> <<>>]]

\* SetServerIPv6 moves the one reserved address.
SetServerIPv6(local) == IF IPv6Size = 0 THEN 0 ELSE IF local = 0 THEN 1 ELSE local

\* prepareServerDataPlane with every configuration it accepts.
Init ==
  /\ \E topology \in Topologies, bits \in PrefixBits, local \in LocalAddresses :
       LET server4 == IF bits = 0 THEN 0 ELSE IF local = 0 THEN 1 ELSE local
           server6 == SetServerIPv6(local)
       IN  /\ bits # 0 => IPv4Configured(topology, bits, server4)
           /\ IPv6Size # 0 => server6 \in 1..(IPv6Size - 1)
           /\ config = [topology |-> topology, bits |-> bits,
                        server4 |-> server4, server6 |-> server6]
  /\ pool = NewIPPool(config.server6)
  /\ ifconfig = [f \in Families |-> [s \in Sessions |-> 0]]
  /\ routes = [f \in Families |-> [a \in PoolAddresses |-> 0]]
  /\ identity = [s \in Sessions |-> Anonymous]
  /\ step = [s \in Sessions |-> "idle"]

\* A session that is back at idle is a new one.
Go(s, from, to) ==
  /\ step[s] = from
  /\ step' = [step EXCEPT ![s] = to]
  /\ identity' = IF to = "idle" THEN [identity EXCEPT ![s] = Anonymous] ELSE identity

\* The first push request of a new session; its identity is empty when
\* Authentication.DuplicateCN is set or the peer has none.
PushRequest(s) ==
  /\ step[s] = "idle"
  /\ step' = [step EXCEPT ![s] = "allocate4"]
  /\ \E i \in Identities \cup {Anonymous} : identity' = [identity EXCEPT ![s] = i]
  /\ UNCHANGED <<config, pool, ifconfig, routes>>

AllocateStep(f) == IF f = 4 THEN "allocate4" ELSE "allocate6"
RegisterStep(f) == IF f = 4 THEN "register4" ELSE "register6"
UnregisterStep(f) == IF f = 4 THEN "unregister4" ELSE "unregister6"
ReleaseStep(f) == IF f = 4 THEN "release4" ELSE "release6"
AfterRegister(f) == IF f = 4 THEN "allocate6" ELSE "up"
AfterRelease(f) == IF f = 4 THEN "unregister6" ELSE "idle"

AllocateIPv4(s) ==
  /\ HasIPv4
  /\ \E a \in {Find(4, identity[s])} \ {0} :
       /\ Go(s, "allocate4", "register4")
       /\ pool' = [pool EXCEPT ![4] = Commit(@, a, identity[s])]
       /\ ifconfig' = [ifconfig EXCEPT ![4][s] = a]
  /\ UNCHANGED <<config, routes>>

AllocateIPv6(s) ==
  /\ HasIPv6
  /\ \E a \in {Find(6, identity[s])} \ {0} :
       /\ Go(s, "allocate6", "register6")
       /\ pool' = [pool EXCEPT ![6] = CommitIPv6(@, a, identity[s])]
       /\ ifconfig' = [ifconfig EXCEPT ![6][s] = a]
  /\ UNCHANGED <<config, routes>>

\* The session ends and gives back what it already has.
Exhausted(s, f) ==
  /\ Has(f) /\ Find(f, identity[s]) = 0
  /\ Go(s, AllocateStep(f), "unregister4")
  /\ UNCHANGED <<config, pool, ifconfig, routes>>

NoPool(s, f) ==
  /\ ~Has(f)
  /\ Go(s, AllocateStep(f), AfterRegister(f))
  /\ UNCHANGED <<config, pool, ifconfig, routes>>

Register(s, f) ==
  /\ Go(s, RegisterStep(f), AfterRegister(f))
  /\ routes' = [routes EXCEPT ![f][ifconfig[f][s]] = s]
  /\ UNCHANGED <<config, pool, ifconfig>>

End(s) ==
  /\ Go(s, "up", "unregister4")
  /\ UNCHANGED <<config, pool, ifconfig, routes>>

Unregister(s, f) ==
  /\ Go(s, UnregisterStep(f), IF ifconfig[f][s] = 0 THEN AfterRelease(f) ELSE ReleaseStep(f))
  /\ routes' = IF ifconfig[f][s] = 0 THEN routes
               ELSE [routes EXCEPT ![f][ifconfig[f][s]] = 0]
  /\ UNCHANGED <<config, pool, ifconfig>>

ReleaseAddress(s, f) ==
  /\ Go(s, ReleaseStep(f), AfterRelease(f))
  /\ pool' = [pool EXCEPT ![f] = Release(@, ifconfig[f][s])]
  /\ ifconfig' = [ifconfig EXCEPT ![f][s] = 0]
  /\ UNCHANGED <<config, routes>>

\* SourcesOwnedBy on one packet of session s: a source address, or a packet
\* without one (malformed) or with one no session can own (IPv6 link-local).
SourceOwned(s, f, source) == source \in PoolAddresses /\ routes[f][source] = s

Next ==
  \E s \in Sessions :
    \/ PushRequest(s)
    \/ End(s)
    \/ AllocateIPv4(s)
    \/ AllocateIPv6(s)
    \/ \E f \in Families :
         \/ Exhausted(s, f)
         \/ NoPool(s, f)
         \/ Register(s, f)
         \/ Unregister(s, f)
         \/ ReleaseAddress(s, f)

Spec == Init /\ [][Next]_vars

-----------------------------------------------------------------------------
(* Properties *)

\* The variables hold what their comments say.
TypeOK ==
  /\ config \in [topology : Topologies, bits : PrefixBits, server4 : Nat, server6 : Nat]
  /\ \A f \in Families :
       /\ pool[f].used \subseteq PoolAddresses
       /\ pool[f].identity \in [PoolAddresses -> Identities \cup {Anonymous}]
       /\ pool[f].address \in [Identities -> PoolAddresses]
       /\ pool[f].released \in Seq(PoolAddresses)
  /\ ifconfig \in [Families -> [Sessions -> PoolAddresses]]
  /\ routes \in [Families -> [PoolAddresses -> Sessions \cup {0}]]
  /\ identity \in [Sessions -> Identities \cup {Anonymous}]
  /\ step \in [Sessions -> {"idle", "up"} \cup
                {g[f] : g \in {[f \in Families |-> AllocateStep(f)],
                               [f \in Families |-> RegisterStep(f)],
                               [f \in Families |-> UnregisterStep(f)],
                               [f \in Families |-> ReleaseStep(f)]}, f \in Families}]

\* configureIPv4, SetServerIPv4 and visitIPv4Leases: in every accepted
\* configuration no two leases share an address, none has the server's as its
\* own, and an address whose lease is looked up again has the lease it was
\* offered with.  Clients are hosts of the prefix, except that the p2p pool
\* of a /29 reaches up to its last address.
LeasesUsable ==
  HasIPv4 =>
    LET leases == IPv4Leases(config.topology, config.bits, config.server4)
        own(l) == IF config.topology = "net30" THEN {l.client, l.peer} ELSE {l.client}
    IN  /\ \A l \in leases :
             /\ config.server4 \notin own(l)
             /\ l = IPv4Lease(config.topology, config.server4, l.client)
             /\ own(l) \subseteq 1..(Size(config.bits) -
                                      IF config.topology = "p2p" THEN 1 ELSE 2)
             /\ config.topology = "net30" => l.client \div 4 = l.peer \div 4
        /\ \A l, k \in leases : l # k => own(l) \cap own(k) = {}

\* AllocateIPv4ForIdentity, AllocateIPv6ForIdentity and Release: an address is
\* held by one session at a time, never by the server, and every address in
\* use is held by a session: none is lost when sessions fail half way.
LeaseExclusive ==
  \A f \in Families :
    /\ \A s, t \in Sessions :
         s # t /\ ifconfig[f][s] # 0 => ifconfig[f][s] # ifconfig[f][t]
    /\ \A s \in Sessions : Has(f) => ifconfig[f][s] # Server(f)
    /\ pool[f].used = ({ifconfig[f][s] : s \in Sessions} \ {0})
                        \cup (IF f = 6 THEN {config.server6} ELSE {})

\* Register, Unregister and SourcesOwnedBy: a packet's source passes the check
\* only for the session that holds the address, also while addresses change
\* hands, and a session that is up may send from its own addresses.
RoutesFollowLeases ==
  \A f \in Families, s \in Sessions :
    /\ \A a \in PoolAddresses \cup {-1} : SourceOwned(s, f, a) => ifconfig[f][s] = a
    /\ step[s] = "up" /\ Has(f) => SourceOwned(s, f, ifconfig[f][s])

\* commitIPv4Lease and commitIPv6Address: the two maps of the memory are each
\* other's inverse, the addresses with a release time are the free remembered
\* ones, each once, and the memory stays below its bound.
MemoryConsistent ==
  \A f \in Families :
    LET p == pool[f]
    IN  /\ \A i \in Identities : p.address[i] # 0 => p.identity[p.address[i]] = i
        /\ \A a \in PoolAddresses : p.identity[a] # Anonymous => p.address[p.identity[a]] = a
        /\ ToSet(p.released) = {a \in PoolAddresses : p.identity[a] # Anonymous} \ p.used
        /\ Len(p.released) = Cardinality(ToSet(p.released))
        /\ Cardinality(Remembered(p)) <= ipPoolMaximumSize

\* findAvailableIPv4Lease and findAvailableIPv6Address: a session with an
\* identity takes the address another identity is remembered with only when
\* every free address is remembered, and then the one released longest ago.
\* An identity that moves was using its old address.
KeepsSticky ==
  \A f \in Families, i \in Identities :
     LET a == pool[f].address[i]
         b == pool'[f].address[i]
         free == ToSet(Candidates(f)) \ pool[f].used
     IN  a # 0 /\ b # a =>
           IF b # 0 THEN a \in pool[f].used
           ELSE \E s \in Sessions :
                  /\ ifconfig[f][s] = 0 /\ ifconfig'[f][s] = a
                  /\ \/ identity[s] = Anonymous
                     \/ /\ \A x \in free : pool[f].identity[x] # Anonymous
                        /\ Head(pool[f].released) = a
=============================================================================
