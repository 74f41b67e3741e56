--------------------------- MODULE ServerSessions ---------------------------
(***************************************************************************)
(* server_tls.go, server_listener.go and the life of a session in          *)
(* server_session.go: how a TLS server admits sessions, finds them by      *)
(* peer, source address, peer-id and identity, lets one replace another,   *)
(* counts them against --max-clients, and closes.                          *)
(*                                                                         *)
(* The packet loop (or the accept loop) is one goroutine, every session is *)
(* another; a step ends where a lock is released.  A registry is a         *)
(* function that is 0 where the map has no entry.  A peer address is its   *)
(* source address and the number of the #session suffix, 0 for none.  The  *)
(* TLS handshake is reduced to its outcome: the certificate it shows,      *)
(* which is also the identity, and whether authentication failed.          *)
(***************************************************************************)
EXTENDS Integers, FiniteSets

CONSTANTS
  Addresses,      \* source addresses
  Identities,     \* identities of authenticated peers
  Nobody,         \* the empty identity
  MaxClients,     \* bound: what --max-clients says at most
  MaxSessions,    \* bound: sessions created
  Options         \* the options of the servers in question, and what their peers are like

ASSUME ServerAssumption ==
  /\ Addresses # {} /\ Nobody \notin Identities /\ MaxClients \in Nat /\ MaxSessions \in Nat
  /\ Options \subseteq [transport : {"udp", "tcp"}, arriving : SUBSET Addresses,
                        shown : SUBSET Identities, dataV2 : SUBSET BOOLEAN,
                        mayFail : SUBSET BOOLEAN, floating : SUBSET Addresses,
                        closes : BOOLEAN, maxClients : 0..MaxClients,
                        sessions : 0..MaxSessions]

VARIABLES
  options,      \* one of them, for as long as the server lives
  session,      \* the sessions created so far, by number
  created,      \* how many there are
  byPeer,       \* sessionByPeer
  byIdentity,   \* sessionByIdentity
  byPeerID,     \* sessionByPeerID
  udpActive,    \* udpSessionByAddress
  udpInitial,   \* udpInitialSessionByAddress
  instances,    \* resourcePolicy.instances
  listener,     \* the packet or accept loop
  toClose,      \* sessions somebody is about to call Close on
  lifecycle     \* lifecycleState of the server; draining once the sessions are closed

registries == <<byPeer, byIdentity, byPeerID, udpActive, udpInitial>>
sessionVars == <<session, created, registries, instances, listener, toClose, lifecycle>>
serverVars == <<options, sessionVars>>

Transport == options.transport    \* "udp" or "tcp"
Arriving == options.arriving      \* source addresses peers begin at
Shown == options.shown            \* identities in the certificates they show
DataV2 == options.dataV2          \* whether peers support peer-ids: a set of Booleans
MayFail == options.mayFail        \* outcomes of authentication: a set of Booleans, TRUE for failed
Floating == options.floating      \* source addresses peers move to
Closes == options.closes          \* whether the server is closed at some point
maxClients == options.maxClients  \* resourcePolicy.maxClients
Beginning == options.sessions     \* bound: sessions created with these options

Sessions == 1..MaxSessions
PeerAddresses == Addresses \X (0..MaxSessions)
PeerIDs == 0..(MaxClients - 1)
None == 0
NoPeerID == -1

NewSession(a) ==
  [step |-> "new", address |-> a, peer |-> <<a, 0>>, closed |-> FALSE, finished |-> FALSE,
   reserved |-> FALSE, peerID |-> NoPeerID, certificate |-> Nobody, identity |-> Nobody,
   authFailed |-> FALSE, tunnel |-> FALSE, waitFor |-> None]

SomeAddress == CHOOSE a \in Addresses : TRUE
Gone == [NewSession(SomeAddress) EXCEPT !.step = "gone", !.closed = TRUE, !.finished = TRUE]
ListenerIdle == [step |-> "idle", address |-> SomeAddress, session |-> None]

ServerInit ==
  /\ options \in Options
  /\ session = [s \in Sessions |-> [NewSession(SomeAddress) EXCEPT !.step = "none"]]
  /\ created = 0
  /\ byPeer = [p \in PeerAddresses |-> None]
  /\ byIdentity = [i \in Identities |-> None]
  /\ byPeerID = [n \in PeerIDs |-> None]
  /\ udpActive = [a \in Addresses |-> None]
  /\ udpInitial = [a \in Addresses |-> None]
  /\ instances = 0
  /\ listener = ListenerIdle
  /\ toClose = {}
  /\ lifecycle = "running"

Running == lifecycle = "running"
Live(s) == session[s].step \notin {"none", "gone"}

-----------------------------------------------------------------------------
(* The registries *)

Dropped(registry, s) == [x \in DOMAIN registry |-> IF registry[x] = s THEN None ELSE registry[x]]

\* Mutant: the source addresses a session is bound to survive it.
EvictKeepsAddress(s) ==
  /\ byPeer' = Dropped(byPeer, s)
  /\ byIdentity' = Dropped(byIdentity, s)
  /\ byPeerID' = Dropped(byPeerID, s)
  /\ udpActive' = udpActive
  /\ udpInitial' = Dropped(udpInitial, s)

\* A session is in byPeer, byPeerID and byIdentity under its own key at most.
Evict(s) ==
  /\ byPeer' = Dropped(byPeer, s)
  /\ byIdentity' = Dropped(byIdentity, s)
  /\ byPeerID' = Dropped(byPeerID, s)
  /\ udpActive' = Dropped(udpActive, s)
  /\ udpInitial' = Dropped(udpInitial, s)

\* bindPeerAddressLocked: the first free suffix after the counter.
StablePeerAddress(peers, a) ==
  IF peers[<<a, 0>>] = None THEN <<a, 0>> ELSE <<a, created + 1>>

-----------------------------------------------------------------------------
(* The listener *)

\* A hard reset with a session id nobody has, from address a, is routed; for a
\* stream listener this is the accepted connection.
Arrive(a) ==
  /\ listener.step = "idle" /\ lifecycle # "draining" /\ created < Beginning
  /\ listener' =
       [step |-> IF Transport = "tcp" \/ (udpActive[a] = None /\ udpInitial[a] = None)
                 THEN "reserve" ELSE "initial",
        address |-> a, session |-> None]
  /\ UNCHANGED <<session, created, registries, instances, toClose, lifecycle>>

ReserveInstance ==
  /\ listener.step = "reserve"
  /\ IF instances >= maxClients
     THEN listener' = ListenerIdle /\ UNCHANGED instances
     ELSE /\ listener' = [listener EXCEPT !.step = "register"]
          /\ instances' = instances + 1
  /\ UNCHANGED <<session, created, registries, toClose, lifecycle>>

\* registerSession.  A stream session reserves its worker first and registers in
\* its own goroutine; the registration is refused in the same cases.
RegisterSession ==
  LET a == listener.address
      s == created + 1
      peer == StablePeerAddress(byPeer, a)
  IN  /\ listener.step = "register"
      /\ IF ~Running \/ (Transport = "udp" /\ udpActive[a] # None)
         THEN /\ instances' = instances - 1
              /\ listener' = ListenerIdle
              /\ UNCHANGED <<session, created, byPeer, udpActive>>
         ELSE /\ created' = s
              /\ session' = [session EXCEPT ![s] = [NewSession(a) EXCEPT !.peer = peer,
                                                                        !.reserved = TRUE]]
              /\ byPeer' = [byPeer EXCEPT ![peer] = s]
              /\ udpActive' = IF Transport = "udp" THEN [udpActive EXCEPT ![a] = s] ELSE udpActive
              /\ listener' = [listener EXCEPT !.step = "worker", !.session = s]
              /\ UNCHANGED instances
      /\ UNCHANGED <<byIdentity, byPeerID, udpInitial, toClose, lifecycle>>

\* Mutant: the newest reset takes the address over at once.
RegisterUsurping ==
  LET a == listener.address
      s == created + 1
      displaced == udpActive[a]
      peers == Dropped(byPeer, displaced)
      peer == StablePeerAddress(peers, a)
  IN  /\ listener.step = "initial" /\ Running
      /\ created' = s
      /\ session' = [session EXCEPT ![s] = [NewSession(a) EXCEPT !.peer = peer]]
      /\ byPeer' = [peers EXCEPT ![peer] = s]
      /\ byIdentity' = Dropped(byIdentity, displaced)
      /\ byPeerID' = Dropped(byPeerID, displaced)
      /\ udpActive' = [udpActive EXCEPT ![a] = s]
      /\ toClose' = toClose \cup ({displaced} \ {None})
      /\ listener' = [listener EXCEPT !.step = "worker", !.session = s]
      /\ UNCHANGED <<udpInitial, instances, lifecycle>>

\* registerInitialSession: the newest reset takes the initial slot of its address.
RegisterInitialSession ==
  LET a == listener.address
      s == created + 1
      displaced == udpInitial[a]
      peers == Dropped(byPeer, displaced)
      peer == StablePeerAddress(peers, a)
  IN  /\ listener.step = "initial"
      /\ IF Running
         THEN /\ created' = s
              /\ session' = [session EXCEPT ![s] = [NewSession(a) EXCEPT !.peer = peer]]
              /\ byPeer' = [peers EXCEPT ![peer] = s]
              /\ byIdentity' = Dropped(byIdentity, displaced)
              /\ byPeerID' = Dropped(byPeerID, displaced)
              /\ udpActive' = Dropped(udpActive, displaced)
              /\ udpInitial' = [udpInitial EXCEPT ![a] = s]
              /\ toClose' = toClose \cup ({displaced} \ {None})
              /\ listener' = [listener EXCEPT !.step = "worker", !.session = s]
         ELSE /\ listener' = ListenerIdle
              /\ UNCHANGED <<session, created, registries, toClose>>
      /\ UNCHANGED <<instances, lifecycle>>

\* reserveLoopWorker; without one the session is taken back at once.
StartWorker ==
  LET s == listener.session
  IN  /\ listener.step = "worker"
      /\ IF Running
         THEN /\ session' = [session EXCEPT ![s].step = "handshake"]
              /\ UNCHANGED <<registries, instances>>
         ELSE /\ session' = [session EXCEPT ![s] = Gone]
              /\ instances' = IF session[s].reserved THEN instances - 1 ELSE instances
              /\ Evict(s)
      /\ listener' = ListenerIdle
      /\ UNCHANGED <<created, toClose, lifecycle>>

StopListening ==
  /\ listener.step = "idle" /\ lifecycle = "draining"
  /\ listener' = [listener EXCEPT !.step = "stopped"]
  /\ UNCHANGED <<session, created, registries, instances, toClose, lifecycle>>

-----------------------------------------------------------------------------
(* A session *)

Step(s, from, to) ==
  /\ session[s].step = from
  /\ session' = [session EXCEPT ![s].step = to]

\* TLS handshake, key method, verifyUserPass and the choice of a cipher.
Handshake(s) ==
  /\ session[s].step = "handshake" /\ ~session[s].closed
  /\ \E certificate \in Shown \cup {Nobody}, failed \in MayFail :
       session' = [session EXCEPT ![s].certificate = certificate, ![s].authFailed = failed,
                                  ![s].step = IF failed THEN "peerID" ELSE "promote"]
  /\ UNCHANGED <<created, registries, instances, listener, toClose, lifecycle>>

\* promoteInitialSession, while it holds sessionAccess.
Promote(s) ==
  LET a == session[s].address
      displaced == udpActive[a]
      moved == displaced # None /\ session[displaced].reserved
      given == IF displaced = None THEN session
               ELSE [session EXCEPT ![displaced].reserved = FALSE]
  IN  /\ session[s].step = "promote"
      /\ udpInitial[a] = s
      /\ session' = [given EXCEPT ![s].step = "slot", ![s].waitFor = displaced,
                                  ![s].reserved = moved]
      /\ byPeer' = Dropped(byPeer, displaced)
      /\ byIdentity' = Dropped(byIdentity, displaced)
      /\ byPeerID' = Dropped(byPeerID, displaced)
      /\ udpActive' = [udpActive EXCEPT ![a] = s]
      /\ udpInitial' = [udpInitial EXCEPT ![a] = None]
      /\ UNCHANGED <<created, instances, listener, toClose, lifecycle>>

\* Not, or no longer, the initial session of its address.
NotInitial(s) ==
  /\ udpInitial[session[s].address] # s
  /\ Step(s, "promote", "peerID")
  /\ UNCHANGED <<created, registries, instances, listener, toClose, lifecycle>>

\* promoteInitialSession once the lock is released: reserve a slot, or close the
\* displaced session and wait for it.
TakeSlot(s) ==
  LET displaced == session[s].waitFor
      full == ~session[s].reserved /\ instances >= maxClients
  IN  /\ session[s].step = "slot"
      /\ session' = [session EXCEPT ![s].reserved = ~full,
                       ![s].step = IF full THEN "end"
                                   ELSE IF displaced = None THEN "peerID" ELSE "await"]
      /\ instances' = IF session[s].reserved \/ full THEN instances ELSE instances + 1
      /\ toClose' = IF full \/ displaced = None THEN toClose ELSE toClose \cup {displaced}
      /\ UNCHANGED <<created, registries, listener, lifecycle>>

Replaced(s) ==
  /\ session[s].step \in {"await", "awaitOwner"}
  /\ session[s].waitFor # None => session[session[s].waitFor].finished
  /\ session' = [session EXCEPT ![s].waitFor = None,
                   ![s].step = IF @ = "await" THEN "peerID" ELSE "check"]
  /\ UNCHANGED <<created, registries, instances, listener, toClose, lifecycle>>

\* serverScheduledExitInterval runs out, or the context is cancelled.
GiveUpWaiting(s) ==
  /\ Step(s, "await", "end") \/ (session[s].waitFor # None /\ Step(s, "awaitOwner", "end"))
  /\ UNCHANGED <<created, registries, instances, listener, toClose, lifecycle>>

FreePeerIDs == {n \in 0..(maxClients - 1) : byPeerID[n] = None}

\* enablePeerID, when the peer supports one, and the rest of the key method, whose
\* cipher negotiation may fail as well.
EnablePeerID(s) ==
  LET refused == ~Running \/ byPeer[session[s].peer] # s \/ FreePeerIDs = {}
  IN  /\ session[s].step = "peerID"
      /\ \E supported \in DataV2, failed \in MayFail :
           LET negotiated == [session EXCEPT ![s].authFailed = @ \/ failed,
                                ![s].step = IF session[s].authFailed \/ failed
                                            THEN "authFailed" ELSE "identity"]
           IN  IF ~supported
               THEN session' = negotiated /\ UNCHANGED byPeerID
               ELSE IF refused
               THEN session' = [session EXCEPT ![s].step = "end"] /\ UNCHANGED byPeerID
               ELSE \E id \in FreePeerIDs :
                      /\ \A n \in FreePeerIDs : id <= n
                      /\ session' = [negotiated EXCEPT ![s].peerID = id]
                      /\ byPeerID' = [byPeerID EXCEPT ![id] = s]
      /\ UNCHANGED <<created, byPeer, byIdentity, udpActive, udpInitial, instances, listener,
                     toClose, lifecycle>>

\* registerAuthenticatedIdentity, first part; nobody stands for DuplicateCN too.
LearnIdentity(s) ==
  /\ session[s].step = "identity"
  /\ session' = [session EXCEPT ![s].identity = session[s].certificate,
                   ![s].step = IF session[s].certificate = Nobody THEN "up" ELSE "claim"]
  /\ UNCHANGED <<created, registries, instances, listener, toClose, lifecycle>>

\* registerAuthenticatedIdentity, second part: the session takes its identity
\* over and closes the one that had it.
ClaimIdentity(s) ==
  LET i == session[s].identity
      existing == byIdentity[i]
  IN  /\ session[s].step = "claim"
      /\ IF Running /\ byPeer[session[s].peer] = s
         THEN /\ session' = [session EXCEPT ![s].step = "awaitOwner", ![s].waitFor = existing]
              /\ byIdentity' = [byIdentity EXCEPT ![i] = s]
              /\ toClose' = toClose \cup ({existing} \ {None})
         ELSE /\ session' = [session EXCEPT ![s].step = "end"]
              /\ UNCHANGED <<byIdentity, toClose>>
      /\ UNCHANGED <<created, byPeer, byPeerID, udpActive, udpInitial, instances, listener,
                     lifecycle>>

CheckOwner(s) ==
  /\ Step(s, "check", IF byIdentity[session[s].identity] = s THEN "up" ELSE "end")
  /\ UNCHANGED <<created, registries, instances, listener, toClose, lifecycle>>

\* The answer to a push request.
Push(s) ==
  /\ session[s].step = "up" /\ ~session[s].tunnel /\ ~session[s].closed
  /\ session' = [session EXCEPT ![s].tunnel = TRUE]
  /\ UNCHANGED <<created, registries, instances, listener, toClose, lifecycle>>

HasDataKey(s) == session[s].step \in {"identity", "claim", "awaitOwner", "check", "up"}

\* floatUDPSessionToSource for an authenticated data packet from address a; the
\* session was found by its peer-id before the packet was decrypted.
Float(s, a) ==
  LET existing == udpActive[a]
  IN  /\ Transport = "udp"
      /\ HasDataKey(s) /\ session[s].peerID # NoPeerID /\ session[s].address # a
      /\ byPeer[session[s].peer] = s /\ byPeerID[session[s].peerID] = s
      /\ existing # None => session[existing].certificate = session[s].certificate
      /\ session' = [session EXCEPT ![s].address = a]
      /\ byPeer' = Dropped(byPeer, existing)
      /\ byIdentity' = Dropped(byIdentity, existing)
      /\ byPeerID' = Dropped(byPeerID, existing)
      /\ udpActive' = [Dropped(udpActive, s) EXCEPT ![a] = s]
      /\ udpInitial' = Dropped(udpInitial, existing)
      /\ toClose' = toClose \cup ({existing} \ {None})
      /\ UNCHANGED <<created, instances, listener, lifecycle>>

-----------------------------------------------------------------------------
(* The end of a session, and of the server *)

CloseSession(s) ==
  /\ s \in toClose
  /\ toClose' = toClose \ {s}
  /\ session' = [session EXCEPT ![s].closed = TRUE]
  /\ UNCHANGED <<created, registries, instances, listener, lifecycle>>

\* An error, the peer's exit, a timeout, or the end of a refused session.
EndSession(s) ==
  /\ Step(s, "handshake", "end") \/ Step(s, "authFailed", "end") \/ Step(s, "up", "end")
  /\ UNCHANGED <<created, registries, instances, listener, toClose, lifecycle>>

\* The deferred releaseTunnelAddress and Close.
LeaveTunnel(s) ==
  /\ session[s].step = "end"
  /\ session' = [session EXCEPT ![s].tunnel = FALSE, ![s].closed = TRUE, ![s].waitFor = None,
                   ![s].step = IF Transport = "udp" THEN "finish" ELSE "unregister"]
  /\ UNCHANGED <<created, registries, instances, listener, toClose, lifecycle>>

Finish(s) ==
  /\ session[s].step = "finish"
  /\ session' = [session EXCEPT ![s].finished = TRUE,
                   ![s].step = IF Transport = "udp" THEN "unregister" ELSE "refund"]
  /\ UNCHANGED <<created, registries, instances, listener, toClose, lifecycle>>

Unregister(s) ==
  /\ Step(s, "unregister", IF Transport = "udp" THEN "refund" ELSE "finish")
  /\ Evict(s)
  /\ UNCHANGED <<created, instances, listener, toClose, lifecycle>>

\* releaseResourceReservation; the worker is done.
ReleaseReservation(s) ==
  /\ session[s].step = "refund"
  /\ instances' = IF session[s].reserved THEN instances - 1 ELSE instances
  /\ session' = [session EXCEPT ![s] = Gone]
  /\ UNCHANGED <<created, registries, listener, toClose, lifecycle>>

BeginClose ==
  /\ Closes /\ Running
  /\ lifecycle' = "closing"
  /\ UNCHANGED <<session, created, registries, instances, listener, toClose>>

\* The loop context is cancelled and the registered sessions are closed.
CloseSessions ==
  /\ lifecycle = "closing"
  /\ lifecycle' = "draining"
  /\ toClose' = toClose \cup {s \in Sessions : \E p \in PeerAddresses : byPeer[p] = s}
  /\ UNCHANGED <<session, created, registries, instances, listener>>

\* loopWaitGroup.Wait returns.
EndClose ==
  /\ lifecycle = "draining" /\ listener.step = "stopped"
  /\ \A s \in Sessions : ~Live(s)
  /\ lifecycle' = "closed"
  /\ UNCHANGED <<session, created, registries, instances, listener, toClose>>

Listen ==
  \/ \E a \in Arriving : Arrive(a)
  \/ ReserveInstance
  \/ RegisterSession
  \/ RegisterInitialSession
  \/ StartWorker
  \/ StopListening

Proceed(s) ==
  \/ Promote(s)
  \/ NotInitial(s)
  \/ TakeSlot(s)
  \/ Replaced(s)
  \/ EnablePeerID(s)
  \/ LearnIdentity(s)
  \/ ClaimIdentity(s)
  \/ CheckOwner(s)
  \/ LeaveTunnel(s)
  \/ Finish(s)
  \/ Unregister(s)
  \/ ReleaseReservation(s)

ServerNext ==
  /\ options' = options
  /\ \/ Listen
     \/ \E s \in Sessions :
          \/ Handshake(s)
          \/ Proceed(s)
          \/ GiveUpWaiting(s)
          \/ Push(s)
          \/ \E a \in Floating : Float(s, a)
          \/ CloseSession(s)
          \/ EndSession(s)
     \/ BeginClose
     \/ CloseSessions
     \/ EndClose

ServerSpec == ServerInit /\ [][ServerNext]_serverVars

\* What blocks returns once the session is closed or the server's context ends.
Interrupted(s) ==
  /\ session[s].closed \/ lifecycle = "draining"
  /\ EndSession(s) \/ GiveUpWaiting(s)

\* handshakeDeadline and serverScheduledExitInterval.
Expired(s) == GiveUpWaiting(s) \/ (session[s].step = "handshake" /\ EndSession(s))

Fairness ==
  /\ WF_sessionVars(ReserveInstance \/ RegisterSession \/ RegisterInitialSession \/ StartWorker
                    \/ StopListening)
  /\ \A s \in Sessions :
       /\ WF_sessionVars(Proceed(s)) /\ WF_sessionVars(CloseSession(s))
       /\ WF_sessionVars(Interrupted(s)) /\ WF_sessionVars(Expired(s))
  /\ WF_sessionVars(CloseSessions) /\ WF_sessionVars(EndClose)

FairSpec == ServerSpec /\ Fairness

-----------------------------------------------------------------------------
(* Properties *)

SessionRecord ==
  [step : {"none", "new", "handshake", "promote", "slot", "await", "peerID", "identity", "claim",
           "awaitOwner", "check", "up", "authFailed", "end", "finish", "unregister", "refund",
           "gone"},
   address : Addresses, peer : PeerAddresses, closed : BOOLEAN, finished : BOOLEAN,
   reserved : BOOLEAN, peerID : PeerIDs \cup {NoPeerID}, certificate : Identities \cup {Nobody},
   identity : Identities \cup {Nobody}, authFailed : BOOLEAN, tunnel : BOOLEAN,
   waitFor : Sessions \cup {None}]

\* The variables hold what their comments say.
TypeOK ==
  /\ session \in [Sessions -> SessionRecord]
  /\ created \in 0..MaxSessions
  /\ byPeer \in [PeerAddresses -> Sessions \cup {None}]
  /\ byIdentity \in [Identities -> Sessions \cup {None}]
  /\ byPeerID \in [PeerIDs -> Sessions \cup {None}]
  /\ udpActive \in [Addresses -> Sessions \cup {None}]
  /\ udpInitial \in [Addresses -> Sessions \cup {None}]
  /\ instances \in 0..maxClients
  /\ options \in Options
  /\ listener \in [step : {"idle", "reserve", "register", "initial", "worker", "stopped"},
                   address : Addresses, session : Sessions \cup {None}]
  /\ toClose \subseteq Sessions
  /\ lifecycle \in {"running", "closing", "draining", "closed"}

Registered(s) == byPeer[session[s].peer] = s

\* evictSessionLocked and every registration: a session any registry leads to is
\* registered under its own peer address, so that the server's Close finds it,
\* and a registered session is found by its peer-id.  No two registered
\* sessions have the same peer-id.
RegistriesAgree ==
  /\ \A s \in Sessions :
       \/ \E i \in Identities : byIdentity[i] = s
       \/ \E n \in PeerIDs : byPeerID[n] = s
       \/ \E a \in Addresses : s \in {udpActive[a], udpInitial[a]}
       => Registered(s) /\ Live(s)
  /\ \A s \in Sessions :
       Registered(s) /\ session[s].peerID # NoPeerID => byPeerID[session[s].peerID] = s

\* reserveInstance, promoteInitialSession and releaseResourceReservation: the
\* slots taken are those of the sessions that hold one and of the listener.
SlotsCounted ==
  instances = Cardinality({s \in Sessions : session[s].reserved})
              + (IF listener.step = "register" THEN 1 ELSE 0)

\* The source address a session sends to is the one its packets are expected
\* from: while it is registered and active nobody else is bound to it.
ActiveAtOwnAddress ==
  \A a \in Addresses : udpActive[a] # None => session[udpActive[a]].address = a

\* registerAuthenticatedIdentity: a registered session that is up and that nobody
\* is about to close is the one its identity leads to, so that there is one at
\* most for an identity.
OneOwner ==
  \A s \in Sessions :
    /\ session[s].step = "up" /\ session[s].identity # Nobody /\ Registered(s)
    /\ ~session[s].closed /\ s \notin toClose
    => byIdentity[session[s].identity] = s

\* Close: when it has returned no session is left in a registry or holds a slot.
ClosedEmpty ==
  lifecycle = "closed" =>
    /\ instances = 0
    /\ \A p \in PeerAddresses : byPeer[p] = None

\* Whatever the order in which sessions are registered, replaced, moved, evicted and closed:
\* the registries of the server lead to the same sessions, each with its address and its
\* peer-id, the slots taken are those of the sessions that hold one, and of the sessions of one
\* identity one at most is up and registered.  When Close has returned, none is left.
RegistriesTrue ==
  /\ TypeOK /\ RegistriesAgree /\ SlotsCounted /\ ActiveAtOwnAddress /\ OneOwner /\ ClosedEmpty

\* registerInitialSession and promoteInitialSession: a reset on an address that carries a
\* tunnel does not disturb it.  An active session loses its address when it ends, moves, or to
\* one that has authenticated.
KeepsActive ==
  \A a \in Addresses :
    LET s == udpActive[a]
        new == udpActive'[a]
    IN  s # None /\ new # s =>
          \/ session[s].finished \/ session'[s].address # a
          \/ new # None /\ session[new].step \in {"promote"} \cup
                {"identity", "claim", "awaitOwner", "check", "up"}
          \/ session'[s].step = "gone"

ActiveKept == [][KeepsActive]_serverVars

-----------------------------------------------------------------------------
(* What these rest on *)

\* Unregister has not come yet.
Findable(s) ==
  /\ session[s].step \notin {"none", "refund", "gone"}
  /\ Transport = "tcp" => session[s].step # "finish"

\* A peer address leads to the session that has it; suffixes not yet given are free.
PeersTrue ==
  \A p \in PeerAddresses :
    byPeer[p] # None =>
      p[2] <= created /\ session[byPeer[p]].peer = p /\ Findable(byPeer[p])

\* An initial session has no slot yet, and gets past its authentication only if that failed.
InitialAt(s, a) ==
  /\ Transport = "udp" /\ Registered(s) /\ session[s].address = a /\ ~session[s].reserved
  /\ session[s].step \in {"new", "handshake", "promote", "peerID", "authFailed", "end", "finish",
                          "unregister"}
  /\ session[s].step = "peerID" => session[s].authFailed
  /\ \A b \in Addresses : udpActive[b] # s

\* What the other registries lead to is registered.
EntriesTrue ==
  /\ \A i \in Identities : byIdentity[i] # None => Registered(byIdentity[i])
  /\ \A n \in PeerIDs : byPeerID[n] # None => Registered(byPeerID[n])
  /\ \A a \in Addresses :
       udpActive[a] # None =>
         Transport = "udp" /\ Registered(udpActive[a]) /\ session[udpActive[a]].address = a
  /\ \A a \in Addresses : udpInitial[a] # None => InitialAt(udpInitial[a], a)

PeerIDsKept ==
  \A s \in Sessions :
    Registered(s) /\ session[s].peerID # NoPeerID => byPeerID[session[s].peerID] = s

\* What a session has done by its step.
StepsTrue ==
  \A s \in Sessions :
    /\ session[s].step = "none" <=> s > created
    /\ session[s].reserved => Live(s)
    /\ session[s].step = "claim" => session[s].identity \in Identities
    /\ session[s].step = "unregister" /\ Transport = "udp" => session[s].finished

ListenerTrue ==
  /\ listener.step \in {"reserve", "register", "initial"} => created < MaxSessions
  /\ listener.step = "initial" => Transport = "udp"
  /\ listener.step = "worker" =>
       listener.session \in Sessions /\ session[listener.session].step = "new"

\* EndClose: the goroutines of a closed server have ended.
NothingRuns ==
  lifecycle = "closed" => listener.step = "stopped" /\ \A s \in Sessions : ~Live(s)

\* RegistriesTrue as an invariant that every step preserves.
ServerInv ==
  /\ TypeOK /\ PeersTrue /\ EntriesTrue /\ PeerIDsKept /\ StepsTrue /\ ListenerTrue
  /\ SlotsCounted /\ OneOwner /\ NothingRuns

-----------------------------------------------------------------------------
\* promoteInitialSession, registerInitialSession, floatAuthenticatedUDPPeer: a
\* session that was evicted while it runs comes to an end.
EvictedEnds ==
  \A s \in Sessions :
    session[s].step \notin {"none", "new"} /\ ~Registered(s) ~> session[s].step = "gone"
=============================================================================
