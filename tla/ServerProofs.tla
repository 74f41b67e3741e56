---------------------------- MODULE ServerProofs ----------------------------
(***************************************************************************)
(* RegistriesTrue and ActiveKept of ServerSessions for any number of       *)
(* sessions, addresses, identities and peer-ids, and every option; and     *)
(* AdmissionBounded of Admission for every rate and width of the windows,  *)
(* any number of clients and of resets.                                    *)
(*                                                                         *)
(* Every registry leads to a session that its own peer address leads to,   *)
(* and what a step has done for its session by then says which registries  *)
(* may lead to it.  Cookies are true to the time they were made at, and    *)
(* the count of a rate window is that of the resets that passed in it.     *)
(***************************************************************************)
EXTENDS ServerSessions, Admission, FiniteSetTheorems, TLAPS

\* The prover of a leaf that names none.
USE Zenon

\* The options, one by one.
LEMMA OptionsTyped ==
  ASSUME options \in Options
  PROVE  /\ Transport \in {"udp", "tcp"} /\ Arriving \subseteq Addresses
         /\ Shown \subseteq Identities /\ DataV2 \subseteq BOOLEAN /\ MayFail \subseteq BOOLEAN
         /\ Floating \subseteq Addresses /\ maxClients \in 0..MaxClients
         /\ Beginning \in 0..MaxSessions
BY ServerAssumption
   DEF Transport, Arriving, Shown, DataV2, MayFail, Floating, maxClients, Beginning

\* What is left of a session.
LEMMA GoneTyped ==
  /\ Gone \in SessionRecord
  /\ Gone.step = "gone" /\ Gone.reserved = FALSE
<1>1. SomeAddress \in Addresses
  BY ServerAssumption DEF SomeAddress
<1>2. <<SomeAddress, 0>> \in PeerAddresses
  BY <1>1, ServerAssumption, SMT DEF PeerAddresses
<1> QED
  BY <1>1, <1>2 DEF Gone, NewSession, SessionRecord, NoPeerID, None

\* A listener that is done with a session.
LEMMA IdleTyped ==
  /\ ListenerIdle.step = "idle"
  /\ ListenerIdle \in [step : {"idle", "reserve", "register", "initial", "worker", "stopped"},
                       address : Addresses, session : Sessions \cup {None}]
BY ServerAssumption DEF ListenerIdle, SomeAddress

-----------------------------------------------------------------------------
(* Slots *)

Holders(sessions) == {s \in Sessions : sessions[s].reserved}

\* Sessions that hold a slot can be counted.
LEMMA HoldersFinite ==
  ASSUME NEW sessions
  PROVE  IsFiniteSet(Holders(sessions)) /\ Cardinality(Holders(sessions)) \in Nat
<1>1. IsFiniteSet(Sessions)
  BY ServerAssumption, FS_Interval, SMT DEF Sessions
<1>2. Holders(sessions) \subseteq Sessions
  BY DEF Holders
<1> QED
  BY <1>1, <1>2, FS_Subset, FS_CardinalityType

\* Who holds a slot does not change.
LEMMA SameHolders ==
  ASSUME NEW old, NEW new, \A t \in Sessions : new[t].reserved = old[t].reserved
  PROVE  Holders(new) = Holders(old)
BY DEF Holders

\* A session gets a slot.
LEMMA OneMore ==
  ASSUME NEW old, NEW new, NEW s \in Sessions, ~old[s].reserved, new[s].reserved,
         \A t \in Sessions \ {s} : new[t].reserved = old[t].reserved
  PROVE  Cardinality(Holders(new)) = Cardinality(Holders(old)) + 1
<1>1. Holders(new) = Holders(old) \cup {s} /\ s \notin Holders(old)
  BY DEF Holders
<1> QED
  BY <1>1, HoldersFinite, FS_AddElement

\* A session gives its slot back.
LEMMA OneLess ==
  ASSUME NEW old, NEW new, NEW s \in Sessions, old[s].reserved, ~new[s].reserved,
         \A t \in Sessions \ {s} : new[t].reserved = old[t].reserved
  PROVE  Cardinality(Holders(new)) = Cardinality(Holders(old)) - 1
<1>1. Holders(new) = Holders(old) \ {s} /\ s \in Holders(old)
  BY DEF Holders
<1> QED
  BY <1>1, HoldersFinite, FS_RemoveElement

\* SlotsCounted, with a name for the sessions it counts.
LEMMA SlotsAre ==
  /\ SlotsCounted <=> instances = Cardinality(Holders(session))
                                  + (IF listener.step = "register" THEN 1 ELSE 0)
  /\ SlotsCounted' <=> instances' = Cardinality(Holders(session'))
                                    + (IF listener'.step = "register" THEN 1 ELSE 0)
BY DEF SlotsCounted, Holders

-----------------------------------------------------------------------------
(* Steps of one session that keep its addresses *)

InitialSteps ==
  {"new", "handshake", "promote", "peerID", "authFailed", "end", "finish", "unregister"}

IsInitial(s) == \E a \in Addresses : udpInitial[a] = s

\* Session s becomes x; it may get a peer-id or an identity of its own, if it is registered.
Quiet(s, x) ==
  /\ session' = [session EXCEPT ![s] = x]
  /\ UNCHANGED <<options, created, byPeer, udpActive, udpInitial, lifecycle>>
  /\ \/ listener' = listener /\ (session[s].step = "new" => x.step = "new")
     \/ listener' = ListenerIdle /\ lifecycle # "closed" /\ listener.step # "register"
  /\ byIdentity' \in [Identities -> Sessions \cup {None}]
  /\ byPeerID' \in [PeerIDs -> Sessions \cup {None}]
  /\ \A i \in Identities : byIdentity'[i] = byIdentity[i] \/ (byIdentity'[i] = s /\ Registered(s))
  /\ \A n \in PeerIDs : byPeerID'[n] = byPeerID[n] \/ (byPeerID'[n] = s /\ Registered(s))
  /\ x \in SessionRecord
  /\ x.peer = session[s].peer /\ x.address = session[s].address
  /\ x.step = "none" <=> session[s].step = "none"
  /\ x.step = "gone" <=> session[s].step = "gone"
  /\ x.step = "claim" => x.identity \in Identities
  /\ x.step = "unregister" /\ Transport = "udp" => x.finished
  /\ x.step = "refund" => ~Findable(s)
  /\ x.step = "finish" /\ Transport = "tcp" => ~Findable(s)
  /\ x.reserved => Live(s)
  /\ IsInitial(s) => /\ ~x.reserved /\ x.step \in InitialSteps
                     /\ x.step = "peerID" => x.authFailed

\* Session s gets neither; what somebody closes is closed, and what has become up owns its
\* identity.
QuietOwner(s, x) ==
  /\ UNCHANGED <<byIdentity, byPeerID>> /\ x.peerID = session[s].peerID
  /\ toClose' \subseteq Sessions
  /\ \A t \in Sessions \ {s} : t \in toClose => t \in toClose'
  /\ x.step = "up" /\ x.identity # Nobody /\ ~x.closed /\ s \notin toClose' =>
       \/ byIdentity[x.identity] = s
       \/ /\ session[s].step = "up" /\ x.identity = session[s].identity
          /\ ~session[s].closed /\ s \notin toClose

\* The session steps of a quiet step, seen from every session.
LEMMA QuietAt ==
  ASSUME TypeOK, NEW s \in Sessions, NEW x, Quiet(s, x)
  PROVE  /\ session' \in [Sessions -> SessionRecord] /\ session'[s] = x
         /\ \A t \in Sessions : t # s => session'[t] = session[t]
         /\ \A t \in Sessions : session'[t].peer = session[t].peer
         /\ \A t \in Sessions : session'[t].address = session[t].address
         /\ \A t \in Sessions : Registered(t)' <=> Registered(t)
         /\ \A t \in Sessions : Live(t)' <=> Live(t)
         /\ Transport' = Transport
<1>1. /\ session \in [Sessions -> SessionRecord] /\ session' = [session EXCEPT ![s] = x]
      /\ x \in SessionRecord
  BY DEF TypeOK, Quiet
<1>2. /\ session' \in [Sessions -> SessionRecord] /\ session'[s] = x
      /\ \A t \in Sessions : t # s => session'[t] = session[t]
  BY <1>1
<1>3. /\ \A t \in Sessions : session'[t].peer = session[t].peer
      /\ \A t \in Sessions : session'[t].address = session[t].address
  BY <1>2 DEF Quiet
<1>4. \A t \in Sessions : Registered(t)' <=> Registered(t)
  BY <1>3 DEF Quiet, Registered
<1>5. \A t \in Sessions : Live(t)' <=> Live(t)
  BY <1>2 DEF Quiet, Live
<1>6. Transport' = Transport
  BY DEF Quiet, Transport
<1> QED
  BY <1>2, <1>3, <1>4, <1>5, <1>6

\* The registries, and what a session has done, after a quiet step.
LEMMA QuietEntries ==
  ASSUME ServerInv, NEW s \in Sessions, NEW x, Quiet(s, x)
  PROVE  PeersTrue' /\ EntriesTrue' /\ StepsTrue' /\ ListenerTrue' /\ NothingRuns'
<1> USE QuietAt DEF ServerInv
<1>1. UNCHANGED <<created, byPeer, udpActive, udpInitial, lifecycle>>
  BY DEF Quiet
<1>2. \A t \in Sessions : Findable(t) => Findable(t)'
  <2>1. Findable(s) => Findable(s)'
    BY DEF Findable, Quiet
  <2> QED
    BY <2>1 DEF Findable
<1>3. PeersTrue'
  BY <1>1, <1>2, SMT DEF PeersTrue, TypeOK
<1>4. \A a \in Addresses : udpInitial'[a] # None => InitialAt(udpInitial[a], a)'
  <2> SUFFICES ASSUME NEW a \in Addresses, udpInitial[a] # None
               PROVE  InitialAt(udpInitial[a], a)'
    BY <1>1
  <2>1. udpInitial[a] \in Sessions /\ InitialAt(udpInitial[a], a)
    BY SMT DEF TypeOK, EntriesTrue
  <2>2. CASE udpInitial[a] # s
    BY <1>1, <2>1, <2>2, SMT DEF InitialAt
  <2>3. CASE udpInitial[a] = s
    <3>1. IsInitial(s)
      BY <2>3 DEF IsInitial
    <3>2. ~x.reserved /\ x.step \in InitialSteps /\ (x.step = "peerID" => x.authFailed)
      BY <3>1 DEF Quiet
    <3> QED
      BY <1>1, <2>1, <2>3, <3>2, SMT DEF InitialAt, InitialSteps
  <2> QED
    BY <2>2, <2>3
<1>5. /\ \A i \in Identities : byIdentity'[i] # None => Registered(byIdentity[i])'
      /\ \A n \in PeerIDs : byPeerID'[n] # None => Registered(byPeerID[n])'
  <2>1. Registered(s) => Registered(s)'
    OBVIOUS
  <2>2. ASSUME NEW i \in Identities, byIdentity'[i] # None PROVE Registered(byIdentity[i])'
    <3>1. CASE byIdentity'[i] = byIdentity[i]
      <4>1. byIdentity[i] \in Sessions /\ Registered(byIdentity[i])
        BY <2>2, <3>1, SMT DEF TypeOK, EntriesTrue
      <4>2. Registered(byIdentity[i])' <=> byPeer'[session'[byIdentity[i]].peer] = byIdentity[i]
        BY <3>1 DEF Registered
      <4> QED
        BY <4>1, <4>2 DEF Registered
    <3>2. CASE byIdentity'[i] = s /\ Registered(s)
      BY <2>1, <3>2 DEF Registered
    <3> QED
      BY <3>1, <3>2 DEF Quiet
  <2>3. ASSUME NEW n \in PeerIDs, byPeerID'[n] # None PROVE Registered(byPeerID[n])'
    <3>1. CASE byPeerID'[n] = byPeerID[n]
      <4>1. byPeerID[n] \in Sessions /\ Registered(byPeerID[n])
        BY <2>3, <3>1, SMT DEF TypeOK, EntriesTrue
      <4>2. Registered(byPeerID[n])' <=> byPeer'[session'[byPeerID[n]].peer] = byPeerID[n]
        BY <3>1 DEF Registered
      <4> QED
        BY <4>1, <4>2 DEF Registered
    <3>2. CASE byPeerID'[n] = s /\ Registered(s)
      BY <2>1, <3>2 DEF Registered
    <3> QED
      BY <3>1, <3>2 DEF Quiet
  <2> QED
    BY <2>2, <2>3
<1>6. EntriesTrue'
  BY <1>1, <1>4, <1>5, SMT DEF EntriesTrue, TypeOK
<1>7. StepsTrue'
  <2> SUFFICES ASSUME NEW t \in Sessions
               PROVE  /\ session'[t].step = "none" <=> t > created'
                      /\ session'[t].reserved => Live(t)'
                      /\ session'[t].step = "claim" => session'[t].identity \in Identities
                      /\ session'[t].step = "unregister" /\ Transport' = "udp" =>
                           session'[t].finished
    BY DEF StepsTrue
  <2>1. CASE t # s
    BY <1>1, <2>1 DEF StepsTrue
  <2>2. CASE t = s
    <3>1. session'[t] = x
      BY <2>2
    <3>2. session'[t].step = "none" <=> t > created'
      BY <1>1, <2>2, <3>1, SMT DEF StepsTrue, Quiet
    <3>3. session'[t].reserved => Live(t)'
      BY <2>2, <3>1 DEF Quiet
    <3>4. /\ session'[t].step = "claim" => session'[t].identity \in Identities
          /\ session'[t].step = "unregister" /\ Transport' = "udp" => session'[t].finished
      BY <3>1 DEF Quiet
    <3> QED
      BY <3>2, <3>3, <3>4
  <2> QED
    BY <2>1, <2>2
<1>8. ListenerTrue'
  <2>1. CASE listener' = listener /\ (session[s].step = "new" => x.step = "new")
    <3>1. \A t \in Sessions : session[t].step = "new" => session'[t].step = "new"
      BY <2>1
    <3> QED
      BY <1>1, <2>1, <3>1 DEF ListenerTrue
  <2>2. CASE listener' = ListenerIdle
    BY <2>2, IdleTyped DEF ListenerTrue
  <2> QED
    BY <2>1, <2>2 DEF Quiet
<1>9. NothingRuns'
  BY <1>1 DEF NothingRuns, Quiet
<1> QED
  BY <1>3, <1>6, <1>7, <1>8, <1>9

\* OneOwner and the peer-ids after a quiet step.
LEMMA QuietOwners ==
  ASSUME ServerInv, NEW s \in Sessions, NEW x, Quiet(s, x), QuietOwner(s, x)
  PROVE  OneOwner' /\ PeerIDsKept'
<1>1. UNCHANGED <<byIdentity, byPeerID>>
  BY DEF QuietOwner
<1>5. PeerIDsKept'
  BY <1>1, QuietAt, SMT DEF PeerIDsKept, QuietOwner, ServerInv
<1> SUFFICES ASSUME NEW t \in Sessions, session'[t].step = "up", session'[t].identity # Nobody,
                    Registered(t)', ~session'[t].closed, t \notin toClose'
             PROVE  byIdentity'[session'[t].identity] = t
  BY <1>5 DEF OneOwner
<1>2. Registered(t)
  BY QuietAt DEF ServerInv
<1>3. CASE t # s
  <2>1. session'[t] = session[t] /\ t \notin toClose
    BY <1>3, QuietAt DEF ServerInv, QuietOwner
  <2> QED
    BY <1>1, <1>2, <2>1 DEF ServerInv, OneOwner
<1>4. CASE t = s
  <2>1. session'[s] = x
    BY QuietAt DEF ServerInv
  <2> QED
    BY <1>1, <1>2, <1>4, <2>1 DEF ServerInv, OneOwner, QuietOwner
<1> QED
  BY <1>3, <1>4

\* A quiet step of a session that keeps its slot, or has none.
LEMMA QuietInv ==
  ASSUME ServerInv, NEW s \in Sessions, NEW x, Quiet(s, x), QuietOwner(s, x),
         x.reserved = session[s].reserved, UNCHANGED instances
  PROVE  ServerInv'
<1>1. SlotsCounted'
  <2>1. Holders(session') = Holders(session)
    BY QuietAt, SameHolders, SMTT(30) DEF ServerInv
  <2> QED
    BY <2>1, SlotsAre, IdleTyped DEF ServerInv, Quiet
<1>2. TypeOK'
  BY QuietAt, IdleTyped, SMT DEF ServerInv, TypeOK, Quiet, QuietOwner, maxClients
<1> QED
  BY <1>1, <1>2, QuietEntries, QuietOwners DEF ServerInv

\* An initial session, by its step.
LEMMA InitialIs ==
  ASSUME ServerInv, NEW s \in Sessions, IsInitial(s)
  PROVE  /\ ~session[s].reserved /\ session[s].step \in InitialSteps
         /\ session[s].step = "peerID" => session[s].authFailed
BY SMT DEF ServerInv, EntriesTrue, InitialAt, IsInitial, InitialSteps, None, Sessions

\* A session goes from one step to another, and nothing else happens to its registration.
LEMMA Moved ==
  ASSUME ServerInv, NEW s \in Sessions, NEW x \in SessionRecord,
         session' = [session EXCEPT ![s] = x],
         UNCHANGED <<options, created, registries, instances, listener, toClose, lifecycle>>,
         x.peer = session[s].peer, x.address = session[s].address,
         x.peerID = session[s].peerID, x.reserved = session[s].reserved,
         session[s].step \notin {"none", "new", "gone"}, x.step \notin {"none", "new", "gone"},
         x.step = "claim" => x.identity \in Identities,
         x.step = "unregister" /\ Transport = "udp" => x.finished,
         x.step \in {"refund", "finish"} =>
           ~Findable(s) \/ (x.step = "finish" /\ Transport = "udp"),
         IsInitial(s) => x.step \in InitialSteps /\ (x.step = "peerID" => x.authFailed),
         x.step = "up" /\ x.identity # Nobody =>
           \/ byIdentity[x.identity] = s
           \/ /\ session[s].step = "up" /\ x.identity = session[s].identity
              /\ x.closed = session[s].closed
  PROVE  ServerInv'
<1>1. IsInitial(s) => ~x.reserved
  BY InitialIs
<1>2. x.reserved => Live(s)
  BY DEF Live
<1>3. Quiet(s, x)
  BY <1>1, <1>2 DEF Quiet, registries, ServerInv, TypeOK
<1>4. QuietOwner(s, x)
  BY DEF QuietOwner, ServerInv, TypeOK, registries
<1> QED
  BY <1>3, <1>4, QuietInv

\* The handshake ends.
LEMMA HandshakeInv ==
  ASSUME ServerInv, UNCHANGED options, NEW s \in Sessions, Handshake(s)
  PROVE  ServerInv'
<1>1. session[s] \in SessionRecord /\ session \in [Sessions -> SessionRecord]
  BY DEF ServerInv, TypeOK
<1>2. PICK certificate \in Identities \cup {Nobody}, failed \in BOOLEAN :
        session' = [session EXCEPT ![s].certificate = certificate, ![s].authFailed = failed,
                                   ![s].step = IF failed THEN "peerID" ELSE "promote"]
  BY OptionsTyped DEF Handshake, ServerInv, TypeOK
<1> DEFINE x == [session[s] EXCEPT !.certificate = certificate, !.authFailed = failed,
                                   !.step = IF failed THEN "peerID" ELSE "promote"]
<1>3. session' = [session EXCEPT ![s] = x]
  BY <1>1, <1>2
<1>4. /\ x \in SessionRecord /\ x.peer = session[s].peer /\ x.address = session[s].address
      /\ x.peerID = session[s].peerID /\ x.reserved = session[s].reserved
      /\ x.step \in {"peerID", "promote"} /\ (x.step = "peerID" => x.authFailed)
  BY <1>1, ZenonT(40) DEF SessionRecord
<1>5. session[s].step = "handshake"
      /\ UNCHANGED <<created, registries, instances, listener, toClose, lifecycle>>
  BY DEF Handshake
<1> HIDE DEF x
<1>6. x.step \in InitialSteps
  BY <1>4 DEF InitialSteps
<1> QED
  BY <1>3, <1>4, <1>5, <1>6, Moved

\* Steps that change nothing but where the session is.
LEMMA StepInv ==
  ASSUME ServerInv, UNCHANGED options, NEW s \in Sessions,
         NotInitial(s) \/ GiveUpWaiting(s) \/ CheckOwner(s) \/ EndSession(s)
  PROVE  ServerInv'
<1>1. session[s] \in SessionRecord /\ session \in [Sessions -> SessionRecord]
  BY DEF ServerInv, TypeOK
<1>2. UNCHANGED <<created, registries, instances, listener, toClose, lifecycle>>
  BY DEF NotInitial, GiveUpWaiting, CheckOwner, EndSession
<1>3. ASSUME NEW k \in {"peerID", "up", "end"}, session' = [session EXCEPT ![s].step = k],
             session[s].step \notin {"none", "new", "gone"},
             k = "up" => byIdentity[session[s].identity] = s,
             IsInitial(s) => k = "end"
      PROVE  ServerInv'
  <2> DEFINE x == [session[s] EXCEPT !.step = k]
  <2>1. session' = [session EXCEPT ![s] = x]
    BY <1>1, <1>3
  <2>2. /\ x \in SessionRecord /\ x.peer = session[s].peer /\ x.address = session[s].address
        /\ x.peerID = session[s].peerID /\ x.reserved = session[s].reserved
        /\ x.step = k /\ x.identity = session[s].identity
    BY <1>1, <1>3 DEF SessionRecord
  <2> HIDE DEF x
  <2>3. IsInitial(s) => x.step \in InitialSteps /\ x.step # "peerID"
    BY <1>3, <2>2 DEF InitialSteps
  <2>4. /\ x.step \notin {"none", "new", "gone", "claim", "unregister", "refund", "finish"}
        /\ x.step = "up" => byIdentity[x.identity] = s
    BY <1>3, <2>2
  <2>5. UNCHANGED <<options, created, registries, instances, listener, toClose, lifecycle>>
    BY <1>2
  <2> QED
    BY <1>3, <2>1, <2>2, <2>3, <2>4, <2>5, Moved
<1>4. CASE NotInitial(s)
  <2>1. /\ session[s].step = "promote" /\ session' = [session EXCEPT ![s].step = "peerID"]
        /\ udpInitial[session[s].address] # s
    BY <1>4 DEF NotInitial, Step
  <2>2. ~IsInitial(s)
    BY <2>1, SMT DEF IsInitial, ServerInv, EntriesTrue, InitialAt, None, Sessions
  <2> QED
    BY <1>3, <2>1, <2>2
<1>5. CASE GiveUpWaiting(s)
  <2>1. /\ session[s].step \in {"await", "awaitOwner"}
        /\ session' = [session EXCEPT ![s].step = "end"]
    BY <1>5 DEF GiveUpWaiting, Step
  <2> QED
    BY <1>3, <2>1
<1>6. CASE CheckOwner(s)
  <2> DEFINE k == IF byIdentity[session[s].identity] = s THEN "up" ELSE "end"
  <2>1. session[s].step = "check" /\ session' = [session EXCEPT ![s].step = k]
    BY <1>6 DEF CheckOwner, Step
  <2>2. ~IsInitial(s)
    BY <2>1, InitialIs DEF InitialSteps
  <2> QED
    BY <1>3, <2>1, <2>2
<1>7. CASE EndSession(s)
  <2>1. /\ session[s].step \in {"handshake", "authFailed", "up"}
        /\ session' = [session EXCEPT ![s].step = "end"]
    BY <1>7 DEF EndSession, Step
  <2> QED
    BY <1>3, <2>1
<1> QED
  BY <1>4, <1>5, <1>6, <1>7

\* Steps of a session on its way to the tunnel and out of it.
LEMMA WayInv ==
  ASSUME ServerInv, UNCHANGED options, NEW s \in Sessions,
         Replaced(s) \/ LearnIdentity(s) \/ Push(s) \/ LeaveTunnel(s) \/ Finish(s)
  PROVE  ServerInv'
<1>1. session[s] \in SessionRecord /\ session \in [Sessions -> SessionRecord]
  BY DEF ServerInv, TypeOK
<1>2. UNCHANGED <<created, registries, instances, listener, toClose, lifecycle>>
  BY DEF Replaced, LearnIdentity, Push, LeaveTunnel, Finish
<1>3. Transport \in {"udp", "tcp"}
  BY OptionsTyped DEF ServerInv, TypeOK
<1>4. CASE Replaced(s)
  <2> DEFINE k == IF session[s].step = "await" THEN "peerID" ELSE "check"
             x == [session[s] EXCEPT !.waitFor = None, !.step = k]
  <2>1. session[s].step \in {"await", "awaitOwner"} /\ session' = [session EXCEPT ![s] = x]
    BY <1>1, <1>4 DEF Replaced
  <2>2. /\ x \in SessionRecord /\ x.peer = session[s].peer /\ x.address = session[s].address
        /\ x.peerID = session[s].peerID /\ x.reserved = session[s].reserved
        /\ x.step \in {"peerID", "check"}
    BY <1>1, ZenonT(60) DEF SessionRecord
  <2>3. ~IsInitial(s)
    BY <2>1, InitialIs DEF InitialSteps
  <2> HIDE DEF x
  <2> QED
    BY <1>2, <2>1, <2>2, <2>3, Moved
<1>5. CASE LearnIdentity(s)
  <2> DEFINE c == session[s].certificate
             x == [session[s] EXCEPT !.identity = c, !.step = IF c = Nobody THEN "up" ELSE "claim"]
  <2>1. session[s].step = "identity" /\ session' = [session EXCEPT ![s] = x]
    BY <1>1, <1>5 DEF LearnIdentity
  <2>2. /\ x \in SessionRecord /\ x.peer = session[s].peer /\ x.address = session[s].address
        /\ x.peerID = session[s].peerID /\ x.reserved = session[s].reserved
        /\ x.step \in {"up", "claim"}
        /\ (x.step = "up" => x.identity = Nobody)
        /\ (x.step = "claim" => x.identity \in Identities)
    BY <1>1, ZenonT(40) DEF SessionRecord
  <2>3. ~IsInitial(s)
    BY <2>1, InitialIs DEF InitialSteps
  <2> HIDE DEF x
  <2> QED
    BY <1>2, <2>1, <2>2, <2>3, Moved
<1>6. CASE Push(s)
  <2> DEFINE x == [session[s] EXCEPT !.tunnel = TRUE]
  <2>1. session[s].step = "up" /\ session' = [session EXCEPT ![s] = x]
    BY <1>1, <1>6 DEF Push
  <2>2. /\ x \in SessionRecord /\ x.peer = session[s].peer /\ x.address = session[s].address
        /\ x.peerID = session[s].peerID /\ x.reserved = session[s].reserved
        /\ x.step = session[s].step /\ x.identity = session[s].identity
        /\ x.closed = session[s].closed
    BY <1>1 DEF SessionRecord
  <2>3. ~IsInitial(s)
    BY <2>1, InitialIs DEF InitialSteps
  <2> HIDE DEF x
  <2> QED
    BY <1>2, <2>1, <2>2, <2>3, Moved
<1>7. CASE LeaveTunnel(s)
  <2> DEFINE k == IF Transport = "udp" THEN "finish" ELSE "unregister"
             x == [session[s] EXCEPT !.tunnel = FALSE, !.closed = TRUE, !.waitFor = None,
                                     !.step = k]
  <2>1. session[s].step = "end" /\ session' = [session EXCEPT ![s] = x]
    BY <1>1, <1>7 DEF LeaveTunnel
  <2>3. k \in {"finish", "unregister"} /\ (k = "finish" => Transport = "udp")
        /\ (k = "unregister" => Transport # "udp")
    OBVIOUS
  <2> HIDE DEF k
  <2>2. /\ x \in SessionRecord /\ x.peer = session[s].peer /\ x.address = session[s].address
        /\ x.peerID = session[s].peerID /\ x.reserved = session[s].reserved
        /\ x.step = k
    BY <1>1, <2>3, ZenonT(60) DEF SessionRecord, None
  <2> HIDE DEF x
  <2> QED
    BY <1>2, <1>3, <2>1, <2>2, <2>3, Moved DEF InitialSteps
<1>8. CASE Finish(s)
  <2> DEFINE x == [session[s] EXCEPT !.finished = TRUE,
                     !.step = IF Transport = "udp" THEN "unregister" ELSE "refund"]
  <2>1. session[s].step = "finish" /\ session' = [session EXCEPT ![s] = x]
    BY <1>1, <1>8 DEF Finish
  <2>2. /\ x \in SessionRecord /\ x.peer = session[s].peer /\ x.address = session[s].address
        /\ x.peerID = session[s].peerID /\ x.reserved = session[s].reserved
        /\ x.step = (IF Transport = "udp" THEN "unregister" ELSE "refund") /\ x.finished
    BY <1>1, ZenonT(40) DEF SessionRecord
  <2>3. Transport = "tcp" => ~Findable(s)
    BY <2>1 DEF Findable
  <2>4. IsInitial(s) => Transport = "udp"
    BY SMT DEF IsInitial, ServerInv, EntriesTrue, InitialAt, None, Sessions
  <2> HIDE DEF x
  <2> QED
    BY <1>2, <1>3, <2>1, <2>2, <2>3, <2>4, Moved DEF InitialSteps
<1> QED
  BY <1>4, <1>5, <1>6, <1>7, <1>8

\* Close of a session.
LEMMA CloseSessionInv ==
  ASSUME ServerInv, UNCHANGED options, NEW s \in Sessions, CloseSession(s)
  PROVE  ServerInv'
<1>1. session[s] \in SessionRecord /\ session \in [Sessions -> SessionRecord]
  BY DEF ServerInv, TypeOK
<1> DEFINE x == [session[s] EXCEPT !.closed = TRUE]
<1>2. /\ session' = [session EXCEPT ![s] = x] /\ toClose' = toClose \ {s}
      /\ UNCHANGED <<created, registries, instances, listener, lifecycle>>
  BY <1>1 DEF CloseSession
<1>3. /\ x \in SessionRecord /\ x.peer = session[s].peer /\ x.address = session[s].address
      /\ x.peerID = session[s].peerID /\ x.reserved = session[s].reserved
      /\ x.step = session[s].step /\ x.identity = session[s].identity
      /\ x.finished = session[s].finished /\ x.authFailed = session[s].authFailed /\ x.closed
  BY <1>1 DEF SessionRecord
<1> HIDE DEF x
<1>4. /\ x.step = "claim" => x.identity \in Identities
      /\ x.step = "unregister" /\ Transport = "udp" => x.finished
      /\ x.reserved => Live(s)
  BY <1>3 DEF ServerInv, StepsTrue
<1>5. Quiet(s, x)
  BY <1>2, <1>3, <1>4, InitialIs DEF Quiet, Findable, registries, ServerInv, TypeOK
<1>6. QuietOwner(s, x)
  BY <1>2, <1>3 DEF QuietOwner, ServerInv, TypeOK, registries
<1> QED
  BY <1>2, <1>3, <1>5, <1>6, QuietInv

\* promoteInitialSession once the lock is released.
LEMMA TakeSlotInv ==
  ASSUME ServerInv, UNCHANGED options, NEW s \in Sessions, TakeSlot(s)
  PROVE  ServerInv'
<1>1. session[s] \in SessionRecord /\ session \in [Sessions -> SessionRecord]
  BY DEF ServerInv, TypeOK
<1> DEFINE displaced == session[s].waitFor
           full == ~session[s].reserved /\ instances >= maxClients
           x == [session[s] EXCEPT !.reserved = ~full,
                   !.step = IF full THEN "end" ELSE IF displaced = None THEN "peerID" ELSE "await"]
<1>2. /\ session[s].step = "slot" /\ session' = [session EXCEPT ![s] = x]
      /\ instances' = IF session[s].reserved \/ full THEN instances ELSE instances + 1
      /\ toClose' = IF full \/ displaced = None THEN toClose ELSE toClose \cup {displaced}
      /\ UNCHANGED <<created, registries, listener, lifecycle>>
  BY <1>1 DEF TakeSlot
<1>3. /\ x \in SessionRecord /\ x.peer = session[s].peer /\ x.address = session[s].address
      /\ x.peerID = session[s].peerID /\ x.reserved = ~full
      /\ x.step \in {"end", "peerID", "await"}
  BY <1>1, ZenonT(60) DEF SessionRecord
<1>4. displaced \in Sessions \cup {None}
  BY <1>1 DEF SessionRecord
<1> HIDE DEF x
<1>5. ~IsInitial(s)
  BY <1>2, InitialIs DEF InitialSteps
<1>6. Quiet(s, x)
  BY <1>2, <1>3, <1>5 DEF Quiet, Live, registries, ServerInv, TypeOK
<1>7. QuietOwner(s, x)
  BY <1>2, <1>3, <1>4 DEF QuietOwner, ServerInv, TypeOK, registries
<1>8. maxClients \in Nat /\ instances \in 0..maxClients /\ maxClients' = maxClients
  BY OptionsTyped, ServerAssumption, SMT DEF ServerInv, TypeOK, maxClients
<1>9. SlotsCounted' /\ instances' \in 0..maxClients
  <2>1. session'[s] = x /\ \A t \in Sessions \ {s} : session'[t] = session[t]
    BY <1>1, <1>2
  <2>2. CASE session[s].reserved \/ full
    <3>1. x.reserved = session[s].reserved
      BY <1>1, <1>3, <2>2, SMT DEF SessionRecord
    <3>2. Holders(session') = Holders(session)
      BY <2>1, <3>1, SameHolders
    <3> QED
      BY <1>2, <1>8, <2>2, <3>2, SlotsAre DEF ServerInv
  <2>3. CASE ~session[s].reserved /\ ~full
    <3>1. x.reserved
      BY <1>3, <2>3
    <3>2. Cardinality(Holders(session')) = Cardinality(Holders(session)) + 1
      BY <2>1, <2>3, <3>1, OneMore
    <3>3. Cardinality(Holders(session)) \in Nat
      BY HoldersFinite
    <3> QED
      BY <1>2, <1>8, <2>3, <3>2, <3>3, SlotsAre, SMT DEF ServerInv
  <2> QED
    BY <2>2, <2>3
<1>10. TypeOK'
  <2>1. TypeOK
    BY DEF ServerInv
  <2>2. session' \in [Sessions -> SessionRecord]
    BY <1>6, <2>1, QuietAt
  <2>3. /\ UNCHANGED <<options, created, byPeer, udpActive, udpInitial, lifecycle>>
        /\ byIdentity' \in [Identities -> Sessions \cup {None}]
        /\ byPeerID' \in [PeerIDs -> Sessions \cup {None}]
    BY <1>6 DEF Quiet
  <2>4. toClose' \subseteq Sessions /\ listener' = listener
    BY <1>2, <1>7 DEF QuietOwner
  <2>5. instances' \in 0..maxClients'
    BY <1>8, <1>9
  <2> QED
    BY <2>1, <2>2, <2>3, <2>4, <2>5 DEF TypeOK
<1> QED
  BY <1>6, <1>7, <1>9, <1>10, QuietEntries, QuietOwners DEF ServerInv

\* enablePeerID.
LEMMA EnablePeerIDInv ==
  ASSUME ServerInv, UNCHANGED options, NEW s \in Sessions, EnablePeerID(s)
  PROVE  ServerInv'
<1>1. session[s] \in SessionRecord /\ session \in [Sessions -> SessionRecord]
  BY DEF ServerInv, TypeOK
<1>2. /\ session[s].step = "peerID"
      /\ UNCHANGED <<created, byPeer, byIdentity, udpActive, udpInitial, instances, listener,
                     toClose, lifecycle>>
  BY DEF EnablePeerID
<1>3. PICK supported \in DataV2, failed \in MayFail :
        LET negotiated == [session EXCEPT ![s].authFailed = @ \/ failed,
                             ![s].step = IF session[s].authFailed \/ failed
                                         THEN "authFailed" ELSE "identity"]
        IN  IF ~supported
            THEN session' = negotiated /\ UNCHANGED byPeerID
            ELSE IF ~Running \/ byPeer[session[s].peer] # s \/ FreePeerIDs = {}
            THEN session' = [session EXCEPT ![s].step = "end"] /\ UNCHANGED byPeerID
            ELSE \E id \in FreePeerIDs :
                   /\ \A n \in FreePeerIDs : id <= n
                   /\ session' = [negotiated EXCEPT ![s].peerID = id]
                   /\ byPeerID' = [byPeerID EXCEPT ![id] = s]
  BY DEF EnablePeerID
<1> DEFINE auth == session[s].authFailed \/ failed
           k == IF auth THEN "authFailed" ELSE "identity"
           y == [session[s] EXCEPT !.authFailed = auth, !.step = k]
           z(id) == [session[s] EXCEPT !.authFailed = auth, !.step = k, !.peerID = id]
<1>9. \/ session' = [session EXCEPT ![s] = y] /\ UNCHANGED byPeerID
      \/ session' = [session EXCEPT ![s].step = "end"] /\ UNCHANGED byPeerID
      \/ \E id \in FreePeerIDs :
            /\ byPeer[session[s].peer] = s
            /\ session' = [session EXCEPT ![s] = z(id)]
            /\ byPeerID' = [byPeerID EXCEPT ![id] = s]
  <2> DEFINE negotiated == [session EXCEPT ![s].authFailed = @ \/ failed,
                              ![s].step = IF session[s].authFailed \/ failed
                                          THEN "authFailed" ELSE "identity"]
  <2>1. negotiated = [session EXCEPT ![s] = y]
    BY <1>1
  <2>2. \A id : [negotiated EXCEPT ![s].peerID = id] = [session EXCEPT ![s] = z(id)]
    BY <1>1
  <2> QED
    BY <1>3, <2>1, <2>2
<1>10. auth \in BOOLEAN /\ k \in {"authFailed", "identity"} /\ (auth <=> k = "authFailed")
       /\ (session[s].authFailed => auth)
  BY <1>1 DEF SessionRecord
<1> HIDE DEF auth, k
<1>4. /\ y \in SessionRecord /\ y.peer = session[s].peer
      /\ y.address = session[s].address /\ y.peerID = session[s].peerID
      /\ y.reserved = session[s].reserved /\ y.step = k
  BY <1>1, <1>10, ZenonT(40) DEF SessionRecord
<1>5. IsInitial(s) => session[s].authFailed /\ ~session[s].reserved
  BY <1>2, InitialIs
<1>6. CASE session' = [session EXCEPT ![s] = y] /\ UNCHANGED byPeerID
  <2> HIDE DEF y
  <2>1. IsInitial(s) => y.step \in InitialSteps /\ y.step # "peerID"
    BY <1>4, <1>5, <1>10 DEF InitialSteps
  <2>2. UNCHANGED <<options, created, registries, instances, listener, toClose, lifecycle>>
    BY <1>2, <1>6 DEF registries
  <2> QED
    BY <1>2, <1>4, <1>6, <1>10, <2>1, <2>2, Moved
<1>7. CASE session' = [session EXCEPT ![s].step = "end"] /\ UNCHANGED byPeerID
  <2> DEFINE x == [session[s] EXCEPT !.step = "end"]
  <2>1. session' = [session EXCEPT ![s] = x]
    BY <1>1, <1>7
  <2>2. /\ x \in SessionRecord /\ x.peer = session[s].peer /\ x.address = session[s].address
        /\ x.peerID = session[s].peerID /\ x.reserved = session[s].reserved
        /\ x.step = "end"
    BY <1>1 DEF SessionRecord
  <2>3. UNCHANGED <<options, created, registries, instances, listener, toClose, lifecycle>>
    BY <1>2, <1>7 DEF registries
  <2> HIDE DEF x
  <2> QED
    BY <1>2, <2>1, <2>2, <2>3, Moved DEF InitialSteps
<1>8. ASSUME NEW id \in FreePeerIDs, byPeer[session[s].peer] = s,
             session' = [session EXCEPT ![s] = z(id)],
             byPeerID' = [byPeerID EXCEPT ![id] = s]
      PROVE  ServerInv'
  <2>1. id \in PeerIDs /\ byPeerID[id] = None
    <3>1. maxClients \in 0..MaxClients /\ MaxClients \in Nat
      BY OptionsTyped, ServerAssumption DEF ServerInv, TypeOK
    <3> QED
      BY <1>8, <3>1, SMT DEF FreePeerIDs, PeerIDs
  <2> DEFINE x == z(id)
  <2>2. /\ x \in SessionRecord /\ x.peer = session[s].peer /\ x.address = session[s].address
        /\ x.peerID = id /\ x.reserved = session[s].reserved
        /\ x.step \in {"authFailed", "identity"}
        /\ (session[s].authFailed => x.step = "authFailed")
    BY <1>1, <1>10, <2>1, ZenonT(40) DEF SessionRecord
  <2> HIDE DEF z, x
  <2>3. session' = [session EXCEPT ![s] = x]
    BY <1>8 DEF x
  <2>4. /\ byPeerID \in [PeerIDs -> Sessions \cup {None}]
        /\ byPeerID' \in [PeerIDs -> Sessions \cup {None}] /\ byPeerID'[id] = s
        /\ \A n \in PeerIDs : n # id => byPeerID'[n] = byPeerID[n]
    BY <1>8, <2>1 DEF ServerInv, TypeOK
  <2>5. Registered(s)
    BY <1>8 DEF Registered
  <2>6. Quiet(s, x)
    <3>1. IsInitial(s) => ~x.reserved /\ x.step \in InitialSteps /\ x.step # "peerID"
      BY <1>5, <2>2 DEF InitialSteps
    <3> QED
      BY <1>2, <2>2, <2>3, <2>4, <2>5, <3>1 DEF Quiet, Live, ServerInv, TypeOK
  <2>7. /\ session'[s] = x /\ \A t \in Sessions : t # s => session'[t] = session[t]
        /\ \A t \in Sessions : Registered(t)' <=> Registered(t)
    BY <2>6, QuietAt DEF ServerInv
  <2>8. OneOwner'
    BY <1>2, <2>2, <2>7 DEF ServerInv, OneOwner
  <2>9. PeerIDsKept'
    <3> SUFFICES ASSUME NEW t \in Sessions, Registered(t)', session'[t].peerID # NoPeerID
                 PROVE  byPeerID'[session'[t].peerID] = t
      BY DEF PeerIDsKept
    <3>1. CASE t = s
      BY <2>2, <2>4, <2>7, <3>1
    <3>2. CASE t # s
      <4>1. session'[t] = session[t] /\ byPeerID[session[t].peerID] = t
        BY <2>7, <3>2 DEF ServerInv, PeerIDsKept
      <4>2. session[t].peerID \in PeerIDs /\ session[t].peerID # id
        BY <2>1, <4>1, SMT DEF ServerInv, TypeOK, SessionRecord, None, Sessions
      <4> QED
        BY <2>4, <4>1, <4>2
    <3> QED
      BY <3>1, <3>2
  <2>10. SlotsCounted'
    <3>1. Holders(session') = Holders(session)
      BY <2>2, <2>7, SameHolders
    <3> QED
      BY <1>2, <3>1, SlotsAre DEF ServerInv
  <2>11. TypeOK'
    BY <1>2, <2>4, <2>6, QuietAt DEF ServerInv, TypeOK, maxClients
  <2> QED
    BY <2>6, <2>8, <2>9, <2>10, <2>11, QuietEntries DEF ServerInv
<1> QED
  BY <1>6, <1>7, <1>8, <1>9

\* registerAuthenticatedIdentity, second part.
LEMMA ClaimIdentityInv ==
  ASSUME ServerInv, UNCHANGED options, NEW s \in Sessions, ClaimIdentity(s)
  PROVE  ServerInv'
<1>1. session[s] \in SessionRecord /\ session \in [Sessions -> SessionRecord]
  BY DEF ServerInv, TypeOK
<1> DEFINE i == session[s].identity
           existing == byIdentity[i]
           x == [session[s] EXCEPT !.step = "awaitOwner", !.waitFor = existing]
           y == [session[s] EXCEPT !.step = "end"]
<1>2. /\ session[s].step = "claim"
      /\ UNCHANGED <<created, byPeer, byPeerID, udpActive, udpInitial, instances, listener,
                     lifecycle>>
  BY DEF ClaimIdentity
<1>3. i \in Identities /\ existing \in Sessions \cup {None}
  BY <1>2 DEF ServerInv, StepsTrue, TypeOK
<1>4. ~IsInitial(s)
  BY <1>2, InitialIs DEF InitialSteps
<1>5. CASE /\ Running /\ byPeer[session[s].peer] = s
           /\ session' = [session EXCEPT ![s] = x]
           /\ byIdentity' = [byIdentity EXCEPT ![i] = s]
           /\ toClose' = toClose \cup ({existing} \ {None})
  <2>1. /\ x \in SessionRecord /\ x.peer = session[s].peer /\ x.address = session[s].address
        /\ x.peerID = session[s].peerID /\ x.reserved = session[s].reserved
        /\ x.step = "awaitOwner"
    BY <1>1, <1>3 DEF SessionRecord
  <2> HIDE DEF x
  <2>2. /\ byIdentity \in [Identities -> Sessions \cup {None}]
        /\ byIdentity' \in [Identities -> Sessions \cup {None}] /\ byIdentity'[i] = s
        /\ \A j \in Identities : j # i => byIdentity'[j] = byIdentity[j]
    BY <1>3, <1>5 DEF ServerInv, TypeOK
  <2>3. Registered(s)
    BY <1>5 DEF Registered
  <2>4. Quiet(s, x)
    BY <1>2, <1>4, <1>5, <2>1, <2>2, <2>3 DEF Quiet, Live, ServerInv, TypeOK
  <2>5. /\ session'[s] = x /\ \A t \in Sessions : t # s => session'[t] = session[t]
        /\ \A t \in Sessions : Registered(t)' <=> Registered(t)
    BY <2>4, QuietAt DEF ServerInv
  <2>6. OneOwner'
    <3> SUFFICES ASSUME NEW t \in Sessions, session'[t].step = "up",
                        session'[t].identity # Nobody, Registered(t)', ~session'[t].closed,
                        t \notin toClose'
                 PROVE  byIdentity'[session'[t].identity] = t
      BY DEF OneOwner
    <3>1. t # s /\ session'[t] = session[t]
      BY <2>1, <2>5
    <3>2. byIdentity[session[t].identity] = t
      BY <1>5, <2>5, <3>1 DEF ServerInv, OneOwner
    <3>3. session[t].identity \in Identities
      BY <3>1 DEF ServerInv, TypeOK, SessionRecord
    <3>4. session[t].identity # i
      BY <1>5, <3>2, SMT DEF None, Sessions
    <3> QED
      BY <2>2, <3>1, <3>2, <3>3, <3>4
  <2>7. PeerIDsKept'
    BY <1>2, <2>1, <2>5 DEF ServerInv, PeerIDsKept
  <2>8. SlotsCounted'
    <3>1. Holders(session') = Holders(session)
      BY <2>1, <2>5, SameHolders
    <3> QED
      BY <1>2, <3>1, SlotsAre DEF ServerInv
  <2>9. TypeOK'
    BY <1>2, <1>3, <1>5, <2>2, <2>4, QuietAt DEF ServerInv, TypeOK, maxClients
  <2> QED
    BY <2>4, <2>6, <2>7, <2>8, <2>9, QuietEntries DEF ServerInv
<1>6. CASE session' = [session EXCEPT ![s] = y] /\ UNCHANGED <<byIdentity, toClose>>
  <2>1. /\ y \in SessionRecord /\ y.peer = session[s].peer /\ y.address = session[s].address
        /\ y.peerID = session[s].peerID /\ y.reserved = session[s].reserved
        /\ y.step = "end"
    BY <1>1 DEF SessionRecord
  <2> HIDE DEF y
  <2>2. UNCHANGED <<options, created, registries, instances, listener, toClose, lifecycle>>
    BY <1>2, <1>6 DEF registries
  <2> QED
    BY <1>2, <1>4, <1>6, <2>1, <2>2, Moved
<1> QED
  BY <1>1, <1>5, <1>6 DEF ClaimIdentity

-----------------------------------------------------------------------------
(* Sessions that leave the registries *)

\* Who stays registered when d is dropped.
LEMMA DroppedAt ==
  ASSUME TypeOK, NEW d \in Sessions \cup {None}
  PROVE  /\ Dropped(byPeer, d) \in [PeerAddresses -> Sessions \cup {None}]
         /\ Dropped(byIdentity, d) \in [Identities -> Sessions \cup {None}]
         /\ Dropped(byPeerID, d) \in [PeerIDs -> Sessions \cup {None}]
         /\ Dropped(udpActive, d) \in [Addresses -> Sessions \cup {None}]
         /\ Dropped(udpInitial, d) \in [Addresses -> Sessions \cup {None}]
         /\ \A p \in PeerAddresses : Dropped(byPeer, d)[p] = IF byPeer[p] = d THEN None ELSE byPeer[p]
         /\ \A i \in Identities :
              Dropped(byIdentity, d)[i] = IF byIdentity[i] = d THEN None ELSE byIdentity[i]
         /\ \A n \in PeerIDs : Dropped(byPeerID, d)[n] = IF byPeerID[n] = d THEN None ELSE byPeerID[n]
         /\ \A a \in Addresses :
              Dropped(udpActive, d)[a] = IF udpActive[a] = d THEN None ELSE udpActive[a]
         /\ \A a \in Addresses :
              Dropped(udpInitial, d)[a] = IF udpInitial[a] = d THEN None ELSE udpInitial[a]
<1>1. /\ byPeer \in [PeerAddresses -> Sessions \cup {None}]
      /\ byIdentity \in [Identities -> Sessions \cup {None}]
      /\ byPeerID \in [PeerIDs -> Sessions \cup {None}]
      /\ udpActive \in [Addresses -> Sessions \cup {None}]
      /\ udpInitial \in [Addresses -> Sessions \cup {None}]
  BY DEF TypeOK
<1>2. /\ Dropped(byPeer, d) \in [PeerAddresses -> Sessions \cup {None}]
      /\ \A p \in PeerAddresses : Dropped(byPeer, d)[p] = IF byPeer[p] = d THEN None ELSE byPeer[p]
  BY <1>1 DEF Dropped
<1>3. /\ Dropped(byIdentity, d) \in [Identities -> Sessions \cup {None}]
      /\ \A i \in Identities :
           Dropped(byIdentity, d)[i] = IF byIdentity[i] = d THEN None ELSE byIdentity[i]
  BY <1>1 DEF Dropped
<1>4. /\ Dropped(byPeerID, d) \in [PeerIDs -> Sessions \cup {None}]
      /\ \A n \in PeerIDs : Dropped(byPeerID, d)[n] = IF byPeerID[n] = d THEN None ELSE byPeerID[n]
  BY <1>1 DEF Dropped
<1>5. /\ Dropped(udpActive, d) \in [Addresses -> Sessions \cup {None}]
      /\ \A a \in Addresses :
           Dropped(udpActive, d)[a] = IF udpActive[a] = d THEN None ELSE udpActive[a]
  BY <1>1 DEF Dropped
<1>6. /\ Dropped(udpInitial, d) \in [Addresses -> Sessions \cup {None}]
      /\ \A a \in Addresses :
           Dropped(udpInitial, d)[a] = IF udpInitial[a] = d THEN None ELSE udpInitial[a]
  BY <1>1 DEF Dropped
<1> QED
  BY <1>2, <1>3, <1>4, <1>5, <1>6

\* Session s has left every registry and has become x.
Leaves(s, x) ==
  /\ session' = [session EXCEPT ![s] = x] /\ x \in SessionRecord
  /\ UNCHANGED <<options, created, toClose, lifecycle>>
  /\ byPeer' = Dropped(byPeer, s) /\ byIdentity' = Dropped(byIdentity, s)
  /\ byPeerID' = Dropped(byPeerID, s)
  /\ udpActive' = Dropped(udpActive, s) /\ udpInitial' = Dropped(udpInitial, s)
  /\ session[s].step \notin {"none", "gone"} /\ x.step \in {"finish", "refund", "gone"}
  /\ x.reserved => x.step # "gone"

\* The registries after a session has left them.
LEMMA LeavesEntries ==
  ASSUME ServerInv, NEW s \in Sessions, NEW x, Leaves(s, x)
  PROVE  /\ PeersTrue' /\ EntriesTrue' /\ PeerIDsKept' /\ StepsTrue' /\ OneOwner'
         /\ session' \in [Sessions -> SessionRecord] /\ session'[s] = x
         /\ \A t \in Sessions : t # s => session'[t] = session[t]
<1>1. TypeOK /\ s \in Sessions \cup {None} /\ None \notin Sessions /\ Transport' = Transport
  BY SMT DEF ServerInv, None, Sessions, Leaves, Transport
<1>2. /\ session' \in [Sessions -> SessionRecord] /\ session'[s] = x
      /\ \A t \in Sessions : t # s => session'[t] = session[t]
  BY <1>1 DEF Leaves, TypeOK
<1>3. /\ byPeer' \in [PeerAddresses -> Sessions \cup {None}]
      /\ byIdentity' \in [Identities -> Sessions \cup {None}]
      /\ byPeerID' \in [PeerIDs -> Sessions \cup {None}]
      /\ udpActive' \in [Addresses -> Sessions \cup {None}]
      /\ udpInitial' \in [Addresses -> Sessions \cup {None}]
      /\ \A p \in PeerAddresses : byPeer'[p] = IF byPeer[p] = s THEN None ELSE byPeer[p]
      /\ \A i \in Identities : byIdentity'[i] = IF byIdentity[i] = s THEN None ELSE byIdentity[i]
      /\ \A n \in PeerIDs : byPeerID'[n] = IF byPeerID[n] = s THEN None ELSE byPeerID[n]
      /\ \A a \in Addresses : udpActive'[a] = IF udpActive[a] = s THEN None ELSE udpActive[a]
      /\ \A a \in Addresses : udpInitial'[a] = IF udpInitial[a] = s THEN None ELSE udpInitial[a]
  BY <1>1, DroppedAt, SMT DEF Leaves
<1>4. \A t \in Sessions : session[t].peer \in PeerAddresses /\ session'[t].peer \in PeerAddresses
  BY <1>1, <1>2 DEF TypeOK, SessionRecord
<1>5. ~Registered(s)' /\ \A t \in Sessions \ {s} : Registered(t)' <=> Registered(t)
  <2>1. ~Registered(s)'
    BY <1>1, <1>3, <1>4, SMT DEF Registered
  <2>2. ASSUME NEW t \in Sessions \ {s} PROVE Registered(t)' <=> Registered(t)
    BY <1>1, <1>2, <1>3, <1>4, SMT DEF Registered
  <2> QED
    BY <2>1, <2>2
<1>6. PeersTrue'
  <2> SUFFICES ASSUME NEW p \in PeerAddresses, byPeer'[p] # None
               PROVE  p[2] <= created' /\ session'[byPeer'[p]].peer = p /\ Findable(byPeer[p])'
    BY DEF PeersTrue
  <2>1. byPeer'[p] = byPeer[p] /\ byPeer[p] \in Sessions \ {s}
    BY <1>1, <1>3, SMT
  <2>2. p[2] <= created /\ session[byPeer[p]].peer = p /\ Findable(byPeer[p])
    BY <1>1, <2>1 DEF ServerInv, PeersTrue
  <2>3. session'[byPeer[p]] = session[byPeer[p]]
    BY <1>2, <2>1
  <2> QED
    BY <1>1, <2>1, <2>2, <2>3 DEF Findable, Leaves
<1>7. EntriesTrue'
  <2>1. \A i \in Identities : byIdentity'[i] # None => Registered(byIdentity[i])'
    <3> SUFFICES ASSUME NEW i \in Identities, byIdentity'[i] # None PROVE Registered(byIdentity[i])'
      OBVIOUS
    <3>1. byIdentity'[i] = byIdentity[i] /\ byIdentity[i] \in Sessions \ {s}
      BY <1>1, <1>3
    <3>2. Registered(byIdentity[i])
      BY <1>1, <3>1 DEF ServerInv, EntriesTrue
    <3> QED
      BY <1>5, <3>1, <3>2
  <2>2. \A n \in PeerIDs : byPeerID'[n] # None => Registered(byPeerID[n])'
    <3> SUFFICES ASSUME NEW n \in PeerIDs, byPeerID'[n] # None PROVE Registered(byPeerID[n])'
      OBVIOUS
    <3>1. byPeerID'[n] = byPeerID[n] /\ byPeerID[n] \in Sessions \ {s}
      BY <1>1, <1>3
    <3>2. Registered(byPeerID[n])
      BY <1>1, <3>1 DEF ServerInv, EntriesTrue
    <3> QED
      BY <1>5, <3>1, <3>2
  <2>3. \A a \in Addresses :
          udpActive'[a] # None => /\ Transport' = "udp" /\ Registered(udpActive[a])'
                                  /\ session'[udpActive'[a]].address = a
    <3> SUFFICES ASSUME NEW a \in Addresses, udpActive'[a] # None
                 PROVE  /\ Transport' = "udp" /\ Registered(udpActive[a])'
                        /\ session'[udpActive'[a]].address = a
      OBVIOUS
    <3>1. udpActive'[a] = udpActive[a] /\ udpActive[a] \in Sessions \ {s}
      BY <1>1, <1>3
    <3>2. Transport = "udp" /\ Registered(udpActive[a]) /\ session[udpActive[a]].address = a
      BY <1>1, <3>1 DEF ServerInv, EntriesTrue
    <3> QED
      BY <1>1, <1>2, <1>5, <3>1, <3>2
  <2>4. \A a \in Addresses : udpInitial'[a] # None => InitialAt(udpInitial[a], a)'
    <3> SUFFICES ASSUME NEW a \in Addresses, udpInitial'[a] # None
                 PROVE  InitialAt(udpInitial[a], a)'
      OBVIOUS
    <3>1. udpInitial'[a] = udpInitial[a] /\ udpInitial[a] \in Sessions \ {s}
      BY <1>1, <1>3
    <3>2. InitialAt(udpInitial[a], a)
      BY <1>1, <3>1 DEF ServerInv, EntriesTrue
    <3>3. session'[udpInitial[a]] = session[udpInitial[a]] /\ Registered(udpInitial[a])'
      BY <1>2, <1>5, <3>1, <3>2 DEF InitialAt
    <3>4. \A b \in Addresses : udpActive'[b] # udpInitial[a]
      BY <1>1, <1>3, <3>1, <3>2 DEF InitialAt
    <3> QED
      BY <1>1, <3>1, <3>2, <3>3, <3>4 DEF InitialAt
  <2> QED
    BY <2>1, <2>2, <2>3, <2>4 DEF EntriesTrue
<1>8. PeerIDsKept'
  <2> SUFFICES ASSUME NEW t \in Sessions, Registered(t)', session'[t].peerID # NoPeerID
               PROVE  byPeerID'[session'[t].peerID] = t
    BY DEF PeerIDsKept
  <2>1. t # s /\ Registered(t) /\ session'[t] = session[t]
    BY <1>2, <1>5
  <2>2. session[t].peerID \in PeerIDs /\ byPeerID[session[t].peerID] = t
    BY <1>1, <2>1 DEF ServerInv, PeerIDsKept, TypeOK, SessionRecord
  <2> QED
    BY <1>3, <2>1, <2>2
<1>9. StepsTrue'
  <2>1. s <= created
    BY <1>1, SMT DEF Leaves, ServerInv, StepsTrue, TypeOK, Sessions
  <2> QED
    BY <1>1, <1>2, <2>1 DEF Leaves, ServerInv, StepsTrue, Live, TypeOK, Sessions
<1>10. OneOwner'
  <2> SUFFICES ASSUME NEW t \in Sessions, session'[t].step = "up", session'[t].identity # Nobody,
                      Registered(t)', ~session'[t].closed, t \notin toClose'
               PROVE  byIdentity'[session'[t].identity] = t
    BY DEF OneOwner
  <2>1. t # s /\ Registered(t) /\ session'[t] = session[t] /\ t \notin toClose
    BY <1>2, <1>5 DEF Leaves
  <2>2. session[t].identity \in Identities /\ byIdentity[session[t].identity] = t
    BY <1>1, <2>1 DEF ServerInv, OneOwner, TypeOK, SessionRecord
  <2> QED
    BY <1>3, <2>1, <2>2
<1> QED
  BY <1>2, <1>6, <1>7, <1>8, <1>9, <1>10

\* The bound on the slots, while the options stay.
LEMMA BoundTyped ==
  ASSUME ServerInv, UNCHANGED options
  PROVE  maxClients \in Nat /\ instances \in 0..maxClients /\ maxClients' = maxClients
BY OptionsTyped, ServerAssumption, SMT DEF ServerInv, TypeOK, maxClients

\* releaseResourceReservation.
LEMMA SlotReturned ==
  ASSUME ServerInv, UNCHANGED options, NEW s \in Sessions, session'[s].reserved = FALSE,
         session[s].reserved \in BOOLEAN,
         \A t \in Sessions : t # s => session'[t] = session[t],
         listener.step = "register" <=> listener'.step = "register",
         instances' = IF session[s].reserved THEN instances - 1 ELSE instances
  PROVE  SlotsCounted' /\ instances' \in 0..maxClients'
<1>1. /\ Cardinality(Holders(session)) \in Nat /\ Cardinality(Holders(session')) \in Nat
      /\ maxClients \in Nat /\ instances \in 0..maxClients /\ maxClients' = maxClients
  BY HoldersFinite, BoundTyped
<1>2. CASE session[s].reserved
  <2>1. Cardinality(Holders(session')) = Cardinality(Holders(session)) - 1
    BY <1>2, OneLess
  <2> QED
    BY <1>1, <1>2, <2>1, SlotsAre, SMT DEF ServerInv
<1>3. CASE ~session[s].reserved
  <2>1. Holders(session') = Holders(session)
    BY <1>3, SameHolders
  <2> QED
    BY <1>1, <1>3, <2>1, SlotsAre DEF ServerInv
<1> QED
  BY <1>2, <1>3

\* What is left to show when a session leaves.
LEMMA LeavesInv ==
  ASSUME ServerInv, NEW s \in Sessions, NEW x, Leaves(s, x), SlotsCounted',
         instances' \in 0..maxClients',
         listener' = ListenerIdle \/ (listener' = listener /\ session[s].step # "new")
  PROVE  ServerInv'
<1>1. /\ session' \in [Sessions -> SessionRecord] /\ session'[s] = x
      /\ \A t \in Sessions : t # s => session'[t] = session[t]
  BY LeavesEntries
<1>2. /\ ListenerIdle.step = "idle"
      /\ ListenerIdle \in [step : {"idle", "reserve", "register", "initial", "worker", "stopped"},
                           address : Addresses, session : Sessions \cup {None}]
  BY IdleTyped
<1>3. TypeOK'
  <2>1. TypeOK /\ s \in Sessions \cup {None}
    BY DEF ServerInv
  <2>2. /\ byPeer' \in [PeerAddresses -> Sessions \cup {None}]
        /\ byIdentity' \in [Identities -> Sessions \cup {None}]
        /\ byPeerID' \in [PeerIDs -> Sessions \cup {None}]
        /\ udpActive' \in [Addresses -> Sessions \cup {None}]
        /\ udpInitial' \in [Addresses -> Sessions \cup {None}]
    BY <2>1, DroppedAt DEF Leaves
  <2> QED
    BY <1>1, <1>2, <2>1, <2>2 DEF TypeOK, Leaves
<1>4. ListenerTrue'
  <2>1. Transport' = Transport /\ created' = created
    BY DEF Leaves, Transport
  <2> QED
    BY <1>1, <1>2, <2>1 DEF ServerInv, ListenerTrue
<1>5. NothingRuns'
  BY DEF ServerInv, NothingRuns, Leaves, Live
<1> QED
  BY <1>3, <1>4, <1>5, LeavesEntries DEF ServerInv

\* unregisterSession.
LEMMA UnregisterInv ==
  ASSUME ServerInv, UNCHANGED options, NEW s \in Sessions, Unregister(s)
  PROVE  ServerInv'
<1>1. session[s] \in SessionRecord /\ session \in [Sessions -> SessionRecord]
  BY DEF ServerInv, TypeOK
<1> DEFINE k == IF Transport = "udp" THEN "refund" ELSE "finish"
           x == [session[s] EXCEPT !.step = k]
<1>2. /\ session[s].step = "unregister" /\ session' = [session EXCEPT ![s] = x] /\ Evict(s)
      /\ UNCHANGED <<created, instances, listener, toClose, lifecycle>>
  BY <1>1 DEF Unregister, Step
<1>3. x \in SessionRecord /\ x.step \in {"refund", "finish"} /\ x.reserved = session[s].reserved
  BY <1>1, SMT DEF SessionRecord
<1> HIDE DEF x
<1>4. Leaves(s, x)
  BY <1>2, <1>3 DEF Leaves, Evict
<1>5. SlotsCounted' /\ instances' \in 0..maxClients'
  <2>1. Holders(session') = Holders(session)
    BY <1>3, <1>4, LeavesEntries, SameHolders, SMT
  <2> QED
    BY <1>2, <2>1, SlotsAre, BoundTyped DEF ServerInv
<1> QED
  BY <1>2, <1>4, <1>5, LeavesInv

\* releaseResourceReservation, and the worker is done.
LEMMA ReleaseInv ==
  ASSUME ServerInv, UNCHANGED options, NEW s \in Sessions, ReleaseReservation(s)
  PROVE  ServerInv'
<1>1. /\ session[s].step = "refund" /\ session' = [session EXCEPT ![s] = Gone]
      /\ instances' = IF session[s].reserved THEN instances - 1 ELSE instances
      /\ UNCHANGED <<created, registries, listener, toClose, lifecycle>>
  BY DEF ReleaseReservation
<1>2. TypeOK /\ session[s] \in SessionRecord /\ None \notin Sessions /\ s # None
  BY SMTT(30) DEF ServerInv, TypeOK, None, Sessions
<1>3. ~Registered(s) /\ \A p \in PeerAddresses : byPeer[p] # s
  BY <1>1, <1>2, SMT DEF ServerInv, PeersTrue, Findable, Registered, TypeOK, SessionRecord
<1>4. /\ byPeer = Dropped(byPeer, s) /\ byIdentity = Dropped(byIdentity, s)
      /\ byPeerID = Dropped(byPeerID, s)
      /\ udpActive = Dropped(udpActive, s) /\ udpInitial = Dropped(udpInitial, s)
  <2>1. \A i \in Identities : byIdentity[i] # s
    BY <1>2, <1>3 DEF ServerInv, EntriesTrue
  <2>2. \A n \in PeerIDs : byPeerID[n] # s
    BY <1>2, <1>3 DEF ServerInv, EntriesTrue
  <2>3. \A a \in Addresses : udpActive[a] # s
    BY <1>2, <1>3 DEF ServerInv, EntriesTrue
  <2>4. \A a \in Addresses : udpInitial[a] # s
    BY <1>2, <1>3, SMT DEF ServerInv, EntriesTrue, InitialAt
  <2>5. byPeer = Dropped(byPeer, s) /\ byIdentity = Dropped(byIdentity, s)
    BY <1>2, <1>3, <2>1 DEF Dropped, TypeOK
  <2>6. byPeerID = Dropped(byPeerID, s)
    BY <1>2, <2>2 DEF Dropped, TypeOK
  <2>7. udpActive = Dropped(udpActive, s) /\ udpInitial = Dropped(udpInitial, s)
    BY <1>2, <2>3, <2>4 DEF Dropped, TypeOK
  <2> QED
    BY <2>5, <2>6, <2>7
<1>5. Leaves(s, Gone)
  BY <1>1, <1>4, GoneTyped DEF Leaves, registries
<1>6. SlotsCounted' /\ instances' \in 0..maxClients'
  <2>1. /\ session'[s].reserved = FALSE /\ session[s].reserved \in BOOLEAN
        /\ \A t \in Sessions : t # s => session'[t] = session[t]
    BY <1>2, <1>5, LeavesEntries, GoneTyped, SMT DEF SessionRecord
  <2> QED
    BY <1>1, <2>1, SlotReturned
<1> QED
  BY <1>1, <1>5, <1>6, LeavesInv

\* reserveLoopWorker: the session's goroutine starts, or the session is taken back.
LEMMA StartWorkerInv ==
  ASSUME ServerInv, UNCHANGED options, StartWorker
  PROVE  ServerInv'
<1> DEFINE s == listener.session
<1>1. s \in Sessions /\ session[s].step = "new" /\ listener.step = "worker"
  BY DEF StartWorker, ServerInv, ListenerTrue
<1>2. session[s] \in SessionRecord /\ session \in [Sessions -> SessionRecord]
  BY <1>1 DEF ServerInv, TypeOK
<1>3. listener' = ListenerIdle /\ UNCHANGED <<created, toClose, lifecycle>>
  BY DEF StartWorker
<1>4. ListenerIdle.step = "idle"
  BY IdleTyped
<1>5. CASE ~Running
  <2>1. /\ session' = [session EXCEPT ![s] = Gone] /\ Evict(s)
        /\ instances' = IF session[s].reserved THEN instances - 1 ELSE instances
    BY <1>5 DEF StartWorker
  <2>2. Leaves(s, Gone)
    BY <1>1, <1>3, <2>1, GoneTyped DEF Leaves, Evict
  <2>3. SlotsCounted' /\ instances' \in 0..maxClients'
    <3>1. /\ session'[s].reserved = FALSE /\ session[s].reserved \in BOOLEAN
          /\ \A t \in Sessions : t # s => session'[t] = session[t]
      BY <1>1, <1>2, <2>2, LeavesEntries, GoneTyped, SMT DEF SessionRecord
    <3> QED
      BY <1>1, <1>3, <1>4, <2>1, <3>1, SlotReturned
  <2> QED
    BY <1>1, <1>3, <2>2, <2>3, LeavesInv
<1>6. CASE Running
  <2> DEFINE x == [session[s] EXCEPT !.step = "handshake"]
  <2>1. session' = [session EXCEPT ![s] = x] /\ UNCHANGED <<registries, instances>>
    BY <1>1, <1>2, <1>6 DEF StartWorker
  <2>2. /\ x \in SessionRecord /\ x.step = "handshake" /\ x.peer = session[s].peer
        /\ x.address = session[s].address /\ x.peerID = session[s].peerID
        /\ x.reserved = session[s].reserved
    BY <1>2 DEF SessionRecord
  <2> HIDE DEF x
  <2>3. IsInitial(s) => ~session[s].reserved
    BY <1>1, InitialIs
  <2>4. Quiet(s, x)
    BY <1>1, <1>3, <1>6, <2>1, <2>2, <2>3
    DEF Quiet, InitialSteps, Live, Running, registries, ServerInv, TypeOK
  <2>5. QuietOwner(s, x)
    BY <1>3, <2>1, <2>2 DEF QuietOwner, ServerInv, TypeOK, registries
  <2> QED
    BY <1>1, <2>1, <2>2, <2>4, <2>5, QuietInv
<1> QED
  BY <1>5, <1>6

-----------------------------------------------------------------------------
(* Steps that no session sees *)

ListenerRecord ==
  [step : {"idle", "reserve", "register", "initial", "worker", "stopped"},
   address : Addresses, session : Sessions \cup {None}]

\* The sessions and the registries stay.
LEMMA SameSessions ==
  ASSUME ServerInv, UNCHANGED <<options, session, created, registries>>,
         listener' \in ListenerRecord, instances' \in 0..maxClients',
         toClose \subseteq toClose', toClose' \subseteq Sessions,
         lifecycle' \in {"running", "closing", "draining", "closed"},
         ListenerTrue', SlotsCounted', NothingRuns'
  PROVE  ServerInv'
<1>1. UNCHANGED <<byPeer, byIdentity, byPeerID, udpActive, udpInitial>>
  BY DEF registries
<1>2. Transport' = Transport
  BY DEF Transport
<1>3. TypeOK'
  BY <1>1 DEF ServerInv, TypeOK, ListenerRecord
<1>4. PeersTrue'
  BY <1>1, <1>2 DEF ServerInv, PeersTrue, Findable
<1>5. EntriesTrue'
  BY <1>1, <1>2, SMT DEF ServerInv, EntriesTrue, Registered, InitialAt
<1>6. PeerIDsKept' /\ StepsTrue'
  BY <1>1, <1>2 DEF ServerInv, PeerIDsKept, StepsTrue, Registered, Live
<1>7. OneOwner'
  BY <1>1 DEF ServerInv, OneOwner, Registered
<1> QED
  BY <1>3, <1>4, <1>5, <1>6, <1>7 DEF ServerInv

\* A listener that goes on, without a session.
LEMMA ListenerInv ==
  ASSUME ServerInv, UNCHANGED options,
         \/ \E a \in Arriving : Arrive(a)
         \/ ReserveInstance
         \/ StopListening
  PROVE  ServerInv'
<1>1. /\ maxClients \in Nat /\ instances \in 0..maxClients /\ maxClients' = maxClients
      /\ Transport' = Transport /\ Transport \in {"udp", "tcp"}
  BY BoundTyped, OptionsTyped DEF ServerInv, TypeOK, Transport
<1>2. /\ listener \in ListenerRecord /\ toClose \subseteq Sessions
      /\ lifecycle \in {"running", "closing", "draining", "closed"}
      /\ created \in 0..MaxSessions /\ MaxSessions \in Nat
  BY ServerAssumption DEF ServerInv, TypeOK, ListenerRecord
<1>3. UNCHANGED <<options, session, created, registries, toClose, lifecycle>>
  BY DEF Arrive, ReserveInstance, StopListening
<1>4. ASSUME NEW a \in Arriving, Arrive(a) PROVE ServerInv'
  <2> DEFINE k == IF Transport = "tcp" \/ (udpActive[a] = None /\ udpInitial[a] = None)
                  THEN "reserve" ELSE "initial"
  <2>1. a \in Addresses /\ Beginning \in 0..MaxSessions
    BY OptionsTyped DEF ServerInv, TypeOK
  <2>2. /\ listener.step = "idle" /\ created < Beginning /\ UNCHANGED instances
        /\ listener' = [step |-> k, address |-> a, session |-> None]
    BY <1>4 DEF Arrive
  <2>3. k \in {"reserve", "initial"} /\ (k = "initial" => Transport = "udp")
    BY <1>1
  <2> HIDE DEF k
  <2>4. listener' \in ListenerRecord /\ listener'.step = k
    BY <2>1, <2>2, <2>3 DEF ListenerRecord
  <2>5. ListenerTrue'
    BY <1>1, <1>2, <1>3, <2>1, <2>2, <2>3, <2>4, SMT DEF ListenerTrue
  <2>6. SlotsCounted'
    BY <1>3, <2>2, <2>3, <2>4, SlotsAre DEF ServerInv
  <2>7. NothingRuns'
    BY <1>3, <2>2 DEF ServerInv, NothingRuns
  <2> QED
    BY <1>1, <1>2, <1>3, <2>2, <2>4, <2>5, <2>6, <2>7, SameSessions
<1>5. CASE ReserveInstance
  <2>1. listener.step = "reserve" /\ created < MaxSessions
    BY <1>5 DEF ReserveInstance, ServerInv, ListenerTrue
  <2>2. lifecycle # "closed"
    BY <2>1 DEF ServerInv, NothingRuns
  <2>3. NothingRuns'
    BY <1>3, <2>2 DEF NothingRuns
  <2>4. CASE instances >= maxClients
    <3>1. listener' = ListenerIdle /\ UNCHANGED instances
      BY <1>5, <2>4 DEF ReserveInstance
    <3>2. listener' \in ListenerRecord /\ listener'.step = "idle"
      BY <3>1, IdleTyped DEF ListenerRecord
    <3>3. ListenerTrue'
      BY <3>2 DEF ListenerTrue
    <3>4. SlotsCounted'
      BY <1>3, <2>1, <3>1, <3>2, SlotsAre DEF ServerInv
    <3> QED
      BY <1>1, <1>2, <1>3, <2>3, <3>1, <3>2, <3>3, <3>4, SameSessions
  <2>5. CASE ~(instances >= maxClients)
    <3>1. listener' = [listener EXCEPT !.step = "register"] /\ instances' = instances + 1
      BY <1>5, <2>5 DEF ReserveInstance
    <3>2. listener' \in ListenerRecord /\ listener'.step = "register"
      BY <1>2, <3>1 DEF ListenerRecord
    <3>3. ListenerTrue'
      BY <1>3, <2>1, <3>2 DEF ListenerTrue
    <3>4. SlotsCounted' /\ instances' \in 0..maxClients'
      BY <1>1, <1>3, <2>1, <2>5, <3>1, <3>2, SlotsAre, HoldersFinite, SMT DEF ServerInv
    <3> QED
      BY <1>2, <1>3, <2>3, <3>2, <3>3, <3>4, SameSessions
  <2> QED
    BY <2>4, <2>5
<1>6. CASE StopListening
  <2>1. /\ listener.step = "idle" /\ listener' = [listener EXCEPT !.step = "stopped"]
        /\ UNCHANGED instances
    BY <1>6 DEF StopListening
  <2>2. listener' \in ListenerRecord /\ listener'.step = "stopped"
    BY <1>2, <2>1 DEF ListenerRecord
  <2>3. ListenerTrue'
    BY <2>2 DEF ListenerTrue
  <2>4. SlotsCounted'
    BY <1>3, <2>1, <2>2, SlotsAre DEF ServerInv
  <2>5. NothingRuns'
    BY <1>3, <2>1 DEF ServerInv, NothingRuns
  <2> QED
    BY <1>1, <1>2, <1>3, <2>1, <2>2, <2>3, <2>4, <2>5, SameSessions
<1> QED
  BY <1>4, <1>5, <1>6

\* Close of the server.
LEMMA CloseInv ==
  ASSUME ServerInv, UNCHANGED options, BeginClose \/ CloseSessions \/ EndClose
  PROVE  ServerInv'
<1>1. /\ instances \in 0..maxClients /\ maxClients' = maxClients /\ Transport' = Transport
      /\ listener \in ListenerRecord /\ toClose \subseteq Sessions
  BY BoundTyped DEF ServerInv, TypeOK, Transport, ListenerRecord
<1>2. /\ UNCHANGED <<options, session, created, registries, instances, listener>>
      /\ lifecycle' \in {"running", "closing", "draining", "closed"}
      /\ toClose \subseteq toClose' /\ toClose' \subseteq Sessions
  BY <1>1 DEF BeginClose, CloseSessions, EndClose
<1>3. ListenerTrue' /\ SlotsCounted'
  BY <1>1, <1>2, SlotsAre DEF ServerInv, ListenerTrue
<1>4. NothingRuns'
  BY <1>2 DEF BeginClose, CloseSessions, EndClose, NothingRuns, Live
<1> QED
  BY <1>1, <1>2, <1>3, <1>4, SameSessions

-----------------------------------------------------------------------------
(* Sessions that begin *)

\* Session s = created + 1 begins as x, under the peer address p; d is evicted, if it is one.
Begins(s, x, p, d) ==
  /\ s = created + 1 /\ created' = s /\ session' = [session EXCEPT ![s] = x]
  /\ x \in SessionRecord /\ x.step = "new" /\ x.peer = p /\ x.peerID = NoPeerID
  /\ p \in PeerAddresses /\ p[2] <= s /\ (byPeer[p] = None \/ byPeer[p] = d)
  /\ UNCHANGED <<options, lifecycle>> /\ (d # None => Registered(d))
  /\ byPeer' = [Dropped(byPeer, d) EXCEPT ![p] = s]
  /\ byIdentity' = Dropped(byIdentity, d) /\ byPeerID' = Dropped(byPeerID, d)
  /\ toClose \subseteq toClose'

\* Who is registered once s has begun.
LEMMA BeginsAt ==
  ASSUME ServerInv, NEW s \in Sessions, NEW x, NEW p, NEW d \in Sessions \cup {None},
         Begins(s, x, p, d)
  PROVE  /\ session' \in [Sessions -> SessionRecord] /\ session'[s] = x
         /\ \A t \in Sessions : t # s => session'[t] = session[t]
         /\ session[s].step = "none" /\ ~session[s].reserved /\ s # d
         /\ byPeer' \in [PeerAddresses -> Sessions \cup {None}]
         /\ \A q \in PeerAddresses : byPeer[q] # s
         /\ \A q \in PeerAddresses :
              byPeer'[q] = IF q = p THEN s ELSE IF byPeer[q] = d THEN None ELSE byPeer[q]
         /\ Registered(s)' /\ (d # None => ~Registered(d)')
         /\ \A t \in Sessions : t # s /\ t # d /\ Registered(t) => Registered(t)'
         /\ \A t \in Sessions : t # s /\ Registered(t)' => Registered(t)
         /\ None \notin Sessions /\ Transport' = Transport
<1>1. TypeOK /\ None \notin Sessions /\ Transport' = Transport /\ s # None
  BY SMT DEF ServerInv, None, Sessions, Begins, Transport
<1>2. /\ session' \in [Sessions -> SessionRecord] /\ session'[s] = x
      /\ \A t \in Sessions : t # s => session'[t] = session[t]
  BY <1>1 DEF Begins, TypeOK
<1>3. session[s].step = "none" /\ ~session[s].reserved
  BY <1>1, SMT DEF Begins, ServerInv, StepsTrue, Live, TypeOK
<1>4. \A q \in PeerAddresses : byPeer[q] # s
  BY <1>1, <1>3 DEF ServerInv, PeersTrue, Findable
<1>5. \A t \in Sessions : session[t].peer \in PeerAddresses
  BY <1>1 DEF TypeOK, SessionRecord
<1>6. /\ byPeer' \in [PeerAddresses -> Sessions \cup {None}]
      /\ \A q \in PeerAddresses :
           byPeer'[q] = IF q = p THEN s ELSE IF byPeer[q] = d THEN None ELSE byPeer[q]
  <2>1. /\ Dropped(byPeer, d) \in [PeerAddresses -> Sessions \cup {None}]
        /\ \A q \in PeerAddresses : Dropped(byPeer, d)[q] = IF byPeer[q] = d THEN None ELSE byPeer[q]
    BY <1>1, DroppedAt
  <2>2. byPeer' = [Dropped(byPeer, d) EXCEPT ![p] = s] /\ p \in PeerAddresses
    BY DEF Begins
  <2> QED
    BY <2>1, <2>2
<1>7. Registered(s)'
  BY <1>2, <1>6 DEF Begins, Registered
<1>8. ASSUME NEW t \in Sessions, t # s, t # d, Registered(t) PROVE Registered(t)'
  <2>1. session'[t].peer = session[t].peer /\ byPeer[session[t].peer] = t
    BY <1>2, <1>8 DEF Registered
  <2>2. session[t].peer # p
    BY <1>1, <1>8, <2>1 DEF Begins
  <2> QED
    BY <1>5, <1>6, <1>8, <2>1, <2>2 DEF Registered
<1>9. ASSUME NEW t \in Sessions, t # s, Registered(t)' PROVE Registered(t) /\ t # d
  <2>1. session'[t].peer = session[t].peer /\ byPeer'[session[t].peer] = t
    BY <1>2, <1>9 DEF Registered
  <2> QED
    BY <1>1, <1>5, <1>6, <1>9, <2>1 DEF Registered
<1>10. s # d
  BY <1>1, <1>4, <1>5 DEF Begins, Registered
<1>11. d # None => ~Registered(d)'
  BY <1>9, <1>10
<1> QED
  BY <1>1, <1>2, <1>3, <1>4, <1>6, <1>7, <1>8, <1>9, <1>10, <1>11

\* What a new session leaves as it was.
LEMMA BeginsEntries ==
  ASSUME ServerInv, NEW s \in Sessions, NEW x, NEW p, NEW d \in Sessions \cup {None},
         Begins(s, x, p, d)
  PROVE  /\ PeersTrue' /\ PeerIDsKept' /\ StepsTrue' /\ OneOwner'
         /\ byIdentity' \in [Identities -> Sessions \cup {None}]
         /\ byPeerID' \in [PeerIDs -> Sessions \cup {None}]
         /\ \A i \in Identities : byIdentity'[i] # None => Registered(byIdentity[i])'
         /\ \A n \in PeerIDs : byPeerID'[n] # None => Registered(byPeerID[n])'
<1>1. TypeOK /\ created \in Nat /\ created' = created + 1 /\ s = created + 1
  BY ServerAssumption, SMTT(30) DEF ServerInv, Begins, TypeOK
<1>2. /\ session' \in [Sessions -> SessionRecord] /\ session'[s] = x
      /\ \A t \in Sessions : t # s => session'[t] = session[t]
      /\ session[s].step = "none" /\ s # d
      /\ Registered(s)' /\ (d # None => ~Registered(d)')
      /\ \A t \in Sessions : t # s /\ t # d /\ Registered(t) => Registered(t)'
      /\ \A t \in Sessions : t # s /\ Registered(t)' => Registered(t)
      /\ None \notin Sessions /\ Transport' = Transport
  BY BeginsAt, SMT
<1>3. /\ \A q \in PeerAddresses : byPeer[q] # s
      /\ \A q \in PeerAddresses :
           byPeer'[q] = IF q = p THEN s ELSE IF byPeer[q] = d THEN None ELSE byPeer[q]
  BY BeginsAt, SMTT(30)
<1>4. /\ byIdentity' \in [Identities -> Sessions \cup {None}]
      /\ byPeerID' \in [PeerIDs -> Sessions \cup {None}]
      /\ \A i \in Identities : byIdentity'[i] = IF byIdentity[i] = d THEN None ELSE byIdentity[i]
      /\ \A n \in PeerIDs : byPeerID'[n] = IF byPeerID[n] = d THEN None ELSE byPeerID[n]
  BY <1>1, DroppedAt, SMT DEF Begins
<1>5. PeersTrue'
  <2> SUFFICES ASSUME NEW q \in PeerAddresses, byPeer'[q] # None
               PROVE  q[2] <= created' /\ session'[byPeer'[q]].peer = q /\ Findable(byPeer[q])'
    BY DEF PeersTrue
  <2>1. CASE q = p
    <3>1. byPeer'[q] = s /\ x.step = "new" /\ x.peer = p /\ p[2] <= s
      BY <1>3, <2>1 DEF Begins
    <3> QED
      BY <1>1, <1>2, <2>1, <3>1 DEF Findable
  <2>2. CASE q # p
    <3>1. byPeer'[q] = byPeer[q] /\ byPeer[q] \in Sessions \ {s}
      BY <1>1, <1>3, <2>2, SMT DEF TypeOK
    <3>2. q[2] <= created /\ session[byPeer[q]].peer = q /\ Findable(byPeer[q])
      BY <1>2, <3>1 DEF ServerInv, PeersTrue
    <3>3. q[2] \in Nat
      BY SMT DEF PeerAddresses
    <3>4. q[2] <= created'
      BY <1>1, <3>2, <3>3, SMT
    <3>5. session'[byPeer'[q]] = session[byPeer[q]]
      BY <1>2, <3>1
    <3> QED
      BY <1>2, <3>1, <3>2, <3>4, <3>5 DEF Findable
  <2> QED
    BY <2>1, <2>2
<1>6. PeerIDsKept'
  <2> SUFFICES ASSUME NEW t \in Sessions, Registered(t)', session'[t].peerID # NoPeerID
               PROVE  byPeerID'[session'[t].peerID] = t
    BY DEF PeerIDsKept
  <2>1. t # s
    BY <1>2 DEF Begins
  <2>2. Registered(t) /\ session'[t] = session[t] /\ t # d
    BY <1>2, <2>1
  <2>3. session[t].peerID \in PeerIDs /\ byPeerID[session[t].peerID] = t
    BY <1>1, <2>2 DEF ServerInv, PeerIDsKept, TypeOK, SessionRecord
  <2> QED
    BY <1>4, <2>2, <2>3
<1>7. StepsTrue'
  <2> SUFFICES ASSUME NEW t \in Sessions
               PROVE  /\ session'[t].step = "none" <=> t > created'
                      /\ session'[t].reserved => Live(t)'
                      /\ session'[t].step = "claim" => session'[t].identity \in Identities
                      /\ session'[t].step = "unregister" /\ Transport' = "udp" =>
                           session'[t].finished
    BY DEF StepsTrue
  <2>1. CASE t # s
    <3>1. session'[t] = session[t] /\ t \in Nat
      BY <1>2, <2>1, SMT DEF Sessions
    <3>2. t > created <=> t > created'
      BY <1>1, <2>1, <3>1, SMT
    <3> QED
      BY <1>2, <3>1, <3>2 DEF ServerInv, StepsTrue, Live
  <2>2. CASE t = s
    <3>1. session'[t].step = "new"
      BY <1>2, <2>2 DEF Begins
    <3> QED
      BY <1>1, <2>2, <3>1, SMT DEF Live
  <2> QED
    BY <2>1, <2>2
<1>8. OneOwner'
  <2> SUFFICES ASSUME NEW t \in Sessions, session'[t].step = "up", session'[t].identity # Nobody,
                      Registered(t)', ~session'[t].closed, t \notin toClose'
               PROVE  byIdentity'[session'[t].identity] = t
    BY DEF OneOwner
  <2>1. t # s
    BY <1>2 DEF Begins
  <2>2. Registered(t) /\ session'[t] = session[t] /\ t # d /\ t \notin toClose
    BY <1>2, <2>1 DEF Begins
  <2>3. session[t].identity \in Identities /\ byIdentity[session[t].identity] = t
    BY <1>1, <2>2 DEF ServerInv, OneOwner, TypeOK, SessionRecord
  <2> QED
    BY <1>4, <2>2, <2>3
<1>9. ASSUME NEW i \in Identities, byIdentity'[i] # None PROVE Registered(byIdentity[i])'
  <2>1. byIdentity'[i] = byIdentity[i] /\ byIdentity[i] \in Sessions /\ byIdentity[i] # d
    BY <1>1, <1>2, <1>4, <1>9, SMT DEF TypeOK
  <2>2. Registered(byIdentity[i])
    BY <1>2, <2>1 DEF ServerInv, EntriesTrue
  <2>3. byIdentity[i] # s
    BY <1>1, <1>3, <2>1, <2>2 DEF Registered, TypeOK, SessionRecord
  <2> QED
    BY <1>2, <2>1, <2>2, <2>3
<1>10. ASSUME NEW n \in PeerIDs, byPeerID'[n] # None PROVE Registered(byPeerID[n])'
  <2>1. byPeerID'[n] = byPeerID[n] /\ byPeerID[n] \in Sessions /\ byPeerID[n] # d
    BY <1>1, <1>2, <1>4, <1>10 DEF TypeOK
  <2>2. Registered(byPeerID[n])
    BY <1>2, <2>1 DEF ServerInv, EntriesTrue
  <2>3. byPeerID[n] # s
    BY <1>1, <1>3, <2>1, <2>2 DEF Registered, TypeOK, SessionRecord
  <2> QED
    BY <1>2, <2>1, <2>2, <2>3
<1> QED
  BY <1>4, <1>5, <1>6, <1>7, <1>8, <1>9, <1>10

\* A session that begins is at its own address in one of the two UDP registries at most.
BeginsAtAddress(s, x, d) ==
  /\ udpActive' \in [Addresses -> Sessions \cup {None}]
  /\ udpInitial' \in [Addresses -> Sessions \cup {None}]
  /\ \A a \in Addresses :
       udpActive'[a] # None =>
         \/ udpActive'[a] = udpActive[a] /\ udpActive[a] # d
         \/ udpActive'[a] = s /\ x.address = a /\ Transport = "udp"
  /\ \A a \in Addresses :
       udpInitial'[a] # None =>
         \/ udpInitial'[a] = udpInitial[a] /\ udpInitial[a] # d
         \/ /\ udpInitial'[a] = s /\ x.address = a /\ Transport = "udp" /\ ~x.reserved
            /\ \A b \in Addresses : udpActive'[b] # s

\* A session begins, and its listener goes on to start its worker.
LEMMA BeginsInv ==
  ASSUME ServerInv, NEW s \in Sessions, NEW x, NEW p, NEW d \in Sessions \cup {None},
         Begins(s, x, p, d), BeginsAtAddress(s, x, d), Running, toClose' \subseteq Sessions,
         listener' = [listener EXCEPT !.step = "worker", !.session = s],
         SlotsCounted', instances' \in 0..maxClients'
  PROVE  ServerInv'
<1>1. /\ session' \in [Sessions -> SessionRecord] /\ session'[s] = x
      /\ \A t \in Sessions : t # s => session'[t] = session[t]
      /\ byPeer' \in [PeerAddresses -> Sessions \cup {None}]
      /\ \A q \in PeerAddresses : byPeer[q] # s
      /\ Registered(s)'
      /\ \A t \in Sessions : t # s /\ t # d /\ Registered(t) => Registered(t)'
      /\ None \notin Sessions /\ Transport' = Transport
  BY BeginsAt
<1>2. /\ PeersTrue' /\ PeerIDsKept' /\ StepsTrue' /\ OneOwner'
      /\ byIdentity' \in [Identities -> Sessions \cup {None}]
      /\ byPeerID' \in [PeerIDs -> Sessions \cup {None}]
      /\ \A i \in Identities : byIdentity'[i] # None => Registered(byIdentity[i])'
      /\ \A n \in PeerIDs : byPeerID'[n] # None => Registered(byPeerID[n])'
  BY BeginsEntries
<1>3. /\ listener \in ListenerRecord /\ x.step = "new" /\ created' \in Sessions
      /\ lifecycle' = "running" /\ options' \in Options
  BY DEF Begins, Running, ServerInv, TypeOK, ListenerRecord
<1>4. listener' \in ListenerRecord /\ listener'.step = "worker" /\ listener'.session = s
  BY <1>3 DEF ListenerRecord
<1>5. TypeOK'
  <2>1. created' \in 0..MaxSessions
    BY <1>3, SMT DEF Sessions
  <2> QED
    BY <1>1, <1>2, <1>3, <1>4, <2>1 DEF TypeOK, ListenerRecord, BeginsAtAddress
<1>6. ListenerTrue' /\ NothingRuns'
  BY <1>1, <1>3, <1>4 DEF ListenerTrue, NothingRuns
<1>7. \A t \in Sessions : Registered(t) => t # s
  BY <1>1 DEF Registered, ServerInv, TypeOK, SessionRecord
<1>8. ASSUME NEW a \in Addresses, udpActive'[a] # None
      PROVE  /\ Transport' = "udp" /\ Registered(udpActive[a])'
             /\ session'[udpActive'[a]].address = a
  <2>1. CASE udpActive'[a] = udpActive[a] /\ udpActive[a] # d
    <3>1. udpActive[a] \in Sessions
      BY <1>8, <2>1 DEF ServerInv, TypeOK
    <3>2. Transport = "udp" /\ Registered(udpActive[a]) /\ session[udpActive[a]].address = a
      BY <1>8, <2>1 DEF ServerInv, EntriesTrue
    <3> QED
      BY <1>1, <1>7, <2>1, <3>1, <3>2
  <2>2. CASE udpActive'[a] = s /\ x.address = a /\ Transport = "udp"
    BY <1>1, <2>2
  <2> QED
    BY <1>8, <2>1, <2>2 DEF BeginsAtAddress
<1>9. ASSUME NEW a \in Addresses, udpInitial'[a] # None PROVE InitialAt(udpInitial[a], a)'
  <2>1. CASE udpInitial'[a] = udpInitial[a] /\ udpInitial[a] # d
    <3> DEFINE t == udpInitial[a]
    <3>1. t \in Sessions /\ InitialAt(t, a)
      BY <1>9, <2>1 DEF ServerInv, TypeOK, EntriesTrue
    <3>2. Registered(t)' /\ t # s /\ session'[t] = session[t]
      BY <1>1, <1>7, <2>1, <3>1 DEF InitialAt
    <3>3. ASSUME NEW b \in Addresses PROVE udpActive'[b] # t
      BY <1>1, <3>1, <3>2, SMT DEF BeginsAtAddress, InitialAt
    <3>4. \A b \in Addresses : udpActive'[b] # udpInitial'[a]
      BY <2>1, <3>3
    <3> QED
      BY <1>1, <2>1, <3>1, <3>2, <3>4 DEF InitialAt
  <2>2. CASE /\ udpInitial'[a] = s /\ x.address = a /\ Transport = "udp" /\ ~x.reserved
             /\ \A b \in Addresses : udpActive'[b] # s
    BY <1>1, <1>3, <2>2 DEF InitialAt
  <2> QED
    BY <1>9, <2>1, <2>2 DEF BeginsAtAddress
<1>10. EntriesTrue'
  BY <1>2, <1>8, <1>9 DEF EntriesTrue
<1> QED
  BY <1>2, <1>5, <1>6, <1>10 DEF ServerInv

\* bindPeerAddressLocked: the address given to session created + 1 is free.
LEMMA StablePeerFree ==
  ASSUME ServerInv, NEW a \in Addresses, NEW d \in Sessions \cup {None}, created < MaxSessions,
         NEW peers \in [PeerAddresses -> Sessions \cup {None}],
         \A q \in PeerAddresses : peers[q] = IF byPeer[q] = d THEN None ELSE byPeer[q]
  PROVE  /\ StablePeerAddress(peers, a) \in PeerAddresses
         /\ StablePeerAddress(peers, a)[2] <= created + 1
         /\ \/ byPeer[StablePeerAddress(peers, a)] = None
            \/ byPeer[StablePeerAddress(peers, a)] = d
<1>1. created \in 0..MaxSessions /\ MaxSessions \in Nat
  BY ServerAssumption DEF ServerInv, TypeOK
<1>2. <<a, 0>> \in PeerAddresses /\ <<a, created + 1>> \in PeerAddresses
  BY <1>1, SMT DEF PeerAddresses
<1>3. byPeer[<<a, created + 1>>] = None
  <2>1. ~(<<a, created + 1>>[2] <= created)
    BY <1>1, SMT
  <2> QED
    BY <1>2, <2>1 DEF ServerInv, PeersTrue
<1>4. CASE peers[<<a, 0>>] = None
  BY <1>1, <1>2, <1>4, SMT DEF StablePeerAddress
<1>5. CASE peers[<<a, 0>>] # None
  BY <1>1, <1>2, <1>3, <1>5, SMT DEF StablePeerAddress
<1> QED
  BY <1>4, <1>5

\* registerSession.
LEMMA RegisterSessionInv ==
  ASSUME ServerInv, UNCHANGED options, RegisterSession
  PROVE  ServerInv'
<1> DEFINE a == listener.address
           s == created + 1
           peer == StablePeerAddress(byPeer, a)
           refused == ~Running \/ (Transport = "udp" /\ udpActive[a] # None)
<1>1. /\ listener.step = "register" /\ created < MaxSessions
      /\ UNCHANGED <<byIdentity, byPeerID, udpInitial, toClose, lifecycle>>
  BY DEF RegisterSession, ServerInv, ListenerTrue
<1>2. /\ TypeOK /\ a \in Addresses /\ toClose \subseteq Sessions /\ listener \in ListenerRecord
      /\ lifecycle \in {"running", "closing", "draining", "closed"}
  BY DEF ServerInv, TypeOK, ListenerRecord
<1>3. /\ maxClients \in Nat /\ instances \in 0..maxClients /\ maxClients' = maxClients
      /\ Cardinality(Holders(session)) \in Nat
      /\ instances = Cardinality(Holders(session)) + 1
  BY <1>1, BoundTyped, HoldersFinite, SlotsAre DEF ServerInv
<1>4. CASE refused
  <2>1. /\ instances' = instances - 1 /\ listener' = ListenerIdle
        /\ UNCHANGED <<session, created, registries>>
    BY <1>1, <1>4 DEF RegisterSession, registries
  <2>2. listener' \in ListenerRecord /\ listener'.step = "idle"
    BY <2>1, IdleTyped DEF ListenerRecord
  <2>3. ListenerTrue'
    BY <2>2 DEF ListenerTrue
  <2>4. SlotsCounted' /\ instances' \in 0..maxClients'
    BY <1>3, <2>1, <2>2, SlotsAre, SMT
  <2>5. NothingRuns'
    BY <1>1, <2>1 DEF ServerInv, NothingRuns
  <2> QED
    BY <1>1, <1>2, <2>1, <2>2, <2>3, <2>4, <2>5, SameSessions
<1>5. CASE ~refused
  <2> DEFINE x == [NewSession(a) EXCEPT !.peer = peer, !.reserved = TRUE]
  <2>1. /\ Running /\ created' = s /\ session' = [session EXCEPT ![s] = x]
        /\ byPeer' = [byPeer EXCEPT ![peer] = s] /\ UNCHANGED instances
        /\ udpActive' = IF Transport = "udp" THEN [udpActive EXCEPT ![a] = s] ELSE udpActive
        /\ listener' = [listener EXCEPT !.step = "worker", !.session = s]
    BY <1>5 DEF RegisterSession
  <2>2. /\ byPeer \in [PeerAddresses -> Sessions \cup {None}] /\ None \in Sessions \cup {None}
        /\ \A q \in PeerAddresses : byPeer[q] = IF byPeer[q] = None THEN None ELSE byPeer[q]
    BY <1>2 DEF TypeOK
  <2>3. peer \in PeerAddresses /\ peer[2] <= created + 1 /\ byPeer[peer] = None
    BY <1>1, <1>2, <2>2, StablePeerFree
  <2>4. /\ x \in SessionRecord /\ x.step = "new" /\ x.address = a /\ x.peer = peer
        /\ x.reserved = TRUE /\ x.peerID = NoPeerID
    <3> HIDE DEF peer, a
    <3>1. a \in Addresses /\ peer \in PeerAddresses
      BY <1>2, <2>3
    <3> QED
      BY <3>1 DEF NewSession, SessionRecord, NoPeerID, None
  <2>5. s \in Sessions /\ created \in Nat
    BY <1>1, <1>2, ServerAssumption, SMT DEF TypeOK, Sessions
  <2> HIDE DEF x, peer, s, a, refused
  <2>6. /\ byPeer = Dropped(byPeer, None) /\ byIdentity = Dropped(byIdentity, None)
        /\ byPeerID = Dropped(byPeerID, None)
    <3>1. byPeer = Dropped(byPeer, None)
      BY <1>2 DEF Dropped, TypeOK
    <3>2. byIdentity = Dropped(byIdentity, None)
      BY <1>2 DEF Dropped, TypeOK
    <3>3. byPeerID = Dropped(byPeerID, None)
      BY <1>2 DEF Dropped, TypeOK
    <3> QED
      BY <3>1, <3>2, <3>3
  <2>7. Begins(s, x, peer, None)
    <3>1. s = created + 1
      BY DEF s
    <3> QED
      BY <1>1, <2>1, <2>3, <2>4, <2>6, <3>1 DEF Begins
  <2>8. BeginsAtAddress(s, x, None)
    <3>1. udpActive' \in [Addresses -> Sessions \cup {None}] /\ UNCHANGED udpInitial
      BY <1>1, <1>2, <2>1, <2>5 DEF TypeOK
    <3>2. \A b \in Addresses : udpActive'[b] # udpActive[b] => b = a /\ udpActive'[b] = s /\ Transport = "udp"
      BY <1>2, <2>1 DEF TypeOK
    <3> QED
      BY <1>2, <2>4, <3>1, <3>2 DEF BeginsAtAddress, TypeOK
  <2>9. SlotsCounted' /\ instances' \in 0..maxClients'
    <3>1. /\ session'[s] = x /\ ~session[s].reserved
          /\ \A t \in Sessions : t # s => session'[t] = session[t]
      BY <2>5, <2>7, BeginsAt
    <3>2. Cardinality(Holders(session')) = Cardinality(Holders(session)) + 1
      BY <2>4, <2>5, <3>1, OneMore
    <3>3. listener'.step = "worker"
      BY <1>2, <2>1 DEF ListenerRecord
    <3> QED
      BY <1>3, <2>1, <3>2, <3>3, SlotsAre, SMT
  <2> QED
    BY <1>1, <1>2, <2>1, <2>5, <2>7, <2>8, <2>9, BeginsInv
<1> QED
  BY <1>4, <1>5

\* registerInitialSession.
LEMMA RegisterInitialInv ==
  ASSUME ServerInv, UNCHANGED options, RegisterInitialSession
  PROVE  ServerInv'
<1> DEFINE a == listener.address
           s == created + 1
           d == udpInitial[a]
           peer == StablePeerAddress(Dropped(byPeer, d), a)
<1>1. /\ listener.step = "initial" /\ created < MaxSessions /\ Transport = "udp"
      /\ UNCHANGED <<instances, lifecycle>>
  BY DEF RegisterInitialSession, ServerInv, ListenerTrue
<1>2. /\ TypeOK /\ a \in Addresses /\ toClose \subseteq Sessions /\ listener \in ListenerRecord
      /\ lifecycle \in {"running", "closing", "draining", "closed"}
      /\ d \in Sessions \cup {None} /\ None \notin Sessions
  BY SMT DEF ServerInv, TypeOK, ListenerRecord, None, Sessions
<1>3. /\ maxClients \in Nat /\ instances \in 0..maxClients /\ maxClients' = maxClients
      /\ instances = Cardinality(Holders(session)) /\ Cardinality(Holders(session)) \in Nat
  BY <1>1, BoundTyped, HoldersFinite, SlotsAre, SMT DEF ServerInv
<1>4. CASE ~Running
  <2>1. listener' = ListenerIdle /\ UNCHANGED <<session, created, registries, toClose>>
    BY <1>4 DEF RegisterInitialSession
  <2>2. listener' \in ListenerRecord /\ listener'.step = "idle"
    BY <2>1, IdleTyped DEF ListenerRecord
  <2>3. ListenerTrue'
    BY <2>2 DEF ListenerTrue
  <2>4. SlotsCounted' /\ instances' \in 0..maxClients'
    BY <1>1, <1>3, <2>1, <2>2, SlotsAre, SMT
  <2>5. NothingRuns'
    BY <1>1, <2>1 DEF ServerInv, NothingRuns
  <2> QED
    BY <1>1, <1>2, <2>1, <2>2, <2>3, <2>4, <2>5, SameSessions
<1>5. CASE Running
  <2> DEFINE x == [NewSession(a) EXCEPT !.peer = peer]
  <2>1. /\ created' = s /\ session' = [session EXCEPT ![s] = x]
        /\ byPeer' = [Dropped(byPeer, d) EXCEPT ![peer] = s]
        /\ byIdentity' = Dropped(byIdentity, d) /\ byPeerID' = Dropped(byPeerID, d)
        /\ udpActive' = Dropped(udpActive, d) /\ udpInitial' = [udpInitial EXCEPT ![a] = s]
        /\ toClose' = toClose \cup ({d} \ {None})
        /\ listener' = [listener EXCEPT !.step = "worker", !.session = s]
    BY <1>5 DEF RegisterInitialSession
  <2>2. d # None => InitialAt(d, a)
    BY <1>2 DEF ServerInv, EntriesTrue
  <2>3. s \in Sessions /\ created \in Nat
    BY <1>1, <1>2, ServerAssumption, SMT DEF TypeOK, Sessions
  <2> HIDE DEF d
  <2>4. /\ Dropped(byPeer, d) \in [PeerAddresses -> Sessions \cup {None}]
        /\ \A q \in PeerAddresses : Dropped(byPeer, d)[q] = IF byPeer[q] = d THEN None ELSE byPeer[q]
        /\ Dropped(udpActive, d) \in [Addresses -> Sessions \cup {None}]
        /\ \A b \in Addresses :
             Dropped(udpActive, d)[b] = IF udpActive[b] = d THEN None ELSE udpActive[b]
    BY <1>2, DroppedAt
  <2>5. peer \in PeerAddresses /\ peer[2] <= created + 1 /\ (byPeer[peer] = None \/ byPeer[peer] = d)
    <3> DEFINE peers == Dropped(byPeer, d)
    <3>1. /\ peers \in [PeerAddresses -> Sessions \cup {None}]
          /\ \A q \in PeerAddresses : peers[q] = IF byPeer[q] = d THEN None ELSE byPeer[q]
          /\ peer = StablePeerAddress(peers, a)
      BY <2>4
    <3> HIDE DEF peers, peer, a
    <3> QED
      BY <1>1, <1>2, <3>1, StablePeerFree
  <2>6. /\ x \in SessionRecord /\ x.step = "new" /\ x.address = a /\ x.peer = peer
        /\ x.reserved = FALSE /\ x.peerID = NoPeerID
    <3> HIDE DEF peer, a
    <3>1. a \in Addresses /\ peer \in PeerAddresses
      BY <1>2, <2>5
    <3> QED
      BY <3>1 DEF NewSession, SessionRecord, NoPeerID, None
  <2> HIDE DEF x, peer, s, a
  <2>7. Begins(s, x, peer, d)
    <3>1. s = created + 1
      BY DEF s
    <3>2. d # None => Registered(d)
      BY <2>2 DEF InitialAt
    <3> QED
      BY <1>1, <2>1, <2>5, <2>6, <3>1, <3>2 DEF Begins
  <2>8. BeginsAtAddress(s, x, d)
    <3>1. /\ session[s].step = "none" /\ s # d
          /\ \A q \in PeerAddresses : byPeer[q] # s
      BY <1>2, <2>3, <2>7, BeginsAt, SMT
    <3>2. ~Registered(s)
      BY <1>2, <2>3, <3>1 DEF Registered, TypeOK, SessionRecord
    <3>3. \A b \in Addresses : udpActive[b] # s
      BY <1>2, <2>3, <3>2 DEF ServerInv, EntriesTrue
    <3>4. /\ udpActive' \in [Addresses -> Sessions \cup {None}]
          /\ udpInitial' \in [Addresses -> Sessions \cup {None}]
      BY <1>2, <2>1, <2>3, <2>4 DEF TypeOK
    <3>5. \A b \in Addresses : udpActive'[b] # s
      BY <1>2, <2>1, <2>3, <2>4, <3>3
    <3>6. \A b \in Addresses :
            udpActive'[b] # None => udpActive'[b] = udpActive[b] /\ udpActive[b] # d
      BY <2>1, <2>4
    <3>7. ASSUME NEW b \in Addresses, udpInitial'[b] # None, b # a
          PROVE  udpInitial'[b] = udpInitial[b] /\ udpInitial[b] # d
      <4>1. udpInitial'[b] = udpInitial[b]
        BY <1>2, <2>1, <3>7 DEF TypeOK
      <4>2. session[udpInitial[b]].address = b
        BY <3>7, <4>1 DEF ServerInv, EntriesTrue, InitialAt
      <4> QED
        BY <2>2, <3>7, <4>1, <4>2 DEF InitialAt
    <3>8. udpInitial'[a] = s
      BY <1>2, <2>1 DEF TypeOK
    <3> QED
      BY <1>1, <2>6, <3>4, <3>5, <3>6, <3>7, <3>8 DEF BeginsAtAddress
  <2>9. SlotsCounted' /\ instances' \in 0..maxClients'
    <3>1. /\ session'[s] = x /\ ~session[s].reserved
          /\ \A t \in Sessions : t # s => session'[t] = session[t]
      BY <1>2, <2>3, <2>7, BeginsAt, SMT
    <3>2. session[s].reserved = FALSE
      BY <1>2, <2>3, <3>1 DEF TypeOK, SessionRecord
    <3>3. Holders(session') = Holders(session)
      BY <2>6, <3>1, <3>2, SameHolders
    <3>4. listener'.step = "worker"
      BY <1>2, <2>1 DEF ListenerRecord
    <3> QED
      BY <1>1, <1>3, <3>3, <3>4, SlotsAre, SMTT(30)
  <2>10. toClose' \subseteq Sessions
    BY <1>2, <2>1
  <2> QED
    BY <1>2, <1>5, <2>1, <2>3, <2>7, <2>8, <2>9, <2>10, BeginsInv
<1> QED
  BY <1>4, <1>5

-----------------------------------------------------------------------------
(* Sessions that take an address over *)

\* The registered session s becomes the active one of address a; d, which was, is evicted.
Binds(s, a, d) ==
  /\ session' \in [Sessions -> SessionRecord]
  /\ \A t \in Sessions : t \notin {s, d} => session'[t] = session[t]
  /\ \A t \in Sessions :
       /\ session'[t].peer = session[t].peer /\ session'[t].peerID = session[t].peerID
       /\ session'[t].identity = session[t].identity /\ session'[t].closed = session[t].closed
       /\ session'[t].finished = session[t].finished
       /\ t # s => session'[t].step = session[t].step /\ (session'[t].reserved => session[t].reserved)
  /\ Registered(s) /\ s # d /\ Transport = "udp" /\ session'[s].address = a
  /\ session[s].step \notin {"none", "new", "refund", "gone"}
  /\ session'[s].step = session[s].step \/ session'[s].step = "slot"
  /\ d # None => udpActive[a] = d
  /\ byPeer' = Dropped(byPeer, d) /\ byIdentity' = Dropped(byIdentity, d)
  /\ byPeerID' = Dropped(byPeerID, d)
  /\ udpActive' \in [Addresses -> Sessions \cup {None}] /\ udpActive'[a] = s
  /\ \A b \in Addresses :
       b # a /\ udpActive'[b] # None => udpActive'[b] = udpActive[b] /\ udpActive[b] # s
  /\ udpInitial' \in [Addresses -> Sessions \cup {None}]
  /\ \A b \in Addresses :
       udpInitial'[b] # None => udpInitial'[b] = udpInitial[b] /\ udpInitial[b] \notin {s, d}
  /\ toClose \subseteq toClose' /\ toClose' \subseteq Sessions
  /\ UNCHANGED <<options, created, listener, lifecycle>>

\* An initial session is registered and bound to no address yet.
LEMMA InitialInactive ==
  ASSUME ServerInv, NEW a \in Addresses, udpInitial[a] # None
  PROVE  Registered(udpInitial[a]) /\ \A b \in Addresses : udpActive[b] # udpInitial[a]
<1>1. InitialAt(udpInitial[a], a)
  BY DEF ServerInv, EntriesTrue
<1> QED
  BY <1>1 DEF InitialAt

\* Who is registered, and what the registries hold, once s is bound and d dropped.
Bound(s, d) ==
  /\ Registered(s)' /\ Transport' = Transport /\ None \notin Sessions
  /\ \A t \in Sessions : Registered(t)' => Registered(t) /\ t # d
  /\ \A t \in Sessions : Registered(t) /\ t # d => Registered(t)'
  /\ byPeer' \in [PeerAddresses -> Sessions \cup {None}]
  /\ byIdentity' \in [Identities -> Sessions \cup {None}]
  /\ byPeerID' \in [PeerIDs -> Sessions \cup {None}]
  /\ \A q \in PeerAddresses : byPeer'[q] = IF byPeer[q] = d THEN None ELSE byPeer[q]
  /\ \A i \in Identities : byIdentity'[i] = IF byIdentity[i] = d THEN None ELSE byIdentity[i]
  /\ \A n \in PeerIDs : byPeerID'[n] = IF byPeerID[n] = d THEN None ELSE byPeerID[n]

\* Who is registered once s is bound.
LEMMA BindsAt ==
  ASSUME ServerInv, NEW s \in Sessions, NEW a \in Addresses, NEW d \in Sessions \cup {None},
         Binds(s, a, d)
  PROVE  Bound(s, d)
<1>1. TypeOK /\ None \notin Sessions /\ Transport' = Transport
  BY SMT DEF ServerInv, None, Sessions, Binds, Transport
<1>2. /\ byPeer' \in [PeerAddresses -> Sessions \cup {None}]
      /\ byIdentity' \in [Identities -> Sessions \cup {None}]
      /\ byPeerID' \in [PeerIDs -> Sessions \cup {None}]
      /\ \A q \in PeerAddresses : byPeer'[q] = IF byPeer[q] = d THEN None ELSE byPeer[q]
      /\ \A i \in Identities : byIdentity'[i] = IF byIdentity[i] = d THEN None ELSE byIdentity[i]
      /\ \A n \in PeerIDs : byPeerID'[n] = IF byPeerID[n] = d THEN None ELSE byPeerID[n]
  <2>1. /\ byPeer' = Dropped(byPeer, d)
        /\ byIdentity' = Dropped(byIdentity, d)
        /\ byPeerID' = Dropped(byPeerID, d)
    BY DEF Binds
  <2>2. /\ Dropped(byPeer, d) \in [PeerAddresses -> Sessions \cup {None}]
        /\ Dropped(byIdentity, d) \in [Identities -> Sessions \cup {None}]
        /\ Dropped(byPeerID, d) \in [PeerIDs -> Sessions \cup {None}]
    BY <1>1, DroppedAt
  <2>3. \A q \in PeerAddresses : Dropped(byPeer, d)[q] = IF byPeer[q] = d THEN None ELSE byPeer[q]
    BY <1>1, DroppedAt
  <2>4. \A i \in Identities :
          Dropped(byIdentity, d)[i] = IF byIdentity[i] = d THEN None ELSE byIdentity[i]
    BY <1>1, DroppedAt
  <2>5. \A n \in PeerIDs :
          Dropped(byPeerID, d)[n] = IF byPeerID[n] = d THEN None ELSE byPeerID[n]
    BY <1>1, DroppedAt
  <2> QED
    BY <2>1, <2>2, <2>3, <2>4, <2>5
<1>3. ASSUME NEW t \in Sessions
      PROVE  session[t].peer \in PeerAddresses /\ session'[t].peer = session[t].peer
  BY <1>1, SMT DEF TypeOK, SessionRecord, Binds
<1>4. ASSUME NEW t \in Sessions, Registered(t)' PROVE Registered(t) /\ t # d
  <2>1. PICK q \in PeerAddresses : q = session[t].peer /\ q = session'[t].peer
    BY <1>3
  <2>2. byPeer'[q] = t
    BY <1>4, <2>1 DEF Registered
  <2>3. byPeer[q] = t /\ t # d
    BY <1>1, <1>2, <2>2
  <2> QED
    BY <2>1, <2>3 DEF Registered
<1>5. ASSUME NEW t \in Sessions, Registered(t), t # d PROVE Registered(t)'
  BY <1>1, <1>2, <1>3, <1>5 DEF Registered
<1>6. Registered(s)'
  BY <1>5 DEF Binds
<1> QED
  BY <1>1, <1>2, <1>4, <1>5, <1>6 DEF Bound

\* The registries after a session has taken an address over.
LEMMA BindsEntries ==
  ASSUME ServerInv, NEW s \in Sessions, NEW a \in Addresses, NEW d \in Sessions \cup {None},
         Binds(s, a, d)
  PROVE  PeersTrue' /\ EntriesTrue' /\ PeerIDsKept'
<1>0. Bound(s, d)
  BY BindsAt
<1>1. /\ Registered(s)' /\ Transport' = Transport /\ None \notin Sessions
      /\ \A t \in Sessions : Registered(t)' => Registered(t) /\ t # d
      /\ \A t \in Sessions : Registered(t) /\ t # d => Registered(t)'
      /\ \A q \in PeerAddresses : byPeer'[q] = IF byPeer[q] = d THEN None ELSE byPeer[q]
      /\ \A i \in Identities : byIdentity'[i] = IF byIdentity[i] = d THEN None ELSE byIdentity[i]
      /\ \A n \in PeerIDs : byPeerID'[n] = IF byPeerID[n] = d THEN None ELSE byPeerID[n]
  BY <1>0 DEF Bound
<1>2. TypeOK /\ created' = created
  BY DEF ServerInv, Binds
<1>4. PeersTrue'
  <2> SUFFICES ASSUME NEW q \in PeerAddresses, byPeer'[q] # None
               PROVE  q[2] <= created' /\ session'[byPeer'[q]].peer = q /\ Findable(byPeer[q])'
    BY DEF PeersTrue
  <2>1. byPeer'[q] = byPeer[q] /\ byPeer[q] \in Sessions
    BY <1>1, <1>2 DEF TypeOK
  <2>2. q[2] <= created /\ session[byPeer[q]].peer = q /\ Findable(byPeer[q])
    BY <1>1, <2>1 DEF ServerInv, PeersTrue
  <2>3. session'[byPeer[q]].peer = session[byPeer[q]].peer
    BY <2>1 DEF Binds
  <2>4. Findable(byPeer[q])'
    <3> DEFINE t == byPeer[q]
    <3>1. Findable(t) /\ t \in Sessions /\ byPeer'[q] = t
      BY <2>1, <2>2
    <3>2. \/ session'[t].step = session[t].step
          \/ session'[t].step = "slot"
      BY <3>1 DEF Binds
    <3> HIDE DEF t
    <3> QED
      BY <1>1, <3>1, <3>2 DEF Findable
  <2> QED
    BY <1>2, <2>1, <2>2, <2>3, <2>4
<1>5. ASSUME NEW i \in Identities, byIdentity'[i] # None PROVE Registered(byIdentity[i])'
  <2>1. byIdentity'[i] = byIdentity[i] /\ byIdentity[i] \in Sessions /\ byIdentity[i] # d
    BY <1>1, <1>2, <1>5 DEF TypeOK
  <2> QED
    BY <1>1, <2>1 DEF ServerInv, EntriesTrue
<1>6. ASSUME NEW n \in PeerIDs, byPeerID'[n] # None PROVE Registered(byPeerID[n])'
  <2>1. byPeerID'[n] = byPeerID[n] /\ byPeerID[n] \in Sessions /\ byPeerID[n] # d
    BY <1>1, <1>2, <1>6 DEF TypeOK
  <2> QED
    BY <1>1, <2>1 DEF ServerInv, EntriesTrue
<1>7. ASSUME NEW b \in Addresses, udpActive'[b] # None
      PROVE  /\ Transport' = "udp" /\ Registered(udpActive[b])'
             /\ session'[udpActive'[b]].address = b
  <2>1. CASE b = a
    <3>1. udpActive'[b] = s /\ session'[s].address = b /\ Transport = "udp"
      BY <2>1 DEF Binds
    <3> QED
      BY <1>1, <3>1 DEF Registered
  <2>2. CASE b # a
    <3> DEFINE t == udpActive[b]
    <3>1. udpActive'[b] = t /\ t # s /\ t # None /\ t \in Sessions
      BY <1>2, <1>7, <2>2, SMT DEF Binds, TypeOK
    <3>2. Registered(t) /\ session[t].address = b
      BY <3>1 DEF ServerInv, EntriesTrue
    <3>3. d # None => session[d].address = a
      BY DEF Binds, ServerInv, EntriesTrue
    <3>4. t # d
      BY <2>2, <3>1, <3>2, <3>3
    <3>5. session'[t] = session[t] /\ Transport = "udp"
      BY <3>1, <3>4 DEF Binds
    <3> QED
      BY <1>1, <3>1, <3>2, <3>4, <3>5
  <2> QED
    BY <2>1, <2>2
<1>8. ASSUME NEW b \in Addresses, udpInitial'[b] # None PROVE InitialAt(udpInitial[b], b)'
  <2> DEFINE t == udpInitial[b]
  <2>1. udpInitial'[b] = t /\ t \notin {s, d} /\ t # None /\ t \in Sessions
    BY <1>2, <1>8, SMT DEF Binds, TypeOK
  <2>2. InitialAt(t, b)
    BY <2>1 DEF ServerInv, EntriesTrue
  <2>3. session'[t] = session[t] /\ Registered(t)'
    BY <1>1, <2>1, <2>2 DEF Binds, InitialAt
  <2>4. \A c \in Addresses : udpActive'[c] # t
    <3>1. \A c \in Addresses : udpActive[c] # t
      BY <2>2 DEF InitialAt
    <3> HIDE DEF t
    <3>2. ASSUME NEW c \in Addresses, udpActive'[c] = t PROVE FALSE
      <4>1. /\ udpActive'[a] = s
            /\ c # a /\ udpActive'[c] # None => udpActive'[c] = udpActive[c]
        BY DEF Binds
      <4> QED
        BY <2>1, <3>1, <3>2, <4>1
    <3> QED
      BY <3>2
  <2> HIDE DEF t
  <2>5. \A c \in Addresses : udpActive'[c] # udpInitial'[b]
    BY <2>1, <2>4
  <2> QED
    BY <1>1, <2>1, <2>2, <2>3, <2>5 DEF InitialAt
<1>9. EntriesTrue'
  BY <1>5, <1>6, <1>7, <1>8 DEF EntriesTrue
<1>10. PeerIDsKept'
  <2> SUFFICES ASSUME NEW t \in Sessions, Registered(t)', session'[t].peerID # NoPeerID
               PROVE  byPeerID'[session'[t].peerID] = t
    BY DEF PeerIDsKept
  <2>1. Registered(t) /\ session'[t].peerID = session[t].peerID /\ t # d
    BY <1>1 DEF Binds
  <2>2. session[t].peerID \in PeerIDs /\ byPeerID[session[t].peerID] = t
    BY <1>2, <2>1 DEF ServerInv, PeerIDsKept, TypeOK, SessionRecord
  <2> QED
    BY <1>1, <2>1, <2>2
<1> QED
  BY <1>4, <1>9, <1>10

\* A session takes an address over, and every slot is accounted for.
LEMMA BindsInv ==
  ASSUME ServerInv, NEW s \in Sessions, NEW a \in Addresses, NEW d \in Sessions \cup {None},
         Binds(s, a, d), SlotsCounted', instances' \in 0..maxClients'
  PROVE  ServerInv'
<1>0. Bound(s, d)
  BY BindsAt
<1>1. /\ Transport' = Transport /\ None \notin Sessions
      /\ \A t \in Sessions : Registered(t)' => Registered(t) /\ t # d
      /\ byPeer' \in [PeerAddresses -> Sessions \cup {None}]
      /\ byIdentity' \in [Identities -> Sessions \cup {None}]
      /\ byPeerID' \in [PeerIDs -> Sessions \cup {None}]
      /\ \A i \in Identities : byIdentity'[i] = IF byIdentity[i] = d THEN None ELSE byIdentity[i]
  BY <1>0 DEF Bound
<1>2. TypeOK
  BY DEF ServerInv
<1>3. TypeOK'
  BY <1>1, <1>2 DEF TypeOK, Binds
<1>4. StepsTrue'
  <2> SUFFICES ASSUME NEW t \in Sessions
               PROVE  /\ session'[t].step = "none" <=> t > created'
                      /\ session'[t].reserved => Live(t)'
                      /\ session'[t].step = "claim" => session'[t].identity \in Identities
                      /\ session'[t].step = "unregister" /\ Transport' = "udp" =>
                           session'[t].finished
    BY DEF StepsTrue
  <2>1. CASE t # s
    <3>1. /\ session'[t].step = session[t].step
          /\ session'[t].reserved => session[t].reserved
          /\ session'[t].finished = session[t].finished
          /\ session'[t].identity = session[t].identity
          /\ created' = created
      BY <2>1 DEF Binds
    <3> QED
      BY <1>1, <3>1 DEF ServerInv, StepsTrue, Live
  <2>2. CASE t = s
    <3>1. /\ session'[s].step = session[s].step \/ session'[s].step = "slot"
          /\ session[s].step \notin {"none", "new", "refund", "gone"}
          /\ session'[s].finished = session[s].finished
          /\ session'[s].identity = session[s].identity
          /\ created' = created
      BY DEF Binds
    <3> QED
      BY <1>1, <2>2, <3>1 DEF ServerInv, StepsTrue, Live
  <2> QED
    BY <2>1, <2>2
<1>5. OneOwner'
  <2> SUFFICES ASSUME NEW t \in Sessions, session'[t].step = "up", session'[t].identity # Nobody,
                      Registered(t)', ~session'[t].closed, t \notin toClose'
               PROVE  byIdentity'[session'[t].identity] = t
    BY DEF OneOwner
  <2>1. /\ Registered(t) /\ t # d /\ session[t].step = "up" /\ t \notin toClose
        /\ session'[t].identity = session[t].identity /\ ~session[t].closed
    <3>1. Registered(t) /\ t # d
      BY <1>1
    <3>2. /\ t \notin toClose /\ session'[t].identity = session[t].identity
          /\ session'[t].closed = session[t].closed
      BY DEF Binds
    <3>3. CASE t = s
      BY <3>1, <3>2, <3>3 DEF Binds
    <3>4. CASE t # s
      BY <3>1, <3>2, <3>4 DEF Binds
    <3> QED
      BY <3>3, <3>4
  <2>2. session[t].identity \in Identities /\ byIdentity[session[t].identity] = t
    BY <1>2, <2>1 DEF ServerInv, OneOwner, TypeOK, SessionRecord
  <2> QED
    BY <1>1, <2>1, <2>2
<1>6. ListenerTrue'
  <2>1. /\ listener' = listener /\ created' = created /\ session[s].step # "new"
        /\ \A t \in Sessions : t # s => session'[t].step = session[t].step
    BY DEF Binds
  <2> QED
    BY <1>1, <2>1 DEF ServerInv, ListenerTrue
<1>7. NothingRuns'
  BY DEF ServerInv, NothingRuns, Binds, Live
<1> QED
  BY <1>3, <1>4, <1>5, <1>6, <1>7, BindsEntries DEF ServerInv

\* promoteInitialSession while it holds the lock: the slot of the displaced session moves with
\* its address.
LEMMA PromoteInv ==
  ASSUME ServerInv, UNCHANGED options, NEW s \in Sessions, Promote(s)
  PROVE  ServerInv'
<1> DEFINE a == session[s].address
           d == udpActive[a]
           moved == d # None /\ session[d].reserved
           given == IF d = None THEN session ELSE [session EXCEPT ![d].reserved = FALSE]
<1>1. /\ session[s].step = "promote" /\ udpInitial[a] = s
      /\ session' = [given EXCEPT ![s].step = "slot", ![s].waitFor = d, ![s].reserved = moved]
      /\ byPeer' = Dropped(byPeer, d) /\ byIdentity' = Dropped(byIdentity, d)
      /\ byPeerID' = Dropped(byPeerID, d)
      /\ udpActive' = [udpActive EXCEPT ![a] = s] /\ udpInitial' = [udpInitial EXCEPT ![a] = None]
      /\ UNCHANGED <<created, instances, listener, toClose, lifecycle>>
  BY DEF Promote
<1>2. /\ TypeOK /\ session \in [Sessions -> SessionRecord] /\ None \notin Sessions
      /\ session[s] \in SessionRecord /\ a \in Addresses /\ d \in Sessions \cup {None}
  <2>1. None \notin Sessions
    BY ServerAssumption, SMT DEF Sessions, None
  <2>2. TypeOK
    BY DEF ServerInv
  <2>3. session \in [Sessions -> SessionRecord] /\ session[s] \in SessionRecord
    BY <2>2 DEF TypeOK
  <2>4. a \in Addresses
    BY <2>3 DEF SessionRecord
  <2>5. d \in Sessions \cup {None}
    BY <2>2, <2>4 DEF TypeOK
  <2> QED
    BY <2>1, <2>2, <2>3, <2>4, <2>5
<1>3. InitialAt(s, a)
  BY <1>1, <1>2 DEF ServerInv, EntriesTrue
<1>4. /\ Registered(s) /\ Transport = "udp" /\ s # d /\ ~session[s].reserved
      /\ \A b \in Addresses : udpActive[b] # s
  BY <1>2, <1>3 DEF InitialAt
<1>5. d # None => session[d].reserved \in BOOLEAN
  BY <1>2 DEF SessionRecord
<1>6. moved \in BOOLEAN /\ (moved => d \in Sessions /\ session[d].reserved)
  BY <1>2, <1>5
<1>7. ~moved /\ d # None => ~session[d].reserved
  OBVIOUS
<1>8. /\ given \in [Sessions -> SessionRecord] /\ given[s] = session[s]
      /\ \A t \in Sessions : t # d => given[t] = session[t]
      /\ d # None => given[d] = [session[d] EXCEPT !.reserved = FALSE]
  <2> HIDE DEF d
  <2>1. CASE d = None
    BY <1>2, <2>1
  <2>2. CASE d # None
    <3>1. d \in Sessions /\ session[d] \in SessionRecord
      BY <1>2, <2>2
    <3>2. [session[d] EXCEPT !.reserved = FALSE] \in SessionRecord
      BY <3>1 DEF SessionRecord
    <3>3. given = [session EXCEPT ![d] = [session[d] EXCEPT !.reserved = FALSE]]
      BY <1>2, <2>2, <3>1
    <3> HIDE DEF given
    <3> QED
      BY <1>2, <1>4, <3>1, <3>2, <3>3
  <2> QED
    BY <2>1, <2>2
<1> HIDE DEF given, moved, d, a
<1> DEFINE x == [session[s] EXCEPT !.step = "slot", !.waitFor = d, !.reserved = moved]
<1>9. /\ x \in SessionRecord /\ x.step = "slot" /\ x.reserved = moved
      /\ x.peer = session[s].peer /\ x.peerID = session[s].peerID /\ x.address = a
      /\ x.identity = session[s].identity /\ x.closed = session[s].closed
      /\ x.finished = session[s].finished
  <2>1. session[s].address = a
    BY DEF a
  <2> QED
    BY <1>2, <1>6, <2>1, ZenonT(60) DEF SessionRecord
<1>10. session' = [given EXCEPT ![s] = x]
  BY <1>1, <1>8
<1> HIDE DEF x
<1>11. /\ session' \in [Sessions -> SessionRecord] /\ session'[s] = x
       /\ \A t \in Sessions : t # s => session'[t] = given[t]
       /\ \A t \in Sessions : t \notin {s, d} => session'[t] = session[t]
  BY <1>8, <1>9, <1>10
<1>12. ASSUME NEW t \in Sessions
       PROVE  /\ session'[t].peer = session[t].peer /\ session'[t].peerID = session[t].peerID
              /\ session'[t].identity = session[t].identity
              /\ session'[t].closed = session[t].closed
              /\ session'[t].finished = session[t].finished
              /\ t # s => /\ session'[t].step = session[t].step
                          /\ session'[t].reserved => session[t].reserved
  <2>1. CASE t = s
    BY <1>9, <1>11, <2>1
  <2>2. CASE t # s /\ t # d
    BY <1>11, <2>2
  <2>3. CASE t # s /\ t = d
    <3>1. session'[t] = [session[t] EXCEPT !.reserved = FALSE] /\ session[t] \in SessionRecord
      BY <1>2, <1>8, <1>11, <2>3
    <3> QED
      BY <2>3, <3>1 DEF SessionRecord
  <2> QED
    BY <2>1, <2>2, <2>3
<1>13. /\ udpActive' \in [Addresses -> Sessions \cup {None}] /\ udpActive'[a] = s
       /\ \A b \in Addresses :
            b # a /\ udpActive'[b] # None => udpActive'[b] = udpActive[b] /\ udpActive[b] # s
  BY <1>1, <1>2, <1>4 DEF TypeOK
<1>14. /\ udpInitial' \in [Addresses -> Sessions \cup {None}]
       /\ \A b \in Addresses :
            udpInitial'[b] # None => udpInitial'[b] = udpInitial[b] /\ udpInitial[b] \notin {s, d}
  <2>1. udpInitial' \in [Addresses -> Sessions \cup {None}]
    BY <1>1, <1>2 DEF TypeOK
  <2>2. ASSUME NEW b \in Addresses, udpInitial'[b] # None
        PROVE  udpInitial'[b] = udpInitial[b] /\ udpInitial[b] \notin {s, d}
    <3>1. b # a /\ udpInitial'[b] = udpInitial[b]
      BY <1>1, <1>2, <2>2 DEF TypeOK
    <3>2. InitialAt(udpInitial[b], b)
      BY <2>2, <3>1 DEF ServerInv, EntriesTrue
    <3>3. udpInitial[b] # s
      BY <1>3, <3>1, <3>2 DEF InitialAt
    <3>4. udpInitial[b] # udpActive[a]
      BY <1>2, <3>2 DEF InitialAt
    <3> QED
      BY <3>1, <3>3, <3>4 DEF d
  <2> QED
    BY <2>1, <2>2
<1>15. d # None => udpActive[a] = d
  BY DEF d
<1>16. Binds(s, a, d)
  <2>1. /\ toClose \subseteq toClose' /\ toClose' \subseteq Sessions
        /\ UNCHANGED <<created, listener, lifecycle>>
    BY <1>1, <1>2 DEF TypeOK
  <2>2. /\ session[s].step \notin {"none", "new", "refund", "gone"}
        /\ session'[s].step = "slot" /\ session'[s].address = a
    BY <1>1, <1>9, <1>11
  <2>3. /\ byPeer' = Dropped(byPeer, d) /\ byIdentity' = Dropped(byIdentity, d)
        /\ byPeerID' = Dropped(byPeerID, d)
    BY <1>1
  <2> QED
    BY <1>4, <1>11, <1>12, <1>13, <1>14, <1>15, <2>1, <2>2, <2>3 DEF Binds
<1>17. Cardinality(Holders(session')) = Cardinality(Holders(session))
  <2>1. CASE moved
    <3>1. Cardinality(Holders(given)) = Cardinality(Holders(session)) - 1
      <4>1. d \in Sessions /\ session[d].reserved /\ ~given[d].reserved
        BY <1>2, <1>6, <1>8, <2>1, SMT DEF SessionRecord
      <4> QED
        BY <1>8, <4>1, OneLess
    <3>2. Cardinality(Holders(session')) = Cardinality(Holders(given)) + 1
      <4>1. /\ ~given[s].reserved /\ session'[s].reserved
            /\ \A t \in Sessions \ {s} : session'[t].reserved = given[t].reserved
        BY <1>4, <1>8, <1>9, <1>11, <2>1
      <4> QED
        BY <4>1, OneMore
    <3> QED
      BY <3>1, <3>2, HoldersFinite, SMT
  <2>2. CASE ~moved
    <3>1. ASSUME NEW t \in Sessions PROVE session'[t].reserved = session[t].reserved
      <4>1. CASE t = s
        BY <1>2, <1>4, <1>6, <1>9, <1>11, <2>2, <4>1 DEF SessionRecord
      <4>2. CASE t # s /\ t # d
        BY <1>11, <4>2
      <4>3. CASE t # s /\ t = d
        <5>1. session'[t] = [session[t] EXCEPT !.reserved = FALSE] /\ session[t] \in SessionRecord
          BY <1>2, <1>8, <1>11, <4>3
        <5>2. ~session[t].reserved
          BY <1>2, <1>7, <2>2, <4>3
        <5> QED
          BY <5>1, <5>2 DEF SessionRecord
      <4> QED
        BY <4>1, <4>2, <4>3
    <3> QED
      BY <3>1, SameHolders
  <2> QED
    BY <2>1, <2>2
<1>18. SlotsCounted' /\ instances' \in 0..maxClients'
  BY <1>1, <1>17, SlotsAre, BoundTyped DEF ServerInv
<1> QED
  BY <1>2, <1>16, <1>18, BindsInv

\* floatUDPSessionToSource.
LEMMA FloatInv ==
  ASSUME ServerInv, UNCHANGED options, NEW s \in Sessions, NEW a \in Addresses, Float(s, a)
  PROVE  ServerInv'
<1> DEFINE d == udpActive[a]
           x == [session[s] EXCEPT !.address = a]
<1>1. /\ Transport = "udp" /\ HasDataKey(s) /\ session[s].address # a /\ Registered(s)
      /\ session' = [session EXCEPT ![s].address = a]
      /\ byPeer' = Dropped(byPeer, d) /\ byIdentity' = Dropped(byIdentity, d)
      /\ byPeerID' = Dropped(byPeerID, d)
      /\ udpActive' = [Dropped(udpActive, s) EXCEPT ![a] = s]
      /\ udpInitial' = Dropped(udpInitial, d)
      /\ toClose' = toClose \cup ({d} \ {None})
      /\ UNCHANGED <<created, instances, listener, lifecycle>>
  BY DEF Float, Registered
<1>2. /\ TypeOK /\ session \in [Sessions -> SessionRecord] /\ None \notin Sessions
      /\ session[s] \in SessionRecord /\ d \in Sessions \cup {None} /\ toClose \subseteq Sessions
  BY SMT DEF ServerInv, TypeOK, None, Sessions
<1>3. d # None => session[d].address = a
  BY DEF ServerInv, EntriesTrue
<1>4. s # d
  BY <1>1, <1>2, <1>3
<1>5. d # None => \A b \in Addresses : udpInitial[b] # d
  BY InitialInactive
<1>6. \A b \in Addresses : udpInitial[b] # s
  <2>1. session[s].step \in {"identity", "claim", "awaitOwner", "check", "up"}
    BY <1>1 DEF HasDataKey
  <2> QED
    BY <1>2, <2>1, SMTT(30) DEF ServerInv, EntriesTrue, InitialAt
<1> HIDE DEF d
<1>7. session' = [session EXCEPT ![s] = x]
  BY <1>1, <1>2
<1>8. /\ x \in SessionRecord /\ x.address = a /\ x.step = session[s].step
      /\ x.peer = session[s].peer /\ x.peerID = session[s].peerID
      /\ x.identity = session[s].identity /\ x.closed = session[s].closed
      /\ x.finished = session[s].finished /\ x.reserved = session[s].reserved
  BY <1>2 DEF SessionRecord
<1> HIDE DEF x
<1>9. /\ session' \in [Sessions -> SessionRecord] /\ session'[s] = x
      /\ \A t \in Sessions : t # s => session'[t] = session[t]
  BY <1>2, <1>7, <1>8
<1>10. /\ Dropped(udpActive, s) \in [Addresses -> Sessions \cup {None}]
       /\ \A b \in Addresses :
            Dropped(udpActive, s)[b] = IF udpActive[b] = s THEN None ELSE udpActive[b]
  BY <1>2, DroppedAt
<1>11. /\ udpActive' \in [Addresses -> Sessions \cup {None}] /\ udpActive'[a] = s
       /\ \A b \in Addresses :
            b # a /\ udpActive'[b] # None => udpActive'[b] = udpActive[b] /\ udpActive[b] # s
  BY <1>1, <1>10
<1>12. /\ udpInitial' \in [Addresses -> Sessions \cup {None}]
       /\ \A b \in Addresses :
            udpInitial'[b] # None => udpInitial'[b] = udpInitial[b] /\ udpInitial[b] \notin {s, d}
  <2>1. /\ Dropped(udpInitial, d) \in [Addresses -> Sessions \cup {None}]
        /\ \A b \in Addresses :
             Dropped(udpInitial, d)[b] = IF udpInitial[b] = d THEN None ELSE udpInitial[b]
    BY <1>2, DroppedAt
  <2> QED
    BY <1>1, <1>6, <2>1
<1>13. d # None => udpActive[a] = d
  BY DEF d
<1>14. session[s].step \notin {"none", "new", "refund", "gone"}
  BY <1>1 DEF HasDataKey
<1>15. toClose \subseteq toClose' /\ toClose' \subseteq Sessions
  BY <1>1, <1>2
<1>16. Binds(s, a, d)
  <2>1. \A t \in Sessions :
          /\ session'[t].peer = session[t].peer /\ session'[t].peerID = session[t].peerID
          /\ session'[t].identity = session[t].identity /\ session'[t].closed = session[t].closed
          /\ session'[t].finished = session[t].finished
          /\ t # s => /\ session'[t].step = session[t].step
                      /\ session'[t].reserved => session[t].reserved
    BY <1>8, <1>9
  <2> QED
    BY <1>1, <1>4, <1>8, <1>9, <1>11, <1>12, <1>13, <1>14, <1>15, <2>1, SMTT(30) DEF Binds
<1>17. Holders(session') = Holders(session)
  BY <1>8, <1>9, SameHolders
<1>18. SlotsCounted' /\ instances' \in 0..maxClients'
  BY <1>1, <1>17, SlotsAre, BoundTyped DEF ServerInv
<1> QED
  BY <1>2, <1>16, <1>18, BindsInv

-----------------------------------------------------------------------------
(* The theorems *)

\* A new server.
LEMMA InitInv == ServerInit => ServerInv
<1> SUFFICES ASSUME ServerInit PROVE ServerInv
  OBVIOUS
<1> DEFINE x == [NewSession(SomeAddress) EXCEPT !.step = "none"]
<1>1. SomeAddress \in Addresses
  BY ServerAssumption DEF SomeAddress
<1>2. <<SomeAddress, 0>> \in PeerAddresses
  BY <1>1, ServerAssumption, SMT DEF PeerAddresses
<1>3. x \in SessionRecord /\ x.step = "none" /\ x.reserved = FALSE /\ x.peer = <<SomeAddress, 0>>
  BY <1>1, <1>2 DEF NewSession, SessionRecord, NoPeerID, None
<1>4. session = [s \in Sessions |-> x]
  BY DEF ServerInit
<1> HIDE DEF x
<1>5. session \in [Sessions -> SessionRecord] /\ \A s \in Sessions : session[s] = x
  BY <1>3, <1>4
<1>6. maxClients \in Nat /\ MaxSessions \in Nat
  BY OptionsTyped, ServerAssumption, SMT DEF ServerInit
<1>7. TypeOK
  <2>1. 0 \in 0..maxClients /\ 0 \in 0..MaxSessions
    BY <1>6, SMT
  <2> QED
    BY <1>5, <2>1, IdleTyped DEF ServerInit, TypeOK
<1>8. \A s \in Sessions : ~Registered(s)
  <2>1. None \notin Sessions
    BY SMT DEF None, Sessions
  <2> QED
    BY <1>2, <1>3, <1>5, <2>1 DEF ServerInit, Registered
<1>9. PeersTrue /\ EntriesTrue
  BY DEF ServerInit, PeersTrue, EntriesTrue
<1>10. PeerIDsKept /\ OneOwner
  BY <1>8 DEF PeerIDsKept, OneOwner
<1>11. StepsTrue
  BY <1>3, <1>5, SMT DEF ServerInit, StepsTrue, Sessions
<1>12. ListenerTrue /\ NothingRuns
  BY IdleTyped DEF ServerInit, ListenerTrue, NothingRuns
<1>13. SlotsCounted
  <2>1. Holders(session) = {}
    BY <1>3, <1>5 DEF Holders
  <2>2. listener.step = "idle" /\ instances = 0
    BY IdleTyped DEF ServerInit
  <2> QED
    BY <2>1, <2>2, FS_EmptySet, SlotsAre, SMT
<1> QED
  BY <1>7, <1>9, <1>10, <1>11, <1>12, <1>13 DEF ServerInv

\* Every step of the server preserves ServerInv.
LEMMA NextInv ==
  ASSUME ServerInv, [ServerNext]_serverVars
  PROVE  ServerInv'
<1>1. CASE UNCHANGED serverVars
  <2>1. /\ UNCHANGED <<options, session, created, registries>>
        /\ UNCHANGED <<instances, listener, toClose, lifecycle>>
    BY <1>1 DEF serverVars, sessionVars
  <2>2. /\ listener' \in ListenerRecord /\ toClose' \subseteq Sessions
        /\ lifecycle' \in {"running", "closing", "draining", "closed"}
        /\ Transport' = Transport
    BY <2>1 DEF ServerInv, TypeOK, ListenerRecord, Transport
  <2>3. ListenerTrue' /\ NothingRuns'
    BY <2>1, <2>2 DEF ServerInv, ListenerTrue, NothingRuns, Live
  <2>4. SlotsCounted' /\ instances' \in 0..maxClients'
    BY <2>1, SlotsAre, BoundTyped DEF ServerInv
  <2> QED
    BY <2>1, <2>2, <2>3, <2>4, SameSessions
<1>2. CASE ServerNext
  <2>1. UNCHANGED options
    BY <1>2 DEF ServerNext
  <2>2. CASE Listen
    BY <2>1, <2>2, ListenerInv, RegisterSessionInv, RegisterInitialInv, StartWorkerInv DEF Listen
  <2>3. ASSUME NEW s \in Sessions, Proceed(s) PROVE ServerInv'
    <3>1. CASE Promote(s)
      BY <2>1, <3>1, PromoteInv
    <3>2. CASE NotInitial(s) \/ CheckOwner(s)
      BY <2>1, <3>2, StepInv
    <3>3. CASE TakeSlot(s)
      BY <2>1, <3>3, TakeSlotInv
    <3>4. CASE Replaced(s) \/ LearnIdentity(s) \/ LeaveTunnel(s) \/ Finish(s)
      BY <2>1, <3>4, WayInv, SMTT(30)
    <3>5. CASE EnablePeerID(s)
      BY <2>1, <3>5, EnablePeerIDInv
    <3>6. CASE ClaimIdentity(s)
      BY <2>1, <3>6, ClaimIdentityInv
    <3>7. CASE Unregister(s)
      BY <2>1, <3>7, UnregisterInv
    <3>8. CASE ReleaseReservation(s)
      BY <2>1, <3>8, ReleaseInv
    <3> QED
      BY <2>3, <3>1, <3>2, <3>3, <3>4, <3>5, <3>6, <3>7, <3>8 DEF Proceed
  <2>4. ASSUME NEW s \in Sessions,
               \/ Handshake(s) \/ GiveUpWaiting(s) \/ Push(s) \/ CloseSession(s) \/ EndSession(s)
               \/ \E a \in Floating : Float(s, a)
        PROVE  ServerInv'
    <3>1. CASE Handshake(s)
      BY <2>1, <3>1, HandshakeInv
    <3>2. CASE GiveUpWaiting(s) \/ EndSession(s)
      BY <2>1, <3>2, StepInv
    <3>3. CASE Push(s)
      BY <2>1, <3>3, WayInv
    <3>4. CASE CloseSession(s)
      BY <2>1, <3>4, CloseSessionInv
    <3>5. ASSUME NEW a \in Floating, Float(s, a) PROVE ServerInv'
      <4>1. a \in Addresses
        BY OptionsTyped DEF ServerInv, TypeOK
      <4> QED
        BY <2>1, <3>5, <4>1, FloatInv
    <3> QED
      BY <2>4, <3>1, <3>2, <3>3, <3>4, <3>5
  <2>5. CASE BeginClose \/ CloseSessions \/ EndClose
    BY <2>1, <2>5, CloseInv
  <2> QED
    BY <1>2, <2>2, <2>3, <2>4, <2>5 DEF ServerNext
<1> QED
  BY <1>1, <1>2

\* ServerInv is an invariant of every server: registerSession, registerInitialSession,
\* promoteInitialSession, enablePeerID, registerAuthenticatedIdentity,
\* floatUDPSessionToSource, unregisterSession and Close, in any order.
THEOREM ServerInvariance == ServerSpec => []ServerInv
<1>1. ServerInit => ServerInv
  BY InitInv
<1>2. ServerInv /\ [ServerNext]_serverVars => ServerInv'
  BY NextInv
<1> QED
  BY <1>1, <1>2, PTL DEF ServerSpec

\* What ServerInv says of the registries.
LEMMA InvRegistries ==
  ASSUME ServerInv
  PROVE  RegistriesTrue
<1>1. TypeOK /\ None \notin Sessions
  BY SMT DEF ServerInv, None, Sessions
<1>2. ASSUME NEW s \in Sessions, Registered(s) PROVE Live(s)
  <2>1. Findable(s)
    BY <1>1, <1>2, SMTT(30) DEF ServerInv, PeersTrue, Registered, TypeOK, SessionRecord
  <2> QED
    BY <2>1 DEF Findable, Live
<1>3. RegistriesAgree
  <2>1. ASSUME NEW s \in Sessions,
               \/ \E i \in Identities : byIdentity[i] = s
               \/ \E n \in PeerIDs : byPeerID[n] = s
               \/ \E a \in Addresses : s \in {udpActive[a], udpInitial[a]}
        PROVE  Registered(s) /\ Live(s)
    <3>1. Registered(s)
      <4>1. s # None
        BY <1>1
      <4>2. CASE \E i \in Identities : byIdentity[i] = s
        BY <4>1, <4>2 DEF ServerInv, EntriesTrue
      <4>3. CASE \E n \in PeerIDs : byPeerID[n] = s
        BY <4>1, <4>3 DEF ServerInv, EntriesTrue
      <4>4. ASSUME NEW a \in Addresses, udpActive[a] = s PROVE Registered(s)
        BY <4>1, <4>4 DEF ServerInv, EntriesTrue
      <4>5. ASSUME NEW a \in Addresses, udpInitial[a] = s PROVE Registered(s)
        BY <4>1, <4>5, InitialInactive
      <4> QED
        BY <2>1, <4>2, <4>3, <4>4, <4>5
    <3> QED
      BY <1>2, <3>1
  <2> QED
    BY <2>1 DEF RegistriesAgree, ServerInv, PeerIDsKept
<1>4. ActiveAtOwnAddress
  BY DEF ActiveAtOwnAddress, ServerInv, EntriesTrue
<1>5. ClosedEmpty
  <2> SUFFICES ASSUME lifecycle = "closed"
               PROVE  instances = 0 /\ \A p \in PeerAddresses : byPeer[p] = None
    BY DEF ClosedEmpty
  <2>1. listener.step = "stopped" /\ \A s \in Sessions : ~Live(s)
    BY DEF ServerInv, NothingRuns
  <2>2. Holders(session) = {}
    BY <2>1 DEF ServerInv, StepsTrue, Holders
  <2>3. instances = 0
    BY <2>1, <2>2, FS_EmptySet, SlotsAre, SMT DEF ServerInv
  <2>4. ASSUME NEW p \in PeerAddresses, byPeer[p] # None PROVE FALSE
    <3>1. byPeer[p] \in Sessions
      BY <2>4 DEF ServerInv, TypeOK
    <3>2. Findable(byPeer[p])
      BY <2>4 DEF ServerInv, PeersTrue
    <3> QED
      BY <2>1, <3>1, <3>2 DEF Findable, Live
  <2> QED
    BY <2>3, <2>4
<1> QED
  BY <1>1, <1>3, <1>4, <1>5 DEF RegistriesTrue, ServerInv

\* The five registries of a server lead to the same sessions, its slots are those of the
\* sessions that hold one, an identity has one registered session that is up at most, and a
\* closed server has none: however many sessions there are and whatever the order in which
\* they are registered, promoted, moved, evicted and closed.
THEOREM AlwaysRegistriesTrue == ServerSpec => []RegistriesTrue
<1>1. ServerInv => RegistriesTrue
  BY InvRegistries
<1> QED
  BY <1>1, ServerInvariance, PTL

\* No step takes an address from a session that is active there before it ends or moves, but
\* for a session that has authenticated.
LEMMA KeepsActiveStep ==
  ASSUME ServerInv, [ServerNext]_serverVars
  PROVE  KeepsActive
<1>1. TypeOK /\ None \notin Sessions
  BY SMT DEF ServerInv, None, Sessions
<1>2. CASE UNCHANGED udpActive
  BY <1>2 DEF KeepsActive
<1>3. CASE RegisterSession
  <2>1. \/ UNCHANGED udpActive
        \/ /\ udpActive[listener.address] = None
           /\ udpActive' = [udpActive EXCEPT ![listener.address] = created + 1]
    BY <1>3 DEF RegisterSession
  <2>2. \A b \in Addresses : udpActive[b] # None => udpActive'[b] = udpActive[b]
    BY <1>1, <2>1 DEF TypeOK
  <2> QED
    BY <2>2 DEF KeepsActive
<1>4. CASE RegisterInitialSession
  <2> DEFINE a == listener.address
  <2>1. a \in Addresses /\ udpInitial[a] \in Sessions \cup {None}
    BY <1>1 DEF TypeOK
  <2>2. UNCHANGED udpActive \/ udpActive' = Dropped(udpActive, udpInitial[a])
    BY <1>4 DEF RegisterInitialSession, registries
  <2>3. \A b \in Addresses : udpInitial[a] # None => udpActive[b] # udpInitial[a]
    BY <2>1, InitialInactive
  <2>4. \A b \in Addresses : Dropped(udpActive, udpInitial[a])[b] =
          IF udpActive[b] = udpInitial[a] THEN None ELSE udpActive[b]
    BY <1>1, <2>1, DroppedAt
  <2>5. \A b \in Addresses : udpActive[b] # None => udpActive'[b] = udpActive[b]
    BY <2>2, <2>3, <2>4
  <2> QED
    BY <2>5 DEF KeepsActive
<1>5. CASE StartWorker
  <2> DEFINE s == listener.session
  <2>1. s \in Sessions
    BY <1>5 DEF StartWorker, ServerInv, ListenerTrue
  <2>2. \/ UNCHANGED udpActive
        \/ udpActive' = Dropped(udpActive, s) /\ session' = [session EXCEPT ![s] = Gone]
    BY <1>5 DEF StartWorker, registries, Evict
  <2>3. session' = [session EXCEPT ![s] = Gone] => session'[s].step = "gone"
    BY <1>1, <2>1, GoneTyped DEF TypeOK
  <2>4. \A b \in Addresses :
          Dropped(udpActive, s)[b] = IF udpActive[b] = s THEN None ELSE udpActive[b]
    BY <1>1, <2>1, DroppedAt, SMT
  <2> QED
    BY <2>2, <2>3, <2>4 DEF KeepsActive
<1>6. ASSUME NEW s \in Sessions, Promote(s) PROVE KeepsActive
  <2>1. /\ session[s].step = "promote" /\ session[s].address \in Addresses /\ s # None
        /\ udpActive' = [udpActive EXCEPT ![session[s].address] = s]
    BY <1>1, <1>6 DEF Promote, TypeOK, SessionRecord
  <2>2. \A b \in Addresses : udpActive'[b] = udpActive[b] \/ udpActive'[b] = s
    BY <1>1, <2>1 DEF TypeOK
  <2> QED
    BY <2>1, <2>2 DEF KeepsActive
<1>7. ASSUME NEW s \in Sessions, NEW a \in Addresses, Float(s, a) PROVE KeepsActive
  <2>1. /\ HasDataKey(s) /\ session' = [session EXCEPT ![s].address = a] /\ s # None
        /\ udpActive' = [Dropped(udpActive, s) EXCEPT ![a] = s]
    BY <1>1, <1>7 DEF Float
  <2>2. session'[s].address = a
    BY <1>1, <2>1, SMTT(30) DEF TypeOK, SessionRecord
  <2>3. /\ Dropped(udpActive, s) \in [Addresses -> Sessions \cup {None}]
        /\ \A b \in Addresses :
             Dropped(udpActive, s)[b] = IF udpActive[b] = s THEN None ELSE udpActive[b]
    BY <1>1, DroppedAt, SMT
  <2>4. \A b \in Addresses :
          \/ udpActive'[b] = s
          \/ b # a /\ udpActive'[b] = IF udpActive[b] = s THEN None ELSE udpActive[b]
    BY <2>1, <2>3
  <2> QED
    BY <2>1, <2>2, <2>4 DEF KeepsActive, HasDataKey
<1>8. ASSUME NEW s \in Sessions, Unregister(s) PROVE KeepsActive
  <2>1. session[s].step = "unregister" /\ udpActive' = Dropped(udpActive, s)
    BY <1>8 DEF Unregister, Step, Evict
  <2>2. \A b \in Addresses :
          Dropped(udpActive, s)[b] = IF udpActive[b] = s THEN None ELSE udpActive[b]
    BY <1>1, DroppedAt, SMT
  <2>3. \A b \in Addresses : udpActive[b] = s => session[s].finished
    BY <1>1, <2>1 DEF ServerInv, EntriesTrue, StepsTrue
  <2> QED
    BY <2>1, <2>2, <2>3 DEF KeepsActive
<1>9. CASE UNCHANGED serverVars
  BY <1>2, <1>9 DEF serverVars, sessionVars, registries
<1>10. CASE ServerNext
  <2>1. CASE Listen
    <3>1. CASE (\E a \in Arriving : Arrive(a)) \/ ReserveInstance \/ StopListening
      BY <1>2, <3>1 DEF Arrive, ReserveInstance, StopListening, registries
    <3> QED
      BY <1>3, <1>4, <1>5, <2>1, <3>1 DEF Listen
  <2>2. ASSUME NEW s \in Sessions, Proceed(s) PROVE KeepsActive
    <3>1. CASE \/ NotInitial(s) \/ TakeSlot(s) \/ Replaced(s) \/ LearnIdentity(s)
               \/ CheckOwner(s) \/ LeaveTunnel(s) \/ Finish(s) \/ ReleaseReservation(s)
      BY <1>2, <3>1 DEF NotInitial, TakeSlot, Replaced, LearnIdentity, CheckOwner, LeaveTunnel,
                        Finish, ReleaseReservation, registries
    <3>2. CASE EnablePeerID(s) \/ ClaimIdentity(s)
      BY <1>2, <3>2 DEF EnablePeerID, ClaimIdentity
    <3> QED
      BY <1>6, <1>8, <2>2, <3>1, <3>2 DEF Proceed
  <2>3. ASSUME NEW s \in Sessions,
               Handshake(s) \/ GiveUpWaiting(s) \/ Push(s) \/ CloseSession(s) \/ EndSession(s)
        PROVE  KeepsActive
    BY <1>2, <2>3 DEF Handshake, GiveUpWaiting, Push, CloseSession, EndSession, registries
  <2>4. ASSUME NEW s \in Sessions, NEW a \in Floating, Float(s, a) PROVE KeepsActive
    <3>1. a \in Addresses
      BY OptionsTyped DEF ServerInv, TypeOK
    <3> QED
      BY <1>7, <2>4, <3>1
  <2>5. CASE BeginClose \/ CloseSessions \/ EndClose
    BY <1>2, <2>5 DEF BeginClose, CloseSessions, EndClose, registries
  <2> QED
    BY <1>10, <2>1, <2>2, <2>3, <2>4, <2>5 DEF ServerNext
<1> QED
  BY <1>9, <1>10

\* registerInitialSession and promoteInitialSession: a reset on an address that carries a
\* tunnel does not disturb it, whatever else the server is doing.
THEOREM AlwaysActiveKept == ServerSpec => ActiveKept
<1>1. ServerInv /\ [ServerNext]_serverVars => [KeepsActive]_serverVars
  BY KeepsActiveStep
<1> QED
  BY <1>1, ServerInvariance, PTL DEF ServerSpec, ActiveKept

-----------------------------------------------------------------------------
(* The time and its buckets *)

\* A number of buckets and the seconds since the last one began are found again in the time
\* they make up, as deriveSessionIDAt divides it.
LEMMA DivisionUnique ==
  ASSUME NEW w \in Nat \ {0}, NEW q \in Nat, NEW r \in 0..(w - 1)
  PROVE  (q * w + r) \div w = q /\ (q * w + r) % w = r
<1> DEFINE t == q * w + r
           d == t \div w
           m == t % w
<1>1. t \in Nat /\ t = q * w + r
  BY SMT
<1> HIDE DEF t
<1>2. d \in Int /\ m \in 0..(w - 1) /\ t = d * w + m
  BY <1>1, SMT
<1> HIDE DEF d, m
<1>3. ~(d < q)
  <2> SUFFICES ASSUME d < q PROVE FALSE
    OBVIOUS
  <2>1. (d + 1) * w <= q * w
    BY <1>2, SMT
  <2> QED
    BY <2>1, <1>1, <1>2, SMT
<1>4. ~(q < d)
  <2> SUFFICES ASSUME q < d PROVE FALSE
    OBVIOUS
  <2>1. (q + 1) * w <= d * w
    BY <1>2, SMT
  <2> QED
    BY <2>1, <1>1, <1>2, SMT
<1>5. d = q
  BY <1>2, <1>3, <1>4, SMT
<1>6. m = r
  BY <1>1, <1>2, <1>5, SMT
<1> QED
  BY <1>5, <1>6 DEF d, m, t

\* The buckets are as wide as half the handshake window, rounded up.
LEMMA WidthTyped ==
  Width \in Nat \ {0} /\ handwindow <= 2 * Width /\ MaxAge = 4 * Width
BY AdmissionAssumption, SMTT(30) DEF Width, MaxAge

\* A second later it is the same bucket or the first second of the next one; after the last
\* bucket comes the first.
LEMMA SecondLater ==
  ASSUME NEW t \in 0..(Width * Buckets - 1), NEW u, u = (t + 1) % (Width * Buckets)
  PROVE  /\ u \in 0..(Width * Buckets - 1)
         /\ t \div Width \in 0..(Buckets - 1) /\ t % Width \in 0..(Width - 1)
         /\ \/ /\ (t % Width) + 1 < Width
               /\ u % Width = (t % Width) + 1 /\ u \div Width = t \div Width
            \/ /\ t % Width = Width - 1
               /\ u % Width = 0 /\ u \div Width = (t \div Width + 1) % Buckets
<1> DEFINE w == Width
           q == t \div w
           r == t % w
<1>w. w \in Nat \ {0} /\ Buckets \in Nat /\ Buckets >= 6
  BY WidthTyped, AdmissionAssumption
<1> HIDE DEF w
<1>1. t \in Nat /\ q \in Nat /\ r \in 0..(w - 1) /\ t = q * w + r /\ t < w * Buckets
  <2>1. w * Buckets \in Nat
    BY <1>w, SMT
  <2>2. t \in Nat /\ t < w * Buckets
    BY <2>1, SMT DEF w
  <2> QED
    BY <2>2, <1>w, SMT
<1> HIDE DEF q, r
<1>2. q < Buckets
  <2> SUFFICES ASSUME Buckets <= q PROVE FALSE
    BY <1>1, <1>w, SMT
  <2>1. Buckets * w <= q * w
    BY <1>1, <1>w, SMT
  <2> QED
    BY <2>1, <1>1, <1>w, SMT
<1>3. (q + 1) * w <= Buckets * w
  BY <1>1, <1>2, <1>w, SMT
<1>4. CASE r + 1 < w
  <2>1. t + 1 = q * w + (r + 1) /\ r + 1 \in 0..(w - 1)
    BY <1>1, <1>4, <1>w, SMT
  <2>2. t + 1 < w * Buckets
    BY <2>1, <1>1, <1>3, <1>4, <1>w, SMT
  <2>3. u = t + 1
    BY <2>2, <1>1, <1>w, SMT DEF w
  <2> DEFINE k == r + 1
  <2>4. u = q * w + k /\ k \in 0..(w - 1) /\ q \in Nat /\ w \in Nat \ {0}
    BY <2>1, <2>3, <1>1, <1>w
  <2> HIDE DEF k
  <2>5. (q * w + k) \div w = q /\ (q * w + k) % w = k
    BY <2>4, DivisionUnique
  <2>6. u \div w = q /\ u % w = r + 1
    BY <2>4, <2>5 DEF k
  <2> QED
    BY <2>2, <2>3, <2>6, <1>1, <1>2, <1>4, <1>w, SMTT(30) DEF q, r, w
<1>5. CASE r = w - 1 /\ q + 1 < Buckets
  <2>1. t + 1 = (q + 1) * w + 0 /\ 0 \in 0..(w - 1) /\ q + 1 \in Nat
    BY <1>1, <1>5, <1>w, SMT
  <2>2. (q + 2) * w <= Buckets * w
    BY <1>1, <1>5, <1>w, SMT
  <2>3. t + 1 < w * Buckets
    BY <2>1, <2>2, <1>1, <1>w, SMTT(30)
  <2>4. u = t + 1
    BY <2>3, <1>1, <1>w, SMT DEF w
  <2>5. ((q + 1) * w + 0) \div w = q + 1 /\ ((q + 1) * w + 0) % w = 0
    BY <2>1, <1>w, DivisionUnique
  <2>6. u \div w = q + 1 /\ u % w = 0
    BY <2>1, <2>4, <2>5
  <2>7. (q + 1) % Buckets = q + 1
    BY <1>1, <1>5, <1>w, SMTT(30)
  <2> QED
    BY <2>3, <2>4, <2>6, <2>7, <1>1, <1>2, <1>5, <1>w, SMTT(30) DEF q, r, w
<1>6. CASE r = w - 1 /\ q + 1 = Buckets
  <2>1. t + 1 = w * Buckets /\ w * Buckets \in Nat \ {0}
    BY <1>1, <1>6, <1>w, SMT
  <2>2. u = 0
    BY <2>1, SMT DEF w
  <2>4. u \div w = 0 /\ u % w = 0
    BY <2>2, <1>w, SMT
  <2>5. (q + 1) % Buckets = 0
    BY <1>6, <1>w, SMT
  <2> QED
    BY <2>1, <2>2, <2>4, <2>5, <1>1, <1>2, <1>6, <1>w, SMT DEF q, r, w
<1> QED
  BY <1>1, <1>2, <1>4, <1>5, <1>6, <1>w, SMT

-----------------------------------------------------------------------------
(* The challenges *)

\* The remainders of the bucket numbers that occur: at most Buckets is taken off once.
LEMMA BucketSum ==
  ASSUME NEW b \in 0..(Buckets - 1), NEW n \in 0..5
  PROVE  (b + n) % Buckets = IF b + n < Buckets THEN b + n ELSE b + n - Buckets
BY AdmissionAssumption, SMT

\* validateAt accepts the buckets from two before the present one to one after it.
LEMMA AcceptedBuckets ==
  ASSUME NEW q \in 0..(Buckets - 1), NEW b \in 0..(Buckets - 1), NEW n \in 0..4,
         now \div Width = q, q = (b + n) % Buckets
  PROVE  validateAt(b) <=> n <= 2
<1>a. Buckets \in Nat /\ Buckets >= 6
  BY AdmissionAssumption
<1>1. q = IF b + n < Buckets THEN b + n ELSE b + n - Buckets
  BY BucketSum, SMT
<1>2. Bucket(-2) = IF q >= 2 THEN q - 2 ELSE q - 2 + Buckets
  BY <1>a, SMT DEF Bucket
<1>3. Bucket(-1) = IF q >= 1 THEN q - 1 ELSE q - 1 + Buckets
  BY <1>a, SMT DEF Bucket
<1>4. Bucket(0) = q
  BY <1>a, SMT DEF Bucket
<1>5. Bucket(1) = IF q + 1 < Buckets THEN q + 1 ELSE q + 1 - Buckets
  BY <1>a, SMT DEF Bucket
<1>6. validateAt(b) <=> b \in {Bucket(-2), Bucket(-1), Bucket(0), Bucket(1)}
  <2>1. -2..1 = {-2, -1, 0, 1}
    BY SMT
  <2> QED
    BY <2>1 DEF validateAt
<1> QED
  BY <1>a, <1>1, <1>2, <1>3, <1>4, <1>5, <1>6, SMT

\* A challenge of which CookiesTrue holds is accepted for the handshake window and refused
\* after three buckets.
LEMMA VerdictRight ==
  ASSUME AdmissionTypeOK, CookiesTrue, NEW c \in Clients, cookie[c] # NoCookie
  PROVE  /\ cookie[c].age <= handwindow => validateAt(cookie[c].bucket)
         /\ cookie[c].age >= 3 * Width => ~validateAt(cookie[c].bucket)
<1> DEFINE b == cookie[c].bucket
           a == cookie[c].age
<1>1. b \in 0..(Buckets - 1) /\ a \in Nat
  BY AdmissionAssumption, WidthTyped, SMT DEF AdmissionTypeOK, CookiesTrue
<1>2. PICK n \in 0..4, r \in 0..(Width - 1) : MadeAt(cookie[c], n, r)
  BY DEF CookiesTrue
<1>3. now \div Width \in 0..(Buckets - 1) /\ now % Width \in 0..(Width - 1)
  BY SecondLater DEF AdmissionTypeOK
<1>4. r + a = n * Width + (now % Width) /\ now \div Width = (b + n) % Buckets
  BY <1>2 DEF MadeAt
<1> HIDE DEF a, b
<1>5. validateAt(b) <=> n <= 2
  BY <1>1, <1>3, <1>4, AcceptedBuckets
<1> DEFINE m == now % Width
           w == Width
<1>6. r + a = n * w + m /\ m \in 0..(w - 1) /\ r \in 0..(w - 1) /\ w \in Nat \ {0}
      /\ handwindow <= 2 * w /\ handwindow \in Nat
  BY <1>3, <1>4, WidthTyped, AdmissionAssumption, SMT
<1> HIDE DEF m, w
<1>7. n = 0 \/ n = 1 \/ n = 2 \/ n = 3 \/ n = 4
  BY SMT
<1>8. a <= handwindow => n <= 2
  BY <1>1, <1>6, <1>7, SMT
<1>9. a >= 3 * w => ~(n <= 2)
  BY <1>1, <1>6, <1>7, SMT
<1> QED
  BY <1>5, <1>8, <1>9 DEF a, b, w

-----------------------------------------------------------------------------
(* Every step keeps the invariant *)

\* Nothing was asked for yet.
LEMMA AdmissionBegins == AdmissionInit => AdmissionInv
<1> SUFFICES ASSUME AdmissionInit PROVE AdmissionInv
  OBVIOUS
<1> USE AdmissionAssumption, WidthTyped
<1>1. Width * Buckets - 1 \in Nat
  BY SMT
<1>2. now \in 0..(Width * Buckets - 1)
  BY <1>1, SMT DEF AdmissionInit
<1>3. NoCookie \in [bucket : -1..(Buckets - 1), age : 0..(MaxAge - 1)]
  BY SMT DEF NoCookie
<1>4. cookie \in [Clients -> [bucket : -1..(Buckets - 1), age : 0..(MaxAge - 1)]]
  BY <1>3 DEF AdmissionInit
<1>5. passed \in [age : -1..initialConnectFrequencyPeriod, count : Nat]
      /\ verdict \in [age : Nat, accepted : BOOLEAN]
  BY SMT DEF AdmissionInit
<1>6. initialAge \in -1..(initialConnectFrequencyPeriod + 1) /\ initialWindowCount \in Nat
  BY SMT DEF AdmissionInit
<1>7. AdmissionTypeOK
  BY <1>2, <1>4, <1>5, <1>6 DEF AdmissionTypeOK
<1>8. CookiesTrue
  BY DEF AdmissionInit, CookiesTrue
<1>9. PassedTrue
  BY SMT DEF AdmissionInit, PassedTrue
<1>10. AdmissionBounded
  BY SMT DEF AdmissionInit, AdmissionBounded, CookieWindow, RateKept
<1> QED
  BY <1>7, <1>8, <1>9, <1>10 DEF AdmissionInv

\* The part of the invariant about the limit on resets.
RateInv ==
  /\ initialAge \in -1..(initialConnectFrequencyPeriod + 1) /\ initialWindowCount \in Nat
  /\ passed \in [age : -1..initialConnectFrequencyPeriod, count : Nat]
  /\ PassedTrue /\ RateKept

\* The part about the challenges.
ChallengeInv ==
  /\ now \in 0..(Width * Buckets - 1)
  /\ cookie \in [Clients -> [bucket : -1..(Buckets - 1), age : 0..(MaxAge - 1)]]
  /\ verdict \in [age : Nat, accepted : BOOLEAN]
  /\ CookiesTrue /\ CookieWindow

\* The rate of the initial packets and the challenge are accounts of their own.
LEMMA InvParts == AdmissionInv <=> RateInv /\ ChallengeInv
BY DEF AdmissionInv, AdmissionTypeOK, AdmissionBounded, RateInv, ChallengeInv

\* A reset that allowInitialPacket lets through, n of which are left after the refund.
LEMMA PassCounted ==
  ASSUME RateInv, allowInitialPacket.allowed, NEW n \in 0..1,
         initialAge' = allowInitialPacket.age,
         initialWindowCount' \in Nat, initialWindowCount' >= allowInitialPacket.count - 1 + n,
         passed' = Pass(n)
  PROVE  RateInv'
<1> DEFINE P == initialConnectFrequencyPeriod
           F == initialConnectFrequency
           begins == initialAge < 0 \/ initialAge > P
           count == IF begins THEN 1 ELSE initialWindowCount + 1
<1>a. P \in Nat /\ F \in Nat
  BY AdmissionAssumption
<1>1. /\ allowInitialPacket.age = IF begins THEN 0 ELSE initialAge
      /\ allowInitialPacket.count = count /\ count <= F
  BY DEF allowInitialPacket
<1>t. /\ passed.age \in -1..P /\ passed.count \in Nat /\ initialAge \in -1..(P + 1)
      /\ initialWindowCount \in Nat
  BY DEF RateInv
<1>p. PassedTrue /\ RateKept
  BY DEF RateInv
<1>2. CASE begins
  <2>1. passed.age < 0
    BY <1>2, <1>t, <1>p, <1>a, SMT DEF PassedTrue
  <2>2. passed' = [age |-> 0, count |-> n] /\ initialAge' = 0 /\ initialWindowCount' >= n
        /\ n <= F
    BY <2>1, <1>1, <1>2, <1>a, SMTT(30) DEF Pass
  <2> QED
    BY <2>2, <1>a, SMT DEF RateInv, PassedTrue, RateKept
<1>3. CASE ~begins
  <2>1. ~(passed.age < 0) /\ passed.age = initialAge /\ passed.count <= initialWindowCount
    BY <1>1, <1>3, <1>t, <1>p, <1>a, SMT DEF PassedTrue
  <2>2. passed' = [passed EXCEPT !.count = @ + n]
    BY <2>1 DEF Pass
  <2>3. passed' = [age |-> initialAge, count |-> passed.count + n]
    BY <2>1, <2>2, SMT DEF RateInv
  <2>4. initialAge' = initialAge /\ initialWindowCount' >= initialWindowCount + n
        /\ initialWindowCount + 1 <= F
    BY <1>1, <1>3, <1>t, SMT
  <2> QED
    BY <2>1, <2>3, <2>4, <1>t, <1>3, <1>a, SMTT(30) DEF RateInv, PassedTrue, RateKept
<1> QED
  BY <1>2, <1>3

\* The limit is not touched by what leaves its window alone.
LEMMA RateKeeps ==
  ASSUME RateInv, UNCHANGED <<initialAge, initialWindowCount, passed>>
  PROVE  RateInv'
BY DEF RateInv, PassedTrue, RateKept

\* A reset that is refused is counted all the same.
LEMMA RefusedCounted ==
  ASSUME RateInv, ~allowInitialPacket.allowed, initialAge' = allowInitialPacket.age,
         initialWindowCount' = allowInitialPacket.count, passed' = passed
  PROVE  RateInv'
<1> DEFINE P == initialConnectFrequencyPeriod
           F == initialConnectFrequency
           begins == initialAge < 0 \/ initialAge > P
           count == IF begins THEN 1 ELSE initialWindowCount + 1
<1>a. P \in Nat /\ F \in Nat
  BY AdmissionAssumption
<1>1. /\ initialAge' = IF begins THEN 0 ELSE initialAge
      /\ initialWindowCount' = count /\ ~(count <= F)
  BY DEF allowInitialPacket
<1>t. /\ passed.age \in -1..P /\ passed.count \in Nat /\ initialAge \in -1..(P + 1)
      /\ initialWindowCount \in Nat
  BY DEF RateInv
<1>p. PassedTrue /\ RateKept
  BY DEF RateInv
<1>2. CASE begins
  <2>1. passed.age < 0 /\ F = 0
    BY <1>1, <1>2, <1>t, <1>p, <1>a, SMTT(30) DEF PassedTrue
  <2> QED
    BY <2>1, <1>1, <1>2, <1>t, <1>p, <1>a, SMTT(30) DEF RateInv, PassedTrue, RateKept
<1>3. CASE ~begins
  BY <1>1, <1>3, <1>t, <1>p, <1>a, SMTT(30) DEF RateInv, PassedTrue, RateKept
<1> QED
  BY <1>2, <1>3

\* refundInitialPacket takes one off, and off what was let through.
LEMMA RefundCounted ==
  ASSUME RateInv, initialAge' = initialAge, initialWindowCount' = Refunded(initialWindowCount),
         passed' = [passed EXCEPT !.count = IF @ > 0 THEN @ - 1 ELSE 0]
  PROVE  RateInv'
<1> DEFINE n == IF passed.count > 0 THEN passed.count - 1 ELSE 0
<1>1. passed' = [age |-> passed.age, count |-> n]
  BY SMT DEF RateInv
<1>t. /\ passed.age \in -1..initialConnectFrequencyPeriod /\ passed.count \in Nat
      /\ initialAge \in -1..(initialConnectFrequencyPeriod + 1) /\ initialWindowCount \in Nat
  BY DEF RateInv
<1>p. PassedTrue /\ RateKept
  BY DEF RateInv
<1>2. n \in Nat /\ n <= passed.count /\ (passed.count = 0 => n = 0)
      /\ (passed.count <= initialWindowCount => n <= Refunded(initialWindowCount))
      /\ Refunded(initialWindowCount) \in Nat
  BY <1>t, SMT DEF Refunded
<1> HIDE DEF n
<1> QED
  BY <1>1, <1>2, <1>t, <1>p, AdmissionAssumption, SMTT(30) DEF RateInv, PassedTrue, RateKept

\* The window and the period grow old together, and the period ends first.
LEMMA RateTick ==
  ASSUME RateInv, Tick
  PROVE  RateInv'
<1> DEFINE P == initialConnectFrequencyPeriod
<1>a. P \in Nat /\ initialConnectFrequency \in Nat
  BY AdmissionAssumption
<1>t. /\ passed.age \in -1..P /\ passed.count \in Nat /\ initialAge \in -1..(P + 1)
      /\ initialWindowCount \in Nat
  BY DEF RateInv
<1>p. PassedTrue /\ RateKept
  BY DEF RateInv
<1>1. initialAge' = IF initialAge < 0 \/ initialAge > P THEN initialAge ELSE initialAge + 1
  BY DEF Tick, Older
<1>w. initialWindowCount' = initialWindowCount
  BY DEF Tick
<1>2. CASE passed.age >= P
  <2>1. passed' = [age |-> -1, count |-> 0]
    BY <1>2 DEF Tick
  <2>2. passed.age = initialAge
    BY <1>2, <1>a, <1>t, <1>p, SMT DEF PassedTrue
  <2>3. initialAge' = P + 1
    BY <2>2, <1>1, <1>2, <1>a, <1>t, SMTT(30)
  <2> QED
    BY <2>1, <2>3, <1>w, <1>a, <1>t, SMTT(30) DEF RateInv, PassedTrue, RateKept
<1>3. CASE ~(passed.age >= P) /\ passed.age >= 0
  <2>1. passed' = [age |-> passed.age + 1, count |-> passed.count]
    BY <1>3, <1>t, SMTT(30) DEF Tick, RateInv
  <2> QED
    BY <2>1, <1>1, <1>3, <1>w, <1>a, <1>t, <1>p, SMTT(30) DEF RateInv, PassedTrue, RateKept
<1>4. CASE passed.age < 0
  <2>1. passed' = [age |-> passed.age, count |-> passed.count]
    BY <1>4, <1>t, <1>a, SMT DEF Tick, RateInv
  <2> QED
    BY <2>1, <1>1, <1>4, <1>w, <1>a, <1>t, <1>p, SMT DEF RateInv, PassedTrue, RateKept
<1> QED
  BY <1>2, <1>3, <1>4, <1>t, <1>a, SMT

\* A packet that is handled, of whatever kind, keeps to the limit.
LEMMA RatePacket ==
  ASSUME RateInv, CookiesTrue, NEW c \in Clients, Reset(c) \/ DirectReset(c) \/ Respond(c)
  PROVE  RateInv'
<1> DEFINE A == allowInitialPacket
<1>c. A.count \in Nat \ {0} /\ 1 \in 0..1 /\ 0 \in 0..1
  BY SMT DEF allowInitialPacket, RateInv
<1>r. Refunded(A.count) \in Nat /\ Refunded(A.count) >= A.count - 1 + 0
      /\ A.count >= A.count - 1 + 1
  BY <1>c, SMT DEF Refunded
<1>1. CASE Reset(c) /\ A.allowed
  BY <1>1, <1>c, <1>r, PassCounted DEF Reset
<1>2. CASE Reset(c) /\ ~A.allowed
  BY <1>2, RefusedCounted DEF Reset
<1>3. CASE DirectReset(c) /\ ~A.allowed
  BY <1>3, RefusedCounted DEF DirectReset
<1>4. CASE DirectReset(c) /\ A.allowed /\ CryptV2ForceCookie
  BY <1>4, <1>c, <1>r, PassCounted DEF DirectReset
<1>5. CASE DirectReset(c) /\ A.allowed /\ ~CryptV2ForceCookie
  <2>1. Admit(c, A) /\ c \in Direct
    BY <1>5 DEF DirectReset
  <2>2. initialAge' = A.age
    BY <2>1 DEF Admit
  <2>3. CASE allowNewConnection.allowed
    <3>1. initialWindowCount' = Refunded(A.count) /\ passed' = Pass(0)
      BY <2>1, <2>3 DEF Admit
    <3> QED
      BY <3>1, <2>2, <1>5, <1>c, <1>r, PassCounted
  <2>4. CASE ~allowNewConnection.allowed
    <3>1. initialWindowCount' = A.count /\ passed' = Pass(1)
      BY <2>1, <2>4 DEF Admit
    <3> QED
      BY <3>1, <2>2, <1>5, <1>c, <1>r, PassCounted
  <2> QED
    BY <2>3, <2>4
<1>6. CASE Respond(c)
  <2>1. c \notin Direct
    BY <1>6 DEF Respond, CookiesTrue
  <2>2. CASE validateAt(cookie[c].bucket)
    <3> DEFINE I == [age |-> initialAge, count |-> initialWindowCount]
    <3>1. Admit(c, I)
      BY <1>6, <2>2 DEF Respond
    <3>2. I.age = initialAge /\ I.count = initialWindowCount
      OBVIOUS
    <3> HIDE DEF I
    <3>3. CASE allowNewConnection.allowed
      <4>1. initialAge' = I.age /\ initialWindowCount' = Refunded(I.count)
            /\ passed' = [passed EXCEPT !.count = IF @ > 0 THEN @ - 1 ELSE 0]
        BY <3>1, <3>3, <2>1 DEF Admit
      <4> QED
        BY <4>1, <3>2, RefundCounted
    <3>4. CASE ~allowNewConnection.allowed
      <4>1. initialAge' = I.age /\ initialWindowCount' = I.count /\ passed' = passed
        BY <3>1, <3>4, <2>1 DEF Admit
      <4> QED
        BY <4>1, <3>2, RateKeeps
    <3> QED
      BY <3>3, <3>4
  <2>3. CASE ~validateAt(cookie[c].bucket)
    BY <1>6, <2>3, RateKeeps DEF Respond, windows
  <2> QED
    BY <2>2, <2>3
<1> QED
  BY <1>1, <1>2, <1>3, <1>4, <1>5, <1>6

\* The challenges are not touched by what leaves them, the time and the verdict alone.
LEMMA ChallengeKeeps ==
  ASSUME ChallengeInv, UNCHANGED <<now, cookie, verdict>>
  PROVE  ChallengeInv'
BY DEF ChallengeInv, CookiesTrue, MadeAt, CookieWindow

\* A challenge is made in the present bucket.
LEMMA ResetChallenge ==
  ASSUME ChallengeInv, NEW c \in Clients, Reset(c)
  PROVE  ChallengeInv'
<1> DEFINE new == [bucket |-> Bucket(0), age |-> 0]
<1>u. now' = now /\ verdict' = verdict
  BY DEF Reset
<1>1. CASE cookie' = cookie
  BY <1>1, <1>u, ChallengeKeeps
<1>2. CASE cookie' = [cookie EXCEPT ![c] = new]
  <2>a. Buckets \in Nat /\ Buckets >= 6 /\ Width \in Nat \ {0} /\ MaxAge = 4 * Width
    BY AdmissionAssumption, WidthTyped
  <2>1. now \div Width \in 0..(Buckets - 1) /\ now % Width \in 0..(Width - 1)
    BY SecondLater DEF ChallengeInv
  <2>2. Bucket(0) = now \div Width /\ (now \div Width + 0) % Buckets = now \div Width
    BY <2>1, <2>a, SMTT(30) DEF Bucket
  <2>3. new \in [bucket : -1..(Buckets - 1), age : 0..(MaxAge - 1)]
    BY <2>1, <2>2, <2>a, SMT
  <2>4. new.bucket = now \div Width /\ new.age = 0
    BY <2>2
  <2>5. 0 \in 0..4 /\ (now % Width) + 0 = 0 * Width + (now % Width) /\ new.bucket >= 0
    BY <2>1, <2>4, <2>a, SMT
  <2> HIDE DEF new
  <2>6. MadeAt(new, 0, now % Width)
    BY <2>2, <2>4, <2>5 DEF MadeAt
  <2>7. cookie' \in [Clients -> [bucket : -1..(Buckets - 1), age : 0..(MaxAge - 1)]]
    BY <2>3, <1>2 DEF ChallengeInv
  <2>8. CookiesTrue'
    <3> SUFFICES ASSUME NEW d \in Clients, cookie'[d] # NoCookie
                 PROVE  /\ d \notin Direct /\ cookie'[d].bucket >= 0
                        /\ \E n \in 0..4, r \in 0..(Width - 1) : MadeAt(cookie[d], n, r)'
      BY DEF CookiesTrue
    <3>1. CASE d = c
      <4>1. cookie'[d] = new
        BY <3>1, <1>2 DEF ChallengeInv
      <4>2. MadeAt(cookie[d], 0, now % Width)'
        BY <4>1, <2>6, <1>u DEF MadeAt
      <4>3. d \notin Direct
        BY <3>1 DEF Reset
      <4> QED
        BY <4>1, <4>2, <4>3, <2>1, <2>5, <1>u
    <3>2. CASE d # c
      <4>1. cookie'[d] = cookie[d]
        BY <3>2, <1>2 DEF ChallengeInv
      <4>2. PICK n \in 0..4, r \in 0..(Width - 1) : MadeAt(cookie[d], n, r)
        BY <4>1 DEF ChallengeInv, CookiesTrue
      <4>3. MadeAt(cookie[d], n, r)'
        BY <4>1, <4>2, <1>u DEF MadeAt
      <4> QED
        BY <4>1, <4>3 DEF ChallengeInv, CookiesTrue
    <3> QED
      BY <3>1, <3>2
  <2> QED
    BY <2>7, <2>8, <1>u DEF ChallengeInv, CookieWindow
<1> QED
  BY <1>1, <1>2 DEF Reset

\* The response to a challenge gets the verdict that is right for its age.
LEMMA RespondChallenge ==
  ASSUME AdmissionTypeOK, ChallengeInv, NEW c \in Clients, Respond(c)
  PROVE  ChallengeInv'
<1>1. cookie[c] # NoCookie /\ CookiesTrue
  BY DEF Respond, ChallengeInv
<1>2. /\ cookie[c].age <= handwindow => validateAt(cookie[c].bucket)
      /\ cookie[c].age >= 3 * Width => ~validateAt(cookie[c].bucket)
  BY <1>1, VerdictRight
<1>3. now' = now /\ cookie' = cookie
  BY DEF Respond
<1>4. verdict' = [age |-> cookie[c].age, accepted |-> validateAt(cookie[c].bucket)]
  BY DEF Respond
<1>5. verdict'.age = cookie[c].age /\ verdict'.accepted = validateAt(cookie[c].bucket)
  BY <1>4
<1>6. CookieWindow'
  BY <1>2, <1>5 DEF CookieWindow
<1>7. CookiesTrue'
  BY <1>1, <1>3 DEF CookiesTrue, MadeAt
<1>8. cookie[c].age \in Nat
  BY WidthTyped, SMT DEF ChallengeInv
<1>9. validateAt(cookie[c].bucket) \in BOOLEAN
  BY DEF validateAt
<1>10. verdict' \in [age : Nat, accepted : BOOLEAN]
  BY <1>4, <1>8, <1>9
<1> QED
  BY <1>3, <1>6, <1>7, <1>10 DEF ChallengeInv

\* A challenge that has not expired grows a second older with the time: another bucket has
\* begun, or another second of the same bucket.
LEMMA ChallengeAges ==
  ASSUME now \in 0..(Width * Buckets - 1), now' = (now + 1) % (Width * Buckets),
         NEW b \in 0..(Buckets - 1), NEW a \in Nat, a + 1 < MaxAge,
         NEW n \in 0..4, NEW r \in 0..(Width - 1), MadeAt([bucket |-> b, age |-> a], n, r)
  PROVE  \E k \in 0..4 : MadeAt([bucket |-> b, age |-> a + 1], k, r)'
<1> DEFINE q == now \div Width
           m == now % Width
           q1 == now' \div Width
           m1 == now' % Width
           w == Width
<1>1. /\ q \in 0..(Buckets - 1) /\ m \in 0..(w - 1)
      /\ \/ m + 1 < w /\ m1 = m + 1 /\ q1 = q
         \/ m = w - 1 /\ m1 = 0 /\ q1 = (q + 1) % Buckets
  BY SecondLater
<1>2. r + a = n * w + m /\ q = (b + n) % Buckets
  BY DEF MadeAt
<1>3. w \in Nat \ {0} /\ a + 1 < 4 * w /\ Buckets \in Nat /\ Buckets >= 6
  BY WidthTyped, AdmissionAssumption, SMT
<1>4. ASSUME NEW k \in 0..4, r + (a + 1) = k * w + m1, q1 = (b + k) % Buckets
      PROVE  \E j \in 0..4 : MadeAt([bucket |-> b, age |-> a + 1], j, r)'
  BY <1>4 DEF MadeAt
<1>r. r \in 0..(w - 1)
  OBVIOUS
<1>5. CASE m + 1 < w /\ m1 = m + 1 /\ q1 = q
  <2> HIDE DEF q, m, q1, m1, w
  <2>1. r + (a + 1) = n * w + m1
    <3>1. n * w \in Int
      BY <1>3, SMT
    <3> QED
      BY <3>1, <1>1, <1>2, <1>3, <1>5, <1>r, SMTT(30)
  <2> QED
    BY <2>1, <1>2, <1>4, <1>5
<1>6. CASE m = w - 1 /\ m1 = 0 /\ q1 = (q + 1) % Buckets
  <2> HIDE DEF q, m, q1, m1, w
  <2>1. n = 0 \/ n = 1 \/ n = 2 \/ n = 3 \/ n = 4
    BY SMT
  <2>2. r + (a + 1) = (n + 1) * w + m1 /\ n + 1 \in 0..4
    BY <2>1, <1>1, <1>2, <1>3, <1>6, <1>r, SMTT(30)
  <2>3. (b + n) % Buckets = IF b + n < Buckets THEN b + n ELSE b + n - Buckets
    BY BucketSum, SMT
  <2>4. (b + (n + 1)) % Buckets = IF b + (n + 1) < Buckets THEN b + (n + 1)
                                  ELSE b + (n + 1) - Buckets
    BY <2>2, BucketSum, SMTT(30)
  <2>5. (q + 1) % Buckets = IF q + 1 < Buckets THEN q + 1 ELSE 0
    BY <1>1, <1>3, SMTT(30)
  <2>6. q1 = (b + (n + 1)) % Buckets
    BY <2>1, <2>3, <2>4, <2>5, <1>2, <1>3, <1>6, SMTT(30)
  <2> QED
    BY <2>2, <2>6, <1>4
<1> QED
  BY <1>1, <1>5, <1>6

\* The time passes, and with it the age of every challenge.
LEMMA TickChallenge ==
  ASSUME ChallengeInv, Tick
  PROVE  ChallengeInv'
<1> DEFINE T == [bucket : -1..(Buckets - 1), age : 0..(MaxAge - 1)]
           Next1(x) == IF x = NoCookie \/ x.age + 1 = MaxAge THEN NoCookie
                       ELSE [x EXCEPT !.age = @ + 1]
<1>a. Buckets \in Nat /\ Buckets >= 6 /\ Width \in Nat \ {0} /\ MaxAge = 4 * Width
  BY AdmissionAssumption, WidthTyped
<1>n. now \in 0..(Width * Buckets - 1) /\ now' = (now + 1) % (Width * Buckets)
  BY DEF ChallengeInv, Tick
<1>1. now' \in 0..(Width * Buckets - 1)
  BY <1>n, SecondLater
<1>2. cookie \in [Clients -> T] /\ cookie' = [c \in Clients |-> Next1(cookie[c])]
  BY DEF ChallengeInv, Tick
<1>3. ASSUME NEW x \in T
      PROVE  /\ Next1(x) \in T
             /\ Next1(x) # NoCookie => /\ x # NoCookie /\ x = [bucket |-> x.bucket, age |-> x.age]
                                       /\ x.age \in Nat /\ x.age + 1 < MaxAge
                                       /\ Next1(x) = [bucket |-> x.bucket, age |-> x.age + 1]
  BY <1>3, <1>a, SMT DEF NoCookie
<1> HIDE DEF Next1, T
<1>4. cookie' \in [Clients -> T]
  BY <1>2, <1>3
<1>5. CookiesTrue'
  <2> SUFFICES ASSUME NEW c \in Clients, cookie'[c] # NoCookie
               PROVE  /\ c \notin Direct /\ cookie'[c].bucket >= 0
                      /\ \E n \in 0..4, r \in 0..(Width - 1) : MadeAt(cookie[c], n, r)'
    BY DEF CookiesTrue
  <2> DEFINE x == cookie[c]
  <2>1. x \in T /\ cookie'[c] = Next1(x)
    BY <1>2
  <2>2. /\ x # NoCookie /\ x = [bucket |-> x.bucket, age |-> x.age] /\ x.age \in Nat
        /\ x.age + 1 < MaxAge /\ cookie'[c] = [bucket |-> x.bucket, age |-> x.age + 1]
    BY <2>1, <1>3
  <2>3. PICK n \in 0..4, r \in 0..(Width - 1) : MadeAt(x, n, r)
    BY <2>2 DEF ChallengeInv, CookiesTrue
  <2>4. c \notin Direct /\ x.bucket >= 0
    BY <2>2 DEF ChallengeInv, CookiesTrue
  <2>5. x.bucket \in 0..(Buckets - 1)
    BY <2>1, <2>4, <1>a, SMT DEF T
  <2>6. MadeAt([bucket |-> x.bucket, age |-> x.age], n, r)
    BY <2>2, <2>3
  <2>7. PICK b \in 0..(Buckets - 1), a \in Nat : b = x.bucket /\ a = x.age
    BY <2>2, <2>5
  <2>8. PICK k \in 0..4 : MadeAt([bucket |-> b, age |-> a + 1], k, r)'
    BY <2>2, <2>6, <2>7, <1>n, ChallengeAges
  <2>9. cookie'[c] = [bucket |-> b, age |-> a + 1]
    BY <2>2, <2>7
  <2>10. MadeAt(cookie[c], k, r)'
    BY <2>8, <2>9 DEF MadeAt
  <2>11. cookie'[c].bucket >= 0
    <3>1. cookie'[c].bucket = x.bucket
      BY <2>7, <2>9, SMT
    <3> QED
      BY <3>1, <2>4
  <2> QED
    BY <2>4, <2>10, <2>11
<1> QED
  BY <1>1, <1>4, <1>5 DEF ChallengeInv, CookieWindow, Tick, T

-----------------------------------------------------------------------------
(* The theorems *)

\* Every step of the admission keeps the invariant: the window of allowInitialPacket covers
\* what was let through, and the age of every challenge agrees with its bucket and the time.
LEMMA AdmissionKeeps ==
  ASSUME AdmissionInv, [AdmissionNext]_admissionVars
  PROVE  AdmissionInv'
<1>0. RateInv /\ ChallengeInv /\ CookiesTrue /\ AdmissionTypeOK
  BY InvParts DEF AdmissionInv
<1>i. RateInv' /\ ChallengeInv' => AdmissionInv'
  BY InvParts, PTL
<1>1. CASE UNCHANGED admissionVars
  BY <1>0, <1>1, <1>i, RateKeeps, ChallengeKeeps DEF admissionVars, windows
<1>2. CASE Tick
  BY <1>0, <1>2, <1>i, RateTick, TickChallenge
<1>3. ASSUME NEW c \in Clients, Reset(c) PROVE AdmissionInv'
  BY <1>0, <1>3, <1>i, RatePacket, ResetChallenge
<1>4. ASSUME NEW c \in Clients, DirectReset(c) PROVE AdmissionInv'
  BY <1>0, <1>4, <1>i, RatePacket, ChallengeKeeps DEF DirectReset
<1>5. ASSUME NEW c \in Clients, Respond(c) PROVE AdmissionInv'
  BY <1>0, <1>5, <1>i, RatePacket, RespondChallenge
<1>6. ASSUME NEW c \in Clients, SessionEnds(c) PROVE AdmissionInv'
  BY <1>0, <1>6, <1>i, RateKeeps, ChallengeKeeps DEF SessionEnds, windows
<1> QED
  BY <1>1, <1>2, <1>3, <1>4, <1>5, <1>6 DEF AdmissionNext

\* acceptUnboundUDPPacket: a challenge is accepted for the whole handshake window and refused
\* after three buckets, also where the 32-bit bucket number wraps around, and never are more
\* resets let through within a period than the limit says, less the refunded ones.
THEOREM AlwaysAdmissionBounded == AdmissionSpec => []AdmissionBounded
<1>1. AdmissionInv => AdmissionBounded
  BY DEF AdmissionInv
<1> QED
  BY <1>1, AdmissionBegins, AdmissionKeeps, PTL DEF AdmissionSpec
=============================================================================
