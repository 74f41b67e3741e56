----------------------------- MODULE Admission ------------------------------
(***************************************************************************)
(* How a UDP client of an unknown address gets a session: its reset is     *)
(* answered by a challenge that leaves no state behind (udp_predecrypt.go),*)
(* whose session id is a MAC over the time (session_id_hmac.go); the       *)
(* client's next packet returns it.  Two rate windows and the number of    *)
(* instances limit this (server_resource_policy.go).                       *)
(*                                                                         *)
(* The MAC is the time bucket it was made for, which is all that tells two *)
(* challenges of one client apart.  The clock goes round with the bucket's *)
(* integer width, the ages of the windows stop at one more than counts.    *)
(* The counter of refused connections, which nothing takes back, stops at  *)
(* one more than the limit.                                                *)
(***************************************************************************)
EXTENDS Integers, FiniteSets

CONSTANTS
  Clients,                  \* each at an address of its own
  Direct,                   \* those that cannot resend their wrapped key
  MaxReservations,          \* maxClients of the policy
  initialConnectFrequency, initialConnectFrequencyPeriod,
  connectFrequency, connectFrequencyPeriod,
  handwindow,               \* defaultHandshakeWindowSeconds, 60 in the code
  Buckets,                  \* the number of bucket values, 2^32
  CryptV2ForceCookie,       \* resets that cannot be challenged are refused
  MaxResets,                \* bound: resets counted in a window
  MaxLost                   \* bound: challenges lost

ASSUME AdmissionAssumption ==
  /\ initialConnectFrequency \in Nat /\ initialConnectFrequencyPeriod \in Nat
  /\ connectFrequency \in Nat /\ connectFrequencyPeriod \in Nat
  /\ handwindow \in Nat \ {0} /\ Buckets \in Nat /\ Buckets >= 6

VARIABLES
  now,
  initialAge, initialWindowCount,  \* the age is -1 before the first window
  connectAge, connectWindowCount,
  reservations,                    \* instances of the policy
  bound,                           \* the clients with a session
  cookie,                          \* a client's last challenge, [bucket, age] or NoCookie
  lost,
  passed,   \* history: [age, count] of the resets let through in a period, less the refunds
  verdict   \* history: the age of the cookie of the last response and what became of it

windows == <<initialAge, initialWindowCount, connectAge, connectWindowCount>>
admissionVars == <<now, windows, reservations, bound, cookie, lost, passed, verdict>>

NoCookie == [bucket |-> -1, age |-> 0]
Width == (handwindow + 1) \div 2
MaxAge == 4 * Width   \* bound: the age of a cookie stops counting here

AdmissionInit ==
  /\ now \in {0, Width * Buckets - 1}
  /\ initialAge = -1 /\ initialWindowCount = 0 /\ connectAge = -1 /\ connectWindowCount = 0
  /\ reservations = 0 /\ bound = {} /\ cookie = [c \in Clients |-> NoCookie] /\ lost = 0
  /\ passed = [age |-> -1, count |-> 0] /\ verdict = [age |-> 0, accepted |-> TRUE]

-----------------------------------------------------------------------------
(* server_resource_policy.go *)

\* The window after a reset arrived, and whether the reset is allowed.
allowInitialPacket ==
  LET begins == initialAge < 0 \/ initialAge > initialConnectFrequencyPeriod
      count == IF begins THEN 1 ELSE initialWindowCount + 1
  IN  [age |-> IF begins THEN 0 ELSE initialAge,
       count |-> count,
       allowed |-> count <= initialConnectFrequency]

\* Mutant: a refund empties the window.
RefundedAll(count) == 0

Refunded(count) == IF count > 0 THEN count - 1 ELSE 0

allowNewConnection ==
  LET begins == connectAge < 0 \/ connectAge >= connectFrequencyPeriod
      count == IF begins THEN 1 ELSE connectWindowCount + 1
  IN  IF connectFrequencyPeriod = 0
      THEN [age |-> connectAge, count |-> connectWindowCount, allowed |-> TRUE]
      ELSE [age |-> IF begins THEN 0 ELSE connectAge,
            count |-> IF count > connectFrequency THEN connectFrequency + 1 ELSE count,
            allowed |-> count <= connectFrequency]

-----------------------------------------------------------------------------
(* session_id_hmac.go *)

\* deriveSessionIDAt: the bucket of the time, as an unsigned number.
Bucket(offset) == ((now \div Width) + offset + Buckets) % Buckets

validateAt(bucket) == \E offset \in -2..1 : bucket = Bucket(offset)

-----------------------------------------------------------------------------
(* acceptUnboundUDPPacket *)

Pass(n) == IF passed.age < 0 THEN [age |-> 0, count |-> n] ELSE [passed EXCEPT !.count = @ + n]

\* The client is let in: the refund of its reset comes before the limit on clients.
Admit(c, initial) ==
  /\ initialAge' = initial.age
  /\ connectAge' = allowNewConnection.age /\ connectWindowCount' = allowNewConnection.count
  /\ IF allowNewConnection.allowed
     THEN /\ initialWindowCount' = Refunded(initial.count)
          /\ passed' = IF c \in Direct THEN Pass(0)
                       ELSE [passed EXCEPT !.count = IF @ > 0 THEN @ - 1 ELSE 0]
          /\ IF reservations < MaxReservations
             THEN reservations' = reservations + 1 /\ bound' = bound \cup {c}
             ELSE UNCHANGED <<reservations, bound>>
     ELSE /\ initialWindowCount' = initial.count
          /\ passed' = IF c \in Direct THEN Pass(1) ELSE passed
          /\ UNCHANGED <<reservations, bound>>

\* A reset that is answered by a challenge, which may get lost.
Reset(c) ==
  /\ c \notin bound \cup Direct /\ allowInitialPacket.count <= MaxResets
  /\ initialAge' = allowInitialPacket.age /\ initialWindowCount' = allowInitialPacket.count
  /\ IF allowInitialPacket.allowed
     THEN /\ passed' = Pass(1)
          /\ \/ cookie' = [cookie EXCEPT ![c] = [bucket |-> Bucket(0), age |-> 0]] /\ UNCHANGED lost
             \/ lost < MaxLost /\ lost' = lost + 1 /\ UNCHANGED cookie
     ELSE UNCHANGED <<passed, cookie, lost>>
  /\ UNCHANGED <<now, connectAge, connectWindowCount, reservations, bound, verdict>>

\* A reset of a client that cannot resend its wrapped key: there is no challenge.
DirectReset(c) ==
  /\ c \in Direct \ bound /\ allowInitialPacket.count <= MaxResets
  /\ IF allowInitialPacket.allowed /\ ~CryptV2ForceCookie THEN Admit(c, allowInitialPacket)
     ELSE /\ initialAge' = allowInitialPacket.age /\ initialWindowCount' = allowInitialPacket.count
          /\ passed' = IF allowInitialPacket.allowed THEN Pass(1) ELSE passed
          /\ UNCHANGED <<connectAge, connectWindowCount, reservations, bound>>
  /\ UNCHANGED <<now, cookie, lost, verdict>>

\* The client's next packet, perhaps late, or once more after its session ended.
Respond(c) ==
  /\ c \notin bound /\ cookie[c] # NoCookie
  /\ IF validateAt(cookie[c].bucket)
     THEN Admit(c, [age |-> initialAge, count |-> initialWindowCount])
     ELSE UNCHANGED <<windows, reservations, bound, passed>>
  /\ verdict' = [age |-> cookie[c].age, accepted |-> validateAt(cookie[c].bucket)]
  /\ UNCHANGED <<now, cookie, lost>>

\* The session ends and gives its reservation back.
SessionEnds(c) ==
  /\ c \in bound
  /\ bound' = bound \ {c} /\ reservations' = reservations - 1
  /\ UNCHANGED <<now, windows, cookie, lost, passed, verdict>>

Older(age, last) == IF age < 0 \/ age > last THEN age ELSE age + 1

Tick ==
  /\ now' = (now + 1) % (Width * Buckets)
  /\ initialAge' = Older(initialAge, initialConnectFrequencyPeriod)
  /\ connectAge' = Older(connectAge, connectFrequencyPeriod)
  /\ cookie' = [c \in Clients |->
       IF cookie[c] = NoCookie \/ cookie[c].age + 1 = MaxAge THEN NoCookie
       ELSE [cookie[c] EXCEPT !.age = @ + 1]]
  /\ passed' = IF passed.age >= initialConnectFrequencyPeriod THEN [age |-> -1, count |-> 0]
                 ELSE [passed EXCEPT !.age = IF @ < 0 THEN @ ELSE @ + 1]
  /\ UNCHANGED <<initialWindowCount, connectWindowCount, reservations, bound, lost, verdict>>

AdmissionNext ==
  \/ Tick
  \/ \E c \in Clients : Reset(c) \/ DirectReset(c) \/ Respond(c) \/ SessionEnds(c)

AdmissionSpec == AdmissionInit /\ [][AdmissionNext]_admissionVars

-----------------------------------------------------------------------------
(* Properties *)

\* A challenge holds for the whole handshake window and not for longer than three
\* buckets, also where the bucket's number wraps around.
CookieWindow ==
  /\ verdict.age <= handwindow => verdict.accepted
  /\ verdict.age >= 3 * Width => ~verdict.accepted

\* Of the resets let through within a period, no more than the limit are left when those
\* are taken off that were refunded because a client came through.
RateKept == passed.count <= initialConnectFrequency

\* acceptUnboundUDPPacket: a challenge holds for the handshake window and not for longer than
\* three buckets, and no more resets than the limit are let through within a period, less the
\* refunded ones.
AdmissionBounded == CookieWindow /\ RateKept

-----------------------------------------------------------------------------
(* Why they hold *)

AdmissionTypeOK ==
  /\ now \in 0..(Width * Buckets - 1)
  /\ initialAge \in -1..(initialConnectFrequencyPeriod + 1) /\ initialWindowCount \in Nat
  /\ cookie \in [Clients -> [bucket : -1..(Buckets - 1), age : 0..(MaxAge - 1)]]
  /\ passed \in [age : -1..initialConnectFrequencyPeriod, count : Nat]
  /\ verdict \in [age : Nat, accepted : BOOLEAN]

\* A challenge was made at second r of its bucket, and n buckets have begun since.
MadeAt(challenge, n, r) ==
  /\ r + challenge.age = n * Width + (now % Width)
  /\ now \div Width = (challenge.bucket + n) % Buckets

\* The age of a challenge is the time since its bucket; only clients that can answer have one.
CookiesTrue ==
  \A c \in Clients : cookie[c] # NoCookie =>
    /\ c \notin Direct /\ cookie[c].bucket >= 0
    /\ \E n \in 0..4, r \in 0..(Width - 1) : MadeAt(cookie[c], n, r)

\* The period of the resets let through is the window, which counts each of them.
PassedTrue ==
  /\ passed.age >= 0 => passed.age = initialAge /\ passed.count <= initialWindowCount
  /\ passed.age < 0 =>
       /\ passed.count = 0
       /\ initialAge \in 0..initialConnectFrequencyPeriod => initialConnectFrequency = 0

\* An inductive invariant: the bucket a challenge was made for and the time now agree with its
\* age, and the window of allowInitialPacket covers what was let through.
AdmissionInv == AdmissionTypeOK /\ CookiesTrue /\ PassedTrue /\ AdmissionBounded
=============================================================================
