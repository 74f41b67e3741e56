----------------------------- MODULE MCRenewal ------------------------------
(***************************************************************************)
(* What decides that a key or a session has had its time: the budget that  *)
(* asks for soft resets, and the keepalive timers, each by itself.  An     *)
(* initial state chooses the part; the other component rests in one of its *)
(* initial states.                                                         *)
(***************************************************************************)
EXTENDS RenegotiationBudget, Keepalive

VARIABLE part

renewalVars == <<part, vars, aliveVars>>

\* Packet ids that run out, and three keys.  The constants of the configuration are limits on
\* packets and on the usage of a key, a deadline, and two keys.
Ids == INSTANCE RenegotiationBudget WITH
  packetsLimit <- 0, aeadUsageLimit <- 0, packetIDWrapTrigger <- 3, MaxUint32 <- 4,
  RenegotiationInterval <- FALSE, Batches <- {1, 2}, MaxKey <- 2, MaxReceived <- 1

\* A link that works, as late as it may be; one that loses packets and stops taking them; and
\* a client that is to end for want of payloads, or at a certain age.
Configurations ==
  { [pingInterval |-> 1, pingRestart |-> 4, pingExit |-> 0, serverPingRestart |-> 4,
     inactiveTimeout |-> 0, inactiveMinimumBytes |-> 0, sessionTimeout |-> 0,
     kinds |-> {"occRequest"}, writers |-> {"client"}, delay |-> 1,
     lossy |-> FALSE, stalls |-> FALSE],
    [pingInterval |-> 1, pingRestart |-> 0, pingExit |-> 1, serverPingRestart |-> 0,
     inactiveTimeout |-> 0, inactiveMinimumBytes |-> 0, sessionTimeout |-> 0,
     kinds |-> {"damaged"}, writers |-> {"server"}, delay |-> 0,
     lossy |-> TRUE, stalls |-> TRUE],
    [pingInterval |-> 1, pingRestart |-> 0, pingExit |-> 0, serverPingRestart |-> 3,
     inactiveTimeout |-> 2, inactiveMinimumBytes |-> 2, sessionTimeout |-> 3,
     kinds |-> {"data", "control", "fragment", "exit"}, writers |-> {"server"}, delay |-> 0,
     lossy |-> FALSE, stalls |-> FALSE] }

Resting == AliveInit /\ options = CHOOSE o \in Options : TRUE

RenewalInit ==
  \/ part = "limits" /\ Init /\ Resting
  \/ part = "ids" /\ Ids!Init /\ Resting
  \/ part = "alive" /\ Init /\ AliveInit

RenewalNext ==
  \/ /\ \/ part = "limits" /\ Next
        \/ part = "ids" /\ Ids!Next
     /\ UNCHANGED <<part, aliveVars>>
  \/ part = "alive" /\ AliveNext /\ UNCHANGED <<part, vars>>

RenewalSpec == RenewalInit /\ [][RenewalNext]_renewalVars
=============================================================================
