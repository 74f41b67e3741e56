------------------------------- MODULE MCKeys -------------------------------
(***************************************************************************)
(* Soft resets of both ends, and the primary control stream they hand      *)
(* over, each by itself.  An initial state chooses the part; the variables *)
(* of the other rest in their initial state.                               *)
(***************************************************************************)
EXTENDS KeyStates, ControlStream

VARIABLE part

keyVars == <<part, vars, streamVars>>

\* Both ends ask for soft resets, twice.  In the configuration one end asks three times, so
\* that key-ids are used again.
Both == INSTANCE KeyStates WITH
  tlsKeyScanSize <- 2, Callers <- {"client", "server"}, MaxSequence <- 2

\* The server is closed in the middle of its soft resets.
Closing == INSTANCE KeyStates WITH
  tlsKeyScanSize <- 2, Callers <- {"server"}, Closers <- {"server"}, MaxSequence <- 2

KeysInit ==
  /\ \/ part \in {"reuse", "stream"} /\ Init
     \/ part = "both" /\ Both!Init
     \/ part = "closing" /\ Closing!Init
  /\ StreamInit

KeysNext ==
  \/ /\ \/ part = "reuse" /\ Next
        \/ part = "both" /\ Both!Next
        \/ part = "closing" /\ Closing!Next
     /\ UNCHANGED <<part, streamVars>>
  \/ part = "stream" /\ StreamNext /\ UNCHANGED <<part, vars>>

KeysSpec == KeysInit /\ [][KeysNext]_keyVars

-----------------------------------------------------------------------------
\* While both ends are open, the key one end sends with is one the other receives with, or is
\* about to, unless the negotiation ended differently at the two ends, the receiver has newer
\* keys or used the key-id again, or two negotiations are paired crosswise
\* (installReceiveCodec, promoteRenegotiation).  The done channel of a key state is closed
\* once, whoever finishes it first, Close included.
KeysAgree ==
  /\ part = "reuse" => TypeOK /\ KeyAgreed
  /\ part = "both" => Both!KeyAgreed /\ Both!KeysKept /\ Both!DoneOnce
  /\ part = "closing" => Closing!KeysKept /\ Closing!DoneOnce
=============================================================================
