----------------------------- MODULE MCReliable -----------------------------
(* Small instances of Reliable for TLC. *)
EXTENDS Reliable

CONSTANTS c, s

\* One more chunk than a receive buffer of four covers.
PastWindowWrites == [p \in {c, s} |-> IF p = c THEN 5 ELSE 0]
\* What each end may have in transit.
ManyToFew == [p \in {c, s} |-> IF p = c THEN 2 ELSE 1]
=============================================================================
