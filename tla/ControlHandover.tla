-------------------------- MODULE ControlHandover ---------------------------
(***************************************************************************)
(* control_stream.go: the state of a tlsPrimaryControlStream, as a record  *)
(* of the key state whose TLS stream carries the control messages          *)
(* (sequence) and the key state that is to take over from it (handover, 0  *)
(* for none).  The stream of the initial key is installed as sequence 0    *)
(* before anything else happens.                                           *)
(***************************************************************************)
EXTENDS Naturals

NoHandover == [sequence |-> 0, handover |-> 0]

\* Mutant: a stream is not installed once a newer one is to take over.
InstallUnlessHandover(stream, sequence) ==
  IF sequence < stream.sequence \/ sequence < stream.handover
  THEN stream
  ELSE [sequence |-> sequence, handover |-> 0]

Install(stream, sequence) ==
  IF sequence < stream.sequence
  THEN stream
  ELSE [sequence |-> sequence,
        handover |-> IF stream.handover <= sequence THEN 0 ELSE stream.handover]

BeginHandover(stream, sequence) ==
  IF sequence <= stream.sequence \/ sequence <= stream.handover
  THEN stream
  ELSE [stream EXCEPT !.handover = sequence]

\* Mutant: only an older handover is given up.
AbortOlder(stream, sequence) ==
  IF stream.handover >= sequence THEN stream ELSE [stream EXCEPT !.handover = 0]

AbortHandover(stream, sequence) ==
  IF stream.handover # sequence THEN stream ELSE [stream EXCEPT !.handover = 0]
=============================================================================
