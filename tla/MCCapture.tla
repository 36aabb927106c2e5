----------------------------- MODULE MCCapture -----------------------------
(* Instances of Capture for TLC. *)
EXTENDS Capture, TLC

\* Sound for NothingLost alone: temporal properties are checked without it.
Symmetry == Permutations(Consumers) \cup Permutations(Trades)
=============================================================================
