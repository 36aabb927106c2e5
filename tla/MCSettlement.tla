---------------------------- MODULE MCSettlement ----------------------------
(***************************************************************************)
(* Instances of Settlement for TLC.  Replicas are interchangeable, and so  *)
(* are trades when none is malformed; symmetry is used for safety only.    *)
(***************************************************************************)
EXTENDS Settlement, TLC

Symmetry == Permutations(Workers) \cup Permutations(Trades)

=============================================================================
