--------------------------- MODULE MCTriageIndex ---------------------------
(* Small instances of TriageIndex for TLC. *)
EXTENDS TriageIndex, TLC

ProcSymmetry == Permutations(Procs)
=============================================================================
