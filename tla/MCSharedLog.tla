---------------------------- MODULE MCSharedLog -----------------------------
(* Small instances of SharedLog for TLC. *)
EXTENDS SharedLog, TLC

Symmetry == Permutations(Process)
=============================================================================
