--------------------------- MODULE MCRunRegistry ----------------------------
(* Instance of RunRegistry for TLC: processes are interchangeable. *)
EXTENDS RunRegistry, TLC

ProcSymmetry == Permutations(Procs)
=============================================================================
