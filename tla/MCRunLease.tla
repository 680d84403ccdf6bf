----------------------------- MODULE MCRunLease -----------------------------
(* Small instances of RunLease.                                            *)
EXTENDS RunLease, TLC

Symmetry == Permutations(Procs)
=============================================================================
