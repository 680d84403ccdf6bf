--------------------------- MODULE MCRunLifecycle ---------------------------
(* Small instances of RunLifecycle.                                        *)
EXTENDS RunLifecycle, TLC

Symmetry == Permutations(Managers) \cup Permutations(Values)
=============================================================================
