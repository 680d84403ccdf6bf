--------------------------- MODULE MCRunAcceptance ---------------------------
(* Small instances of RunAcceptance.                                       *)
EXTENDS RunAcceptance, TLC

Symmetry == Permutations(Daemons) \cup Permutations(Runs)
=============================================================================
