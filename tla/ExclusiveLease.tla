--------------------------- MODULE ExclusiveLease ---------------------------
(***************************************************************************)
(* What RunPersistence promises about execution leases, with no files and  *)
(* no process crashes in sight: a run is leased to at most one process at  *)
(* a time, and a lease is granted only while nobody has one.               *)
(***************************************************************************)
CONSTANT Procs

VARIABLE holders    \* the processes that believe they own the run

TypeOK == holders \subseteq Procs

Init == holders = {}

Grant(p) == /\ holders = {}
            /\ holders' = {p}

Surrender(p) == /\ p \in holders
                /\ holders' = holders \ {p}

Next == \E p \in Procs : Grant(p) \/ Surrender(p)

Spec == Init /\ [][Next]_holders
=============================================================================
