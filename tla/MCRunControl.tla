---------------------------- MODULE MCRunControl ----------------------------
(* Small instances of RunControl.                                          *)
EXTENDS RunControl, TLC

(* Bound: pauses for a login or a decision are left to RunLifecycle.       *)
PlainPauses == snap.why \in {"none", "interrupted"}

(* Bound: one of a forced stop, a fault and a continuation at a time.      *)
Effort == Cardinality({m \in Managers : call[m].force}) + faults + snap.gen <= 1
(* Bound: one stop call at a time.                                         *)
OneCall == Cardinality({m \in Managers : call[m].pc # "idle"}) <= 1
=============================================================================
