---------------------------- MODULE MCAgentPool ----------------------------
(* Small instances of AgentPool.                                           *)
EXTENDS AgentPool

(* Bounds: one change of the credential or of the routing; of two callers, *)
(* one asks for both kinds of run, the other for injected runs only.       *)
Both == CHOOSE r \in Reqs : TRUE
OneChange == auth.gen + prov <= 1
OthersInject == \A r \in Reqs \ {Both} : req[r].phase # "idle" => req[r].injected
=============================================================================
