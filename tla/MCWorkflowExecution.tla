------------------------ MODULE MCWorkflowExecution ------------------------
(* One small instance serves both runs; see the configurations.            *)
EXTENDS WorkflowExecution
=============================================================================
