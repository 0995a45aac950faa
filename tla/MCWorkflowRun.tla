--------------------------- MODULE MCWorkflowRun ---------------------------
(* Model-checking instance of WorkflowRun: constants come from the cfg.    *)
EXTENDS WorkflowRun
============================================================================
