---------------------- MODULE MCExecutionLifecycle ----------------------
(* Small instances of ExecutionLifecycle. *)
EXTENDS ExecutionLifecycle

OneJob == {1}
TwoJobs == {1, 2}
=============================================================================
