----------------------- MODULE MCRunnerAllocations -----------------------
(* Small instances of RunnerAllocations. *)
EXTENDS RunnerAllocations

TwoAllocations == {1, 2}
OneJob == {"build"}
TwoJobs == {"build", "test"}
=============================================================================
