----------------------- MODULE ExecutionLifecycle -----------------------
(***************************************************************************)
(* One execution attempt of sandbox-rental-service: the River jobs that    *)
(* advance and monitor it (jobs.go), the reconciler (reconcile.go), and    *)
(* the two services they call, billing (the window that holds the money)   *)
(* and vm-orchestrator (the lease and the exec in it).                     *)
(*                                                                         *)
(* Abstractions.                                                           *)
(*  - Every call and every database transaction is one step, so that jobs, *)
(*    reconciler and services interleave between any two of them.          *)
(*  - A call that answers with an error may have had its effect.           *)
(*  - Stop is a job that ends with an error or whose process dies, at any  *)
(*    step.  River runs it again or has used up the job's MaxAttempts.     *)
(*  - The billing window has the states of WindowContract; "settling" is   *)
(*    seen by others.  The lease is live from AcquireLease on.             *)
(*  - The queries of the reconciler list attempts that were not touched for*)
(*    10, 30 or 55 seconds.  Any two steps may be that far apart, so an    *)
(*    attempt may be listed at any time.                                   *)
(*  - Durable caches and the golden VM are a step that succeeds or fails.  *)
(*    At most one fault happens: a call whose error is ignored fails, or a *)
(*    pass of the reconciler ends early, or River runs a job twice.        *)
(***************************************************************************)
EXTENDS Naturals, FiniteSets

CONSTANTS
    Jobs         \* River jobs of the attempt that exist at once

ASSUME JobsAssumption == IsFiniteSet(Jobs) /\ Jobs # {}

VARIABLES
    attempt,    \* execution_attempts.state
    leaseId,    \* execution_attempts.lease_id is set
    execId,     \* execution_attempts.exec_id is set
    lwin,       \* execution_billing_windows.state
    bwin,       \* the window in billing-service
    lease,      \* the lease in vm-orchestrator
    exec,       \* the exec row in vm-orchestrator
    fault,      \* the call without effect whose error is ignored, if any
    job,        \* the River jobs
    rec         \* the reconciler

vars == <<attempt, leaseId, execId, lwin, bwin, lease, exec, fault,
          job, rec>>
row == <<attempt, leaseId, execId>>
host == <<lease, exec>>
others == <<fault, rec>>

Terminal == {"succeeded", "failed", "canceled", "lost"}
Active == {"reserved", "launching", "running", "finalizing"}

\* The steps of AdvanceExecution between winning and losing the launch.
LaunchSteps == {"reserve", "insert", "launch", "acquire", "lease",
                "ready", "start", "exec", "activate", "run"}
FailSteps == {"void", "local", "unlease", "unhold", "fail", "failerr"}
EndSteps == {"observe", "settle", "settling", "settled",
             "complete", "release", "relerr", "settlefail"}
Steps == LaunchSteps \cup FailSteps \cup EndSteps \cup {"load", "cas"}

IdleJob == [st |-> "none", pc |-> "load", seen |-> "queued", golden |-> FALSE]
IdleRec == [pc |-> "idle", kind |-> "none", monitor |-> FALSE, leased |-> FALSE,
            window |-> FALSE]

TypeOK ==
    /\ attempt \in {"none", "queued"} \cup Active \cup Terminal
    /\ leaseId \in BOOLEAN /\ execId \in BOOLEAN
    /\ lwin \in {"none", "reserved", "settled", "voided"}
    /\ bwin \in {"absent", "reserved", "active", "settling", "settled", "voided"}
    /\ lease \in {"none", "live", "ended"}
    /\ exec \in {"none", "running", "ended"}
    /\ fault \in {"none", "write", "release", "void", "reconcile", "rescue"}
    /\ job \in [Jobs -> [st : {"none", "ready", "run"}, pc : Steps, seen : {"queued", "running", "finalizing"},
                         golden : BOOLEAN]]
    /\ rec \in [pc : {"idle", "load", "look", "release", "local", "fail"},
                kind : {"none", "reserved", "launching", "leased", "cleaned"},
                monitor : BOOLEAN, leased : BOOLEAN, window : BOOLEAN]

Init ==
    /\ attempt = "none" /\ leaseId = FALSE /\ execId = FALSE
    /\ lwin = "none" /\ bwin = "absent" /\ lease = "none" /\ exec = "none"
    /\ fault = "none"
    /\ job = [j \in Jobs |-> IdleJob] /\ rec = IdleRec

----------------------------------------------------------------------------
(* Helpers *)

At(j, pc) == job[j].st = "run" /\ job[j].pc = pc
Goto(j, pc) == job' = [job EXCEPT ![j].pc = pc]
Finish(j) == job' = [job EXCEPT ![j] = IdleJob]

\* River runs a job that failed again, until its MaxAttempts are used up.
Errors(j) ==
    \E st \in {"ready", "none"} :
        job' = [job EXCEPT ![j] = [IdleJob EXCEPT !.st = st]]

\* An inserted job; when all jobs exist already, one of them does its work.
Enqueue ==
    IF \E j \in Jobs : job[j].st = "none"
    THEN LET j == CHOOSE j \in Jobs : job[j].st = "none"
         IN job' = [job EXCEPT ![j] = [IdleJob EXCEPT !.st = "ready"]]
    ELSE UNCHANGED job

\* transition, markRunning and completeAttempt: compare and swap of the state.
CAS(from, to) == attempt = from /\ attempt' = to /\ UNCHANGED <<leaseId, execId>>

\* failAttempt: the state of the row is not compared.
FailAttempt == attempt' = "failed" /\ UNCHANGED <<leaseId, execId>>

\* One call whose error is ignored fails without its effect.
Lose(what) == fault = "none" /\ fault' = what

ReleaseLease ==
    /\ \/ lease' = (IF lease = "live" THEN "ended" ELSE lease) /\ UNCHANGED fault
       \/ lease = "live" /\ Lose("release") /\ UNCHANGED lease
    /\ UNCHANGED exec

VoidWindow ==
    \/ bwin' = (IF bwin \in {"reserved", "active"} THEN "voided" ELSE bwin) /\ UNCHANGED fault
    \/ bwin \in {"reserved", "active"} /\ Lose("void") /\ UNCHANGED bwin

MarkWindow(state) ==
    \/ lwin' = state /\ UNCHANGED fault
    \/ Lose("write") /\ UNCHANGED lwin

----------------------------------------------------------------------------
(* Submission and the start of a job *)

\* Submit: execution, attempt and job are inserted in one transaction.
Submit ==
    /\ attempt = "none"
    /\ attempt' = "queued"
    /\ Enqueue
    /\ UNCHANGED <<leaseId, execId, lwin, bwin, host, others>>

\* AdvanceExecution loads the work item and dispatches on its state.
Load(j) ==
    /\ job[j].st = "ready"
    /\ \/ /\ attempt = "queued"
          /\ job' = [job EXCEPT ![j].st = "run", ![j].pc = "cas"]
       \/ /\ attempt \in {"running", "finalizing"}
          /\ IF leaseId /\ execId /\ lwin # "none"
             THEN job' = [job EXCEPT ![j].st = "run", ![j].pc = "observe",
                                     ![j].seen = attempt]
             ELSE Errors(j)
       \/ attempt \in Terminal /\ Finish(j)
       \/ attempt \in {"reserved", "launching"} /\ Errors(j)
    /\ UNCHANGED <<row, lwin, bwin, host, others>>

\* A job ends with an error, or its process does, at any step.
Stop(j) ==
    /\ job[j].st = "run"
    /\ Errors(j)
    /\ UNCHANGED <<row, lwin, bwin, host, others>>

\* River takes a running job for stuck and runs it again: two run at once.
Rescue(j) ==
    /\ job[j].st = "run" /\ Lose("rescue")
    /\ Enqueue
    /\ UNCHANGED <<row, lwin, bwin, host, rec>>

\* A transition of the attempt; a lost compare-and-swap is an error.
Transition(j, pc, from, to, next) ==
    /\ At(j, pc)
    /\ \/ CAS(from, to) /\ Goto(j, next)
       \/ attempt # from /\ Errors(j) /\ UNCHANGED row
    /\ UNCHANGED <<lwin, bwin, host, others>>

\* Mutant: a claimed attempt is claimed again, for the sake of retries.
ClaimAgain(j) ==
    \/ Transition(j, "cas", "queued", "reserved", "reserve")
    \/ attempt = "reserved" /\ Transition(j, "cas", "reserved", "reserved", "reserve")

ClaimAttempt(j) == Transition(j, "cas", "queued", "reserved", "reserve")
LaunchAttempt(j) == Transition(j, "launch", "reserved", "launching", "acquire")

----------------------------------------------------------------------------
(* AdvanceExecution of a queued attempt *)

ReserveBilling(j) ==
    /\ At(j, "reserve")
    /\ \/ bwin' = "reserved" /\ Goto(j, "insert")
       \/ bwin' \in {bwin, "reserved"} /\ Goto(j, "failerr")
    /\ UNCHANGED <<row, lwin, host, others>>

InsertBillingWindow(j) ==
    /\ At(j, "insert")
    /\ lwin' = "reserved" /\ Goto(j, "launch")
    /\ UNCHANGED <<row, bwin, host, others>>

\* prepareDurableCaches, durableStorageQuotaBytes and AcquireLease: after an error
\* of the last the lease may exist, and nobody knows it.
AcquireLease(j) ==
    /\ At(j, "acquire")
    /\ \/ lease' = "live" /\ Goto(j, "lease")
       \/ lease' \in {lease, "live"} /\ Goto(j, "void")
    /\ UNCHANGED <<row, lwin, bwin, exec, others>>

\* setAttemptLeaseExec: its error is ignored.
RecordLease(j, pc, withExec, next) ==
    /\ At(j, pc)
    /\ \/ /\ leaseId' = TRUE /\ execId' = (execId \/ withExec)
          /\ UNCHANGED fault
       \/ Lose("write") /\ UNCHANGED <<leaseId, execId>>
    /\ Goto(j, next)
    /\ UNCHANGED <<attempt, lwin, bwin, host, rec>>

RecordLeaseId(j) == RecordLease(j, "lease", FALSE, "ready")
RecordExecId(j) == RecordLease(j, "exec", TRUE, "activate")

\* waitLeaseReady.  A lease that does not get ready is released; when its golden
\* snapshot is gone, another one is acquired without it, once.
WaitLeaseReady(j) ==
    /\ At(j, "ready")
    /\ \/ lease = "live" /\ Goto(j, "start") /\ UNCHANGED <<host, fault>>
       \/ /\ ReleaseLease
          /\ \/ ~job[j].golden /\ job' = [job EXCEPT ![j].pc = "acquire", ![j].golden = TRUE]
             \/ Goto(j, "void")
    /\ UNCHANGED <<row, lwin, bwin, rec>>

\* Mutant: an exec whose start was not confirmed is taken for one that never ran.
StartUnconfirmed(j) ==
    /\ At(j, "start")
    /\ \/ lease = "live" /\ exec' = "running" /\ Goto(j, "exec")
       \/ /\ exec' \in {exec} \cup (IF lease = "live" THEN {"running"} ELSE {})
          /\ Goto(j, "void")
    /\ UNCHANGED <<row, lwin, bwin, lease, others>>

\* recordDurableLeaseMountResults and StartExec: after an error of the latter the
\* exec may be running.
StartExec(j) ==
    /\ At(j, "start")
    /\ \/ lease = "live" /\ exec' = "running" /\ Goto(j, "exec")
       \/ /\ exec' \in {exec} \cup (IF lease = "live" THEN {"running"} ELSE {})
          /\ Goto(j, "unlease")
    /\ UNCHANGED <<row, lwin, bwin, lease, others>>

\* activateBillingWindow; on an error CancelExec ends the exec, if it arrives.
Activate(j) ==
    /\ At(j, "activate")
    /\ \/ /\ bwin \in {"reserved", "active"} /\ bwin' = "active"
          /\ Goto(j, "run") /\ UNCHANGED exec
       \/ /\ bwin' \in {bwin} \cup (IF bwin = "reserved" THEN {"active"} ELSE {})
          /\ exec' \in {exec} \cup (IF lease = "live" THEN {"ended"} ELSE {})
          /\ Goto(j, "unlease")
    /\ UNCHANGED <<row, lwin, lease, others>>

\* markRunning; the job goes on to monitor what it started.
MarkRunning(j) ==
    /\ At(j, "run")
    /\ \/ /\ CAS("launching", "running")
          /\ job' = [job EXCEPT ![j].pc = "observe", ![j].seen = "running"]
       \/ attempt # "launching" /\ Errors(j) /\ UNCHANGED row
    /\ UNCHANGED <<lwin, bwin, host, others>>

----------------------------------------------------------------------------
(* The failure paths of AdvanceExecution *)

\* voidBillingWindow before a lease is known, markBillingWindow after it.
VoidReservation(j) ==
    /\ At(j, "void")
    /\ VoidWindow /\ Goto(j, "local")
    /\ UNCHANGED <<row, lwin, host, rec>>

MarkVoided(j) ==
    /\ At(j, "local")
    /\ MarkWindow("voided") /\ Goto(j, "fail")
    /\ UNCHANGED <<row, bwin, host, rec>>

\* cleanupLeaseAndReservation: the lease first, then the window.
CleanupLease(j) ==
    /\ At(j, "unlease")
    /\ ReleaseLease /\ Goto(j, "unhold")
    /\ UNCHANGED <<row, lwin, bwin, rec>>

CleanupReservation(j) ==
    /\ At(j, "unhold")
    /\ VoidWindow /\ Goto(j, "fail")
    /\ UNCHANGED <<row, lwin, host, rec>>

\* failAttempt, after a failed reservation with the error returned to River.
Fail(j) ==
    /\ \/ At(j, "fail") /\ Finish(j)
       \/ At(j, "failerr") /\ Errors(j)
    /\ FailAttempt
    /\ UNCHANGED <<lwin, bwin, host, others>>

----------------------------------------------------------------------------
(* monitorExecution and finalizeTerminalExecution *)

\* monitorExecution while the exec runs (deferRunningExecution): renew the lease,
\* touch the attempt, and a new job looks again.
Defer(j) ==
    /\ At(j, "observe") /\ exec = "running"
    /\ \/ /\ lease = "live"
          /\ job' = [job EXCEPT ![j] = [IdleJob EXCEPT !.st = "ready"]]
       \/ lease # "live" /\ Errors(j)
    /\ UNCHANGED <<row, lwin, bwin, host, others>>

\* monitorExecution when the exec has ended; a work item loaded as finalizing
\* skips the transition.
BeginFinalize(j) ==
    /\ At(j, "observe") /\ exec = "ended"
    /\ \/ /\ job[j].seen = "running"
          /\ Transition(j, "observe", "running", "finalizing", "settle")
       \/ /\ job[j].seen = "finalizing" /\ Goto(j, "settle")
          /\ UNCHANGED <<row, lwin, bwin, host, others>>

\* SettleWindow prepares the settlement, or answers from the state it finds.
SettleBegin(j) ==
    /\ At(j, "settle")
    /\ \/ /\ bwin \in {"reserved", "active"} /\ bwin' = "settling"
          /\ Goto(j, "settling")
       \/ bwin = "settled" /\ Goto(j, "settled") /\ UNCHANGED bwin
       \/ Goto(j, "settlefail") /\ UNCHANGED bwin
    /\ UNCHANGED <<row, lwin, host, others>>

\* Mutant: the error of the settlement is only logged.
SettleLogged(j) ==
    /\ At(j, "settling")
    /\ bwin' \in {bwin, "settled"} /\ Goto(j, "settled")
    /\ UNCHANGED <<row, lwin, host, others>>

SettleEnd(j) ==
    /\ At(j, "settling")
    /\ \/ bwin' = "settled" /\ Goto(j, "settled")
       \/ bwin' \in {bwin, "settled"} /\ Goto(j, "settlefail")
    /\ UNCHANGED <<row, lwin, host, others>>

\* The attempt is failed and the lease released.
SettleFailed(j) ==
    /\ At(j, "settlefail")
    /\ FailAttempt
    /\ Goto(j, "release")
    /\ UNCHANGED <<lwin, bwin, host, others>>

MarkSettled(j) ==
    /\ At(j, "settled")
    /\ MarkWindow("settled") /\ Goto(j, "complete")
    /\ UNCHANGED <<row, bwin, host, rec>>

\* completeAttempt with the outcome of the exec; the lease is released unless a golden VM
\* is made from it.
CompleteAttempt(j) ==
    /\ At(j, "complete")
    /\ \/ /\ \E outcome \in {"succeeded", "failed"} : CAS("finalizing", outcome)
          /\ Goto(j, "release") \/ Finish(j)
       \/ attempt # "finalizing" /\ Goto(j, "relerr") /\ UNCHANGED row
    /\ UNCHANGED <<lwin, bwin, host, others>>

Release(j) ==
    /\ \/ At(j, "release") /\ Finish(j)
       \/ At(j, "relerr") /\ Errors(j)
    /\ ReleaseLease
    /\ UNCHANGED <<row, lwin, bwin, rec>>

----------------------------------------------------------------------------
(* The reconciler *)

\* Mutant: attempts that were finalizing are not listed.
ListedButFinalizing(kind) ==
    \/ /\ kind = "reserved" /\ attempt = "reserved"
       /\ ~leaseId /\ lwin \in {"none", "reserved"}
    \/ kind = "launching" /\ attempt = "launching" /\ ~execId
    \/ kind = "leased" /\ attempt \in {"launching", "running"} /\ leaseId
    \/ kind = "cleaned" /\ attempt = "running"

\* The queries of the four passes over attempts.
Listed(kind) ==
    \/ /\ kind = "reserved" /\ attempt = "reserved"
       /\ ~leaseId /\ lwin \in {"none", "reserved"}
    \/ kind = "launching" /\ attempt = "launching" /\ ~execId
    \/ kind = "leased" /\ attempt \in {"launching", "running", "finalizing"} /\ leaseId
    \/ kind = "cleaned" /\ attempt = "running"

RecList(kind) ==
    /\ rec.pc = "idle" /\ Listed(kind)
    /\ rec' = [rec EXCEPT !.pc = "load", !.kind = kind, !.window = (lwin # "none")]
    /\ UNCHANGED <<row, lwin, bwin, host, fault, job>>

\* loadReconcileWorkItem reads the row again; nothing compares it with the list.
RecLoad ==
    /\ rec.pc = "load"
    /\ \/ rec.kind = "reserved" /\ rec' = [rec EXCEPT !.pc = "local"]
       \/ /\ rec.kind = "leased"
          /\ rec' = [rec EXCEPT !.pc = "look",
                                !.monitor = attempt \in {"running", "finalizing"}]
       \/ /\ rec.kind \in {"launching", "cleaned"}
          /\ rec' = [rec EXCEPT !.pc = "release", !.leased = leaseId]
    /\ UNCHANGED <<row, lwin, bwin, host, fault, job>>

\* GetLease: a live lease is left to a monitor, an ended one fails the attempt.
RecLook ==
    /\ rec.pc = "look"
    /\ \/ /\ lease = "live" /\ rec' = IdleRec
          /\ IF rec.monitor THEN Enqueue ELSE UNCHANGED job
       \/ lease # "live" /\ rec' = [rec EXCEPT !.pc = "local", !.monitor = FALSE] /\ UNCHANGED job
    /\ UNCHANGED <<row, lwin, bwin, host, fault>>

RecRelease ==
    /\ rec.pc = "release"
    /\ IF rec.leased THEN ReleaseLease ELSE UNCHANGED <<host, fault>>
    /\ rec' = [rec EXCEPT !.pc = "local", !.leased = FALSE]
    /\ UNCHANGED <<row, lwin, bwin, job>>

\* markBillingWindow of the local row; the window in billing is not touched.
RecLocal ==
    /\ rec.pc = "local"
    /\ IF rec.window THEN MarkWindow("voided") ELSE UNCHANGED <<lwin, fault>>
    /\ rec' = [IdleRec EXCEPT !.pc = "fail"]
    /\ UNCHANGED <<row, bwin, host, job>>

RecFail ==
    /\ rec.pc = "fail"
    /\ FailAttempt
    /\ rec' = IdleRec
    /\ UNCHANGED <<lwin, bwin, host, fault, job>>

\* The pass ends early: an error, or the process does.
RecStop ==
    /\ rec.pc # "idle" /\ Lose("reconcile")
    /\ rec' = IdleRec
    /\ UNCHANGED <<row, lwin, bwin, host, job>>

----------------------------------------------------------------------------
(* The services *)

\* The guest process ends, or is killed at MaxWallSeconds.
ExecEnds ==
    /\ exec = "running" /\ lease = "live"
    /\ exec' = "ended"
    /\ UNCHANGED <<row, lwin, bwin, lease, job, others>>

\* vm-orchestrator ends the lease: deadline, crash or failed boot.
LeaseEnds ==
    /\ lease = "live" /\ lease' = "ended"
    /\ UNCHANGED <<row, lwin, bwin, exec, job, others>>

\* Billing finishes a settlement it has begun.
BillingFinishes ==
    /\ bwin = "settling" /\ bwin' = "settled"
    /\ UNCHANGED <<row, lwin, host, job, others>>

\* terminalizeRunnerAllocation fails an attempt that is not terminal.
AllocationFails ==
    /\ attempt \in {"queued"} \cup Active
    /\ FailAttempt
    /\ UNCHANGED <<lwin, bwin, host, job, others>>

----------------------------------------------------------------------------
JobStep(j) ==
    \/ Load(j) \/ ClaimAttempt(j) \/ ReserveBilling(j) \/ InsertBillingWindow(j)
    \/ LaunchAttempt(j) \/ AcquireLease(j) \/ RecordLeaseId(j)
    \/ WaitLeaseReady(j) \/ StartExec(j)
    \/ RecordExecId(j) \/ Activate(j) \/ MarkRunning(j)
    \/ VoidReservation(j) \/ MarkVoided(j) \/ CleanupLease(j)
    \/ CleanupReservation(j) \/ Fail(j)
    \/ Defer(j) \/ BeginFinalize(j) \/ SettleBegin(j) \/ SettleEnd(j)
    \/ SettleFailed(j) \/ MarkSettled(j) \/ CompleteAttempt(j) \/ Release(j)

RecStep ==
    \/ \E kind \in {"reserved", "launching", "leased", "cleaned"} : RecList(kind)
    \/ RecLoad \/ RecLook \/ RecRelease \/ RecLocal \/ RecFail

Next ==
    \/ Submit
    \/ \E j \in Jobs : JobStep(j) \/ Stop(j) \/ Rescue(j)
    \/ RecStep \/ RecStop
    \/ ExecEnds \/ LeaseEnds \/ BillingFinishes \/ AllocationFails

\* The reconciler runs its passes, and a lease has a deadline that an exec with a
\* wall-clock limit does not push back for ever.  Of the jobs
\* nothing is assumed: they may all die.
Fairness == WF_vars(RecStep) /\ WF_vars(LeaseEnds)

Spec == Init /\ [][Next]_vars
RecoverySpec == Spec /\ Fairness

----------------------------------------------------------------------------
(* Properties *)

\* completeAttempt writes "succeeded" only after billing settled the window: no
\* other job, reconciler pass or late void leaves a successful run unpaid.
SucceededIsSettled == attempt = "succeeded" => bwin = "settled"

\* The local row says "settled" only of a window that billing settled.
LocalSettledIsSettled == lwin = "settled" => bwin = "settled"

\* The claim of the attempt is exclusive: of all the jobs, retries and monitors
\* of an attempt at most one is ever reserving money or starting a VM for it.
OneLauncher ==
    Cardinality({j \in Jobs : job[j].st = "run" /\ job[j].pc \in LaunchSteps}) <= 1

\* A window is voided after the lease it paid for is gone: a program runs in a
\* VM without a hold only if a ReleaseLease was lost.
VoidedMeansStopped ==
    bwin = "voided" /\ lease = "live" /\ exec = "running" => fault = "release"

\* A finished attempt never runs again; a late failAttempt may only turn
\* "succeeded" into "failed".
NeverRevived ==
    [][(attempt \in Terminal) => attempt' \in {attempt, "failed"}]_vars

\* Every attempt that was claimed ends, whatever job dies: by its jobs or by the
\* reconciler.  The one exception is a pass that marked the window and ended
\* before failing the attempt: ListStaleReservedAttempts skips voided windows.
ClaimedAttemptEnds ==
    attempt \in Active ~> \/ attempt \in Terminal
                          \/ attempt = "reserved" /\ lwin = "voided"
=============================================================================
