------------------------ MODULE RunnerAllocations ------------------------
(***************************************************************************)
(* Runner allocations of sandbox-rental-service (provider_runner.go,       *)
(* runner_control.go, runner_terminalization.go and the allocation passes  *)
(* of reconcile.go): for a queued provider job an allocation is inserted,  *)
(* its execution submitted with a bootstrap secret, the secret fetched     *)
(* once by the guest, the job the runner takes bound to the allocation by  *)
(* webhooks, and the allocation cleaned up.                                *)
(*                                                                         *)
(* Abstractions.                                                           *)
(*  - A transaction and a call of the secrets service are steps.           *)
(*  - A submission is named by the allocation it would insert; webhooks    *)
(*    come in any order, more than once and late.                          *)
(*  - The attempt of an allocation is live from its submission until       *)
(*    ExecutionLifecycle ends it.                                          *)
(*  - A deadline may have passed whenever the reconciler looks.            *)
(*  - At most one fault happens: an enqueue or a delete of a secret whose  *)
(*    error is ignored fails, or a process dies between two steps.         *)
(*                                                                         *)
(* Its names are not those of ExecutionLifecycle: SandboxRentalProofs      *)
(* speaks of both.                                                         *)
(***************************************************************************)
EXTENDS Naturals, FiniteSets

CONSTANTS Allocations, ProviderJobs, None

ASSUME AllocationsAssumption ==
    /\ Allocations \subseteq Nat /\ IsFiniteSet(Allocations)
    /\ None \notin Allocations /\ None \notin ProviderJobs

VARIABLES
    gh,        \* GitHub: status of a job and the runner that took it
    jobRow,    \* runner_jobs: the status and runner last written
    bind,      \* jobs whose observation has still to be bound
    bound,     \* runner_job_bindings
    state,     \* runner_allocations.state
    origin,    \* runner_allocations.origin_provider_job_id
    sub,       \* where SubmitProviderRunnerJob is
    attemptOf, \* the attempt of the allocation: none, live, done
    config,    \* runner_bootstrap_configs: none, open, consumed
    secret,    \* allocations whose bootstrap secret exists
    fetch,     \* allocations whose open config a consume has locked
    delivered, \* how often the payload was handed out
    cleanup,   \* River job: none, queued, marked
    listed,    \* the allocation reconcileExpiredRunnerAllocations has listed
    faulted

runnersVars == <<gh, jobRow, bind, bound, state, origin, sub, attemptOf, config, secret,
                 fetch, delivered, cleanup, listed, faulted>>
provider == <<gh, jobRow, bind, bound>>
bootstrap == <<config, secret, fetch, delivered>>

\* States before a job is assigned: the unique index and activeAllocationForJob.
\* The provider integration inserts allocations as jit_created.
Attachable == {"jit_created"}
Unassigned == Attachable \cup {"vm_submitted", "runner_config_fetched"}
Expirable == Unassigned \cup {"assigned", "vm_exited"}
States == Expirable \cup {"none", "job_completed", "failed", "cleaned"}

Status == {"queued", "in_progress", "completed"}
Rank == [s \in Status |-> CASE s = "queued" -> 0 [] s = "in_progress" -> 1 [] OTHER -> 2]
JobStates == [status : Status, runner : Allocations \cup {None}]
Unseen == [status |-> "queued", runner |-> None]

RunnersTypeOK ==
    /\ gh \in [ProviderJobs -> JobStates] /\ jobRow \in [ProviderJobs -> JobStates]
    /\ bind \subseteq ProviderJobs
    /\ bound \in [ProviderJobs -> Allocations \cup {None}]
    /\ state \in [Allocations -> States]
    /\ origin \in [Allocations -> ProviderJobs \cup {None}]
    /\ sub \in [Allocations -> {"none", "checked", "inserted", "put", "failed", "done"}]
    /\ attemptOf \in [Allocations -> {"none", "live", "done"}]
    /\ config \in [Allocations -> {"none", "open", "consumed"}]
    /\ secret \subseteq Allocations
    /\ fetch \subseteq {a \in Allocations : config[a] = "open"}
    /\ delivered \in [Allocations -> 0 .. 1]
    /\ cleanup \in [Allocations -> {"none", "queued", "marked"}]
    /\ listed \in [a : Allocations \cup {None}, known : BOOLEAN]
    /\ faulted \in BOOLEAN

RunnersInit ==
    /\ gh = [j \in ProviderJobs |-> Unseen] /\ jobRow = gh
    /\ bind = {} /\ bound = [j \in ProviderJobs |-> None]
    /\ state = [a \in Allocations |-> "none"]
    /\ origin = [a \in Allocations |-> None]
    /\ sub = [a \in Allocations |-> "none"]
    /\ attemptOf = [a \in Allocations |-> "none"]
    /\ config = [a \in Allocations |-> "none"]
    /\ secret = {} /\ fetch = {} /\ delivered = [a \in Allocations |-> 0]
    /\ cleanup = [a \in Allocations |-> "none"]
    /\ listed = [a |-> None, known |-> FALSE] /\ faulted = FALSE

----------------------------------------------------------------------------
(* Helpers *)

Fault == ~faulted /\ faulted' = TRUE
Fine == UNCHANGED faulted

\* Allocation ids are used in order.
Fresh(a) == sub[a] = "none" /\ \A b \in Allocations : b < a => sub[b] # "none"

\* EnqueueRunnerCleanup; callers ignore its error.
EnqueueCleanup(a) ==
    \/ cleanup' = [cleanup EXCEPT ![a] = IF @ = "none" THEN "queued" ELSE @] /\ Fine
    \/ UNCHANGED cleanup /\ Fault

\* FailRunnerAllocation.
Failable(a) == state[a] \notin {"none", "failed", "cleaned", "job_completed"}

\* MarkRunnerExecutionExited.
Exited(s) == IF s \in {"cleaned", "failed", "job_completed"} THEN s ELSE "vm_exited"

\* The unique index over the origin job of unassigned allocations.
ActiveFor(j) == {a \in Allocations : origin[a] = j /\ state[a] \in Unassigned}

----------------------------------------------------------------------------
(* SubmitProviderRunnerJob *)

\* The job is upserted; an active allocation ends the submission there.
SubmitBegin(a, j) ==
    /\ Fresh(a)
    /\ jobRow' = [jobRow EXCEPT ![j] = Unseen]
    /\ IF ActiveFor(j) = {}
       THEN sub' = [sub EXCEPT ![a] = "checked"] /\ origin' = [origin EXCEPT ![a] = j]
       ELSE UNCHANGED <<sub, origin>>
    /\ UNCHANGED <<gh, bind, bound, state, attemptOf, bootstrap, cleanup, listed, faulted>>

\* Mutant: the check before the insert is all there is.
InsertUnchecked(a) ==
    /\ sub[a] = "checked"
    /\ IF jobRow[origin[a]].status = "queued"
       THEN /\ state' = [state EXCEPT ![a] = "jit_created"]
            /\ sub' = [sub EXCEPT ![a] = "inserted"]
       ELSE sub' = [sub EXCEPT ![a] = "done"] /\ UNCHANGED state
    /\ UNCHANGED <<provider, origin, attemptOf, bootstrap, cleanup, listed, faulted>>

\* The job must still be queued, and ON CONFLICT DO NOTHING on the unique index.
SubmitInsert(a) ==
    /\ sub[a] = "checked"
    /\ IF jobRow[origin[a]].status = "queued" /\ ActiveFor(origin[a]) = {}
       THEN /\ state' = [state EXCEPT ![a] = "jit_created"]
            /\ sub' = [sub EXCEPT ![a] = "inserted"]
       ELSE sub' = [sub EXCEPT ![a] = "done"] /\ UNCHANGED state
    /\ UNCHANGED <<provider, origin, attemptOf, bootstrap, cleanup, listed, faulted>>

\* putRunnerBootstrapSecret, inside the transaction of Submit.
SubmitPut(a) ==
    /\ sub[a] = "inserted"
    /\ \/ secret' = secret \cup {a} /\ sub' = [sub EXCEPT ![a] = "put"]
       \/ sub' = [sub EXCEPT ![a] = "failed"] /\ UNCHANGED secret
    /\ UNCHANGED <<provider, state, origin, attemptOf, config, fetch, delivered,
                   cleanup, listed, faulted>>

\* attachRunnerAllocationExecutionTx and the commit of Submit; when one of them
\* fails the secret is deleted, and the error of that is ignored.
SubmitAttach(a) ==
    /\ sub[a] = "put"
    /\ \/ /\ state[a] \in Attachable
          /\ state' = [state EXCEPT ![a] = "vm_submitted"]
          /\ config' = [config EXCEPT ![a] = "open"]
          /\ attemptOf' = [attemptOf EXCEPT ![a] = "live"]
          /\ sub' = [sub EXCEPT ![a] = "done"]
          /\ UNCHANGED <<secret, faulted>>
       \/ /\ sub' = [sub EXCEPT ![a] = "failed"]
          /\ \/ secret' = secret \ {a} /\ Fine
             \/ UNCHANGED secret /\ Fault
          /\ UNCHANGED <<state, config, attemptOf>>
    /\ UNCHANGED <<provider, origin, fetch, delivered, cleanup, listed>>

\* terminalizeRunnerAllocation without an attempt.
SubmitFailed(a) ==
    /\ sub[a] = "failed"
    /\ sub' = [sub EXCEPT ![a] = "done"]
    /\ IF Failable(a)
       THEN state' = [state EXCEPT ![a] = "failed"] /\ EnqueueCleanup(a)
       ELSE UNCHANGED <<state, cleanup, faulted>>
    /\ UNCHANGED <<provider, origin, attemptOf, bootstrap, listed>>

SubmitDies(a) ==
    /\ sub[a] \in {"checked", "inserted", "put", "failed"}
    /\ sub' = [sub EXCEPT ![a] = "done"] /\ Fault
    /\ UNCHANGED <<provider, state, origin, attemptOf, bootstrap, cleanup, listed>>

----------------------------------------------------------------------------
(* ConsumeRunnerBootstrapConfig: the row of the config is locked throughout *)

\* Mutant: the error of the delete is ignored.
ReadSecret(a) ==
    /\ config[a] = "open" /\ a \notin fetch /\ a \in secret
    /\ secret' \in {secret, secret \ {a}}
    /\ fetch' = fetch \cup {a}
    /\ UNCHANGED <<provider, state, origin, sub, attemptOf, config, delivered, cleanup,
                   listed, faulted>>

\* The payload is read and the secret deleted before anything is committed.  The
\* guest may outlive its attempt.
FetchSecret(a) ==
    /\ config[a] = "open" /\ a \notin fetch /\ a \in secret
    /\ secret' = secret \ {a}
    /\ fetch' = fetch \cup {a}
    /\ UNCHANGED <<provider, state, origin, sub, attemptOf, config, delivered, cleanup,
                   listed, faulted>>

\* The commit, or its failure: then the secret is gone and the config open.
FetchCommit(a) ==
    /\ a \in fetch /\ fetch' = fetch \ {a}
    /\ \/ /\ config' = [config EXCEPT ![a] = "consumed"]
          /\ state' = [state EXCEPT ![a] = IF @ = "vm_submitted"
                                           THEN "runner_config_fetched" ELSE @]
          /\ delivered' = [delivered EXCEPT ![a] = @ + 1]
       \/ UNCHANGED <<config, state, delivered>>
    /\ UNCHANGED <<provider, origin, sub, attemptOf, secret, cleanup, listed, faulted>>

----------------------------------------------------------------------------
(* GitHub, and the webhooks that report it *)

\* A registered runner takes one queued job, not necessarily its origin.
TakeJob(a, j) ==
    /\ delivered[a] = 1
    /\ gh[j].status = "queued" /\ \A i \in ProviderJobs : gh[i].runner # a
    /\ gh' = [gh EXCEPT ![j] = [status |-> "in_progress", runner |-> a]]
    /\ UNCHANGED <<jobRow, bind, bound, state, origin, sub, attemptOf, bootstrap,
                   cleanup, listed, faulted>>

EndJob(j) ==
    /\ gh[j].status = "in_progress"
    /\ gh' = [gh EXCEPT ![j].status = "completed"]
    /\ UNCHANGED <<jobRow, bind, bound, state, origin, sub, attemptOf, bootstrap,
                   cleanup, listed, faulted>>

\* ObserveProviderRunnerJob: the upsert takes status and runner of the webhook,
\* which may be older than what the row has.
Observe(j, s) ==
    /\ Rank[s] <= Rank[gh[j].status]
    /\ jobRow' = [jobRow EXCEPT ![j] =
                     [status |-> s, runner |-> IF s = "queued" THEN None ELSE gh[j].runner]]
    /\ bind' = bind \cup {j}
    /\ UNCHANGED <<gh, bound, state, origin, sub, attemptOf, bootstrap, cleanup, listed, faulted>>

\* UpdateRunnerAllocationAssignment.
Assigned(s, new) == IF s = "cleaned" THEN s ELSE new

\* bindProviderRunnerJob: no runner, no binding; an allocation has one job, a
\* second binding of it is an error.
Bind(j) ==
    LET a == jobRow[j].runner IN
    /\ j \in bind /\ bind' = bind \ {j}
    /\ IF a # None /\ \A i \in ProviderJobs \ {j} : bound[i] # a
       THEN /\ bound' = [bound EXCEPT ![j] = IF @ = None THEN a ELSE @]
            /\ state' = [state EXCEPT ![a] =
                   Assigned(@, IF jobRow[j].status = "completed"
                               THEN "job_completed" ELSE "assigned")]
            /\ IF jobRow[j].status = "completed"
               THEN EnqueueCleanup(a) ELSE UNCHANGED <<cleanup, faulted>>
       ELSE UNCHANGED <<bound, state, cleanup, faulted>>
    /\ UNCHANGED <<gh, jobRow, origin, sub, attemptOf, bootstrap, listed>>

----------------------------------------------------------------------------
(* The end of an attempt, and CleanupRunner *)

\* The attempt ends and MarkRunnerExecutionExited runs after its commit; the
\* process may die between the two.
AttemptEnds(a) ==
    /\ attemptOf[a] = "live"
    /\ attemptOf' = [attemptOf EXCEPT ![a] = "done"]
    /\ \/ state' = [state EXCEPT ![a] = Exited(@)] /\ EnqueueCleanup(a)
       \/ UNCHANGED <<state, cleanup>> /\ Fault
    /\ UNCHANGED <<provider, origin, sub, bootstrap, listed>>

CleanupMark(a) ==
    /\ cleanup[a] = "queued"
    /\ state' = [state EXCEPT ![a] = "cleaned"]
    /\ cleanup' = [cleanup EXCEPT ![a] = "marked"]
    /\ UNCHANGED <<provider, origin, sub, attemptOf, bootstrap, listed, faulted>>

\* Mutant: the row goes whether or not the secret could be deleted.
DeleteConfigFirst(a) ==
    /\ cleanup[a] = "marked" /\ a \notin fetch
    /\ config' = [config EXCEPT ![a] = "none"]
    /\ secret' \in {secret, secret \ {a}}
    /\ cleanup' = [cleanup EXCEPT ![a] = "none"]
    /\ UNCHANGED <<provider, state, origin, sub, attemptOf, fetch, delivered, listed, faulted>>

\* deleteRunnerBootstrapConfig: an unconsumed config keeps its row until its
\* secret is deleted, and the delete of a missing secret is an error.  After an
\* error, of the delete or of the commit, River runs the job again or gives up.
CleanupConfig(a) ==
    /\ cleanup[a] = "marked" /\ a \notin fetch
    /\ \/ /\ config[a] # "open" \/ a \in secret
          /\ secret' = IF config[a] = "open" THEN secret \ {a} ELSE secret
          /\ config' = [config EXCEPT ![a] = "none"]
          /\ cleanup' = [cleanup EXCEPT ![a] = "none"]
       \/ /\ config[a] = "open"
          /\ cleanup' \in {[cleanup EXCEPT ![a] = c] : c \in {"queued", "none"}}
          /\ secret' \in {secret, secret \ {a}}
          /\ UNCHANGED config
    /\ UNCHANGED <<provider, state, origin, sub, attemptOf, fetch, delivered, listed, faulted>>

----------------------------------------------------------------------------
(* The reconciler *)

\* Mutant: only allocations that never reached a VM are listed.
ListedUnsubmitted(s) == s \in Attachable \cup {"vm_submitted"}

\* ListExpiredRunnerAllocations.
ListedExpired(s) == s \in Expirable

\* The row, with the attempt it has now, is listed.
RecListExpired(a) ==
    /\ listed.a = None /\ ListedExpired(state[a])
    /\ listed' = [a |-> a, known |-> attemptOf[a] # "none"]
    /\ UNCHANGED <<provider, state, origin, sub, attemptOf, bootstrap, cleanup, faulted>>

\* terminalizeRunnerAllocation: the allocation fails unless it has ended, the
\* attempt that was listed unless it is terminal, whatever the allocation did.
RecTerminalize ==
    LET a == listed.a
        failAttempt == listed.known /\ attemptOf[a] = "live" IN
    /\ a # None
    /\ listed' = [a |-> None, known |-> FALSE]
    /\ attemptOf' = IF failAttempt THEN [attemptOf EXCEPT ![a] = "done"] ELSE attemptOf
    /\ state' = IF Failable(a) THEN [state EXCEPT ![a] = "failed"] ELSE state
    /\ IF Failable(a) \/ failAttempt THEN EnqueueCleanup(a) ELSE UNCHANGED <<cleanup, faulted>>
    /\ UNCHANGED <<provider, origin, sub, bootstrap>>

\* reconcileTerminalRunnerAllocations.
RecExited(a) ==
    /\ attemptOf[a] = "done"
    /\ state[a] \notin {"cleaned", "failed", "job_completed", "vm_exited"}
    /\ state' = [state EXCEPT ![a] = Exited(@)]
    /\ EnqueueCleanup(a)
    /\ UNCHANGED <<provider, origin, sub, attemptOf, bootstrap, listed>>

\* reconcileCleanedRunnerAttempts: failAttempt also marks the allocation.
RecCleaned(a) ==
    /\ attemptOf[a] = "live" /\ state[a] = "cleaned"
    /\ attemptOf' = [attemptOf EXCEPT ![a] = "done"]
    /\ EnqueueCleanup(a)
    /\ UNCHANGED <<provider, state, origin, sub, bootstrap, listed>>

----------------------------------------------------------------------------
CleanupStep(a) == CleanupMark(a) \/ CleanupConfig(a)

\* The passes that need no other actor: expiry, and runners without an attempt.
RecPass ==
    \/ RecTerminalize
    \/ \E a \in Allocations : RecListExpired(a) \/ RecExited(a) \/ RecCleaned(a)

RunnersNext ==
    \/ \E a \in Allocations, j \in ProviderJobs : SubmitBegin(a, j) \/ TakeJob(a, j)
    \/ \E a \in Allocations :
          \/ SubmitInsert(a) \/ SubmitPut(a) \/ SubmitAttach(a) \/ SubmitFailed(a)
          \/ SubmitDies(a) \/ FetchSecret(a) \/ FetchCommit(a)
          \/ AttemptEnds(a) \/ CleanupStep(a)
    \/ \E j \in ProviderJobs : EndJob(j) \/ Bind(j)
    \/ \E j \in ProviderJobs, s \in Status : Observe(j, s)
    \/ RecPass

\* The reconciler runs, the expiry of every allocation included, and River runs
\* cleanup jobs; guests, webhooks and submissions owe nothing.
RunnersFairness ==
    /\ \A a \in Allocations : WF_runnersVars(CleanupMark(a)) /\ WF_runnersVars(RecTerminalize /\ listed.a = a)
    /\ \A a \in Allocations : SF_runnersVars(RecListExpired(a))

RunnersSpec == RunnersInit /\ [][RunnersNext]_runnersVars
FairRunners == RunnersSpec /\ RunnersFairness

----------------------------------------------------------------------------
(* Properties *)

\* At most one runner waits for a queued job, however many deliveries submit it
\* at once: the check of activeAllocationForJob and the insert are not atomic.
OneRunnerPerQueuedJob ==
    \A j \in ProviderJobs : Cardinality(ActiveFor(j)) <= 1

\* A payload that was handed out is not recoverable, "Delete before returning"
\* (runner_control.go), whatever fails or is retried around it.
DeliveredIsGone == \A a \in Allocations : delivered[a] = 1 => a \notin secret

\* No secret is forgotten: its config row leads the cleanup to it, or its
\* submission still runs, or that submission's own cleanup was the fault.
SecretIsOwned ==
    \A a \in secret : config[a] = "open" \/ sub[a] = "put" \/ faulted

\* Nothing brings a cleaned allocation back: late webhooks, fetches, exits,
\* expiry and submissions all leave it.
CleanedIsFinal ==
    [][\A a \in Allocations : state[a] = "cleaned" => state'[a] = "cleaned"]_runnersVars

\* Every allocation is cleaned up, with no help from the guest, GitHub or the
\* submission, unless the one enqueue of its cleanup is lost.
AllocationIsCleaned ==
    \A a \in Allocations : state[a] # "none" ~> state[a] = "cleaned" \/ faulted
=============================================================================
