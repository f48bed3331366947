--------------------------- MODULE EventDelivery ---------------------------
(***************************************************************************)
(* billing-service: delivery of billing events from PostgreSQL to the      *)
(* ClickHouse table verself.billing_events through                         *)
(* billing_event_delivery_queue.  One sink and generation 1; each event is *)
(* appended once, in the transaction of the fact it records.               *)
(*                                                                         *)
(* A scanner is the River job billing.event_delivery.project_pending of    *)
(* one service process.  It claims a batch, then delivers one event after  *)
(* the other; each PostgreSQL statement and each ClickHouse call is a step.*)
(***************************************************************************)
EXTENDS Integers, FiniteSets

CONSTANTS
    Events,
    Scanners,
    None,
    Limit,         \* rows claimed at once
    MaxAttempts,   \* attempts before a delivery is dead-lettered
    MaxFaults      \* bound on failed calls and crashes

ASSUME DeliveryAssumption ==
    /\ IsFiniteSet(Events)
    /\ None \notin Events
    /\ Limit \in Nat \ {0}
    /\ MaxAttempts \in Nat \ {0}
    /\ MaxFaults \in Nat

VARIABLES
    queue,      \* state of the event's queue row, absent before and after it
    appended,   \* events in billing_events
    attempts,   \* billing_event_delivery_queue.attempts
    due,        \* next_attempt_at lies in the past
    copies,     \* rows of the event sent to ClickHouse
    worker,     \* what each scanner is doing
    faults

vars == <<queue, appended, attempts, due, copies, worker, faults>>

RowStates == {"absent", "pending", "in_progress", "retryable_failed", "dead_letter"}

Idle == [pc |-> "idle", batch |-> {}, event |-> None]

Init ==
    /\ queue = [e \in Events |-> "absent"]
    /\ appended = {}
    /\ attempts = [e \in Events |-> 0]
    /\ due = [e \in Events |-> TRUE]
    /\ copies = [e \in Events |-> 0]
    /\ worker = [s \in Scanners |-> Idle]
    /\ faults = 0
----------------------------------------------------------------------------
AppendEvent(e) ==
    /\ e \notin appended
    /\ appended' = appended \cup {e}
    /\ queue' = [queue EXCEPT ![e] = "pending"]
    /\ UNCHANGED <<attempts, due, copies, worker, faults>>

\* Mutant: a failed delivery is not claimed again.
ClaimableOnce(e) == due[e] /\ queue[e] = "pending"

Claimable(e) == due[e] /\ queue[e] \in {"pending", "retryable_failed"}

\* FOR UPDATE SKIP LOCKED: as many due rows as the limit allows.
ClaimBillingEventDeliveries(s) ==
    /\ worker[s].pc = "idle"
    /\ \E batch \in SUBSET {e \in Events : Claimable(e)} :
        /\ batch # {}
        /\ Cardinality(batch) = Limit \/ (Cardinality(batch) < Limit /\
                                            \A e \in Events : Claimable(e) => e \in batch)
        /\ queue' = [e \in Events |-> IF e \in batch THEN "in_progress" ELSE queue[e]]
        /\ attempts' = [e \in Events |-> IF e \in batch THEN attempts[e] + 1 ELSE attempts[e]]
        /\ worker' = [worker EXCEPT ![s] = [pc |-> "next", batch |-> batch, event |-> None]]
    /\ UNCHANGED <<appended, due, copies, faults>>

\* Take the next event of the batch, or end the scan.
NextDelivery(s) ==
    /\ worker[s].pc = "next"
    /\ \/ \E e \in worker[s].batch :
            worker' = [worker EXCEPT ![s] = [pc |-> "send", batch |-> @.batch \ {e}, event |-> e]]
       \/ worker[s].batch = {} /\ worker' = [worker EXCEPT ![s] = Idle]
    /\ UNCHANGED <<queue, appended, attempts, due, copies, faults>>

SendBatch(s) ==
    /\ worker[s].pc = "send"
    /\ copies' = [copies EXCEPT ![worker[s].event] = @ + 1]
    /\ worker' = [worker EXCEPT ![s].pc = "mark_succeeded"]
    /\ UNCHANGED <<queue, appended, attempts, due, faults>>

\* Loading or sending fails; a row may have been written all the same.
SendFails(s) ==
    /\ worker[s].pc = "send"
    /\ faults < MaxFaults
    /\ faults' = faults + 1
    /\ copies' \in {copies, [copies EXCEPT ![worker[s].event] = @ + 1]}
    /\ worker' = [worker EXCEPT ![s].pc = "mark_failed"]
    /\ UNCHANGED <<queue, appended, attempts, due>>

\* The queue row is deleted.
MarkBillingEventDeliverySucceeded(s) ==
    /\ worker[s].pc = "mark_succeeded"
    /\ queue' = [queue EXCEPT ![worker[s].event] = "absent"]
    /\ worker' = [worker EXCEPT ![s].pc = "next", ![s].event = None]
    /\ UNCHANGED <<appended, attempts, due, copies, faults>>

\* The delete fails after the row was sent: a failed delivery like any other.
MarkSucceededFails(s) ==
    /\ worker[s].pc = "mark_succeeded"
    /\ faults < MaxFaults
    /\ faults' = faults + 1
    /\ worker' = [worker EXCEPT ![s].pc = "mark_failed"]
    /\ UNCHANGED <<queue, appended, attempts, due, copies>>

\* Mutant: the failure is recorded as a success.
MarkFailedDeletes(s) ==
    /\ worker[s].pc = "mark_failed"
    /\ queue' = [queue EXCEPT ![worker[s].event] = "absent"]
    /\ worker' = [worker EXCEPT ![s] = Idle]
    /\ UNCHANGED <<appended, attempts, due, copies, faults>>

\* The scan returns the error: the rest of the batch stays in_progress.
MarkBillingEventDeliveryFailed(s) ==
    /\ worker[s].pc = "mark_failed"
    /\ LET e == worker[s].event
           dead == attempts[e] >= MaxAttempts
       IN  /\ queue' = [queue EXCEPT ![e] = IF dead THEN "dead_letter" ELSE "retryable_failed"]
           /\ due' = [due EXCEPT ![e] = IF dead THEN @ ELSE FALSE]
    /\ worker' = [worker EXCEPT ![s] = Idle]
    /\ UNCHANGED <<appended, attempts, copies, faults>>

\* next_attempt_at, 30 seconds after the failure, is reached.
RetryAfter(e) ==
    /\ ~ due[e]
    /\ due' = [due EXCEPT ![e] = TRUE]
    /\ UNCHANGED <<queue, appended, attempts, copies, worker, faults>>

\* The process stops, or a statement whose error is dropped fails.
Crash(s) ==
    /\ worker[s].pc # "idle"
    /\ faults < MaxFaults
    /\ faults' = faults + 1
    /\ worker' = [worker EXCEPT ![s] = Idle]
    /\ UNCHANGED <<queue, appended, attempts, due, copies>>

Work(s) ==
    \/ ClaimBillingEventDeliveries(s)
    \/ NextDelivery(s)
    \/ SendBatch(s)
    \/ SendFails(s)
    \/ MarkBillingEventDeliverySucceeded(s)
    \/ MarkSucceededFails(s)
    \/ MarkBillingEventDeliveryFailed(s)

\* Every event was delivered, dead-lettered or left behind: nothing to do.
Quiet ==
    /\ appended = Events
    /\ \A s \in Scanners : worker[s] = Idle
    /\ \A e \in Events : due[e] /\ ~ Claimable(e)
    /\ UNCHANGED vars

Next ==
    \/ \E e \in Events : AppendEvent(e) \/ RetryAfter(e)
    \/ \E s \in Scanners : Work(s) \/ Crash(s)
    \/ Quiet

Spec == Init /\ [][Next]_vars

\* River runs the scanner of every process again and again, and time passes.
FairSpec ==
    /\ Spec
    /\ \A s \in Scanners : WF_vars(Work(s))
    /\ \A e \in Events : WF_vars(RetryAfter(e))
----------------------------------------------------------------------------
TypeOK ==
    /\ queue \in [Events -> RowStates]
    /\ appended \subseteq Events
    /\ attempts \in [Events -> Nat]
    /\ due \in [Events -> BOOLEAN]
    /\ copies \in [Events -> Nat]
    /\ worker \in [Scanners -> [pc : {"idle", "next", "send", "mark_succeeded", "mark_failed"},
                                batch : SUBSET Events, event : Events \cup {None}]]
    /\ faults \in 0..MaxFaults

\* The events a scanner has claimed and not finished.
Held(s) == worker[s].batch \cup ({worker[s].event} \ {None})

\* The queue row outlives every crash until ClickHouse has the event: an
\* appended event without a row was sent.
DeliveredBeforeDelete ==
    \A e \in appended : queue[e] = "absent" => copies[e] > 0

\* The scanners of two processes never work on the same event, and what they
\* work on is in_progress.
ClaimsDisjoint ==
    /\ \A s, t \in Scanners : s # t => Held(s) \cap Held(t) = {}
    /\ \A s \in Scanners : \A e \in Held(s) : queue[e] = "in_progress"

\* ClickHouse gets at most one row per attempt, and a delivery is given up only
\* after the full number of attempts.
AttemptsAccounted ==
    \A e \in Events :
        /\ copies[e] <= attempts[e]
        /\ attempts[e] <= MaxAttempts
        /\ queue[e] = "dead_letter" => attempts[e] = MaxAttempts

\* Once calls stop failing, an event that waits for its first or for another
\* attempt is delivered.
RetriedUntilDelivered ==
    \A e \in Events :
        (queue[e] \in {"pending", "retryable_failed"} /\ faults = MaxFaults)
            ~> (queue[e] = "absent" /\ copies[e] > 0)
============================================================================
