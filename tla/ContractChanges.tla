-------------------------- MODULE ContractChanges --------------------------
(***************************************************************************)
(* The changes of one paid contract: internal/billing/contracts.go of the  *)
(* billing service, with the collection of an upgrade and the Stripe       *)
(* events about it (stripe.go).                                            *)
(*                                                                         *)
(* A cancellation or a downgrade is scheduled for the end of the cycle and *)
(* applied by the rollover.  A request for the plan in force withdraws it. *)
(* An upgrade is applied when its invoice is paid, by the job that         *)
(* collects the payment or by the invoice.paid event, whichever is first.  *)
(*                                                                         *)
(*  - The ids of changes and phases are hashes of the contract, the plan   *)
(*    (or "cancel") and a time, so they are pairs here.  Requests are not  *)
(*    made at the very instant at which a cycle starts.                    *)
(*  - Every request first applies due work and reads the contract, the     *)
(*    cycle and the time; its transaction is a later step.                 *)
(*  - The plans are the seeded default plan and the two paid tiers of the  *)
(*    Stripe catalog.  Grants and entitlement lines are left out: they are *)
(*    written in the transactions that write the phases.  So are the       *)
(*    documents and finalizations of the upgrades, which no step of the    *)
(*    contract reads, and the states no code enters (past_due, grace).     *)
(*  - MaxRequests bounds the customer's requests, MaxUpgrades those for an *)
(*    upgrade.                                                             *)
(*  - Cycles are those of BillingCycles, of which only the open one is     *)
(*    needed.                                                              *)
(***************************************************************************)
EXTENDS Naturals, FiniteSets

CONSTANTS MaxTime, Month, MaxRequests, MaxUpgrades, None

ASSUME ContractAssumption ==
  /\ MaxTime \in Nat /\ Month \in Nat \ {0} /\ MaxRequests \in Nat /\ MaxUpgrades \in Nat
  /\ None \notin Nat

VARIABLES
  now,
  cycle,      \* the open cycle: start and end
  contract,   \* contracts.state
  phase,      \* contract_phases by <<plan, effective_start>>: state, effective_end
  change,     \* contract_changes by <<plan or "cancel", time>>: kind, state, from_phase_id
  invoice,    \* the upgrades' invoices at Stripe
  job,        \* the collection jobs of the upgrades
  event,      \* Stripe events, received and not yet applied
  req,        \* the customer's request being served: what it has read
  requests,   \* how many there were
  lost        \* the cancellations requested again after they were withdrawn

vars == <<now, cycle, contract, phase, change, invoice, job, event, req, requests, lost>>

Times == 0 .. MaxTime
Price == [default |-> 0, hobby |-> 1, pro |-> 2]
Plans == DOMAIN Price

First == <<"hobby", 0>>

\* The table with one row inserted or overwritten.
Put(table, k, row) == [x \in DOMAIN table \cup {k} |-> IF x = k THEN row ELSE table[x]]

Init ==
  /\ now = 0
  /\ cycle = [start |-> 0, end |-> Month]
  /\ contract = "active"
  /\ phase = [p \in {First} |-> [state |-> "active", end |-> None]]
  /\ change = << >> /\ invoice = << >> /\ job = << >>
  /\ event = {<<First, "activation">>}
  /\ req = None /\ requests = 0 /\ lost = {}

-----------------------------------------------------------------------------
(* Phases.                                                                 *)

Active(table) == {p \in DOMAIN table : table[p].state = "active"}
Covers(p, t) == p[2] <= t /\ (phase[p].end = None \/ phase[p].end > t)
Current == {p \in Active(phase) : Covers(p, now)}

\* contract_phases_no_active_overlap.
Admitted(table) ==
  \A p, q \in Active(table) :
    (p # q /\ p[2] <= q[2]) => (table[p].end # None /\ table[p].end <= q[2])

\* The upsert of insertContractPhaseTx.
WithPhase(table, p) == Put(table, p, [state |-> "active", end |-> None])

Coalesce(a, b) == IF a = None THEN b ELSE a

Closed(table, ps) ==
  [p \in DOMAIN table |->
     IF p \in ps THEN [state |-> "closed", end |-> Coalesce(table[p].end, cycle.end)] ELSE table[p]]

-----------------------------------------------------------------------------
(* The rollover applies the scheduled changes that are due: at most one,   *)
(* by contract_changes_one_scheduled_period_end_idx.                       *)

Scheduled == {c \in DOMAIN change : change[c].state = "scheduled"}

\* Mutant: a change requested for the very end of the cycle is left for the
\* next rollover.
DueBefore == {c \in Scheduled : c[2] < cycle.end}

DueChanges == {c \in Scheduled : c[2] <= cycle.end}

applyScheduledCancel(c) ==
  /\ phase' = Closed(phase, {p \in Active(phase) : p[2] < cycle.end})
  /\ contract' = "ended"

applyScheduledDowngrade(c) ==
  LET table == WithPhase(Closed(phase, {change[c].from} \cap Active(phase)), <<c[1], cycle.end>>)
  IN /\ Admitted(table)
     /\ phase' = table
     /\ contract' = IF contract = "ended" THEN contract ELSE "active"

\* A change that cannot be applied fails the transaction, and with it the
\* rollover.
ApplyDueBillingWork ==
  /\ cycle.end <= now
  /\ cycle' = [start |-> cycle.end, end |-> cycle.end + Month]
  /\ \/ DueChanges = {} /\ UNCHANGED <<phase, contract, change>>
     \/ \E c \in DueChanges :
          /\ \/ change[c].kind = "cancel" /\ applyScheduledCancel(c)
             \/ change[c].kind = "downgrade" /\ applyScheduledDowngrade(c)
          /\ change' = [change EXCEPT ![c].state = "applied"]
  /\ UNCHANGED <<now, invoice, job, event, req, requests, lost>>

Tick ==
  /\ now < MaxTime
  /\ now' = now + 1
  /\ UNCHANGED <<cycle, contract, phase, change, invoice, job, event, req, requests, lost>>

-----------------------------------------------------------------------------
(* Requests.                                                               *)

\* What a request has read: the end of the cycle, the time of an upgrade, the
\* current phase.  CancelContract and the withdrawal use no phase.
Read(op, plan, at, from) ==
  /\ req = None /\ requests < MaxRequests
  /\ cycle.start < now /\ now < cycle.end
  /\ req' = [op |-> op, plan |-> plan, at |-> at, from |-> from]
  /\ requests' = requests + 1
  /\ UNCHANGED <<now, cycle, contract, phase, change, invoice, job, event, lost>>

RequestCancel == Read("cancel", None, cycle.end, None)

CreateContractChange(plan) ==
  \E p \in Current :
    \/ plan = p[1] /\ Read("resume", plan, None, None)
    \/ plan # p[1] /\ Price[plan] <= Price[p[1]] /\ Read("downgrade", plan, cycle.end, p)
    \/ Price[plan] > Price[p[1]] /\ Cardinality(DOMAIN job) < MaxUpgrades
       /\ Read("upgrade", plan, now, p)

Done == req' = None /\ UNCHANGED requests

\* The insert that finds the id in use does nothing; a second scheduled
\* change, and a phase that would end before it starts, fail the transaction.
InsertScheduled(c, kind) ==
  IF c \in DOMAIN change THEN UNCHANGED change
  ELSE change' = Put(change, c, [kind |-> kind, state |-> "scheduled", from |-> req.from])

CancelContract ==
  /\ req # None /\ req.op = "cancel"
  /\ LET c == <<"cancel", req.at>>
     IN IF \/ c \notin DOMAIN change /\ Scheduled # {}
           \/ \E p \in Active(phase) : phase[p].end = None /\ p[2] >= req.at
        THEN UNCHANGED <<contract, phase, change, lost>>
        ELSE /\ contract' = IF contract = "active" THEN "cancel_scheduled" ELSE contract
             /\ phase' = [p \in DOMAIN phase |->
                            IF p \in Active(phase)
                            THEN [phase[p] EXCEPT !.end = Coalesce(@, req.at)] ELSE phase[p]]
             /\ InsertScheduled(c, "cancel")
             /\ lost' = IF c \in DOMAIN change /\ change[c].state = "canceled" THEN lost \cup {c} ELSE lost
  /\ Done
  /\ UNCHANGED <<now, cycle, invoice, job, event>>

scheduleDowngrade ==
  /\ req # None /\ req.op = "downgrade"
  /\ LET c == <<req.plan, req.at>>
     IN IF c \notin DOMAIN change /\ Scheduled # {} THEN UNCHANGED change
        ELSE InsertScheduled(c, "downgrade")
  /\ Done
  /\ UNCHANGED <<now, cycle, contract, phase, invoice, job, event, lost>>

\* Mutant: the boundary of the phase is not restored.
ResumeKeepsBoundary ==
  /\ req # None /\ req.op = "resume"
  /\ IF Scheduled = {} THEN UNCHANGED <<contract, change>>
     ELSE /\ change' = [c \in DOMAIN change |->
                          IF c \in Scheduled THEN [change[c] EXCEPT !.state = "canceled"] ELSE change[c]]
          /\ contract' = IF contract = "cancel_scheduled" THEN "active" ELSE contract
  /\ Done
  /\ UNCHANGED <<now, cycle, phase, invoice, job, event, lost>>

resumeCurrentPlan ==
  /\ req # None /\ req.op = "resume"
  /\ IF Scheduled = {} THEN UNCHANGED <<contract, phase, change>>
     ELSE LET restored == {p \in Active(phase) :
                             \E c \in Scheduled : change[c].kind = "cancel" /\ phase[p].end = c[2]}
          IN /\ change' = [c \in DOMAIN change |->
                             IF c \in Scheduled THEN [change[c] EXCEPT !.state = "canceled"] ELSE change[c]]
             /\ contract' = IF contract = "cancel_scheduled" THEN "active" ELSE contract
             /\ phase' = [p \in DOMAIN phase |->
                            IF p \in restored THEN [phase[p] EXCEPT !.end = None] ELSE phase[p]]
  /\ Done
  /\ UNCHANGED <<now, cycle, invoice, job, event, lost>>

\* The change, its document and its job are inserted together; a repeated
\* request finds them.
insertPendingUpgrade ==
  /\ req # None /\ req.op = "upgrade"
  /\ LET u == <<req.plan, req.at>>
     IN IF u \in DOMAIN change THEN UNCHANGED <<change, invoice, job>>
        ELSE /\ change' = Put(change, u, [kind |-> "upgrade", state |-> "awaiting_payment",
                                          from |-> req.from])
             /\ invoice' = Put(invoice, u, "none")
             /\ job' = Put(job, u, "queued")
  /\ Done
  /\ UNCHANGED <<now, cycle, contract, phase, event, lost>>

-----------------------------------------------------------------------------
(* Payment.                                                                *)

Unpaid == {"awaiting_payment", "provider_pending"}

\* CollectContractUpgradePayment up to the answer of Stripe, whose calls are
\* idempotent by the request id of the change: an invoice is paid once.  The
\* answer may be lost although the payment was made.
CollectPayment(u) ==
  /\ job[u] = "queued"
  /\ IF change[u].state \notin Unpaid
     THEN job' = [job EXCEPT ![u] = "done"] /\ UNCHANGED <<invoice, event>>
     ELSE \/ /\ invoice' = [invoice EXCEPT ![u] = "paid"]
             /\ event' = IF invoice[u] = "paid" THEN event ELSE event \cup {<<u, "invoice.paid">>}
             /\ \E answer \in {"paid", "failed"} : job' = [job EXCEPT ![u] = answer]
          \/ /\ invoice[u] # "paid"
             /\ invoice' = [invoice EXCEPT ![u] = "open"]
             /\ job' = [job EXCEPT ![u] = "failed"]
             /\ UNCHANGED event
  /\ UNCHANGED <<now, cycle, contract, phase, change, req, requests, lost>>

\* The customer pays the open invoice at its hosted page.
PayHosted(u) ==
  /\ invoice[u] = "open"
  /\ invoice' = [invoice EXCEPT ![u] = "paid"]
  /\ event' = event \cup {<<u, "invoice.paid">>}
  /\ UNCHANGED <<now, cycle, contract, phase, change, job, req, requests, lost>>

\* Mutant: the answer of Stripe is not looked at.
RecordAsPaid(u) ==
  /\ job[u] \in {"paid", "failed"}
  /\ job' = [job EXCEPT ![u] = "apply"]
  /\ UNCHANGED <<now, cycle, contract, phase, change, invoice, event, req, requests, lost>>

\* updateUpgradeInvoiceProvider: the answer is written over what is there.  A
\* job that failed is retried by River or, after its last attempt, discarded.
RecordAnswer(u) ==
  /\ \/ /\ job[u] = "paid"
        /\ job' = [job EXCEPT ![u] = "apply"]
        /\ UNCHANGED change
     \/ /\ job[u] = "failed"
        /\ change' = [change EXCEPT ![u].state = "provider_pending"]
        /\ \E j \in {"queued", "done"} : job' = [job EXCEPT ![u] = j]
  /\ UNCHANGED <<now, cycle, contract, phase, invoice, event, req, requests, lost>>

\* The transaction of applyPaidUpgrade, TRUE when it commits.  The contract
\* becomes active whatever it was, and a scheduled change stays scheduled.
Upgraded(u) ==
  LET f == change[u].from
      ended == IF f \in Active(phase)
               THEN [phase EXCEPT ![f] = [state |-> "superseded", end |-> IF f[2] < u[2] THEN u[2] ELSE None]]
               ELSE phase
  IN WithPhase(ended, u)

applyPaidUpgrade(u) ==
  IF change[u].state \in Unpaid /\ Admitted(Upgraded(u))
  THEN /\ phase' = Upgraded(u)
       /\ contract' = "active"
       /\ change' = [change EXCEPT ![u].state = "applied"]
  ELSE UNCHANGED <<phase, contract, change>>

\* The job ends when the upgrade is applied; otherwise it is retried or discarded.
ApplyCollected(u) ==
  /\ job[u] = "apply"
  /\ applyPaidUpgrade(u)
  /\ \/ change'[u].state = "applied" /\ job' = [job EXCEPT ![u] = "done"]
     \/ change'[u].state # "applied" /\ \E j \in {"queued", "done"} : job' = [job EXCEPT ![u] = j]
  /\ UNCHANGED <<now, cycle, invoice, event, req, requests, lost>>

\* An event that fails is tried again until it is dead-lettered.
Consume(e, applied) ==
  \/ applied /\ event' = event \ {e}
  \/ ~applied /\ event' \in {event, event \ {e}}

InvoicePaid(u) ==
  /\ <<u, "invoice.paid">> \in event
  /\ applyPaidUpgrade(u)
  /\ Consume(<<u, "invoice.paid">>, change'[u].state = "applied")
  /\ UNCHANGED <<now, cycle, invoice, job, req, requests, lost>>

\* The second event of the checkout that created the contract, applied late:
\* activateCatalogContract upserts the contract and its first phase, and
\* splits the cycle when that phase is no longer active.
LateActivation ==
  /\ <<First, "activation">> \in event
  /\ LET table == WithPhase(phase, First)
         split == phase[First].state # "active" /\ cycle.start < now
     IN IF Admitted(table) /\ (split => now < cycle.end)
        THEN /\ phase' = table
             /\ contract' = "active"
             /\ cycle' = IF split THEN [start |-> now, end |-> now + Month] ELSE cycle
             /\ Consume(<<First, "activation">>, TRUE)
        ELSE /\ UNCHANGED <<phase, contract, cycle>>
             /\ Consume(<<First, "activation">>, FALSE)
  /\ UNCHANGED <<now, change, invoice, job, req, requests, lost>>

Payment(u) ==
  \/ CollectPayment(u) \/ PayHosted(u) \/ RecordAnswer(u) \/ ApplyCollected(u)
  \/ InvoicePaid(u)

Next ==
  \/ Tick \/ ApplyDueBillingWork
  \/ RequestCancel \/ \E plan \in Plans : CreateContractChange(plan)
  \/ CancelContract \/ scheduleDowngrade \/ resumeCurrentPlan \/ insertPendingUpgrade
  \/ \E u \in DOMAIN job : Payment(u)
  \/ LateActivation

Spec == Init /\ [][Next]_vars

\* The due-work scanner runs for ever.
FairSpec == Spec /\ WF_vars(ApplyDueBillingWork)

-----------------------------------------------------------------------------
(* Properties.                                                             *)

\* A plan that costs more than the one before it starts only when its invoice
\* was paid, whichever of the job and the events speaks first.
UpgradeIsPaid ==
  \A u \in DOMAIN invoice : u \in DOMAIN phase => invoice[u] = "paid"

\* An active contract has a plan in force, through every sequence of
\* cancellations, resumptions, downgrades, upgrades and rollovers, with one
\* exception: a cancellation made again after it was withdrawn in the same
\* cycle ends the phase but is not scheduled (the insert finds the withdrawn
\* change), so that nothing takes the end back.
CanceledAgain == \E p \in Active(phase) : <<"cancel", phase[p].end>> \in lost
ActiveHasPhase == contract = "active" => Current # {} \/ CanceledAgain

\* The rollover that ends a contract leaves no phase in force, those of
\* upgrades paid since the cancellation was requested included.  (A downgrade
\* requested before that rollover and inserted after it can still give the
\* ended contract a phase one cycle later.)
EndClosesPhases == [][(contract # "ended" /\ contract' = "ended") => Active(phase') = {}]_vars

\* A cancellation scheduled for the end of the cycle is carried out by the
\* rollover of that very cycle, or withdrawn.
CancelDue(t) ==
  /\ cycle.end = t /\ t <= now
  /\ <<"cancel", t>> \in Scheduled
CancelDecided(t) ==
  /\ <<"cancel", t>> \in DOMAIN change \ Scheduled
  /\ change[<<"cancel", t>>].state = "applied" => contract = "ended"
CancelIsDecided == \A t \in Times : CancelDue(t) ~> CancelDecided(t)

\* The architecture's rollover: apply the scheduled change, open the
\* successor cycle.  A due cycle is always rolled over in the end.
RolloverDue == cycle.end <= now
RollsOver == RolloverDue ~> ~RolloverDue
=============================================================================
