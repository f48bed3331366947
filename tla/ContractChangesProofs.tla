----------------------- MODULE ContractChangesProofs -----------------------
(***************************************************************************)
(* Theorems about ContractChanges, for any horizon, length of the month    *)
(* and number of requests: an upgrade is paid before its phase starts, a   *)
(* contract that serves has a phase in force, and what ends a contract     *)
(* closes its phases.                                                      *)
(***************************************************************************)
EXTENDS ContractChanges, TLAPS

\* The upgrade a request would insert.
Wanted == <<req.plan, req.at>>

Asked == req # None /\ req.op = "upgrade"

\* Cycles and their order, as far as the argument needs them.
Clock ==
  /\ cycle \in [start : Nat, end : Nat]
  /\ cycle.start < cycle.end /\ cycle.end <= cycle.start + Month
  /\ now \in Nat

\* The tables of changes, invoices and jobs agree on the upgrades, and what
\* speaks of a payment was preceded by it.
Books ==
  /\ DOMAIN invoice = DOMAIN job /\ DOMAIN job \subseteq DOMAIN change
  /\ \A u \in DOMAIN job : job[u] \in {"paid", "apply"} => invoice[u] = "paid"
  /\ \A u \in DOMAIN job : <<u, "invoice.paid">> \in event => invoice[u] = "paid"

\* An upgrade starts strictly inside a cycle, every other phase at the start of
\* one, so that no phase is taken for the phase of an upgrade.
Starts ==
  /\ \A u \in DOMAIN invoice : u[2] \in Nat /\ 0 < u[2] /\ u[2] < cycle.end
  /\ \A p \in DOMAIN phase : p[2] \in Nat /\ (p[2] <= cycle.start \/ p \in DOMAIN invoice)
  /\ Asked => /\ req.at \in Nat /\ 0 < req.at /\ req.at < cycle.end
              /\ Wanted \in DOMAIN phase => Wanted \in DOMAIN invoice

\* Payments are announced for upgrades only.
Announced == \A u : <<u, "invoice.paid">> \in event => u \in DOMAIN job

IInv == Clock /\ Books /\ Starts /\ Announced /\ UpgradeIsPaid

-----------------------------------------------------------------------------
\* What an insert does to the domain and to the rows of a table.
LEMMA Extended ==
  ASSUME NEW table, NEW k, NEW row
  PROVE  /\ DOMAIN Put(table, k, row) = DOMAIN table \cup {k}
         /\ Put(table, k, row)[k] = row
         /\ \A x \in DOMAIN table : x # k => Put(table, k, row)[x] = table[x]
BY Zenon DEF Put

\* Closing phases keeps the set of them.
LEMMA ClosedDomain ==
  ASSUME NEW table, NEW ps
  PROVE  DOMAIN Closed(table, ps) = DOMAIN table
BY Zenon DEF Closed

\* A new phase adds its name.
LEMMA PhaseDomain ==
  ASSUME NEW table, NEW p
  PROVE  DOMAIN WithPhase(table, p) = DOMAIN table \cup {p}
BY Extended, Zenon DEF WithPhase

\* The phases after a paid upgrade.
LEMMA UpgradedDomain ==
  ASSUME NEW u
  PROVE  DOMAIN Upgraded(u) = DOMAIN phase \cup {u}
BY PhaseDomain DEF Upgraded

\* The rollover starts a downgraded phase where the old cycle ends, later than
\* every upgrade requested so far.
LEMMA RolloverKeeps ==
  ASSUME IInv, ContractAssumption, ApplyDueBillingWork
  PROVE  IInv'
<1> USE DEF IInv
<1>1. Month \in Nat /\ 0 < Month
  BY DEF ContractAssumption
<1>2. /\ cycle'.start = cycle.end /\ cycle'.end = cycle.end + Month
      /\ cycle' \in [start : Nat, end : Nat] /\ now' = now
  BY <1>1 DEF ApplyDueBillingWork, Clock
<1>3. UNCHANGED <<invoice, job, event, req>>
  BY Zenon DEF ApplyDueBillingWork
<1>4. DOMAIN change' = DOMAIN change
  BY Zenon DEF ApplyDueBillingWork
<1>5. \A p \in DOMAIN phase' : p \in DOMAIN phase \/ p[2] = cycle.end
  <2>1. CASE phase' = phase
    BY <2>1, Zenon
  <2>2. ASSUME NEW c, applyScheduledCancel(c) PROVE DOMAIN phase' = DOMAIN phase
    BY <2>2, ClosedDomain, Zenon DEF applyScheduledCancel
  <2>3. ASSUME NEW c, applyScheduledDowngrade(c)
        PROVE  DOMAIN phase' = DOMAIN phase \cup {<<c[1], cycle.end>>}
    BY <2>3, ClosedDomain, PhaseDomain, ZenonT(30) DEF applyScheduledDowngrade
  <2>4. \A c : <<c[1], cycle.end>>[2] = cycle.end
    BY Zenon
  <2>5. \/ phase' = phase
        \/ \E c \in DueChanges : applyScheduledCancel(c) \/ applyScheduledDowngrade(c)
    BY Zenon DEF ApplyDueBillingWork
  <2> QED
    BY <2>1, <2>2, <2>3, <2>4, <2>5, Zenon
<1>6. Clock'
  BY <1>1, <1>2 DEF Clock
<1>7. Books' /\ Announced'
  BY <1>3, <1>4, Zenon DEF Books, Announced
<1>8. Starts'
  <2>1. \A u \in DOMAIN invoice' : u[2] \in Nat /\ 0 < u[2] /\ u[2] < cycle'.end
    BY <1>1, <1>2, <1>3 DEF Starts, Clock
  <2>2. \A p \in DOMAIN phase' : p[2] \in Nat /\ (p[2] <= cycle'.start \/ p \in DOMAIN invoice')
    BY <1>2, <1>3, <1>5 DEF Starts, Clock
  <2>3. Asked' => /\ req'.at \in Nat /\ 0 < req'.at /\ req'.at < cycle'.end
                  /\ Wanted' \in DOMAIN phase' => Wanted' \in DOMAIN invoice'
    BY <1>1, <1>2, <1>3, <1>5 DEF Starts, Clock, Asked, Wanted
  <2> QED
    BY <2>1, <2>2, <2>3, Zenon DEF Starts
<1>9. UpgradeIsPaid'
  BY <1>3, <1>5 DEF UpgradeIsPaid, Starts, Clock
<1> QED
  BY <1>6, <1>7, <1>8, <1>9, Zenon

\* A request reads a time strictly inside the cycle, where no other phase starts.
LEMMA RequestKeeps ==
  ASSUME IInv, RequestCancel \/ (\E plan \in Plans : CreateContractChange(plan))
  PROVE  IInv'
<1> USE DEF IInv
<1>1. UNCHANGED <<now, cycle, contract, phase, change, invoice, job, event>>
  BY Zenon DEF RequestCancel, CreateContractChange, Read
<1>2. Asked' => req'.at = now /\ cycle.start < now /\ now < cycle.end
  BY DEF Asked, RequestCancel, CreateContractChange, Read
<1>3. Clock' /\ Books' /\ Announced' /\ UpgradeIsPaid'
  BY <1>1, Zenon DEF Clock, Books, Announced, UpgradeIsPaid
<1>4. Asked' => /\ req'.at \in Nat /\ 0 < req'.at /\ req'.at < cycle'.end
                /\ Wanted' \in DOMAIN phase' => Wanted' \in DOMAIN invoice'
  BY <1>1, <1>2 DEF Starts, Clock, Wanted
<1> QED
  BY <1>1, <1>3, <1>4, Zenon DEF Starts

\* Cancellations, downgrades and resumptions neither pay nor start anything.
LEMMA ScheduleKeeps ==
  ASSUME IInv, CancelContract \/ scheduleDowngrade \/ resumeCurrentPlan
  PROVE  IInv'
<1> USE DEF IInv
<1>1. UNCHANGED <<now, cycle, invoice, job, event>> /\ ~Asked'
  BY Zenon DEF CancelContract, scheduleDowngrade, resumeCurrentPlan, Done, Asked
<1>2. DOMAIN phase' = DOMAIN phase
  BY Zenon DEF CancelContract, scheduleDowngrade, resumeCurrentPlan
<1>3. DOMAIN change \subseteq DOMAIN change'
  <2>1. ASSUME NEW c, NEW kind, InsertScheduled(c, kind) PROVE DOMAIN change \subseteq DOMAIN change'
    BY <2>1, Zenon DEF InsertScheduled, Put
  <2> QED
    BY <2>1, Zenon DEF CancelContract, scheduleDowngrade, resumeCurrentPlan
<1> QED
  BY <1>1, <1>2, <1>3, Zenon DEF Clock, Books, Starts, Announced, UpgradeIsPaid

\* A pending upgrade has no phase yet.
LEMMA InsertKeeps ==
  ASSUME IInv, insertPendingUpgrade
  PROVE  IInv'
<1> USE DEF IInv
<1>1. UNCHANGED <<now, cycle, phase, event>> /\ ~Asked' /\ Asked
  BY Zenon DEF insertPendingUpgrade, Done, Asked
<1>2. CASE Wanted \in DOMAIN change
  BY <1>1, <1>2, Zenon DEF insertPendingUpgrade, Wanted, Clock, Books, Starts, Announced, UpgradeIsPaid
<1>3. CASE Wanted \notin DOMAIN change
  <2>1. /\ DOMAIN change' = DOMAIN change \cup {Wanted}
        /\ DOMAIN invoice' = DOMAIN invoice \cup {Wanted}
        /\ DOMAIN job' = DOMAIN job \cup {Wanted}
        /\ job'[Wanted] = "queued"
        /\ \A u \in DOMAIN job : u # Wanted => job'[u] = job[u]
        /\ \A u \in DOMAIN invoice : u # Wanted => invoice'[u] = invoice[u]
    <3>1. /\ \E row : change' = Put(change, Wanted, row)
          /\ invoice' = Put(invoice, Wanted, "none") /\ job' = Put(job, Wanted, "queued")
      BY <1>3, Zenon DEF insertPendingUpgrade, Wanted
    <3>2. DOMAIN change' = DOMAIN change \cup {Wanted}
      BY <3>1, Zenon DEF Put
    <3>3. /\ DOMAIN invoice' = DOMAIN invoice \cup {Wanted}
          /\ \A u \in DOMAIN invoice : u # Wanted => invoice'[u] = invoice[u]
      BY <3>1, Zenon DEF Put
    <3>4. /\ DOMAIN job' = DOMAIN job \cup {Wanted} /\ job'[Wanted] = "queued"
          /\ \A u \in DOMAIN job : u # Wanted => job'[u] = job[u]
      BY <3>1, Zenon DEF Put
    <3> QED
      BY <3>2, <3>3, <3>4, Zenon
  <2>2. Wanted \notin DOMAIN invoice /\ Wanted \notin DOMAIN phase /\ <<Wanted, "invoice.paid">> \notin event
    BY <1>1, <1>3, Zenon DEF Books, Starts, Announced
  <2>3. Clock' /\ Books' /\ Announced'
    BY <1>1, <2>1, <2>2, Zenon DEF Clock, Books, Announced
  <2>4. UpgradeIsPaid'
    BY <1>1, <2>1, <2>2, Zenon DEF UpgradeIsPaid
  <2>5. Wanted[2] = req.at
    BY Zenon DEF Wanted
  <2>6. Starts'
    BY <1>1, <2>1, <2>5, Zenon DEF Starts
  <2> QED
    BY <2>3, <2>4, <2>6, Zenon
<1> QED
  BY <1>2, <1>3, Zenon

\* Payments: a phase is added only for an upgrade whose invoice is paid.
LEMMA PaymentKeeps ==
  ASSUME IInv, NEW u \in DOMAIN job, Payment(u)
  PROVE  IInv'
<1> USE DEF IInv
<1>1. ASSUME applyPaidUpgrade(u), invoice[u] = "paid", UNCHANGED <<now, cycle, invoice, req>>,
             DOMAIN job' = DOMAIN job, event' \subseteq event,
             \A v \in DOMAIN job : job'[v] \in {"paid", "apply"} => job'[v] = job[v]
      PROVE  IInv'
  <2>1. DOMAIN change' = DOMAIN change
    BY <1>1, Zenon DEF applyPaidUpgrade
  <2>2. \A p \in DOMAIN phase' : p \in DOMAIN phase \/ p = u
    BY <1>1, UpgradedDomain, ZenonT(60) DEF applyPaidUpgrade
  <2>3. Clock' /\ Books' /\ Announced'
    BY <1>1, <2>1, Zenon DEF Clock, Books, Announced
  <2>4. UpgradeIsPaid'
    BY <1>1, <2>2, Zenon DEF UpgradeIsPaid
  <2>5. Starts'
    BY <1>1, <2>2, Zenon DEF Starts, Books, Asked, Wanted
  <2> QED
    BY <2>3, <2>4, <2>5, Zenon
<1>2. CASE CollectPayment(u) \/ PayHosted(u) \/ RecordAnswer(u)
  <2>1. UNCHANGED <<now, cycle, phase, req>>
    BY <1>2, Zenon DEF CollectPayment, PayHosted, RecordAnswer
  <2>2. DOMAIN change' = DOMAIN change /\ DOMAIN job' = DOMAIN job /\ DOMAIN invoice' = DOMAIN invoice
    BY <1>2, Zenon DEF CollectPayment, PayHosted, RecordAnswer
  <2>3. \A v \in DOMAIN invoice : invoice[v] = "paid" => invoice'[v] = "paid"
    BY <1>2, Zenon DEF CollectPayment, PayHosted, RecordAnswer
  <2>4. \A v \in DOMAIN job : job'[v] \in {"paid", "apply"} => invoice'[v] = "paid"
    BY <1>2, <2>3, Zenon DEF CollectPayment, PayHosted, RecordAnswer, Books
  <2>5. \A v : <<v, "invoice.paid">> \in event' =>
                 <<v, "invoice.paid">> \in event \/ (v = u /\ invoice'[v] = "paid")
    BY <1>2 DEF CollectPayment, PayHosted, RecordAnswer, Books
  <2>6. Books' /\ Announced'
    BY <2>2, <2>3, <2>4, <2>5, Zenon DEF Books, Announced
  <2>7. Clock' /\ Starts'
    BY <2>1, <2>2, Zenon DEF Clock, Starts, Asked, Wanted
  <2>8. UpgradeIsPaid'
    BY <2>1, <2>2, <2>3, Zenon DEF UpgradeIsPaid
  <2> QED
    BY <2>6, <2>7, <2>8, Zenon
<1>3. CASE ApplyCollected(u)
  BY <1>1, <1>3, Zenon DEF ApplyCollected, Books
<1>4. CASE InvoicePaid(u)
  BY <1>1, <1>4, Zenon DEF InvoicePaid, Consume, Books
<1> QED
  BY <1>2, <1>3, <1>4, Zenon DEF Payment

\* The late activation brings back the first phase, which is no upgrade.
LEMMA ActivationKeeps ==
  ASSUME IInv, ContractAssumption, LateActivation
  PROVE  IInv'
<1> USE DEF IInv
<1>1. UNCHANGED <<now, change, invoice, job, req>> /\ event' \subseteq event
  BY Zenon DEF LateActivation, Consume
<1>2. \A p \in DOMAIN phase' : p \in DOMAIN phase \/ p = First
  <2>1. phase' = phase \/ phase' = WithPhase(phase, First)
    BY Zenon DEF LateActivation
  <2> QED
    BY <2>1, Zenon DEF WithPhase, Put
<1>3. First[2] = 0
  BY Zenon DEF First
<1>4. /\ cycle' \in [start : Nat, end : Nat] /\ cycle'.start < cycle'.end
      /\ cycle.start <= cycle'.start /\ cycle.end <= cycle'.end
      /\ cycle'.end <= cycle'.start + Month
  <2>1. Month \in Nat /\ 0 < Month
    BY DEF ContractAssumption
  <2>2. \/ cycle' = cycle
        \/ cycle.start < now /\ now < cycle.end /\ cycle' = [start |-> now, end |-> now + Month]
    BY Zenon DEF LateActivation
  <2>3. cycle.end <= cycle.start + Month
    BY Zenon DEF Clock
  <2> QED
    BY <2>1, <2>2, <2>3 DEF Clock
<1>5. Clock' /\ Books' /\ Announced'
  <2>1. Clock'
    <3>1. now' = now
      BY <1>1, Zenon
    <3> QED
      BY <1>4, <3>1, Zenon DEF Clock
  <2> QED
    BY <1>1, <2>1, Zenon DEF Books, Announced
<1>6. UpgradeIsPaid'
  BY <1>1, <1>2, <1>3 DEF UpgradeIsPaid, Starts
<1>7. Starts'
  BY <1>1, <1>2, <1>3, <1>4 DEF Starts, Clock, Asked, Wanted
<1> QED
  BY <1>5, <1>6, <1>7, Zenon

\* The invariant is inductive.
THEOREM Invariance == Spec => []IInv
<1>1. Init => IInv
  <2> SUFFICES ASSUME Init PROVE IInv
    BY Zenon
  <2>1. Clock
    BY ContractAssumption DEF Init, Clock
  <2>2. DOMAIN invoice = {} /\ DOMAIN job = {} /\ DOMAIN change = {} /\ DOMAIN phase = {First}
    BY DEF Init
  <2>3. \A u : <<u, "invoice.paid">> \notin event
    BY Zenon DEF Init
  <2>4. First[2] = 0 /\ cycle.start = 0 /\ ~Asked
    BY Zenon DEF Init, First, Asked
  <2> QED
    BY <2>1, <2>2, <2>3, <2>4 DEF IInv, Books, Starts, Announced, UpgradeIsPaid
<1>2. IInv /\ [Next]_vars => IInv'
  <2> SUFFICES ASSUME IInv, [Next]_vars PROVE IInv'
    BY Zenon
  <2>1. CASE Tick \/ UNCHANGED vars
    BY <2>1 DEF Tick, vars, IInv, Clock, Books, Starts, Announced, UpgradeIsPaid, Asked, Wanted
  <2> QED
    BY <2>1, ContractAssumption, RolloverKeeps, RequestKeeps, ScheduleKeeps, InsertKeeps,
       PaymentKeeps, ActivationKeeps, Zenon DEF Next
<1> QED
  BY <1>1, <1>2, PTL DEF Spec

\* The dearer plan of an upgrade starts only when its invoice is paid.
THEOREM Paid == Spec => []UpgradeIsPaid
BY Invariance, PTL DEF IInv

-----------------------------------------------------------------------------
(* An active contract has a plan in force.                                 *)

\* The columns of the two tables.
Columns ==
  /\ \A c \in DOMAIN change :
       change[c] = [kind |-> change[c].kind, state |-> change[c].state, from |-> change[c].from]
  /\ \A p \in DOMAIN phase : phase[p] = [state |-> phase[p].state, end |-> phase[p].end]

\* Nothing starts in the future.
Begun ==
  /\ cycle.start <= now
  /\ \A u \in DOMAIN job : u[2] <= now
  /\ Asked => req.at <= now

\* The changes named "cancel" are the cancellations; one that was applied lies
\* before the cycle.
Registered ==
  /\ \A c \in DOMAIN change :
       /\ change[c].kind = "cancel" <=> c[1] = "cancel"
       /\ c[1] = "cancel" =>
            /\ c[2] \in Nat
            /\ change[c].state \in {"scheduled", "applied", "canceled"}
            /\ change[c].state = "applied" => c[2] <= cycle.start
  /\ \A u \in DOMAIN job : u[1] # "cancel"
  /\ req # None => /\ req.op = "cancel" => req.at \in Nat
                   /\ req.op # "cancel" => req.plan # "cancel"

\* Why a phase in force has the end it has: none, or that of a cancellation
\* which is lost, scheduled or applied.
Boundary(p) == <<"cancel", phase[p].end>>
Lasting(p) == phase[p].end = None \/ Boundary(p) \in lost
Restorable(p) == Boundary(p) \in Scheduled
Past(p) == Boundary(p) \in DOMAIN change /\ change[Boundary(p)].state = "applied"
Ends == \A p \in Active(phase) : Lasting(p) \/ Restorable(p) \/ Past(p)

\* An active contract has a phase that no scheduled cancellation ends, and a
\* withdrawal under way has at least one that it will restore.
Resuming == req # None /\ req.op = "resume" /\ contract = "cancel_scheduled"
Served ==
  /\ contract = "active" => \E p \in Active(phase) : Lasting(p)
  /\ Resuming => \E p \in Active(phase) : Lasting(p) \/ Restorable(p)

PInv == Columns /\ Begun /\ Registered /\ Ends /\ Served

\* A step that leaves the rows of the cancellations alone.
SameCancels ==
  \A t : LET c == <<"cancel", t>>
         IN /\ c \in DOMAIN change' <=> c \in DOMAIN change
            /\ c \in DOMAIN change => change'[c] = change[c]

\* Scheduling a change keeps the rows there are.
LEMMA Inserted ==
  ASSUME NEW c, NEW kind, InsertScheduled(c, kind)
  PROVE  /\ DOMAIN change' = DOMAIN change \cup {c}
         /\ \A x \in DOMAIN change : change'[x] = change[x]
         /\ c \notin DOMAIN change => change'[c] = [kind |-> kind, state |-> "scheduled", from |-> req.from]
<1>1. CASE c \in DOMAIN change
  BY <1>1, Zenon DEF InsertScheduled
<1>2. CASE c \notin DOMAIN change
  <2> DEFINE row == [kind |-> kind, state |-> "scheduled", from |-> req.from]
  <2>1. change' = Put(change, c, row)
    BY <1>2, Zenon DEF InsertScheduled
  <2> HIDE DEF row
  <2>2. DOMAIN change' = DOMAIN change \cup {c}
    BY <2>1, Zenon DEF Put
  <2>3. change'[c] = row
    BY <2>1, Zenon DEF Put
  <2>4. \A x \in DOMAIN change : change'[x] = change[x]
    BY <1>2, <2>1, Zenon DEF Put
  <2> QED
    BY <2>2, <2>3, <2>4, Zenon DEF row
<1> QED
  BY <1>1, <1>2, Zenon

\* Writing the state of a change leaves its other columns.
LEMMA RowState ==
  ASSUME NEW r, NEW s, r = [kind |-> r.kind, state |-> r.state, from |-> r.from]
  PROVE  [r EXCEPT !.state = s] = [kind |-> r.kind, state |-> s, from |-> r.from]
OBVIOUS

\* Writing the end of a phase leaves its state.
LEMMA RowEnd ==
  ASSUME NEW r, NEW t, r = [state |-> r.state, end |-> r.end]
  PROVE  [r EXCEPT !.end = t] = [state |-> r.state, end |-> t]
OBVIOUS

\* A step that touches neither phases nor cancellations keeps what explains them.
LEMMA Untouched ==
  ASSUME Ends, Served, SameCancels, UNCHANGED <<phase, contract, lost>>, Resuming' => Resuming
  PROVE  Ends' /\ Served'
<1>1. \A p : Boundary(p)' = Boundary(p)
  BY Zenon DEF Boundary
<1>2. \A p \in Active(phase) : /\ Lasting(p) => Lasting(p)'
                               /\ Restorable(p) => Restorable(p)'
                               /\ Past(p) => Past(p)'
  BY <1>1, Zenon DEF Lasting, Restorable, Past, Boundary, Scheduled, SameCancels
<1>3. Active(phase)' = Active(phase)
  BY Zenon DEF Active
<1> QED
  BY <1>2, <1>3, Zenon DEF Ends, Served

\* A step that gives the contract a phase without end.
LEMMA Renewed ==
  ASSUME Ends, SameCancels, lost' = lost, contract' # "cancel_scheduled",
         NEW k, k \in Active(phase'), phase'[k].end = None,
         \A p \in Active(phase') : p = k \/ (p \in Active(phase) /\ phase'[p] = phase[p])
  PROVE  Ends' /\ Served'
<1>1. Active(phase)' = Active(phase')
  BY Zenon DEF Active
<1>2. Lasting(k)'
  BY Zenon DEF Lasting
<1>3. ASSUME NEW p \in Active(phase'), p # k
      PROVE  Lasting(p)' \/ Restorable(p)' \/ Past(p)'
  <2>1. p \in Active(phase) /\ phase'[p] = phase[p] /\ Boundary(p)' = Boundary(p)
    BY <1>3, Zenon DEF Boundary
  <2>2. Lasting(p) \/ Restorable(p) \/ Past(p)
    BY <2>1, Zenon DEF Ends
  <2> QED
    BY <2>1, <2>2, Zenon DEF Lasting, Restorable, Past, Boundary, Scheduled, SameCancels
<1>4. Ends'
  BY <1>1, <1>2, <1>3, Zenon DEF Ends
<1>5. Served'
  BY <1>1, <1>2, Zenon DEF Served, Resuming
<1> QED
  BY <1>4, <1>5, Zenon

\* Time passes, and requests read what is there.  A withdrawal is requested for
\* a phase in force, which no applied cancellation has ended.
LEMMA ReadServes ==
  ASSUME IInv, PInv, Tick \/ RequestCancel \/ (\E plan \in Plans : CreateContractChange(plan))
  PROVE  PInv'
<1> USE DEF PInv
<1>1. UNCHANGED <<cycle, contract, phase, change, job, lost>> /\ now \in Nat /\ now' \in Nat /\ now <= now'
  BY DEF Tick, RequestCancel, CreateContractChange, Read, IInv, Clock
<1>2. \/ req' = req
      \/ req' # None /\ req'.op = "cancel" /\ req'.at = cycle.end
      \/ req' # None /\ req'.op = "resume" /\ req'.plan \in Plans /\ Current # {}
      \/ req' # None /\ req'.op = "downgrade" /\ req'.plan \in Plans
      \/ req' # None /\ req'.op = "upgrade" /\ req'.plan \in Plans /\ req'.at = now
  BY DEF Tick, RequestCancel, CreateContractChange, Read
<1>3. "cancel" \notin Plans
  BY Zenon DEF Plans, Price
<1>4. Columns'
  BY <1>1, Zenon DEF Columns
<1>5. Begun'
  <2>1. Asked' => req'.at = now \/ (Asked /\ req' = req)
    BY <1>2, Zenon DEF Asked
  <2> QED
    BY <1>1, <2>1 DEF Begun, IInv, Clock, Starts, Books
<1>6. Registered'
  BY <1>1, <1>2, <1>3, Zenon DEF Registered, IInv, Clock
<1>7. Ends'
  BY <1>1, Zenon DEF Ends, Active, Lasting, Restorable, Past, Boundary, Scheduled
<1>8. Served'
  <2>1. ASSUME NEW p \in Current PROVE Lasting(p) \/ Restorable(p)
    <3>1. p \in Active(phase) /\ Covers(p, now)
      BY <2>1, Zenon DEF Current
    <3>2. ASSUME Past(p), phase[p].end # None PROVE FALSE
      <4>1. Boundary(p)[1] = "cancel" /\ Boundary(p)[2] = phase[p].end
        BY Zenon DEF Boundary
      <4>2. phase[p].end \in Nat /\ phase[p].end <= cycle.start
        BY <3>2, <4>1, Zenon DEF Past, Registered
      <4>3. phase[p].end > now
        BY <3>1, <3>2, Zenon DEF Covers
      <4> QED
        BY <4>2, <4>3 DEF Begun, IInv, Clock
    <3> QED
      BY <3>1, <3>2, Zenon DEF Ends, Lasting
  <2>2. Resuming' => Resuming \/ Current # {}
    BY <1>1, <1>2, Zenon DEF Resuming
  <2>3. Resuming' => \E p \in Active(phase) : Lasting(p) \/ Restorable(p)
    BY <2>1, <2>2, Zenon DEF Served, Current
  <2> QED
    BY <1>1, <2>3, Zenon DEF Served, Active, Lasting, Restorable, Boundary, Scheduled
<1> QED
  BY <1>4, <1>5, <1>6, <1>7, <1>8, Zenon

\* A cancellation gives an end to every phase in force and, unless the id is
\* taken, the scheduled change that explains it.
LEMMA CancelServes ==
  ASSUME IInv, PInv, CancelContract
  PROVE  PInv'
<1> USE DEF PInv
<1> DEFINE c == <<"cancel", req.at>>
<1>1. UNCHANGED <<now, cycle, job>> /\ req' = None /\ req # None /\ req.op = "cancel" /\ req.at \in Nat
  BY Zenon DEF CancelContract, Done, Registered
<1>2. Begun'
  BY <1>1, Zenon DEF Begun, Asked
<1>3. CASE UNCHANGED <<contract, phase, change, lost>>
  <2>1. Columns' /\ Registered'
    BY <1>1, <1>3, Zenon DEF Columns, Registered
  <2>2. SameCancels /\ ~Resuming'
    BY <1>1, <1>3, Zenon DEF SameCancels, Resuming
  <2> QED
    BY <1>2, <1>3, <2>1, <2>2, Untouched, Zenon
<1>4. ASSUME contract' = (IF contract = "active" THEN "cancel_scheduled" ELSE contract),
             phase' = [p \in DOMAIN phase |->
                         IF p \in Active(phase)
                         THEN [phase[p] EXCEPT !.end = Coalesce(@, req.at)] ELSE phase[p]],
             InsertScheduled(c, "cancel"),
             lost' = IF c \in DOMAIN change /\ change[c].state = "canceled" THEN lost \cup {c} ELSE lost
      PROVE  PInv'
  <2>1. /\ DOMAIN change' = DOMAIN change \cup {c}
        /\ \A x \in DOMAIN change : change'[x] = change[x]
        /\ c \notin DOMAIN change => change'[c] = [kind |-> "cancel", state |-> "scheduled", from |-> req.from]
    BY <1>4, Inserted, Zenon
  <2>2. c[1] = "cancel" /\ c[2] = req.at
    BY Zenon
  <2> HIDE DEF c
  <2>3. ASSUME NEW p \in DOMAIN phase
        PROVE  /\ p \in DOMAIN phase'
               /\ phase'[p].state = phase[p].state
               /\ phase'[p] = [state |-> phase'[p].state, end |-> phase'[p].end]
               /\ p \in Active(phase) => phase'[p].end = Coalesce(phase[p].end, req.at)
    <3>1. phase[p] = [state |-> phase[p].state, end |-> phase[p].end]
      BY Zenon DEF Columns
    <3> QED
      BY <1>4, <3>1, RowEnd, Zenon
  <2>4. Columns'
    <3>1. \A x \in DOMAIN change' :
            change'[x] = [kind |-> change'[x].kind, state |-> change'[x].state, from |-> change'[x].from]
      BY <2>1, Zenon DEF Columns
    <3>2. DOMAIN phase' = DOMAIN phase
      BY <1>4, Zenon
    <3> QED
      BY <2>3, <3>1, <3>2, Zenon DEF Columns
  <2>5. Registered'
    BY <1>1, <2>1, <2>2 DEF Registered
  <2>6. Served'
    BY <1>1, <1>4, Zenon DEF Served, Resuming
  <2>7. ASSUME NEW p \in Active(phase') PROVE (Lasting(p) \/ Restorable(p) \/ Past(p))'
    <3>1. p \in Active(phase) /\ p \in DOMAIN phase /\ phase'[p].end = Coalesce(phase[p].end, req.at)
      BY <1>4, <2>3, Zenon DEF Active
    <3>2. CASE phase[p].end = None
      <4>1. Boundary(p)' = c
        BY <3>1, <3>2, Zenon DEF Boundary, Coalesce, c
      <4>2. c \in DOMAIN change => change[c].state \in {"scheduled", "applied", "canceled"}
        BY <2>2, Zenon DEF Registered
      <4> QED
        BY <1>4, <2>1, <4>1, <4>2 DEF Lasting, Restorable, Past, Scheduled
    <3>3. CASE phase[p].end # None
      <4>1. Boundary(p)' = Boundary(p) /\ phase'[p].end = phase[p].end
        BY <3>1, <3>3, Zenon DEF Boundary, Coalesce
      <4>2. lost \subseteq lost'
        BY <1>4, Zenon
      <4>3. Lasting(p) \/ Restorable(p) \/ Past(p)
        BY <3>1, Zenon DEF Ends
      <4> QED
        BY <2>1, <4>1, <4>2, <4>3, Zenon DEF Lasting, Restorable, Past, Scheduled
    <3> QED
      BY <3>2, <3>3, Zenon
  <2>8. Ends'
    BY <2>7, Zenon DEF Ends, Active
  <2> QED
    BY <1>2, <2>4, <2>5, <2>6, <2>8, Zenon
<1> QED
  BY <1>3, <1>4, Zenon DEF CancelContract

\* A downgrade or an upgrade is a row of its own.
LEMMA InsertServes ==
  ASSUME IInv, PInv, scheduleDowngrade \/ insertPendingUpgrade
  PROVE  PInv'
<1> USE DEF PInv
<1> DEFINE u == <<req.plan, req.at>>
<1>1. UNCHANGED <<now, cycle, contract, phase, lost>> /\ req' = None /\ req # None /\ req.op # "cancel"
  BY Zenon DEF scheduleDowngrade, insertPendingUpgrade, Done
<1>2. u[1] # "cancel" /\ u[2] = req.at
  BY <1>1, Zenon DEF Registered
<1>3. /\ DOMAIN change \subseteq DOMAIN change' /\ DOMAIN change' \subseteq DOMAIN change \cup {u}
      /\ \A x \in DOMAIN change : change'[x] = change[x]
      /\ u \in DOMAIN change' \ DOMAIN change =>
           /\ change'[u] = [kind |-> change'[u].kind, state |-> change'[u].state, from |-> change'[u].from]
           /\ change'[u].kind # "cancel"
  <2>1. CASE change' = change
    BY <2>1, Zenon
  <2>2. CASE InsertScheduled(u, "downgrade")
    <3> HIDE DEF u
    <3>1. /\ DOMAIN change' = DOMAIN change \cup {u}
          /\ \A x \in DOMAIN change : change'[x] = change[x]
          /\ u \notin DOMAIN change =>
               change'[u] = [kind |-> "downgrade", state |-> "scheduled", from |-> req.from]
      BY <2>2, Inserted, Zenon
    <3> QED
      BY <3>1
  <2>3. CASE change' = Put(change, u, [kind |-> "upgrade", state |-> "awaiting_payment", from |-> req.from])
             /\ u \notin DOMAIN change
    <3> HIDE DEF u
    <3> DEFINE row == [kind |-> "upgrade", state |-> "awaiting_payment", from |-> req.from]
    <3>1. change' = Put(change, u, row)
      BY <2>3, Zenon
    <3> HIDE DEF row
    <3>2. DOMAIN change' = DOMAIN change \cup {u}
      BY <3>1, Zenon DEF Put
    <3>3. change'[u] = row
      BY <3>1, Zenon DEF Put
    <3>4. \A x \in DOMAIN change : change'[x] = change[x]
      BY <2>3, <3>1, Zenon DEF Put
    <3>5. /\ change'[u] = [kind |-> change'[u].kind, state |-> change'[u].state, from |-> change'[u].from]
          /\ change'[u].kind # "cancel"
      BY <3>3 DEF row
    <3> QED
      BY <3>2, <3>4, <3>5, Zenon
  <2> QED
    BY <2>1, <2>2, <2>3, Zenon DEF scheduleDowngrade, insertPendingUpgrade
<1>4. \A v \in DOMAIN job' : v \in DOMAIN job \/ (v = u /\ Asked)
  <2>1. job' = job \/ (job' = Put(job, u, "queued") /\ Asked)
    BY Zenon DEF scheduleDowngrade, insertPendingUpgrade, Asked
  <2> QED
    BY <2>1, Zenon DEF Put
<1> HIDE DEF u
<1>5. Columns'
  BY <1>1, <1>3, Zenon DEF Columns
<1>6. Begun'
  BY <1>1, <1>2, <1>4, Zenon DEF Begun, Asked
<1>7. Registered'
  <2>1. \A x \in DOMAIN change' : x \in DOMAIN change \/ (x = u /\ change'[u].kind # "cancel")
    BY <1>3, Zenon
  <2> QED
    BY <1>1, <1>2, <1>3, <1>4, <2>1, Zenon DEF Registered
<1>8. SameCancels /\ ~Resuming'
  <2>1. \A t : <<"cancel", t>> # u
    BY <1>2
  <2> QED
    BY <1>1, <1>3, <2>1, Zenon DEF SameCancels, Resuming
<1> QED
  BY <1>1, <1>5, <1>6, <1>7, <1>8, Untouched, Zenon

\* A withdrawal restores the phases that the scheduled cancellation ends.
LEMMA ResumeServes ==
  ASSUME IInv, PInv, resumeCurrentPlan
  PROVE  PInv'
<1> USE DEF PInv
<1>1. UNCHANGED <<now, cycle, job, lost>> /\ req' = None /\ req # None /\ req.op = "resume"
  BY Zenon DEF resumeCurrentPlan, Done
<1>2. Begun'
  BY <1>1, Zenon DEF Begun, Asked
<1>3. CASE UNCHANGED <<contract, phase, change>>
  <2>1. Columns' /\ Registered'
    BY <1>1, <1>3, Zenon DEF Columns, Registered
  <2>2. SameCancels /\ ~Resuming'
    BY <1>1, <1>3, Zenon DEF SameCancels, Resuming
  <2> QED
    BY <1>1, <1>2, <1>3, <2>1, <2>2, Untouched, Zenon
<1> DEFINE restored == {p \in Active(phase) :
                          \E c \in Scheduled : change[c].kind = "cancel" /\ phase[p].end = c[2]}
<1>4. ASSUME change' = [c \in DOMAIN change |->
                          IF c \in Scheduled THEN [change[c] EXCEPT !.state = "canceled"] ELSE change[c]],
             contract' = IF contract = "cancel_scheduled" THEN "active" ELSE contract,
             phase' = [p \in DOMAIN phase |->
                         IF p \in restored THEN [phase[p] EXCEPT !.end = None] ELSE phase[p]]
      PROVE  PInv'
  <2>1. ASSUME NEW c \in DOMAIN change
        PROVE  /\ change'[c] = [kind |-> change'[c].kind, state |-> change'[c].state, from |-> change'[c].from]
               /\ change'[c].kind = change[c].kind
               /\ change'[c].state \in {change[c].state, "canceled"}
               /\ change[c].state = "applied" => change'[c].state = "applied"
    <3>1. change[c] = [kind |-> change[c].kind, state |-> change[c].state, from |-> change[c].from]
      BY Zenon DEF Columns
    <3>2. CASE c \in Scheduled
      <4>1. change'[c] = [kind |-> change[c].kind, state |-> "canceled", from |-> change[c].from]
        BY <1>4, <3>1, <3>2, RowState, Zenon
      <4> QED
        BY <4>1, <3>2 DEF Scheduled
    <3>3. CASE c \notin Scheduled
      BY <1>4, <3>1, <3>3, Zenon
    <3> QED
      BY <3>2, <3>3, Zenon
  <2>2. ASSUME NEW p \in DOMAIN phase
        PROVE  /\ phase'[p] = [state |-> phase[p].state, end |-> phase'[p].end]
               /\ phase'[p].state = phase[p].state
               /\ phase'[p].end \in {phase[p].end, None}
               /\ p \in restored => phase'[p].end = None
    <3>1. phase[p] = [state |-> phase[p].state, end |-> phase[p].end]
      BY Zenon DEF Columns
    <3>2. CASE p \in restored
      <4>1. phase'[p] = [state |-> phase[p].state, end |-> None]
        BY <1>4, <3>1, <3>2, RowEnd, Zenon
      <4> QED
        BY <4>1
    <3>3. CASE p \notin restored
      BY <1>4, <3>1, <3>3, Zenon
    <3> QED
      BY <3>2, <3>3, Zenon
  <2>3. ASSUME NEW p \in Active(phase), Restorable(p) PROVE p \in restored
    <3>1. Boundary(p)[1] = "cancel" /\ Boundary(p)[2] = phase[p].end
      BY Zenon DEF Boundary
    <3>2. Boundary(p) \in Scheduled /\ change[Boundary(p)].kind = "cancel"
      BY <2>3, <3>1, Zenon DEF Restorable, Scheduled, Registered
    <3> QED
      BY <3>1, <3>2, Zenon
  <2>4. DOMAIN phase' = DOMAIN phase /\ DOMAIN change' = DOMAIN change
    BY <1>4, Zenon
  <2> HIDE DEF restored
  <2>5. Columns'
    BY <2>1, <2>2, <2>4, Zenon DEF Columns
  <2>6. Registered'
    BY <1>1, <2>1, <2>4, Zenon DEF Registered
  <2>7. Active(phase') = Active(phase)
    BY <2>2, <2>4, Zenon DEF Active
  <2>8. ASSUME NEW p \in Active(phase)
        PROVE  /\ Lasting(p) \/ Restorable(p) => Lasting(p)'
               /\ Past(p) => Lasting(p)' \/ Past(p)'
    <3>1. p \in DOMAIN phase
      BY Zenon DEF Active
    <3>2. CASE phase'[p].end = None
      BY <3>2, Zenon DEF Lasting
    <3>3. CASE phase'[p].end # None
      <4>1. phase'[p].end = phase[p].end /\ Boundary(p)' = Boundary(p) /\ ~Restorable(p)
        BY <2>2, <2>3, <3>1, <3>3, Zenon DEF Boundary
      <4> QED
        BY <1>1, <2>1, <2>4, <4>1, Zenon DEF Lasting, Past
    <3> QED
      BY <3>2, <3>3, Zenon
  <2>9. Ends'
    BY <2>7, <2>8, Zenon DEF Ends, Active
  <2>10. contract' = "active" => \E p \in Active(phase) : Lasting(p) \/ Restorable(p)
    BY <1>1, <1>4, Zenon DEF Served, Resuming
  <2>11. Served'
    BY <1>1, <2>7, <2>8, <2>10, Zenon DEF Served, Resuming, Active
  <2> QED
    BY <1>2, <2>5, <2>6, <2>9, <2>11, Zenon
<1> QED
  BY <1>3, <1>4, Zenon DEF resumeCurrentPlan

\* A new phase is the only new row in force.
LEMMA PhaseAdded ==
  ASSUME NEW table, NEW k
  PROVE  /\ k \in Active(WithPhase(table, k))
         /\ WithPhase(table, k)[k] = [state |-> "active", end |-> None]
         /\ \A p \in DOMAIN table : p # k => WithPhase(table, k)[p] = table[p]
         /\ \A p \in Active(WithPhase(table, k)) : p = k \/ p \in Active(table)
<1> DEFINE row == [state |-> "active", end |-> None]
<1>1. row.state = "active"
  BY Zenon
<1>2. WithPhase(table, k) = Put(table, k, row)
  BY Zenon DEF WithPhase
<1> HIDE DEF row
<1>3. k \in DOMAIN WithPhase(table, k) /\ WithPhase(table, k)[k] = row
  BY <1>2, Zenon DEF Put
<1>4. \A p \in DOMAIN WithPhase(table, k) : p # k => p \in DOMAIN table /\ WithPhase(table, k)[p] = table[p]
  BY <1>2, Zenon DEF Put
<1>5. \A p \in DOMAIN table : p # k => WithPhase(table, k)[p] = table[p]
  BY <1>2, Zenon DEF Put
<1>6. k \in Active(WithPhase(table, k))
  BY <1>1, <1>3, Zenon DEF Active
<1>7. \A p \in Active(WithPhase(table, k)) : p = k \/ p \in Active(table)
  BY <1>4, Zenon DEF Active
<1> QED
  BY <1>3, <1>5, <1>6, <1>7, Zenon DEF row

\* The rows a paid upgrade leaves in force.
LEMMA UpgradedRows ==
  ASSUME NEW u
  PROVE  /\ u \in Active(Upgraded(u))
         /\ Upgraded(u)[u] = [state |-> "active", end |-> None]
         /\ \A p \in DOMAIN phase : p # u => \/ Upgraded(u)[p] = phase[p]
                                             \/ \E t : Upgraded(u)[p] = [state |-> "superseded", end |-> t]
         /\ \A p \in Active(Upgraded(u)) : p = u \/ (p \in Active(phase) /\ Upgraded(u)[p] = phase[p])
<1> DEFINE f == change[u].from
           t == IF f[2] < u[2] THEN u[2] ELSE None
           row == [state |-> "superseded", end |-> t]
           ended == IF f \in Active(phase) THEN [phase EXCEPT ![f] = row] ELSE phase
<1>1. Upgraded(u) = WithPhase(ended, u)
  BY Zenon DEF Upgraded
<1>2. row.state # "active" /\ row = [state |-> "superseded", end |-> t]
  BY Zenon
<1> HIDE DEF row, f, t
<1>3. \A p \in DOMAIN ended : p \in DOMAIN phase /\ (ended[p] = phase[p] \/ ended[p] = row)
  BY Zenon
<1>4. DOMAIN ended = DOMAIN phase
  BY Zenon
<1> HIDE DEF ended
<1>5. /\ u \in Active(WithPhase(ended, u))
      /\ WithPhase(ended, u)[u] = [state |-> "active", end |-> None]
      /\ \A p \in DOMAIN ended : p # u => WithPhase(ended, u)[p] = ended[p]
      /\ \A p \in Active(WithPhase(ended, u)) : p = u \/ p \in Active(ended)
  BY PhaseAdded, Zenon
<1>6. ASSUME NEW p \in Active(ended) PROVE p \in Active(phase) /\ ended[p] = phase[p]
  BY <1>2, <1>3, <1>6, Zenon DEF Active
<1>7. \A p \in Active(ended) : p \in DOMAIN ended
  BY Zenon DEF Active
<1> QED
  BY <1>1, <1>2, <1>3, <1>4, <1>5, <1>6, <1>7, Zenon

\* Payments.  An applied upgrade gives the contract a phase of its own.
LEMMA PaymentServes ==
  ASSUME IInv, PInv, NEW u \in DOMAIN job, Payment(u)
  PROVE  PInv'
<1> USE DEF PInv
<1>1. u \in DOMAIN change /\ u[1] # "cancel" /\ change[u].kind # "cancel"
  BY Zenon DEF IInv, Books, Registered
<1>2. ASSUME NEW s
      PROVE  [change EXCEPT ![u].state = s][u]
               = [kind |-> change[u].kind, state |-> s, from |-> change[u].from]
  <2>1. change[u] = [kind |-> change[u].kind, state |-> change[u].state, from |-> change[u].from]
    BY <1>1, Zenon DEF Columns
  <2>2. [change EXCEPT ![u].state = s][u] = [change[u] EXCEPT !.state = s]
    BY <1>1, Zenon
  <2> QED
    BY <2>1, <2>2, RowState, Zenon
<1>3. ASSUME UNCHANGED <<now, cycle, req>>, DOMAIN job' = DOMAIN job,
             change' = change \/ \E s : change' = [change EXCEPT ![u].state = s]
      PROVE  /\ Begun' /\ Registered' /\ SameCancels
             /\ \A c \in DOMAIN change' : change'[c] = [kind |-> change'[c].kind, state |-> change'[c].state,
                                                        from |-> change'[c].from]
  <2>1. Begun'
    BY <1>3, Zenon DEF Begun, Asked
  <2>2. /\ DOMAIN change' = DOMAIN change
        /\ \A c \in DOMAIN change : c # u => change'[c] = change[c]
        /\ change'[u].kind = change[u].kind
        /\ change'[u] = [kind |-> change'[u].kind, state |-> change'[u].state, from |-> change'[u].from]
    <3>1. CASE change' = change
      BY <1>1, <3>1, Zenon DEF Columns
    <3>2. ASSUME NEW s, change' = [change EXCEPT ![u].state = s]
          PROVE  /\ DOMAIN change' = DOMAIN change
                 /\ \A c \in DOMAIN change : c # u => change'[c] = change[c]
                 /\ change'[u].kind = change[u].kind
                 /\ change'[u] = [kind |-> change'[u].kind, state |-> change'[u].state, from |-> change'[u].from]
      <4>1. /\ DOMAIN change' = DOMAIN change
            /\ \A c \in DOMAIN change : c # u => change'[c] = change[c]
        BY <3>2, Zenon
      <4>2. change'[u] = [kind |-> change[u].kind, state |-> s, from |-> change[u].from]
        BY <1>2, <3>2, Zenon
      <4> QED
        BY <4>1, <4>2
    <3> QED
      BY <1>3, <3>1, <3>2, Zenon
  <2>3. Registered'
    BY <1>1, <1>3, <2>2 DEF Registered
  <2>4. SameCancels
    <3>1. \A t : <<"cancel", t>> # u
      BY <1>1
    <3> QED
      BY <2>2, <3>1, Zenon DEF SameCancels
  <2> QED
    BY <2>1, <2>2, <2>3, <2>4, Zenon DEF Columns
<1>4. ASSUME applyPaidUpgrade(u), UNCHANGED <<now, cycle, req, lost>>, DOMAIN job' = DOMAIN job
      PROVE  PInv'
  <2>1. Begun' /\ Registered' /\ SameCancels
        /\ \A c \in DOMAIN change' : change'[c] = [kind |-> change'[c].kind, state |-> change'[c].state,
                                                   from |-> change'[c].from]
    BY <1>3, <1>4, Zenon DEF applyPaidUpgrade
  <2>2. CASE UNCHANGED <<phase, contract>>
    <3>1. Columns'
      BY <2>1, <2>2, Zenon DEF Columns
    <3>2. Resuming' => Resuming
      BY <1>4, <2>2, Zenon DEF Resuming
    <3> QED
      BY <1>4, <2>1, <2>2, <3>1, <3>2, Untouched, Zenon
  <2>3. CASE phase' = Upgraded(u) /\ contract' = "active"
    <3>1. \A p \in DOMAIN phase' : phase'[p] = [state |-> phase'[p].state, end |-> phase'[p].end]
      <4>1. ASSUME NEW p \in DOMAIN phase' PROVE phase'[p] = [state |-> phase'[p].state, end |-> phase'[p].end]
        <5>0. DOMAIN phase' = DOMAIN phase \cup {u}
          BY <2>3, UpgradedDomain, Zenon
        <5>1. p = u \/ p \in DOMAIN phase
          BY <4>1, <5>0, Zenon
        <5>2. \/ phase'[p] = [state |-> "active", end |-> None]
              \/ phase'[p] = phase[p] /\ p \in DOMAIN phase
              \/ \E t : phase'[p] = [state |-> "superseded", end |-> t]
          BY <2>3, <5>1, UpgradedRows, ZenonT(30)
        <5> QED
          BY <5>2, Zenon DEF Columns
      <4> QED
        BY <4>1, Zenon
    <3>2. Columns'
      BY <2>1, <3>1, Zenon DEF Columns
    <3>3. /\ u \in Active(phase') /\ phase'[u].end = None
          /\ \A p \in Active(phase') : p = u \/ (p \in Active(phase) /\ phase'[p] = phase[p])
      BY <2>3, UpgradedRows
    <3>4. Ends' /\ Served'
      BY <1>4, <2>1, <2>3, <3>3, Renewed, Zenon
    <3> QED
      BY <2>1, <3>2, <3>4, Zenon
  <2> QED
    BY <1>4, <2>2, <2>3, Zenon DEF applyPaidUpgrade
<1>5. CASE CollectPayment(u) \/ PayHosted(u) \/ RecordAnswer(u)
  <2>1. UNCHANGED <<now, cycle, contract, phase, req, lost>> /\ DOMAIN job' = DOMAIN job
    BY <1>5, Zenon DEF CollectPayment, PayHosted, RecordAnswer
  <2>2. change' = change \/ \E s : change' = [change EXCEPT ![u].state = s]
    BY <1>5, Zenon DEF CollectPayment, PayHosted, RecordAnswer
  <2>3. Begun' /\ Registered' /\ SameCancels
        /\ \A c \in DOMAIN change' : change'[c] = [kind |-> change'[c].kind, state |-> change'[c].state,
                                                   from |-> change'[c].from]
    BY <1>3, <2>1, <2>2, Zenon
  <2>4. Columns' /\ (Resuming' => Resuming)
    BY <2>1, <2>3, Zenon DEF Columns, Resuming
  <2> QED
    BY <2>1, <2>3, <2>4, Untouched, Zenon
<1>6. CASE ApplyCollected(u)
  BY <1>4, <1>6, Zenon DEF ApplyCollected
<1>7. CASE InvoicePaid(u)
  BY <1>4, <1>7, Zenon DEF InvoicePaid
<1> QED
  BY <1>5, <1>6, <1>7, Zenon DEF Payment

\* The rollover: a cancellation closes every phase in force, a downgrade opens
\* one.
LEMMA RolloverServes ==
  ASSUME IInv, PInv, ContractAssumption, ApplyDueBillingWork
  PROVE  PInv'
<1> USE DEF PInv
<1>1. UNCHANGED <<now, job, req, lost>> /\ cycle'.start = cycle.end /\ cycle.end <= now
  BY Zenon DEF ApplyDueBillingWork
<1>2. cycle.start \in Nat /\ cycle.end \in Nat /\ now \in Nat /\ cycle.start < cycle.end
  BY Zenon DEF IInv, Clock
<1>3. Begun'
  BY <1>1, Zenon DEF Begun, Asked
<1>4. CASE UNCHANGED <<phase, contract, change>>
  <2>1. Columns'
    BY <1>4, Zenon DEF Columns
  <2>2. Registered'
    BY <1>1, <1>2, <1>4 DEF Registered
  <2>3. SameCancels /\ (Resuming' => Resuming)
    BY <1>1, <1>4, Zenon DEF SameCancels, Resuming
  <2> QED
    BY <1>1, <1>3, <1>4, <2>1, <2>2, <2>3, Untouched, Zenon
<1>5. ASSUME NEW c \in DueChanges, change' = [change EXCEPT ![c].state = "applied"]
      PROVE  /\ Registered'
             /\ \A x \in DOMAIN change' : change'[x] = [kind |-> change'[x].kind, state |-> change'[x].state,
                                                        from |-> change'[x].from]
             /\ change[c].kind # "cancel" => SameCancels
  <2>1. c \in DOMAIN change /\ c[2] <= cycle.end
    BY Zenon DEF DueChanges, Scheduled
  <2>2. change[c] = [kind |-> change[c].kind, state |-> change[c].state, from |-> change[c].from]
    BY <2>1, Zenon DEF Columns
  <2>3. change'[c] = [change[c] EXCEPT !.state = "applied"]
    BY <1>5, <2>1, Zenon
  <2>4. change'[c] = [kind |-> change[c].kind, state |-> "applied", from |-> change[c].from]
    BY <2>2, <2>3, RowState, Zenon
  <2>5. DOMAIN change' = DOMAIN change /\ \A x \in DOMAIN change : x # c => change'[x] = change[x]
    BY <1>5, Zenon
  <2>6. \A x \in DOMAIN change' : change'[x] = [kind |-> change'[x].kind, state |-> change'[x].state,
                                                from |-> change'[x].from]
    <3>1. change'[c] = [kind |-> change'[c].kind, state |-> change'[c].state, from |-> change'[c].from]
      BY <2>4, Zenon
    <3> QED
      BY <2>5, <3>1, Zenon DEF Columns
  <2>7. change'[c].kind = change[c].kind /\ change'[c].state = "applied"
    BY <2>4
  <2>8. Registered'
    BY <1>1, <1>2, <2>1, <2>5, <2>7 DEF Registered
  <2>9. ASSUME change[c].kind # "cancel" PROVE SameCancels
    <3>1. \A t : <<"cancel", t>> # c
      BY <2>1, <2>9 DEF Registered
    <3> QED
      BY <2>5, <3>1, Zenon DEF SameCancels
  <2> QED
    BY <2>6, <2>8, <2>9, Zenon
<1>6. \A ps : \A p \in DOMAIN phase :
        \/ Closed(phase, ps)[p] = phase[p] /\ p \notin ps
        \/ \E t : Closed(phase, ps)[p] = [state |-> "closed", end |-> t]
  BY Zenon DEF Closed
<1>7. ASSUME NEW c \in DueChanges, change' = [change EXCEPT ![c].state = "applied"], applyScheduledCancel(c)
      PROVE  PInv'
  <2>1. \A p \in DOMAIN phase : p[2] < cycle.end
    BY <1>2 DEF IInv, Starts
  <2> DEFINE ps == {p \in Active(phase) : p[2] < cycle.end}
  <2>2. phase' = Closed(phase, ps) /\ contract' = "ended" /\ DOMAIN phase' = DOMAIN phase
    BY <1>7, ClosedDomain, Zenon DEF applyScheduledCancel
  <2>3. \A p \in Active(phase) : p \in ps
    BY <2>1, Zenon DEF Active
  <2> HIDE DEF ps
  <2>4. \A p \in DOMAIN phase : \/ phase'[p] = phase[p] /\ p \notin Active(phase)
                                \/ \E t : phase'[p] = [state |-> "closed", end |-> t]
    BY <1>6, <2>2, <2>3, Zenon
  <2>5. \A p \in DOMAIN phase' : phase'[p] = [state |-> phase'[p].state, end |-> phase'[p].end]
    BY <2>2, <2>4 DEF Columns
  <2>6. \A p \in DOMAIN phase' : phase'[p].state # "active"
    BY <2>2, <2>4 DEF Active
  <2>7. Columns'
    BY <1>5, <1>7, <2>5, Zenon DEF Columns
  <2>8. Ends' /\ Served'
    BY <2>2, <2>6, Zenon DEF Ends, Served, Active, Resuming
  <2> QED
    BY <1>3, <1>5, <1>7, <2>7, <2>8, Zenon
<1>8. ASSUME NEW c \in DueChanges, change' = [change EXCEPT ![c].state = "applied"],
             applyScheduledDowngrade(c), change[c].kind # "cancel"
      PROVE  PInv'
  <2> DEFINE old == Closed(phase, {change[c].from} \cap Active(phase))
             k == <<c[1], cycle.end>>
  <2>1. phase' = WithPhase(old, k) /\ (contract' = contract \/ contract' = "active")
        /\ contract' # "cancel_scheduled" /\ DOMAIN old = DOMAIN phase
    <3>1. phase' = WithPhase(old, k) /\ (contract' = IF contract = "ended" THEN contract ELSE "active")
      BY <1>8, Zenon DEF applyScheduledDowngrade
    <3> QED
      BY <3>1, ClosedDomain, Zenon
  <2>2. \A p \in DOMAIN phase :
          old[p] = phase[p] \/ (old[p].state = "closed" /\ old[p] = [state |-> old[p].state, end |-> old[p].end])
    <3>1. \A p \in DOMAIN phase : old[p] = phase[p] \/ \E t : old[p] = [state |-> "closed", end |-> t]
      BY <1>6, Zenon
    <3>2. \A r, t : r = [state |-> "closed", end |-> t] =>
                      r.state = "closed" /\ r = [state |-> r.state, end |-> r.end]
      OBVIOUS
    <3> HIDE DEF old
    <3> QED
      BY <3>1, <3>2, Zenon
  <2> HIDE DEF old, k
  <2>3. /\ k \in Active(phase') /\ phase'[k] = [state |-> "active", end |-> None]
        /\ \A p \in DOMAIN old : p # k => phase'[p] = old[p]
        /\ \A p \in Active(phase') : p = k \/ p \in Active(old)
    BY <2>1, PhaseAdded
  <2>4. DOMAIN phase' = DOMAIN phase \cup {k}
    BY <2>1, PhaseDomain, Zenon
  <2>5. \A p \in DOMAIN phase' : phase'[p] = [state |-> phase'[p].state, end |-> phase'[p].end]
    <3>1. ASSUME NEW p \in DOMAIN phase, p # k
          PROVE  phase'[p] = [state |-> phase'[p].state, end |-> phase'[p].end]
      <4>1. phase'[p] = old[p]
        BY <2>1, <2>3, <3>1, Zenon
      <4> QED
        BY <2>2, <4>1, Zenon DEF Columns
    <3>2. phase'[k] = [state |-> phase'[k].state, end |-> phase'[k].end]
      BY <2>3, Zenon
    <3> QED
      BY <2>4, <3>1, <3>2, Zenon
  <2>6. Columns'
    BY <1>5, <1>8, <2>5, Zenon DEF Columns
  <2>7. ASSUME NEW p \in Active(phase'), p # k PROVE p \in Active(phase) /\ phase'[p] = phase[p]
    <3>1. p \in Active(old) /\ p \in DOMAIN phase
      BY <2>1, <2>3, <2>7, Zenon DEF Active
    <3>2. old[p] = phase[p]
      BY <2>2, <3>1, Zenon DEF Active
    <3> QED
      BY <2>1, <2>3, <2>7, <3>1, <3>2, Zenon DEF Active
  <2>8. Ends' /\ Served'
    <3>1. phase'[k].end = None
      BY <2>3
    <3> QED
      BY <1>1, <1>5, <1>8, <2>1, <2>3, <2>7, <3>1, Renewed, Zenon
  <2> QED
    BY <1>3, <1>5, <1>8, <2>6, <2>8, Zenon
<1> QED
  BY <1>4, <1>7, <1>8, Zenon DEF ApplyDueBillingWork

\* The late activation brings the first phase back without an end.
LEMMA ActivationServes ==
  ASSUME IInv, PInv, ContractAssumption, LateActivation
  PROVE  PInv'
<1> USE DEF PInv
<1>1. UNCHANGED <<now, change, job, req, lost>>
  BY Zenon DEF LateActivation
<1>2. now \in Nat /\ cycle.start \in Nat /\ cycle'.start \in Nat
      /\ cycle.start <= cycle'.start /\ cycle'.start <= now
  <2>1. cycle' = cycle \/ (cycle.start < now /\ cycle' = [start |-> now, end |-> now + Month])
    BY Zenon DEF LateActivation
  <2> QED
    BY <2>1 DEF IInv, Clock, Begun
<1>3. Begun'
  BY <1>1, <1>2, Zenon DEF Begun, Asked
<1>4. Registered'
  BY <1>1, <1>2 DEF Registered
<1>5. SameCancels
  BY <1>1, Zenon DEF SameCancels
<1>6. CASE UNCHANGED <<phase, contract>>
  <2>1. Columns' /\ (Resuming' => Resuming)
    BY <1>1, <1>6, Zenon DEF Columns, Resuming
  <2> QED
    BY <1>1, <1>3, <1>4, <1>5, <1>6, <2>1, Untouched, Zenon
<1>7. CASE phase' = WithPhase(phase, First) /\ contract' = "active"
  <2>1. /\ First \in Active(phase') /\ phase'[First] = [state |-> "active", end |-> None]
        /\ \A p \in DOMAIN phase : p # First => phase'[p] = phase[p]
        /\ \A p \in Active(phase') : p = First \/ p \in Active(phase)
    BY <1>7, PhaseAdded
  <2>2. DOMAIN phase' = DOMAIN phase \cup {First}
    BY <1>7, PhaseDomain, Zenon
  <2>3. Columns'
    <3>1. phase'[First] = [state |-> phase'[First].state, end |-> phase'[First].end]
      BY <2>1, Zenon
    <3> QED
      BY <1>1, <2>1, <2>2, <3>1, Zenon DEF Columns
  <2>4. phase'[First].end = None /\ \A p \in Active(phase) : p \in DOMAIN phase
    BY <2>1 DEF Active
  <2>5. Ends' /\ Served'
    BY <1>1, <1>5, <1>7, <2>1, <2>4, Renewed, Zenon
  <2> QED
    BY <1>3, <1>4, <2>3, <2>5, Zenon
<1> QED
  BY <1>6, <1>7, Zenon DEF LateActivation

\* What gives an active contract its phase is inductive.
THEOREM Serving == Spec => []PInv
<1>1. Init => PInv
  <2> SUFFICES ASSUME Init PROVE PInv
    BY Zenon
  <2>1. DOMAIN change = {} /\ DOMAIN job = {} /\ DOMAIN phase = {First} /\ ~Asked /\ ~Resuming /\ req = None
        /\ now = 0 /\ cycle.start = 0
    BY DEF Init, Asked, Resuming
  <2>2. phase[First] = [state |-> "active", end |-> None]
    BY Zenon DEF Init
  <2>3. First \in Active(phase) /\ \A p \in Active(phase) : Lasting(p)
    BY <2>1, <2>2 DEF Active, Lasting
  <2>4. Columns
    BY <2>1, <2>2, Zenon DEF Columns
  <2> QED
    BY <2>1, <2>3, <2>4 DEF PInv, Begun, Registered, Ends, Served
<1>2. IInv /\ PInv /\ [Next]_vars => PInv'
  <2> SUFFICES ASSUME IInv, PInv, [Next]_vars PROVE PInv'
    BY Zenon
  <2>1. CASE UNCHANGED vars
    BY <2>1, ZenonT(30) DEF vars, PInv, Columns, Begun, Asked, Registered, Ends, Served, Resuming, Active, Lasting,
                Restorable, Past, Boundary, Scheduled
  <2> QED
    BY <2>1, ContractAssumption, ReadServes, CancelServes, InsertServes, ResumeServes, PaymentServes,
       RolloverServes, ActivationServes, Zenon DEF Next
<1> QED
  BY <1>1, <1>2, Invariance, PTL DEF Spec

\* An active contract has a plan in force, but for the cancellation requested
\* again after it was withdrawn, which leaves an end that nothing takes back.
THEOREM PlanInForce == Spec => []ActiveHasPhase
<1>1. IInv /\ PInv => ActiveHasPhase
  <2> SUFFICES ASSUME IInv, PInv, contract = "active" PROVE Current # {} \/ CanceledAgain
    BY Zenon DEF ActiveHasPhase
  <2>1. PICK p \in Active(phase) : Lasting(p)
    BY Zenon DEF PInv, Served
  <2>2. p[2] <= now
    <3>1. p \in DOMAIN phase
      BY Zenon DEF Active
    <3>2. p[2] \in Nat /\ (p[2] <= cycle.start \/ p \in DOMAIN job)
      BY <3>1, Zenon DEF IInv, Starts, Books
    <3> QED
      BY <3>2 DEF IInv, Clock, PInv, Begun
  <2> QED
    BY <2>1, <2>2, Zenon DEF Current, Covers, Lasting, Boundary, CanceledAgain
<1> QED
  BY <1>1, Invariance, Serving, PTL

\* The rollover that ends the contract closes every phase in force, those of
\* upgrades paid after the cancellation was requested included.
THEOREM EndCloses == Spec => EndClosesPhases
<1>1. IInv /\ [Next]_vars => [(contract # "ended" /\ contract' = "ended") => Active(phase') = {}]_vars
  <2> SUFFICES ASSUME IInv, Next, contract # "ended", contract' = "ended" PROVE Active(phase') = {}
    BY Zenon DEF vars
  <2>1. \E c \in DueChanges : applyScheduledCancel(c)
    BY Zenon DEF Next, Tick, ApplyDueBillingWork, applyScheduledDowngrade, RequestCancel, CreateContractChange,
           Read, CancelContract, scheduleDowngrade, resumeCurrentPlan, insertPendingUpgrade, Payment,
           CollectPayment, PayHosted, RecordAnswer, ApplyCollected, InvoicePaid, applyPaidUpgrade,
           LateActivation
  <2>2. phase' = Closed(phase, {p \in Active(phase) : p[2] < cycle.end})
    BY <2>1, Zenon DEF applyScheduledCancel
  <2>3. \A p \in DOMAIN phase : p[2] < cycle.end
    BY DEF IInv, Starts, Clock
  <2>4. \A p \in DOMAIN phase : phase'[p].state # "active"
    BY <2>2, <2>3, Zenon DEF Closed, Active
  <2> QED
    BY <2>2, <2>4, ClosedDomain, Zenon DEF Active
<1> QED
  BY <1>1, Invariance, PTL DEF Spec, EndClosesPhases
=============================================================================
