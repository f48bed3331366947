--------------------------- MODULE BillingCycles ---------------------------
(***************************************************************************)
(* The billing cycles of one org and product, and their finalization:      *)
(* internal/billing/cycles.go, finalizations.go and statement.go of the    *)
(* billing service, with the parts of ReserveWindow (windows.go) and of    *)
(* the contract activation (contracts.go, stripe.go) that read or write    *)
(* cycles.                                                                 *)
(*                                                                         *)
(* A cycle is closed for usage by the rollover at its end, or earlier by   *)
(* the activation of a paid contract, which splits it.  Either one opens   *)
(* the successor and creates the finalization of the closed cycle in the   *)
(* same transaction.  A worker claims the finalization, reads the windows  *)
(* of the cycle one after the other and issues the document.               *)
(*                                                                         *)
(*  - A cycle id is the hash of the org, the product and the start of the  *)
(*    cycle, so a cycle is named by its start here.  Its anchor and        *)
(*    sequence number follow from the chain it belongs to and collide with *)
(*    no other cycle's.                                                    *)
(*  - Time is counted in steps, Month of them in a month.  The clock only  *)
(*    moves forward: the fixture operations that set it back or reset it   *)
(*    to the wall clock (clock.go) are left out, and with them the voided  *)
(*    cycles that only they make.                                          *)
(*  - The rollover does not take the advisory lock of the org and product; *)
(*    ReserveWindow and the activation do.                                 *)
(*  - A window is reserved (reserved, active or settling in the code),     *)
(*    settled against grants only, settled with a receivable, or voided.   *)
(*    Every settled window has a charge.                                   *)
(*  - The code gives a finalization 25 attempts; MaxAttempts stands for it.*)
(*    MaxFaults bounds the workers that die, or cannot write down that     *)
(*    they failed, while they hold a finalization.                         *)
(***************************************************************************)
EXTENDS Naturals

CONSTANTS MaxTime, Month, Windows, Handlers, Workers, MaxAttempts, MaxFaults, None

ASSUME CyclesAssumption ==
  /\ MaxTime \in Nat /\ Month \in Nat \ {0} /\ MaxAttempts \in Nat \ {0} /\ MaxFaults \in Nat
  /\ None \notin Nat \cup Windows

VARIABLES
  now,      \* the business time of the org and product
  cycle,    \* billing_cycles by starts_at: status, ends_at, cadence_kind, split at activation
  fin,      \* billing_finalizations of the cycles: state and attempts
  doc,      \* billing_documents of the cycles: their number and the settled windows
  number,   \* the last document number allocated
  win,      \* billing_windows: state, cycle_id, window_start
  res,      \* ReserveWindow calls: step, the time and the cycle they have read
  lock,     \* the window whose reservation holds the advisory lock, or None
  phase,    \* effective_start of the paid contract phase, or None
  act,      \* activation handlers: the business time they have read, or None
  work,     \* finalization workers: the cycle, the windows to read and those read
  early,    \* windows settled while their cycle was open
  faults

vars == <<now, cycle, fin, doc, number, win, res, lock, phase, act, work, early, faults>>

Times == 0 .. MaxTime
NoDocument == [number |-> 0, lines |-> {}]
NoCycle == [status |-> "none", end |-> 0, cadence |-> "none", split |-> FALSE]
Idle == [pc |-> "idle", at |-> None, cycle |-> None]
Free == [cycle |-> None, listed |-> FALSE, todo |-> {}, read |-> {}, due |-> FALSE, open |-> FALSE]

Init ==
  /\ now = 0
  /\ cycle = [c \in Times |-> NoCycle]
  /\ fin = [c \in Times |-> [state |-> "none", attempts |-> 0]]
  /\ doc = [c \in Times |-> NoDocument]
  /\ number = 0
  /\ win = [w \in Windows |-> [state |-> "none", cycle |-> None, start |-> None]]
  /\ res = [w \in Windows |-> Idle]
  /\ lock = None
  /\ phase = None
  /\ act = [h \in Handlers |-> None]
  /\ work = [k \in Workers |-> Free]
  /\ early = {}
  /\ faults = 0

-----------------------------------------------------------------------------
(* The cycle table.                                                        *)

monthStartUTC(t) == t - (t % Month)
nextMonth(t) == monthStartUTC(t) + Month

cycleEndAfter(cadence, start) ==
  IF cadence = "anniversary_monthly" THEN start + Month ELSE nextMonth(start)

IsOpen(c) == cycle[c].status = "open"
AnyOpen == \E c \in Times : IsOpen(c)
Containing(t) == {c \in Times : IsOpen(c) /\ c <= t /\ t < cycle[c].end}

\* The indexes of the table: one open cycle, and no two cycles overlap.
Admitted(table) ==
  /\ \A c, d \in Times : table[c].status = "open" /\ table[d].status = "open" => c = d
  /\ \A c, d \in Times :
       (c < d /\ table[c].status # "none" /\ table[d].status # "none") => table[c].end <= d

\* An insert that finds the id in use leaves the table as it is.
Opened(table, start, cadence) ==
  IF table[start].status # "none" THEN table
  ELSE [table EXCEPT ![start] = [status |-> "open", end |-> cycleEndAfter(cadence, start),
                                 cadence |-> cadence, split |-> FALSE]]

ensureCycleFinalization(c) ==
  IF fin[c].state = "none" THEN [fin EXCEPT ![c].state = "pending"] ELSE fin

WithMonth(t) == Opened(cycle, monthStartUTC(t), "calendar_monthly")

\* Mutant: a caller is given the open cycle whether or not it covers its time.
EnsureAnyOpen(t) ==
  IF AnyOpen THEN CHOOSE c \in Times : IsOpen(c)
  ELSE monthStartUTC(t)

\* What ensureOpenBillingCycleTx finds at time t: an open cycle, a month to
\* open, or an error, None.
ensureOpenBillingCycle(t) ==
  IF Containing(t) # {} THEN CHOOSE c \in Containing(t) : TRUE
  ELSE IF AnyOpen \/ cycle[monthStartUTC(t)].status # "none" \/ ~Admitted(WithMonth(t)) THEN None
  ELSE monthStartUTC(t)

WithOpenCycle(t) == IF Containing(t) # {} THEN cycle ELSE WithMonth(t)

-----------------------------------------------------------------------------
(* Due work.                                                               *)

\* Mutant: a cycle is due only after its end.
DueLate == {c \in Times : IsOpen(c) /\ cycle[c].end < now}

Due == {c \in Times : IsOpen(c) /\ cycle[c].end <= now}

\* Mutant: the successor begins when the rollover runs.
RollLate(c) ==
  LET closed == [cycle EXCEPT ![c].status = "closed_for_usage"]
      table  == Opened(closed, now, cycle[c].cadence)
  IN /\ Admitted(table)
     /\ cycle' = table
     /\ fin' = ensureCycleFinalization(c)

\* One iteration of ApplyDueBillingWork, a transaction of its own.
Roll(c) ==
  LET closed == [cycle EXCEPT ![c].status = "closed_for_usage"]
      table  == Opened(closed, cycle[c].end, cycle[c].cadence)
  IN /\ Admitted(table)
     /\ cycle' = table
     /\ fin' = ensureCycleFinalization(c)

\* The scanner, or a reader of the contract or of the statement.
ApplyDueBillingWork ==
  /\ \E c \in Due : Roll(c)
  /\ UNCHANGED <<now, doc, number, win, res, lock, phase, act, work, early, faults>>

\* The end of such a call, in ensureCurrentEntitlements or EnsureOpenBillingCycle.
EnsureOpenBillingCycle ==
  /\ Due = {} /\ ~AnyOpen
  /\ ensureOpenBillingCycle(now) # None
  /\ cycle' = WithOpenCycle(now)
  /\ UNCHANGED <<now, fin, doc, number, win, res, lock, phase, act, work, early, faults>>

Tick ==
  /\ now < MaxTime
  /\ now' = now + 1
  /\ UNCHANGED <<cycle, fin, doc, number, win, res, lock, phase, act, work, early, faults>>

-----------------------------------------------------------------------------
(* ReserveWindow.  EnsureCurrentEntitlements comes first, then a           *)
(* transaction that reads the business time, takes the lock, reads the     *)
(* cycle and inserts the window.                                           *)

ReserveDue(w) ==
  /\ res[w].pc = "idle" /\ win[w].state = "none"
  /\ IF Due # {}
     THEN /\ \E c \in Due : Roll(c)
          /\ UNCHANGED res
     ELSE /\ ensureOpenBillingCycle(now) # None
          /\ cycle' = WithOpenCycle(now)
          /\ res' = [res EXCEPT ![w].pc = "ensured"]
          /\ UNCHANGED fin
  /\ UNCHANGED <<now, doc, number, win, lock, phase, act, work, early, faults>>

ReserveBegin(w) ==
  /\ res[w].pc = "ensured"
  /\ res' = [res EXCEPT ![w].pc = "begun", ![w].at = now]
  /\ UNCHANGED <<now, cycle, fin, doc, number, win, lock, phase, act, work, early, faults>>

\* Some cycle is open since EnsureCurrentEntitlements, so ensureOpen inserts
\* none here: it finds the cycle of the time read, or fails.
ReserveLocked(w) ==
  /\ res[w].pc = "begun" /\ lock = None
  /\ LET c == ensureOpenBillingCycle(res[w].at)
     IN IF c = None
        THEN /\ res' = [res EXCEPT ![w] = Idle]
             /\ UNCHANGED lock
        ELSE /\ res' = [res EXCEPT ![w].pc = "locked", ![w].cycle = c]
             /\ lock' = w
  /\ UNCHANGED <<now, cycle, fin, doc, number, win, phase, act, work, early, faults>>

\* The insert commits, or the transaction fails: the org is suspended, the
\* balance is not sufficient.
ReserveEnd(w) ==
  /\ res[w].pc = "locked"
  /\ \/ win' = [win EXCEPT ![w] = [state |-> "reserved", cycle |-> res[w].cycle, start |-> res[w].at]]
     \/ UNCHANGED win
  /\ res' = [res EXCEPT ![w] = Idle]
  /\ lock' = None
  /\ UNCHANGED <<now, cycle, fin, doc, number, phase, act, work, early, faults>>

\* SettleWindow and VoidWindow do not look at the cycle.
EndWindow(w) ==
  /\ win[w].state = "reserved"
  /\ \E s \in {"settled", "receivable", "voided"} :
       /\ win' = [win EXCEPT ![w].state = s]
       /\ early' = IF s # "voided" /\ IsOpen(win[w].cycle) THEN early \cup {w} ELSE early
  /\ UNCHANGED <<now, cycle, fin, doc, number, res, lock, phase, act, work, faults>>

-----------------------------------------------------------------------------
(* Activation of a paid contract.  Stripe announces one checkout with two  *)
(* events, setup_intent.succeeded and checkout.session.completed; each     *)
(* handler reads the business time before the transaction.  A handler that *)
(* begins after the activation changes no cycle.                           *)

ActivateBegin(h) ==
  /\ phase = None /\ act[h] = None
  /\ act' = [act EXCEPT ![h] = now]
  /\ UNCHANGED <<now, cycle, fin, doc, number, win, res, lock, phase, work, early, faults>>

\* splitCycleForContractActivationTx at time t: the cycle table and the
\* finalizations it leaves.
splitCycle(t) ==
  LET c == CHOOSE d \in Containing(t) : TRUE
      closed == [cycle EXCEPT ![c] = [@ EXCEPT !.status = "closed_for_usage", !.end = t, !.split = TRUE]]
  IN IF Containing(t) = {} THEN [table |-> Opened(cycle, t, "anniversary_monthly"), fin |-> fin]
     ELSE IF c = t THEN [table |-> cycle, fin |-> fin]
     ELSE [table |-> Opened(closed, t, "anniversary_monthly"), fin |-> ensureCycleFinalization(c)]

\* Mutant: the phase is not looked up before the cycle is split.
ActivateAgain(h) ==
  /\ act[h] # None /\ lock = None
  /\ LET split == splitCycle(act[h])
     IN IF Admitted(split.table) /\ (Containing(act[h]) # {} \/ cycle[act[h]].status = "none")
        THEN /\ cycle' = split.table /\ fin' = split.fin
             /\ phase' = IF phase = None THEN act[h] ELSE phase
        ELSE UNCHANGED <<cycle, fin, phase>>
  /\ act' = [act EXCEPT ![h] = None]
  /\ UNCHANGED <<now, doc, number, win, res, lock, work, early, faults>>

\* The transaction fails when the table refuses the new cycle, or finds its
\* id in use by a cycle that is not open; the event is then retried.
ActivateCommit(h) ==
  /\ act[h] # None /\ lock = None
  /\ LET split == splitCycle(act[h])
     IN IF phase = None /\ Admitted(split.table)
             /\ (Containing(act[h]) # {} \/ cycle[act[h]].status = "none")
        THEN /\ cycle' = split.table /\ fin' = split.fin
             /\ phase' = act[h]
        ELSE UNCHANGED <<cycle, fin, phase>>
  /\ act' = [act EXCEPT ![h] = None]
  /\ UNCHANGED <<now, doc, number, win, res, lock, work, early, faults>>

-----------------------------------------------------------------------------
(* Finalization.                                                           *)

\* Mutant: a claim that is held can be claimed.
ClaimedAgain(c) == fin[c].state \in {"pending", "failed", "collecting_facts"}
\* Mutant: a finalization that failed is not tried again.
OnlyPending(c) == fin[c].state = "pending"

\* The states a worker claims from, and the scanner lists.
Claimable(c) == fin[c].state \in {"pending", "failed"}

ClaimBillingFinalization(k, c) ==
  /\ work[k] = Free
  /\ Claimable(c)
  /\ fin' = [fin EXCEPT ![c].state = "collecting_facts", ![c].attempts = fin[c].attempts + 1]
  /\ work' = [work EXCEPT ![k].cycle = c]
  /\ UNCHANGED <<now, cycle, doc, number, win, res, lock, phase, act, early, faults>>

Live == {"reserved", "settled", "receivable"}

ListStatementWindows(k) ==
  /\ work[k].cycle # None /\ ~work[k].listed
  /\ work' = [work EXCEPT ![k].listed = TRUE,
                          ![k].todo = {w \in Windows : win[w].cycle = work[k].cycle /\ win[w].state \in Live}]
  /\ UNCHANGED <<now, cycle, fin, doc, number, win, res, lock, phase, act, early, faults>>

\* Each window is loaded by a query of its own, in the state it has then.
LoadStatementWindow(k, w) ==
  /\ w \in work[k].todo
  /\ work' = [work EXCEPT ![k].todo = @ \ {w},
                          ![k].read = IF win[w].state \in {"settled", "receivable"} THEN @ \cup {w} ELSE @,
                          ![k].due  = @ \/ win[w].state = "receivable",
                          ![k].open = @ \/ win[w].state = "reserved"]
  /\ UNCHANGED <<now, cycle, fin, doc, number, win, res, lock, phase, act, early, faults>>

\* cycleHasPaidContractOverlap: the phase has no end here.
PaidOverlap(c) == phase # None /\ phase < cycle[c].end

\* Mutant: only what is due is shown to the customer.
VisibleIfDue(s) == s.due \/ PaidOverlap(s.cycle)

CustomerVisible(s) == s.read # {} \/ s.open \/ s.due \/ PaidOverlap(s.cycle)

\* The document number is allocated before the insert that does nothing when
\* the document is there; the finalization is updated in any state.
IssueFinalizationDocument(k) ==
  /\ work[k].listed /\ work[k].todo = {}
  /\ LET s == work[k]
         c == s.cycle
     IN /\ IF CustomerVisible(s)
           THEN /\ number' = number + 1
                /\ doc' = IF doc[c] # NoDocument THEN doc
                          ELSE [doc EXCEPT ![c] = [number |-> number + 1, lines |-> s.read]]
           ELSE UNCHANGED <<number, doc>>
        /\ fin' = [fin EXCEPT ![c].state = IF s.due THEN "collection_pending" ELSE "closed"]
        /\ cycle' = [cycle EXCEPT ![c].status =
                       IF @ = "closed_for_usage" THEN "finalized" ELSE @]
  /\ work' = [work EXCEPT ![k] = Free]
  /\ UNCHANGED <<now, win, res, lock, phase, act, early, faults>>

FailBillingFinalization(k) ==
  /\ work[k].cycle # None
  /\ LET c == work[k].cycle
     IN fin' = IF fin[c].state # "collecting_facts" THEN fin
               ELSE [fin EXCEPT ![c].state =
                       IF fin[c].attempts >= MaxAttempts THEN "blocked" ELSE "failed"]
  /\ work' = [work EXCEPT ![k] = Free]
  /\ UNCHANGED <<now, cycle, doc, number, win, res, lock, phase, act, early, faults>>

\* The process dies, or the error of failBillingFinalization is ignored.
WorkerDies(k) ==
  /\ work[k].cycle # None /\ faults < MaxFaults
  /\ faults' = faults + 1
  /\ work' = [work EXCEPT ![k] = Free]
  /\ UNCHANGED <<now, cycle, fin, doc, number, win, res, lock, phase, act, early>>

Worker(k) ==
  \/ \E c \in Times : ClaimBillingFinalization(k, c)
  \/ ListStatementWindows(k)
  \/ \E w \in Windows : LoadStatementWindow(k, w)
  \/ IssueFinalizationDocument(k)

Reserve(w) == ReserveDue(w) \/ ReserveBegin(w) \/ ReserveLocked(w) \/ ReserveEnd(w)

Next ==
  \/ Tick \/ ApplyDueBillingWork \/ EnsureOpenBillingCycle
  \/ \E w \in Windows : Reserve(w) \/ EndWindow(w)
  \/ \E h \in Handlers : ActivateBegin(h) \/ ActivateCommit(h)
  \/ \E k \in Workers : Worker(k) \/ FailBillingFinalization(k) \/ WorkerDies(k)

\* The scanners of EnqueueMaintenance run for ever, and a worker that does
\* not die ends its work.
Fairness ==
  /\ WF_vars(ApplyDueBillingWork)
  /\ \A k \in Workers : WF_vars(Worker(k))

Spec == Init /\ [][Next]_vars
FairSpec == Spec /\ Fairness

-----------------------------------------------------------------------------
(* Properties.                                                             *)

\* The cycles are a chain without gaps: where one closed cycle ends, by the
\* rollover however late it runs or by an activation, the next one starts.
NoGap ==
  \A c \in Times : cycle[c].status \in {"closed_for_usage", "finalized"} =>
    cycle[cycle[c].end].status # "none"

\* Every cycle closed for usage has its finalization, and a cycle is
\* finalized exactly when its finalization has issued.
ClosedHasFinalization ==
  \A c \in Times :
    /\ cycle[c].status = "closed_for_usage" =>
         fin[c].state \in {"pending", "collecting_facts", "failed", "blocked"}
    /\ cycle[c].status = "finalized" <=> fin[c].state \in {"closed", "collection_pending"}

\* A window is attached to a cycle that contains its start.  The cycle may
\* have been cut short afterwards by an activation whose time was read before
\* the window was reserved.
WindowInCycle ==
  \A w \in Windows : win[w].state # "none" =>
    LET c == win[w].cycle
    IN c <= win[w].start /\ (win[w].start < cycle[c].end \/ cycle[c].split)

\* Paid cycles keep the anniversary of the contract: however many events
\* announce the checkout, one split is made, at the start of the phase.
AnniversaryOfPhase ==
  \A c \in Times : cycle[c].cadence = "anniversary_monthly" =>
    phase # None /\ c >= phase /\ (c - phase) % Month = 0

\* Usage that was settled while its cycle was open is on the document of the
\* cycle, once the finalization has issued.
EarlyUsageIsBilled ==
  \A w \in early :
    cycle[win[w].cycle].status = "finalized" =>
      w \in doc[win[w].cycle].lines

\* Each document number that was allocated is on one document, and no other
\* number is: the transaction that allocates a number for a document which is
\* there already would leave a gap.
GaplessNumbers ==
  LET Issued == {c \in Times : doc[c] # NoDocument}
  IN /\ {doc[c].number : c \in Issued} = 1 .. number
     /\ \A c, d \in Issued : doc[c].number = doc[d].number => c = d

\* No cycle stays open past its end: the rollover catches up with the clock,
\* one cycle at a time, whatever else has closed or opened cycles meanwhile.
Overdue == \E c \in Times : cycle[c].status = "open" /\ cycle[c].end <= now
CatchesUp == Overdue ~> ~Overdue

\* The finalization of every closed cycle ends, issued or blocked after its
\* last attempt, unless a worker died with it: a claim is never taken back.
Abandoned(c) == fin[c].state = "collecting_facts" /\ \A k \in Workers : work[k].cycle # c
Waiting ==
  {c \in Times : cycle[c].status = "closed_for_usage" /\ fin[c].state # "blocked" /\ ~Abandoned(c)}
FinalizationEnds == (Waiting # {}) ~> (Waiting = {})
=============================================================================
