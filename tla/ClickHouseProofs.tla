-------------------------- MODULE ClickHouseProofs --------------------------
(***************************************************************************)
(* The two writers of billing-service's ClickHouse tables.                 *)
(*                                                                         *)
(* EventDelivery, for any number of events, scanners, attempts and faults: *)
(* a scanner holds what it claimed until its row says that it is done.     *)
(*                                                                         *)
(* MeteringProjection, for any number of windows, workers, connections,    *)
(* attempts and faults: the advisory lock makes the check of the marker,   *)
(* the send and the commit of one window a critical section, so that a     *)
(* worker that is about to send has seen what every other worker has       *)
(* committed; what it sends is then the first row that no failure accounts *)
(* for.                                                                    *)
(***************************************************************************)
EXTENDS EventDelivery, MeteringProjection, TLAPS

ScannerStates == [pc : {"idle", "next", "send", "mark_succeeded", "mark_failed"},
            batch : SUBSET Events, event : Events \cup {None}]

\* A scanner has an event exactly while it delivers it, apart from the rest of
\* its batch, and an idle one has neither.
Shape ==
  \A s \in Scanners :
    /\ worker[s].pc = "idle" => worker[s].batch = {}
    /\ worker[s].pc \in {"idle", "next"} <=> worker[s].event = None
    /\ worker[s].event \notin worker[s].batch

\* No two scanners hold the same event, and the row of what they hold says so.
Claims ==
  /\ \A s, t \in Scanners : \A e \in Events : e \in Held(s) /\ e \in Held(t) => s = t
  /\ \A s \in Scanners : \A e \in Held(s) : queue[e] = "in_progress"

\* The events of a scanner whose current attempt has sent nothing yet.
Unsent(s) == worker[s].batch \cup (IF worker[s].pc = "send" THEN {worker[s].event} ELSE {})

\* Each attempt sends at most one copy, and a row is retried below the limit.
Counts ==
  /\ \A e \in Events : copies[e] <= attempts[e] /\ attempts[e] <= MaxAttempts
  /\ \A e \in Events : queue[e] = "dead_letter" => attempts[e] = MaxAttempts
  /\ \A e \in Events : queue[e] \in {"pending", "retryable_failed"} => attempts[e] < MaxAttempts
  /\ \A e \in Events : e \notin appended => queue[e] = "absent" /\ attempts[e] = 0
  /\ \A s \in Scanners : \A e \in Unsent(s) : copies[e] < attempts[e]

\* What a scanner is about to delete was sent.
Sent ==
  /\ DeliveredBeforeDelete
  /\ \A s \in Scanners : worker[s].pc = "mark_succeeded" => copies[worker[s].event] > 0

IInv == TypeOK /\ Shape /\ Claims /\ Counts /\ Sent

-----------------------------------------------------------------------------
\* The types are kept.
LEMMA KeepsTypes ==
  ASSUME TypeOK, [Next]_vars
  PROVE  TypeOK'
<1> USE DeliveryAssumption DEF TypeOK, RowStates
<1>0. Idle \in ScannerStates
  BY Zenon DEF Idle, ScannerStates
<1>1. ASSUME NEW s \in Scanners, NEW w \in ScannerStates, worker' = [worker EXCEPT ![s] = w]
      PROVE  worker' \in [Scanners -> ScannerStates]
  BY <1>1, Zenon DEF ScannerStates
<1>2. ASSUME NEW e \in Events, AppendEvent(e) \/ RetryAfter(e) PROVE TypeOK'
  BY <1>2, ZenonT(30) DEF AppendEvent, RetryAfter
<1>3. ASSUME NEW s \in Scanners, ClaimBillingEventDeliveries(s) PROVE TypeOK'
  <2>1. PICK batch \in SUBSET {e \in Events : Claimable(e)} :
          /\ queue' = [e \in Events |-> IF e \in batch THEN "in_progress" ELSE queue[e]]
          /\ attempts' = [e \in Events |-> IF e \in batch THEN attempts[e] + 1 ELSE attempts[e]]
          /\ worker' = [worker EXCEPT ![s] = [pc |-> "next", batch |-> batch, event |-> None]]
    BY <1>3, Zenon DEF ClaimBillingEventDeliveries
  <2>2. [pc |-> "next", batch |-> batch, event |-> None] \in ScannerStates
    BY Zenon DEF ScannerStates
  <2>3. worker' \in [Scanners -> ScannerStates]
    BY <2>1, <2>2, <1>1, Zenon
  <2> QED
    BY <1>3, <2>1, <2>3 DEF ClaimBillingEventDeliveries, ScannerStates
<1>4. ASSUME NEW s \in Scanners, NextDelivery(s) PROVE TypeOK'
  <2>1. \A e \in Events :
          [pc |-> "send", batch |-> worker[s].batch \ {e}, event |-> e] \in ScannerStates
    BY Zenon DEF ScannerStates
  <2>2. worker' \in [Scanners -> ScannerStates]
    BY <1>0, <1>1, <1>4, <2>1, Zenon DEF NextDelivery
  <2> QED
    BY <1>4, <2>2, Zenon DEF NextDelivery, ScannerStates
<1>5. ASSUME NEW s \in Scanners,
             \/ MarkBillingEventDeliverySucceeded(s) \/ MarkBillingEventDeliveryFailed(s)
             \/ SendBatch(s) \/ SendFails(s) \/ MarkSucceededFails(s) \/ Crash(s)
      PROVE  TypeOK'
  <2>1. worker' \in [Scanners -> ScannerStates]
    <3>1. CASE worker' = [worker EXCEPT ![s] = Idle]
      BY <1>0, <1>1, <3>1, Zenon
    <3>2. ASSUME NEW pc \in {"next", "mark_succeeded", "mark_failed"},
                 \/ worker' = [worker EXCEPT ![s].pc = pc]
                 \/ worker' = [worker EXCEPT ![s].pc = pc, ![s].event = None]
          PROVE  worker' \in [Scanners -> ScannerStates]
      BY <3>2 DEF ScannerStates
    <3> QED
      BY <1>5, <3>1, <3>2, Zenon DEF MarkBillingEventDeliverySucceeded, MarkBillingEventDeliveryFailed,
                              SendBatch, SendFails, MarkSucceededFails, Crash
  <2>2. CASE MarkBillingEventDeliveryFailed(s)
    <3>1. due' \in [Events -> BOOLEAN]
      <4>1. ASSUME NEW d \in BOOLEAN PROVE [due EXCEPT ![worker[s].event] = d] \in [Events -> BOOLEAN]
        BY Zenon
      <4>2. \/ due' = [due EXCEPT ![worker[s].event] = due[worker[s].event]]
            \/ due' = [due EXCEPT ![worker[s].event] = FALSE]
        BY <2>2, Zenon DEF MarkBillingEventDeliveryFailed
      <4>3. [due EXCEPT ![worker[s].event] = due[worker[s].event]] = due
        BY Zenon
      <4> QED
        BY <4>1, <4>2, <4>3, Zenon
    <3> QED
      BY <2>1, <2>2, <3>1, Zenon DEF MarkBillingEventDeliveryFailed, ScannerStates
  <2>3. CASE MarkBillingEventDeliverySucceeded(s) \/ MarkSucceededFails(s) \/ Crash(s)
    BY <2>1, <2>3 DEF MarkBillingEventDeliverySucceeded, MarkSucceededFails, Crash, ScannerStates
  <2>4. CASE SendBatch(s) \/ SendFails(s)
    BY <2>1, <2>4, SMTT(30) DEF SendBatch, SendFails, ScannerStates
  <2> QED
    BY <1>5, <2>2, <2>3, <2>4, Zenon
<1>6. CASE UNCHANGED vars
  BY <1>6, Zenon DEF vars
<1> QED
  BY <1>2, <1>3, <1>4, <1>5, <1>6, Zenon DEF Next, Work, Quiet

\* The bookkeeping is kept, one case per step.
LEMMA KeepsBooks ==
  ASSUME IInv, TypeOK', [Next]_vars
  PROVE  (Shape /\ Claims /\ Counts /\ Sent)'
<1> USE DeliveryAssumption DEF IInv, TypeOK, RowStates, Shape, Claims, Counts, Sent, Held, Unsent,
        DeliveredBeforeDelete
<1>1. ASSUME NEW e \in Events, AppendEvent(e) PROVE (Shape /\ Claims /\ Counts /\ Sent)'
  BY <1>1 DEF AppendEvent
<1>2. ASSUME NEW e \in Events, RetryAfter(e) PROVE (Shape /\ Claims /\ Counts /\ Sent)'
  BY <1>2, ZenonT(30) DEF RetryAfter
<1>3. ASSUME NEW s \in Scanners, ClaimBillingEventDeliveries(s)
      PROVE  (Shape /\ Claims /\ Counts /\ Sent)'
  <2>1. PICK batch \in SUBSET {e \in Events : Claimable(e)} :
          /\ queue' = [e \in Events |-> IF e \in batch THEN "in_progress" ELSE queue[e]]
          /\ attempts' = [e \in Events |-> IF e \in batch THEN attempts[e] + 1 ELSE attempts[e]]
          /\ worker' = [worker EXCEPT ![s] = [pc |-> "next", batch |-> batch, event |-> None]]
    BY <1>3, Zenon DEF ClaimBillingEventDeliveries
  <2>2. UNCHANGED <<appended, due, copies, faults>> /\ worker[s].pc = "idle"
    BY <1>3, Zenon DEF ClaimBillingEventDeliveries
  <2>3. Shape'
    BY <2>1, <2>2
  <2>4. Claims'
    BY <2>1, <2>2 DEF Claimable
  <2>5. Counts'
    <3>1. \A e \in batch : attempts'[e] = attempts[e] + 1 /\ attempts[e] < MaxAttempts
      BY <2>1, Zenon DEF Claimable
    <3>2. \A e \in Events \ batch : attempts'[e] = attempts[e] /\ queue'[e] = queue[e]
      BY <2>1, Zenon
    <3>3. \A e \in batch : queue'[e] = "in_progress" /\ e \in appended
      BY <2>1, Zenon DEF Claimable
    <3>4. \A e \in Events : /\ copies'[e] <= attempts'[e] /\ attempts'[e] <= MaxAttempts
                            /\ queue'[e] = "dead_letter" => attempts'[e] = MaxAttempts
                            /\ queue'[e] \in {"pending", "retryable_failed"} => attempts'[e] < MaxAttempts
                            /\ e \notin appended' => queue'[e] = "absent" /\ attempts'[e] = 0
      BY <2>2, <3>1, <3>2, <3>3
    <3>5. \A t \in Scanners : \A e \in Unsent(t)' : copies'[e] < attempts'[e]
      BY <2>1, <2>2, <3>1, <3>2
    <3> QED
      BY <3>4, <3>5, Zenon
  <2>6. Sent'
    BY <2>1, <2>2 DEF Claimable
  <2> QED
    BY <2>3, <2>4, <2>5, <2>6, Zenon
<1>4. ASSUME NEW s \in Scanners, NextDelivery(s) PROVE (Shape /\ Claims /\ Counts /\ Sent)'
  <2>1. Shape'
    BY <1>4 DEF NextDelivery, Idle
  <2>2. Claims'
    <3>1. \A t \in Scanners : Held(t)' \subseteq Held(t)
      BY <1>4 DEF NextDelivery, Idle
    <3>2. queue' = queue
      BY <1>4, Zenon DEF NextDelivery
    <3> QED
      BY <3>1, <3>2, ZenonT(30)
  <2>3. Counts'
    BY <1>4 DEF NextDelivery, Idle
  <2>4. Sent'
    BY <1>4 DEF NextDelivery, Idle
  <2> QED
    BY <2>1, <2>2, <2>3, <2>4, Zenon
<1>5. ASSUME NEW s \in Scanners, SendBatch(s) PROVE (Shape /\ Claims /\ Counts /\ Sent)'
  <2>1. Shape'
    BY <1>5 DEF SendBatch
  <2>2. Claims'
    BY <1>5 DEF SendBatch
  <2>3. Counts'
    BY <1>5 DEF SendBatch
  <2>4. Sent'
    BY <1>5 DEF SendBatch
  <2> QED
    BY <2>1, <2>2, <2>3, <2>4, Zenon
<1>6. ASSUME NEW s \in Scanners, SendFails(s) PROVE (Shape /\ Claims /\ Counts /\ Sent)'
  <2>1. Shape'
    BY <1>6 DEF SendFails
  <2>2. Claims'
    BY <1>6 DEF SendFails
  <2>3. Counts'
    BY <1>6 DEF SendFails
  <2>4. Sent'
    BY <1>6, SMTT(60) DEF SendFails
  <2> QED
    BY <2>1, <2>2, <2>3, <2>4, Zenon
<1>7. ASSUME NEW s \in Scanners, MarkBillingEventDeliverySucceeded(s)
      PROVE  (Shape /\ Claims /\ Counts /\ Sent)'
  <2>1. Shape'
    BY <1>7 DEF MarkBillingEventDeliverySucceeded
  <2>2. Claims'
    BY <1>7 DEF MarkBillingEventDeliverySucceeded
  <2>3. Counts'
    BY <1>7 DEF MarkBillingEventDeliverySucceeded
  <2>4. Sent'
    BY <1>7 DEF MarkBillingEventDeliverySucceeded
  <2> QED
    BY <2>1, <2>2, <2>3, <2>4, Zenon
<1>8. ASSUME NEW s \in Scanners, MarkSucceededFails(s) PROVE (Shape /\ Claims /\ Counts /\ Sent)'
  BY <1>8 DEF MarkSucceededFails
<1>9. ASSUME NEW s \in Scanners, MarkBillingEventDeliveryFailed(s)
      PROVE  (Shape /\ Claims /\ Counts /\ Sent)'
  <2>1. Shape'
    BY <1>9, SMTT(30) DEF MarkBillingEventDeliveryFailed, Idle
  <2>2. Claims'
    BY <1>9, SMTT(30) DEF MarkBillingEventDeliveryFailed, Idle
  <2>3. Counts'
    <3>1. worker[s].event \in Events /\ queue[worker[s].event] = "in_progress"
      BY <1>9 DEF MarkBillingEventDeliveryFailed
    <3>2. /\ queue'[worker[s].event] = IF attempts[worker[s].event] >= MaxAttempts
                                       THEN "dead_letter" ELSE "retryable_failed"
          /\ \A e \in Events : e # worker[s].event => queue'[e] = queue[e]
      BY <1>9, <3>1 DEF MarkBillingEventDeliveryFailed
    <3>3. UNCHANGED <<appended, attempts, copies>>
      BY <1>9, Zenon DEF MarkBillingEventDeliveryFailed
    <3>4. \A t \in Scanners : Unsent(t)' \subseteq Unsent(t)
      BY <1>9, SMTT(30) DEF MarkBillingEventDeliveryFailed, Idle
    <3>5. \A e \in Events : /\ copies'[e] <= attempts'[e] /\ attempts'[e] <= MaxAttempts
                            /\ queue'[e] = "dead_letter" => attempts'[e] = MaxAttempts
                            /\ queue'[e] \in {"pending", "retryable_failed"} => attempts'[e] < MaxAttempts
                            /\ e \notin appended' => queue'[e] = "absent" /\ attempts'[e] = 0
      <4> SUFFICES ASSUME NEW e \in Events
                   PROVE  /\ copies[e] <= attempts[e] /\ attempts[e] <= MaxAttempts
                          /\ queue'[e] = "dead_letter" => attempts[e] = MaxAttempts
                          /\ queue'[e] \in {"pending", "retryable_failed"} => attempts[e] < MaxAttempts
                          /\ e \notin appended => queue'[e] = "absent" /\ attempts[e] = 0
        BY <3>3, Zenon
      <4>1. CASE e # worker[s].event
        BY <3>2, <4>1, Zenon
      <4>2. CASE e = worker[s].event
        <5>1. e \in appended /\ copies[e] <= attempts[e] /\ attempts[e] <= MaxAttempts
          BY <3>1, <4>2, Zenon
        <5>2. attempts[e] \in Nat /\ MaxAttempts \in Nat
          BY ZenonT(30)
        <5>3. queue'[e] = IF attempts[e] >= MaxAttempts THEN "dead_letter" ELSE "retryable_failed"
          BY <3>2, <4>2, Zenon
        <5> QED
          BY ONLY <5>1, <5>2, <5>3
      <4> QED
        BY <4>1, <4>2, Zenon
    <3>6. \A t \in Scanners : \A e \in Unsent(t)' : copies'[e] < attempts'[e]
      BY <3>3, <3>4, ZenonT(30)
    <3> QED
      BY <3>5, <3>6, Zenon
  <2>4. Sent'
    BY <1>9, SMTT(30) DEF MarkBillingEventDeliveryFailed, Idle
  <2> QED
    BY <2>1, <2>2, <2>3, <2>4, Zenon
<1>10. ASSUME NEW s \in Scanners, Crash(s) PROVE (Shape /\ Claims /\ Counts /\ Sent)'
  BY <1>10 DEF Crash, Idle
<1>11. CASE UNCHANGED vars
  BY <1>11, Zenon DEF vars
<1> QED
  BY <1>1, <1>2, <1>3, <1>4, <1>5, <1>6, <1>7, <1>8, <1>9, <1>10, <1>11, Zenon DEF Next, Work, Quiet

\* The invariant is inductive.
THEOREM Invariance == Spec => []IInv
<1>1. Init => IInv
  BY DeliveryAssumption DEF Init, IInv, TypeOK, RowStates, Idle, Shape, Claims, Counts, Sent, Held,
     Unsent, DeliveredBeforeDelete
<1>2. IInv /\ [Next]_vars => IInv'
  BY KeepsTypes, KeepsBooks, Zenon DEF IInv
<1> QED
  BY <1>1, <1>2, PTL DEF Spec

\* An event leaves the queue only once ClickHouse has it, whatever crashes.
THEOREM Delivered == Spec => []DeliveredBeforeDelete
BY Invariance, PTL DEF IInv, Sent

\* FOR UPDATE SKIP LOCKED and the state in_progress keep scanners apart.
THEOREM Disjoint == Spec => []ClaimsDisjoint
<1>1. IInv => ClaimsDisjoint
  BY ZenonT(60) DEF IInv, TypeOK, Claims, ClaimsDisjoint, Held
<1> QED
  BY Invariance, <1>1, PTL

\* Copies, attempts and dead letters add up for every limit.
THEOREM Accounted == Spec => []AttemptsAccounted
<1>1. IInv => AttemptsAccounted
  BY Zenon DEF IInv, Counts, AttemptsAccounted
<1> QED
  BY Invariance, <1>1, PTL

-----------------------------------------------------------------------------
(* The rows of the metering table.                                         *)

\* The steps from the lock to the end of the transaction.
Section == {"check", "load", "send", "commit"}

ProjectionShape ==
  /\ rows \in [Windows -> Nat] /\ failures \in Nat
  /\ projection = [p \in Workers |-> projection[p]]
  /\ \A p \in Workers : projection[p] = [pc |-> projection[p].pc, w |-> projection[p].w,
                                         direct |-> projection[p].direct, todo |-> projection[p].todo]

\* One transaction at a time holds the lock of a window.
Exclusive ==
  \A p, q \in Workers :
    projection[p].pc \in Section /\ projection[q].pc \in Section /\ projection[p].w = projection[q].w => p = q

\* Past the check the marker is not set; a row was sent before the commit.
Checked ==
  \A p \in Workers :
    /\ projection[p].pc \in {"load", "send", "commit"} => projection[p].w \notin projected
    /\ projection[p].pc = "commit" /\ projection[p].w \in Windows => rows[projection[p].w] > 0

Committing(w) == \E p \in Workers : projection[p].pc = "commit" /\ projection[p].w = w

\* Until a window is projected, or about to be, each of its rows is the trace of
\* a fault.
Traced ==
  \A w \in Windows :
    /\ w \in projected => rows[w] > 0
    /\ rows[w] <= 1 + failures
    /\ w \notin projected /\ ~Committing(w) => rows[w] <= failures

ProjectionInv == ProjectionShape /\ Exclusive /\ Checked /\ Traced

-----------------------------------------------------------------------------
\* A step of the program counter keeps the rest of the record.
LEMMA Going ==
  ASSUME ProjectionShape, NEW p \in Workers, NEW l, Goto(p, l)
  PROVE  /\ projection' = [q \in Workers |-> projection'[q]]
         /\ projection'[p] = [pc |-> l, w |-> projection[p].w, direct |-> projection[p].direct,
                              todo |-> projection[p].todo]
         /\ \A q \in Workers : q # p => projection'[q] = projection[q]
<1>1. projection[p] = [pc |-> projection[p].pc, w |-> projection[p].w,
                       direct |-> projection[p].direct, todo |-> projection[p].todo]
  BY Zenon DEF ProjectionShape
<1>2. projection' = [projection EXCEPT ![p] = [projection[p] EXCEPT !.pc = l]]
  BY Zenon DEF Goto
<1>3. [projection[p] EXCEPT !.pc = l] = [pc |-> l, w |-> projection[p].w, direct |-> projection[p].direct,
                                         todo |-> projection[p].todo]
  BY ONLY <1>1
<1> QED
  BY <1>2, <1>3, Zenon DEF ProjectionShape

\* A worker that has left the section with its record in order leaves the others as
\* they were.
Leaves(p) ==
  /\ projection' = [q \in Workers |-> projection'[q]]
  /\ projection'[p].pc \notin Section
  /\ projection'[p] = [pc |-> projection'[p].pc, w |-> projection'[p].w,
                       direct |-> projection'[p].direct, todo |-> projection'[p].todo]
  /\ \A q \in Workers : q # p => projection'[q] = projection[q]

LEMMA Starting ==
  ASSUME ProjectionShape, NEW p \in Workers, NEW ws, NEW d,
         projection' = [projection EXCEPT ![p] = Start(ws, d)]
  PROVE  Leaves(p)
<1>1. /\ projection' = [q \in Workers |-> projection'[q]]
      /\ projection'[p] = Start(ws, d)
      /\ \A q \in Workers : q # p => projection'[q] = projection[q]
  BY Zenon DEF ProjectionShape
<1>2. /\ Start(ws, d).pc \notin Section
      /\ Start(ws, d) = [pc |-> Start(ws, d).pc, w |-> Start(ws, d).w,
                         direct |-> Start(ws, d).direct, todo |-> Start(ws, d).todo]
  BY Zenon DEF Start, NoProjection, Section
<1> QED
  BY <1>1, <1>2, Zenon DEF Leaves

LEMMA GivingUp ==
  ASSUME ProjectionShape, NEW p \in Workers, ReturnError(p)
  PROVE  Leaves(p)
<1>1. projection' = [projection EXCEPT ![p] = Start(<<>>, FALSE)]
  BY Zenon DEF ReturnError, Start
<1> QED
  BY <1>1, Starting, Zenon

\* A worker in the section after p has left it was there before.
LEMMA StillInside ==
  ASSUME NEW p \in Workers, Leaves(p)
  PROVE  \A q \in Workers : projection'[q].pc \in Section => q # p /\ projection'[q] = projection[q]
BY Zenon DEF Leaves

\* Leaving the section keeps the lock of each window exclusive.
LEMMA LeavingExclusive ==
  ASSUME Exclusive, NEW p \in Workers, Leaves(p)
  PROVE  Exclusive'
<1> SUFFICES ASSUME NEW q \in Workers, NEW r \in Workers,
                    projection'[q].pc \in Section, projection'[r].pc \in Section,
                    projection'[q].w = projection'[r].w
             PROVE  q = r
  BY Zenon DEF Exclusive
<1>1. projection'[q] = projection[q] /\ projection'[r] = projection[r]
  BY StillInside, Zenon
<1>2. projection[q].pc \in Section /\ projection[r].pc \in Section /\ projection[q].w = projection[r].w
  BY <1>1, Zenon
<1> QED
  BY <1>2, Zenon DEF Exclusive

\* Leaving the section keeps what holds past the check, when no marker is set and no
\* row goes away.
LEMMA LeavingChecked ==
  ASSUME Checked, NEW p \in Workers, Leaves(p), projected' = projected,
         \A w \in Windows : rows[w] > 0 => rows'[w] > 0
  PROVE  Checked'
<1> SUFFICES ASSUME NEW q \in Workers
             PROVE  /\ projection'[q].pc \in {"load", "send", "commit"} => projection'[q].w \notin projected
                    /\ projection'[q].pc = "commit" /\ projection'[q].w \in Windows => rows'[projection'[q].w] > 0
  BY Zenon DEF Checked
<1>1. CASE projection'[q].pc \in Section
  <2>1. projection'[q] = projection[q]
    BY <1>1, StillInside, Zenon
  <2> QED
    BY <2>1, Zenon DEF Checked
<1>2. CASE projection'[q].pc \notin Section
  BY <1>2, Zenon DEF Section
<1> QED
  BY <1>1, <1>2, Zenon

\* Outside the section nothing depends on the worker.
LEMMA LeftAlone ==
  ASSUME ProjectionInv, NEW p \in Workers, Leaves(p), projection[p].pc # "commit",
         UNCHANGED <<projected, rows, failures>>
  PROVE  ProjectionInv'
<1>1. ProjectionShape'
  BY Zenon DEF ProjectionInv, ProjectionShape, Leaves
<1>2. Exclusive' /\ Checked'
  <2>1. \A w \in Windows : rows[w] > 0 => rows'[w] > 0
    BY Zenon
  <2> QED
    BY <2>1, LeavingExclusive, LeavingChecked, Zenon DEF ProjectionInv
<1>3. \A w \in Windows : Committing(w) => Committing(w)'
  BY Zenon DEF Leaves, Committing
<1>4. Traced'
  BY <1>3, Zenon DEF ProjectionInv, Traced
<1> QED
  BY <1>1, <1>2, <1>4, Zenon DEF ProjectionInv

\* The steps before the lock and the load move the counter only.
LEMMA StepKeeps ==
  ASSUME ProjectionInv, NEW p \in Workers, NEW l, Goto(p, l), UNCHANGED <<projected, rows, failures>>,
         projection[p].pc # "commit", l # "commit",
         l \in Section => \A q \in Workers \ {p} : ~ (projection[q].w = projection[p].w
                                                      /\ projection[q].pc \in Section),
         l \in {"load", "send"} => projection[p].w \notin projected
  PROVE  ProjectionInv'
<1>1. /\ projection' = [q \in Workers |-> projection'[q]]
      /\ projection'[p] = [pc |-> l, w |-> projection[p].w, direct |-> projection[p].direct,
                           todo |-> projection[p].todo]
      /\ \A q \in Workers : q # p => projection'[q] = projection[q]
  BY Going, Zenon DEF ProjectionInv
<1>2. projection'[p].pc = l /\ projection'[p].w = projection[p].w
  BY ONLY <1>1
<1>3. projection'[p] = [pc |-> projection'[p].pc, w |-> projection'[p].w,
                        direct |-> projection'[p].direct, todo |-> projection'[p].todo]
  BY ONLY <1>1, Zenon
<1>4. ProjectionShape'
  BY <1>1, <1>3, Zenon DEF ProjectionInv, ProjectionShape
<1>5. Exclusive'
  <2> SUFFICES ASSUME NEW q \in Workers, NEW r \in Workers,
                      projection'[q].pc \in Section, projection'[r].pc \in Section,
                      projection'[q].w = projection'[r].w
               PROVE  q = r
    BY Zenon DEF Exclusive
  <2>1. ASSUME NEW t \in Workers, t # p, projection'[t].pc \in Section, l \in Section
        PROVE  projection'[t].w # projection'[p].w
    <3>1. projection'[t] = projection[t]
      BY <1>1, <2>1, Zenon
    <3> QED
      BY <1>2, <2>1, <3>1, Zenon
  <2>2. CASE q = p \/ r = p
    BY <1>2, <2>1, <2>2, Zenon
  <2>3. CASE q # p /\ r # p
    <3>1. projection'[q] = projection[q] /\ projection'[r] = projection[r]
      BY <1>1, <2>3, Zenon
    <3> QED
      BY <3>1, Zenon DEF ProjectionInv, Exclusive
  <2> QED
    BY <2>2, <2>3, Zenon
<1>6. Checked'
  BY <1>1, <1>2, ZenonT(30) DEF ProjectionInv, Checked
<1>7. \A w \in Windows : Committing(w) => Committing(w)'
  BY <1>1, Zenon DEF Committing
<1>8. Traced'
  BY <1>7, Zenon DEF ProjectionInv, Traced
<1> QED
  BY <1>4, <1>5, <1>6, <1>8, Zenon DEF ProjectionInv

\* The row of a send, and the step to the commit.
LEMMA SendKeeps ==
  ASSUME ProjectionInv, NEW p \in Workers, ProjectMeteringForWindow(p)
  PROVE  ProjectionInv'
<1>0. PICK w0 : w0 = projection[p].w
  BY Zenon
<1>1. /\ projection[p].pc = "send" /\ Goto(p, "commit") /\ projected' = projected /\ failures' = failures
      /\ rows' = [rows EXCEPT ![w0] = rows[w0] + 1]
  BY <1>0, Zenon DEF ProjectMeteringForWindow
<1>2. /\ projection' = [q \in Workers |-> projection'[q]]
      /\ projection'[p] = [pc |-> "commit", w |-> w0, direct |-> projection[p].direct,
                           todo |-> projection[p].todo]
      /\ \A q \in Workers : q # p => projection'[q] = projection[q]
  BY <1>0, <1>1, Going, Zenon DEF ProjectionInv
<1>3. projection'[p].pc = "commit" /\ projection'[p].w = w0
  BY ONLY <1>2
<1>4. projection'[p] = [pc |-> projection'[p].pc, w |-> projection'[p].w,
                        direct |-> projection'[p].direct, todo |-> projection'[p].todo]
  BY ONLY <1>2, Zenon
<1>5. rows \in [Windows -> Nat] /\ failures \in Nat
  BY Zenon DEF ProjectionInv, ProjectionShape
<1>6. /\ rows' \in [Windows -> Nat]
      /\ w0 \in Windows => rows'[w0] = rows[w0] + 1
      /\ \A w \in Windows : w # w0 => rows'[w] = rows[w]
      /\ \A w \in Windows : rows[w] > 0 => rows'[w] > 0
  <2>1. /\ w0 \in Windows => rows'[w0] = rows[w0] + 1
        /\ \A w \in Windows : w # w0 => rows'[w] = rows[w]
        /\ rows' = [w \in Windows |-> rows'[w]]
    BY <1>1, <1>5, Zenon
  <2>2. w0 \in Windows => rows[w0] + 1 \in Nat /\ rows[w0] + 1 > 0
    BY ONLY <1>5
  <2>3. \A w \in Windows : rows[w] \in Nat
    BY <1>5, Zenon
  <2>4. \A w \in Windows : rows'[w] \in Nat /\ (rows[w] > 0 => rows'[w] > 0)
    BY <2>1, <2>2, <2>3, Zenon
  <2> QED
    BY <2>1, <2>4, Zenon
<1>7. w0 \notin projected
  BY <1>0, <1>1, Zenon DEF ProjectionInv, Checked
<1>8. \A q \in Workers : projection[q].pc \in Section /\ projection[q].w = w0 => q = p
  BY <1>0, <1>1, Zenon DEF ProjectionInv, Exclusive, Section
<1>9. ~Committing(w0)
  BY <1>1, <1>8, Zenon DEF Committing, Section
<1>10. w0 \in Windows => rows[w0] <= failures
  BY <1>7, <1>9, Zenon DEF ProjectionInv, Traced
<1>11. w0 \in Windows => rows'[w0] > 0 /\ rows'[w0] <= 1 + failures
  BY <1>5, <1>6, <1>10
<1>12. ProjectionShape'
  BY <1>1, <1>2, <1>4, <1>5, <1>6, Zenon DEF ProjectionInv, ProjectionShape
<1>13. Exclusive'
  <2>1. \A q \in Workers : projection'[q].w = projection[q].w
                           /\ (projection'[q].pc \in Section <=> projection[q].pc \in Section)
    BY <1>0, <1>1, <1>2, <1>3, Zenon DEF Section
  <2> QED
    BY <2>1, Zenon DEF ProjectionInv, Exclusive
<1>14. ASSUME NEW q \in Workers
       PROVE  /\ projection'[q].pc \in {"load", "send", "commit"} => projection'[q].w \notin projected'
              /\ projection'[q].pc = "commit" /\ projection'[q].w \in Windows => rows'[projection'[q].w] > 0
  <2>1. CASE q = p
    BY <1>1, <1>3, <1>7, <1>11, <2>1, Zenon
  <2>2. CASE q # p
    BY <1>1, <1>2, <1>6, <2>2, Zenon DEF ProjectionInv, Checked
  <2> QED
    BY <2>1, <2>2, Zenon
<1>15. Committing(w0)' /\ \A w \in Windows : Committing(w) => Committing(w)'
  BY <1>1, <1>2, <1>3, Zenon DEF Committing
<1>16. Checked'
  BY <1>14, Zenon DEF Checked
<1>17. Traced'
  <2> SUFFICES ASSUME NEW w \in Windows
               PROVE  /\ w \in projected => rows'[w] > 0
                      /\ rows'[w] <= 1 + failures
                      /\ w \notin projected /\ ~Committing(w)' => rows'[w] <= failures
    BY <1>1, Zenon DEF Traced
  <2>1. CASE w = w0
    BY <1>7, <1>11, <1>15, <2>1, Zenon
  <2>2. CASE w # w0
    BY <1>6, <1>15, <2>2, Zenon DEF ProjectionInv, Traced
  <2> QED
    BY <2>1, <2>2, Zenon
<1> QED
  BY <1>12, <1>13, <1>16, <1>17, Zenon DEF ProjectionInv

\* The commit of the marker.
LEMMA MarkKeeps ==
  ASSUME ProjectionInv, NEW p \in Workers, projection[p].pc = "commit", Leaves(p), UNCHANGED rows,
         projected' = projected \cup {projection[p].w}, failures' \in Nat, failures <= failures'
  PROVE  ProjectionInv'
<1>1. ProjectionShape'
  BY Zenon DEF ProjectionInv, ProjectionShape, Leaves
<1>2. \A q \in Workers : projection[q].pc \in Section /\ projection[q].w = projection[p].w => q = p
  BY Zenon DEF ProjectionInv, Exclusive, Section
<1>3. Exclusive'
  BY LeavingExclusive, Zenon DEF ProjectionInv
<1>4. ASSUME NEW q \in Workers
      PROVE  /\ projection'[q].pc \in {"load", "send", "commit"} => projection'[q].w \notin projected'
             /\ projection'[q].pc = "commit" /\ projection'[q].w \in Windows => rows'[projection'[q].w] > 0
  <2>1. CASE q = p
    BY <2>1, Zenon DEF Leaves, Section
  <2>2. CASE q # p
    BY <1>2, <2>2, Zenon DEF ProjectionInv, Checked, Leaves, Section
  <2> QED
    BY <2>1, <2>2, Zenon
<1>5. Checked'
  BY <1>4, Zenon DEF Checked
<1>6. Traced'
  <2> SUFFICES ASSUME NEW w \in Windows
               PROVE  /\ w \in projected' => rows[w] > 0
                      /\ rows[w] <= 1 + failures'
                      /\ w \notin projected' /\ ~Committing(w)' => rows[w] <= failures'
    BY Zenon DEF Traced
  <2>1. rows[w] \in Nat /\ failures \in Nat /\ rows[w] <= 1 + failures
    BY Zenon DEF ProjectionInv, ProjectionShape, Traced
  <2>2. rows[w] <= 1 + failures'
    BY ONLY <2>1, failures' \in Nat, failures <= failures'
  <2>3. w \in projected' => rows[w] > 0
    BY Zenon DEF ProjectionInv, Checked, Traced
  <2>4. ASSUME w \notin projected', ~Committing(w)' PROVE rows[w] <= failures'
    <3>1. w \notin projected /\ w # projection[p].w
      BY <2>4, Zenon
    <3>2. ~Committing(w)
      BY <2>4, <3>1, Zenon DEF Committing, Leaves
    <3>3. rows[w] <= failures
      BY <3>1, <3>2, Zenon DEF ProjectionInv, Traced
    <3> QED
      BY ONLY <2>1, <3>3, failures' \in Nat, failures <= failures'
  <2> QED
    BY <2>2, <2>3, <2>4, Zenon
<1> QED
  BY <1>1, <1>3, <1>5, <1>6, Zenon DEF ProjectionInv

\* A transaction that is rolled back: the row it may have left is the trace of
\* the fault.
LEMMA FaultKeeps ==
  ASSUME ProjectionInv, NEW p \in Workers, Leaves(p), projected' = projected, failures' = failures + 1,
         \/ rows' = rows
         \/ projection[p].pc = "send" /\ rows' = [rows EXCEPT ![projection[p].w] = rows[projection[p].w] + 1]
  PROVE  ProjectionInv'
<1>1. rows \in [Windows -> Nat] /\ failures \in Nat
  BY Zenon DEF ProjectionInv, ProjectionShape
<1>2. /\ rows' \in [Windows -> Nat] /\ failures' \in Nat
      /\ \A w \in Windows : rows[w] > 0 => rows'[w] > 0
      /\ \A w \in Windows : rows'[w] = rows[w]
                            \/ (rows'[w] = rows[w] + 1 /\ w = projection[p].w /\ projection[p].pc = "send")
  BY <1>1
<1>3. ProjectionShape'
  BY <1>2, Zenon DEF ProjectionInv, ProjectionShape, Leaves
<1>4. Exclusive'
  BY LeavingExclusive, Zenon DEF ProjectionInv
<1>5. Checked'
  BY <1>2, LeavingChecked, Zenon DEF ProjectionInv
<1>6. Traced'
  <2> SUFFICES ASSUME NEW w \in Windows
               PROVE  /\ w \in projected => rows'[w] > 0
                      /\ rows'[w] <= 1 + failures'
                      /\ w \notin projected /\ ~Committing(w)' => rows'[w] <= failures'
    BY Zenon DEF Traced
  <2>1. rows[w] \in Nat /\ rows[w] <= 1 + failures
    BY <1>1, Zenon DEF ProjectionInv, Traced
  <2>2. w \in projected => rows'[w] > 0
    BY <1>2, Zenon DEF ProjectionInv, Traced
  <2>3. CASE rows'[w] = rows[w]
    <3>1. rows'[w] <= 1 + failures' /\ rows'[w] <= failures'
      BY ONLY <1>1, <2>1, <2>3, failures' = failures + 1
    <3> QED
      BY <2>2, <3>1, Zenon
  <2>4. CASE rows'[w] = rows[w] + 1 /\ w = projection[p].w /\ projection[p].pc = "send"
    <3>1. w \notin projected
      BY <2>4, Zenon DEF ProjectionInv, Checked
    <3>2. \A q \in Workers : projection[q].pc \in Section /\ projection[q].w = w => q = p
      BY <2>4, Zenon DEF ProjectionInv, Exclusive, Section
    <3>3. ~Committing(w)
      BY <2>4, <3>2, Zenon DEF Committing, Section
    <3>4. rows[w] <= failures
      BY <3>1, <3>3, Zenon DEF ProjectionInv, Traced
    <3>5. rows'[w] <= 1 + failures' /\ rows'[w] <= failures'
      BY ONLY <1>1, <2>1, <2>4, <3>4, failures' = failures + 1
    <3> QED
      BY <2>2, <3>5, Zenon
  <2> QED
    BY <1>2, <2>3, <2>4, Zenon
<1> QED
  BY <1>3, <1>4, <1>5, <1>6, Zenon DEF ProjectionInv

\* One step of one worker.
LEMMA WorkerKeeps ==
  ASSUME ProjectionInv, NEW p \in Workers, Step(p) \/ ProjectionFails(p) \/ ProjectionStops(p)
  PROVE  ProjectionInv'
<1> USE DEF ProjectionInv
<1>1. CASE BeginTx(p)
  BY <1>1, StepKeeps, Zenon DEF BeginTx, Section
<1>2. CASE LockMeteringProjectionWindow(p)
  BY <1>2, StepKeeps, Zenon DEF LockMeteringProjectionWindow, Section
<1>3. CASE GetMeteringProjectionState(p)
  <2>1. projection[p].pc = "check" /\ UNCHANGED <<projected, rows, failures>>
    BY <1>3, Zenon DEF GetMeteringProjectionState
  <2>2. CASE Return(p)
    <3>1. Leaves(p)
      BY <2>2, Starting, Zenon DEF Return
    <3> QED
      BY <2>1, <3>1, LeftAlone, Zenon
  <2>3. CASE Pending(projection[p].w) /\ Goto(p, "load")
    <3>1. \A q \in Workers \ {p} : ~ (projection[q].w = projection[p].w /\ projection[q].pc \in Section)
      BY <2>1, Zenon DEF Exclusive, Section
    <3> QED
      BY <2>1, <2>3, <3>1, StepKeeps, Zenon DEF Pending
  <2> QED
    BY <1>3, <2>2, <2>3, Zenon DEF GetMeteringProjectionState
<1>4. CASE LoadWindow(p)
  <2>1. projection[p].pc = "load" /\ Goto(p, "send") /\ UNCHANGED <<projected, rows, failures>>
    BY <1>4, Zenon DEF LoadWindow
  <2>2. \A q \in Workers \ {p} : ~ (projection[q].w = projection[p].w /\ projection[q].pc \in Section)
    BY <2>1, Zenon DEF Exclusive, Section
  <2>3. projection[p].w \notin projected
    BY <2>1, Zenon DEF Checked
  <2> QED
    BY <2>1, <2>2, <2>3, StepKeeps, Zenon
<1>5. CASE ProjectMeteringForWindow(p)
  BY <1>5, SendKeeps, Zenon
<1>6. CASE MarkMeteringProjected(p)
  <2>1. Leaves(p)
    BY <1>6, Starting, Zenon DEF MarkMeteringProjected, Return
  <2>2. /\ projection[p].pc = "commit" /\ projected' = projected \cup {projection[p].w}
        /\ UNCHANGED rows /\ failures' = failures
    BY <1>6, Zenon DEF MarkMeteringProjected
  <2>3. failures' \in Nat /\ failures <= failures'
    BY <2>2 DEF ProjectionShape
  <2> QED
    BY <2>1, <2>2, <2>3, MarkKeeps, Zenon
<1>7. CASE ProjectionFails(p)
  <2>1. Leaves(p)
    BY <1>7, GivingUp, Zenon DEF ProjectionFails
  <2>2. projection[p].pc = "send" /\ projected' = projected /\ failures' = failures + 1
    BY <1>7, Zenon DEF ProjectionFails
  <2>3. rows' = rows \/ rows' = [rows EXCEPT ![projection[p].w] = rows[projection[p].w] + 1]
    BY <1>7, Zenon DEF ProjectionFails
  <2> QED
    BY <2>1, <2>2, <2>3, FaultKeeps, Zenon
<1>8. CASE ProjectionStops(p)
  <2>1. Leaves(p)
    BY <1>8, GivingUp, Zenon DEF ProjectionStops
  <2>2. UNCHANGED rows /\ failures' = failures + 1
    BY <1>8, Zenon DEF ProjectionStops
  <2>3. failures' \in Nat /\ failures <= failures'
    BY <2>2 DEF ProjectionShape
  <2>4. CASE UNCHANGED projected
    BY <2>1, <2>2, <2>4, FaultKeeps, Zenon
  <2>5. CASE projection[p].pc = "commit" /\ projected' = projected \cup {projection[p].w}
    BY <2>1, <2>2, <2>3, <2>5, MarkKeeps, Zenon
  <2> QED
    BY <1>8, <2>4, <2>5, Zenon DEF ProjectionStops
<1> QED
  BY <1>1, <1>2, <1>3, <1>4, <1>5, <1>6, <1>7, <1>8, Zenon DEF Step

LEMMA NextKeeps ==
  ASSUME ProjectionInv, [ProjectionNext]_projectionVars
  PROVE  ProjectionInv'
<1>1. CASE UNCHANGED <<projected, rows, projection, failures>>
  BY <1>1, Zenon DEF ProjectionInv, ProjectionShape, Exclusive, Checked, Traced, Committing
<1>2. ASSUME NEW p \in Workers, NEW w \in Windows, WorkJob(p, w) PROVE ProjectionInv'
  <2>1. Leaves(p)
    BY <1>2, Starting, Zenon DEF WorkJob, ProjectionInv
  <2> QED
    BY <1>2, <2>1, LeftAlone, Zenon DEF WorkJob
<1>3. ASSUME NEW p \in Workers, ProjectPendingMeteringWindows(p) PROVE ProjectionInv'
  <2>1. Leaves(p)
    BY <1>3, Starting, Zenon DEF ProjectPendingMeteringWindows, ProjectionInv
  <2> QED
    BY <1>3, <2>1, LeftAlone, Zenon DEF ProjectPendingMeteringWindows
<1>4. MarkWindowSettled \/ (\E r \in Requests : Request(r)) \/ UNCHANGED projectionVars
        => UNCHANGED <<projected, rows, projection, failures>>
  BY Zenon DEF MarkWindowSettled, Request, projectionVars
<1> QED
  BY <1>1, <1>2, <1>3, <1>4, WorkerKeeps, Zenon DEF ProjectionNext

\* The critical section and the trace of every row hold from the start.
THEOREM Projection == ProjectionSpec => []ProjectionInv
<1>1. ProjectionInit => ProjectionInv
  <2> SUFFICES ASSUME ProjectionInit PROVE ProjectionInv
    BY Zenon
  <2>1. /\ rows \in [Windows -> Nat] /\ failures \in Nat /\ failures = 0
        /\ \A w \in Windows : rows[w] = 0 /\ rows[w] <= failures /\ rows[w] <= 1 + failures
    BY DEF ProjectionInit
  <2>2. NoProjection = [pc |-> NoProjection.pc, w |-> NoProjection.w, direct |-> NoProjection.direct,
                        todo |-> NoProjection.todo]
        /\ NoProjection.pc = "idle"
    BY Zenon DEF NoProjection
  <2>3. projection = [p \in Workers |-> projection[p]] /\ \A p \in Workers : projection[p] = NoProjection
    BY Zenon DEF ProjectionInit
  <2>4. ProjectionShape
    BY <2>1, <2>2, <2>3, Zenon DEF ProjectionShape
  <2>5. Exclusive /\ Checked
    BY <2>2, <2>3, Zenon DEF Exclusive, Checked, Section
  <2>6. projected = {}
    BY Zenon DEF ProjectionInit
  <2>7. Traced
    BY <2>1, <2>6, Zenon DEF Traced
  <2> QED
    BY <2>4, <2>5, <2>7, Zenon DEF ProjectionInv
<1>2. ProjectionInv /\ [ProjectionNext]_projectionVars => ProjectionInv'
  BY NextKeeps, Zenon
<1> QED
  BY <1>1, <1>2, PTL DEF ProjectionSpec

\* The marker never precedes the row, and a window has at most one row more than
\* there were faults, however the job and the scanner meet on it
\* (ProjectMeteringWindow, LockMeteringProjectionWindow).
THEOREM RowsAccounted == ProjectionSpec => []OneRowPerFailure
<1>1. ProjectionInv => OneRowPerFailure
  BY Zenon DEF ProjectionInv, Traced, OneRowPerFailure
<1> QED
  BY <1>1, Projection, PTL
=============================================================================
