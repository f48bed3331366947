------------------------ MODULE BillingCyclesProofs ------------------------
(***************************************************************************)
(* The chain of billing cycles, their finalizations, the windows attached  *)
(* to them and the documents they are billed with, for any horizon, length *)
(* of the month and number of windows, handlers, workers, attempts and     *)
(* faults.                                                                 *)
(***************************************************************************)
EXTENDS BillingCycles, Integers, TLAPS

CycleRows == [status : {"none", "open", "closed_for_usage", "finalized"}, end : Nat,
              cadence : {"none", "calendar_monthly", "anniversary_monthly"}, split : BOOLEAN]
FinStates == {"none", "pending", "collecting_facts", "failed", "blocked", "closed", "collection_pending"}
WorkRows == [cycle : Times \cup {None}, listed : BOOLEAN, todo : SUBSET Windows,
             read : SUBSET Windows, due : BOOLEAN, open : BOOLEAN]
WindowRows == [state : {"none", "voided"} \cup Live, cycle : Times \cup {None},
               start : Times \cup {None}]
ReserveRows == [pc : {"idle", "ensured", "begun", "locked"}, at : Times \cup {None},
                cycle : Times \cup {None}]

Types ==
  /\ now \in Times
  /\ cycle \in [Times -> CycleRows]
  /\ fin \in [Times -> [state : FinStates, attempts : Nat]]
  /\ win \in [Windows -> WindowRows]
  /\ res \in [Windows -> ReserveRows]
  /\ phase \in Times \cup {None}
  /\ act \in [Handlers -> Times \cup {None}]
  /\ work \in [Workers -> WorkRows]

Exists(c) == cycle[c].status # "none"

\* Once there is a cycle one is open, it is the last one, and closed cycles end
\* where another starts.
Chain ==
  /\ (\A c \in Times : ~Exists(c)) \/ AnyOpen
  /\ \A c, d \in Times : IsOpen(c) /\ Exists(d) => d <= c
  /\ \A c \in Times : Exists(c) => c < cycle[c].end
  /\ \A c \in Times : Exists(c) /\ ~IsOpen(c) => cycle[c].end \in Times /\ Exists(cycle[c].end)

\* A finalization exists from the moment its cycle is closed, and the worker
\* that has claimed it is the only one.
Finals ==
  /\ ClosedHasFinalization
  /\ \A c \in Times : (IsOpen(c) \/ ~Exists(c)) => fin[c].state = "none"
  /\ \A k \in Workers : work[k].cycle # None => fin[work[k].cycle].state = "collecting_facts"
  /\ \A k, l \in Workers : work[k].cycle # None /\ work[k].cycle = work[l].cycle => k = l
  /\ \A k \in Workers : work[k].listed => work[k].cycle # None

\* The cycle c is, or was until it was split, the cycle of the time t.
Holds(c, t) ==
  /\ c \in Times /\ t \in Times /\ Exists(c)
  /\ c <= t /\ (t < cycle[c].end \/ cycle[c].split)

\* A reservation finds an open cycle, and what it has read holds its time.
Attached ==
  /\ \A w \in Windows : win[w].state # "none" => Holds(win[w].cycle, win[w].start)
  /\ \A w \in Windows : res[w].pc = "locked" => Holds(res[w].cycle, res[w].at)
  /\ \A w \in Windows : res[w].pc # "idle" => AnyOpen
  /\ \A w \in Windows : res[w].pc \in {"begun", "locked"} => res[w].at \in Times

\* Paid cycles repeat the day of the phase, the open one included.
Days ==
  /\ AnniversaryOfPhase
  /\ \A c \in Times : cycle[c].cadence = "anniversary_monthly" /\ IsOpen(c) => cycle[c].end = c + Month
  /\ \A c \in Times : Exists(c) <=> cycle[c].cadence # "none"

IInv == Types /\ Chain /\ Finals /\ Attached /\ Days

-----------------------------------------------------------------------------
(* Arithmetic of months.                                                   *)

\* Multiplication by a natural number keeps the order.
LEMMA Monotone ==
  ASSUME NEW m \in Nat, NEW p \in Int, NEW q \in Int, p <= q
  PROVE  m * p <= m * q
OBVIOUS

\* A month later the remainder is the same.
LEMMA SameDay ==
  ASSUME NEW m \in Nat \ {0}, NEW t \in Nat
  PROVE  (t + m) % m = t % m
<1> DEFINE q == t \div m
           r == t % m
           p == (t + m) \div m
           s == (t + m) % m
<1>1. q \in Int /\ r \in Nat /\ r < m /\ t = m * q + r
  OBVIOUS
<1>2. p \in Int /\ s \in Nat /\ s < m /\ t + m = m * p + s
  OBVIOUS
<1> HIDE DEF q, r, p, s
<1>3. m * (q + 2) = m * q + m + m /\ m * (q + 1) = m * q + m
  BY <1>1
<1>4. m * q \in Int /\ m * p \in Int
  BY <1>1, <1>2
<1>5. CASE p <= q
  <2>1. m * p <= m * q
    BY <1>1, <1>2, <1>5, Monotone, Zenon
  <2> QED
    BY <1>1, <1>2, <1>4, <2>1
<1>6. CASE p >= q + 2
  <2>1. m * (q + 2) <= m * p
    BY <1>1, <1>2, <1>6, Monotone
  <2> QED
    BY <1>1, <1>2, <1>3, <1>4, <2>1
<1>7. CASE p = q + 1
  <2>1. s = r
    BY <1>1, <1>2, <1>3, <1>4, <1>7
  <2> QED
    BY <2>1, Zenon DEF r, s
<1> QED
  BY <1>1, <1>2, <1>5, <1>6, <1>7

\* The first of the month is not after t, and every cycle ends after it starts.
LEMMA Months ==
  ASSUME NEW t \in Times
  PROVE  /\ monthStartUTC(t) \in Times
         /\ \A cadence : cycleEndAfter(cadence, t) \in Nat /\ t < cycleEndAfter(cadence, t)
<1>1. Month \in Nat \ {0} /\ MaxTime \in Nat /\ t \in Nat /\ t <= MaxTime
  BY CyclesAssumption DEF Times
<1>2. t % Month \in Nat /\ t % Month < Month /\ t % Month <= t
  BY <1>1
<1> HIDE DEF Times
<1>3. monthStartUTC(t) \in Times
  BY <1>1, <1>2 DEF monthStartUTC, Times
<1>4. \A cadence : cycleEndAfter(cadence, t) \in Nat /\ t < cycleEndAfter(cadence, t)
  BY <1>1, <1>2 DEF monthStartUTC, cycleEndAfter, nextMonth
<1> QED
  BY <1>3, <1>4, Zenon

-----------------------------------------------------------------------------
(* What the steps do to the table of cycles: they leave it, open the first  *)
(* cycle, or turn the open cycle into a closed one and its successor.       *)

Cadences == {"calendar_monthly", "anniversary_monthly"}

\* Nothing but the row s is new.
LEMMA OpenedRow ==
  ASSUME NEW table \in [Times -> CycleRows], NEW s \in Times, table[s].status = "none",
         NEW cadence \in Cadences
  PROVE  /\ Opened(table, s, cadence) \in [Times -> CycleRows]
         /\ \A d \in Times : d # s => Opened(table, s, cadence)[d] = table[d]
         /\ Opened(table, s, cadence)[s].status = "open"
         /\ Opened(table, s, cadence)[s].cadence = cadence
         /\ Opened(table, s, cadence)[s].end = cycleEndAfter(cadence, s)
<1> DEFINE row == [status |-> "open", end |-> cycleEndAfter(cadence, s), cadence |-> cadence,
                   split |-> FALSE]
<1>1. row \in CycleRows
  BY Months, Zenon DEF CycleRows, Cadences
<1>2. Opened(table, s, cadence) = [table EXCEPT ![s] = row]
  BY Zenon DEF Opened
<1>3. row.status = "open" /\ row.cadence = cadence /\ row.end = cycleEndAfter(cadence, s)
  BY Zenon
<1> HIDE DEF row
<1> QED
  BY <1>1, <1>2, <1>3, Zenon

\* Two open cycles are not admitted.
LEMMA OneOpen ==
  ASSUME NEW table, Admitted(table), NEW c \in Times, NEW d \in Times,
         table[c].status = "open", table[d].status = "open"
  PROVE  c = d
BY Zenon DEF Admitted

Same == cycle' = cycle /\ fin' = fin

Born(s) ==
  /\ s \in Times /\ \A c \in Times : ~Exists(c)
  /\ cycle' \in [Times -> CycleRows] /\ fin' = fin
  /\ cycle'[s].status = "open" /\ s < cycle'[s].end
  /\ \A d \in Times : d # s => cycle'[d] = cycle[d]

Turns(c, s) ==
  /\ c \in Times /\ s \in Times /\ IsOpen(c) /\ c < s /\ ~Exists(s)
  /\ cycle' \in [Times -> CycleRows] /\ fin' = [fin EXCEPT ![c].state = "pending"]
  /\ cycle'[c].status = "closed_for_usage" /\ cycle'[c].end = s /\ cycle'[c].cadence = cycle[c].cadence
  /\ cycle'[c].split \/ (cycle[c].end = s /\ cycle'[c].split = cycle[c].split)
  /\ cycle'[s].status = "open" /\ s < cycle'[s].end
  /\ \A d \in Times : d # c /\ d # s => cycle'[d] = cycle[d]

\* How the days of the paid cycles go on.
Goes(c, s) ==
  /\ cycle'[s].cadence = cycle[c].cadence /\ s = cycle[c].end /\ phase' = phase
  /\ cycle'[s].cadence = "anniversary_monthly" => cycle'[s].end = s + Month

Begins(s) ==
  /\ phase = None /\ phase' = s
  /\ cycle'[s].cadence = "anniversary_monthly" /\ cycle'[s].end = s + Month

\* The rollover turns the cycle at its end, and keeps the cadence.
LEMMA RollTurns ==
  ASSUME IInv, NEW c \in Due, Roll(c)
  PROVE  /\ Turns(c, cycle[c].end)
         /\ phase' = phase => Goes(c, cycle[c].end)
<1> USE DEF IInv, Types
<1> DEFINE s == cycle[c].end
           closed == [cycle EXCEPT ![c].status = "closed_for_usage"]
<1>1. c \in Times /\ IsOpen(c) /\ Exists(c) /\ s <= now /\ s \in Nat
  BY Zenon DEF Due, IsOpen, Exists, CycleRows
<1>2. c < s /\ s \in Times
  BY <1>1, CyclesAssumption DEF Chain, Times
<1>3. ~Exists(s)
  BY <1>1, <1>2, CyclesAssumption DEF Chain, Times
<1>4. closed \in [Times -> CycleRows] /\ closed[s].status = "none"
  BY <1>1, <1>2, <1>3, SMTT(30) DEF CycleRows, Exists
<1>5. /\ closed[c].status = "closed_for_usage" /\ closed[c].end = s
      /\ closed[c].cadence = cycle[c].cadence /\ closed[c].split = cycle[c].split
      /\ \A d \in Times : d # c => closed[d] = cycle[d]
  BY <1>1, Zenon DEF CycleRows
<1>6. cycle[c].cadence \in Cadences
  BY <1>1, Zenon DEF Days, Cadences, CycleRows
<1>7. cycle' = Opened(closed, s, cycle[c].cadence)
  BY Zenon DEF Roll
<1>8. fin' = [fin EXCEPT ![c].state = "pending"]
  BY <1>1, Zenon DEF Roll, ensureCycleFinalization, Finals
<1>9. s < cycleEndAfter(cycle[c].cadence, s)
  BY <1>2, Months, Zenon
<1> HIDE DEF s, closed
<1>10. /\ cycle' \in [Times -> CycleRows]
       /\ \A d \in Times : d # s => cycle'[d] = closed[d]
       /\ cycle'[s].status = "open" /\ cycle'[s].cadence = cycle[c].cadence
       /\ cycle'[s].end = cycleEndAfter(cycle[c].cadence, s)
  BY <1>2, <1>4, <1>6, <1>7, OpenedRow
<1>11. c # s
  BY <1>1, <1>2, CyclesAssumption DEF Times
<1>12. Turns(c, s)
  BY <1>1, <1>2, <1>3, <1>5, <1>8, <1>9, <1>10, <1>11, Zenon DEF Turns, s
<1>13. phase' = phase => Goes(c, s)
  BY <1>10, Zenon DEF Goes, s, cycleEndAfter
<1> QED
  BY <1>12, <1>13, Zenon DEF s

\* The first cycle is born where nothing is open yet.
LEMMA EnsureBorn ==
  ASSUME IInv, NEW t \in Times, ensureOpenBillingCycle(t) # None, cycle' = WithOpenCycle(t),
         fin' = fin
  PROVE  \/ Same /\ AnyOpen
         \/ /\ Born(monthStartUTC(t))
            /\ cycle'[monthStartUTC(t)].cadence = "calendar_monthly"
<1> USE DEF IInv, Types
<1>1. CASE Containing(t) # {}
  BY <1>1, Zenon DEF WithOpenCycle, Same, Containing, AnyOpen
<1>2. CASE Containing(t) = {}
  <2>1. ~AnyOpen /\ cycle[monthStartUTC(t)].status = "none"
    BY <1>2, Zenon DEF ensureOpenBillingCycle
  <2>2. monthStartUTC(t) \in Times
    BY Months, Zenon
  <2>3. cycle' = Opened(cycle, monthStartUTC(t), "calendar_monthly")
    BY <1>2, Zenon DEF WithOpenCycle, WithMonth
  <2>4. "calendar_monthly" \in Cadences
    BY Zenon DEF Cadences
  <2>5. monthStartUTC(t) < cycleEndAfter("calendar_monthly", monthStartUTC(t))
    BY <2>2, Months, Zenon
  <2>6. \A c \in Times : ~Exists(c)
    BY <2>1, Zenon DEF Chain
  <2> QED
    BY <2>1, <2>2, <2>3, <2>4, <2>5, <2>6, OpenedRow DEF Born
<1> QED
  BY <1>1, <1>2, Zenon

\* The activation at time t leaves the table, opens the first cycle, or splits
\* the open one at t.
LEMMA SplitTurns ==
  ASSUME IInv, NEW t \in Times, Admitted(splitCycle(t).table),
         Containing(t) # {} \/ cycle[t].status = "none",
         cycle' = splitCycle(t).table, fin' = splitCycle(t).fin, phase = None, phase' = t
  PROVE  \/ Same /\ Exists(t)
         \/ Born(t) /\ Begins(t)
         \/ \E c \in Times : Turns(c, t) /\ Begins(t)
<1> USE DEF IInv, Types
<1>1. "anniversary_monthly" \in Cadences
  BY Zenon DEF Cadences
<1>2. /\ t < cycleEndAfter("anniversary_monthly", t)
      /\ cycleEndAfter("anniversary_monthly", t) = t + Month
  BY Months, Zenon DEF cycleEndAfter
<1>3. CASE Containing(t) = {}
  <2>1. cycle' = Opened(cycle, t, "anniversary_monthly") /\ fin' = fin
    BY <1>3, Zenon DEF splitCycle
  <2>2. cycle[t].status = "none" /\ Admitted(cycle')
    BY <1>3, Zenon
  <2>3. /\ cycle' \in [Times -> CycleRows] /\ cycle'[t].status = "open"
        /\ cycle'[t].cadence = "anniversary_monthly" /\ cycle'[t].end = t + Month
        /\ \A d \in Times : d # t => cycle'[d] = cycle[d]
    BY <1>1, <1>2, <2>1, <2>2, OpenedRow
  <2>4. ~AnyOpen
    <3> SUFFICES ASSUME NEW c \in Times, cycle[c].status = "open" PROVE FALSE
      BY Zenon DEF AnyOpen, IsOpen
    <3>1. c # t
      BY <2>2, Zenon
    <3>2. cycle'[c].status = "open"
      BY <2>3, <3>1, Zenon
    <3> QED
      BY <2>2, <2>3, <3>1, <3>2, OneOpen
  <2>5. Born(t)
    BY <1>2, <2>1, <2>3, <2>4, Zenon DEF Born, Chain
  <2> QED
    BY <2>3, <2>5, Zenon DEF Begins
<1>4. CASE Containing(t) # {}
  <2> DEFINE c == CHOOSE d \in Containing(t) : TRUE
             row == [cycle[c] EXCEPT !.status = "closed_for_usage", !.end = t, !.split = TRUE]
             closed == [cycle EXCEPT ![c] = row]
  <2>1. c \in Containing(t)
    BY <1>4, Zenon
  <2>2. c \in Times /\ IsOpen(c) /\ Exists(c) /\ c <= t
    BY <2>1, Zenon DEF Containing, IsOpen, Exists
  <2>3. CASE c = t
    BY <1>4, <2>2, <2>3, Zenon DEF splitCycle, Same
  <2>4. CASE c # t
    <3>1. c < t /\ ~Exists(t)
      BY <2>2, <2>4, CyclesAssumption DEF Chain, Times
    <3>2. cycle' = Opened(closed, t, "anniversary_monthly") /\ fin' = ensureCycleFinalization(c)
      BY <1>4, <2>4, Zenon DEF splitCycle
    <3>3. fin' = [fin EXCEPT ![c].state = "pending"]
      BY <2>2, <3>2, Zenon DEF ensureCycleFinalization, Finals
    <3> HIDE DEF c
    <3>4. /\ row \in CycleRows /\ row.status = "closed_for_usage" /\ row.end = t /\ row.split
          /\ row.cadence = cycle[c].cadence
      <4>1. cycle[c] \in CycleRows /\ t \in Nat
        BY <2>2, CyclesAssumption DEF Times
      <4> QED
        BY <4>1, Zenon DEF CycleRows
    <3> HIDE DEF row
    <3>5. /\ closed \in [Times -> CycleRows]
          /\ closed[c].status = "closed_for_usage" /\ closed[c].end = t /\ closed[c].split
          /\ closed[c].cadence = cycle[c].cadence
          /\ \A d \in Times : d # c => closed[d] = cycle[d]
      BY <2>2, <3>4, Zenon
    <3> HIDE DEF closed
    <3>6. closed[t].status = "none"
      BY <2>4, <3>1, <3>5, Zenon DEF Exists
    <3>7. /\ cycle' \in [Times -> CycleRows] /\ cycle'[t].status = "open"
          /\ cycle'[t].cadence = "anniversary_monthly" /\ cycle'[t].end = t + Month
          /\ \A d \in Times : d # t => cycle'[d] = closed[d]
      BY <1>1, <1>2, <3>2, <3>5, <3>6, OpenedRow
    <3>8. Turns(c, t)
      BY <1>2, <2>2, <2>4, <3>1, <3>3, <3>5, <3>7, SMTT(30) DEF Turns
    <3> QED
      BY <2>2, <3>7, <3>8, Zenon DEF Begins
  <2> QED
    BY <2>3, <2>4, Zenon
<1> QED
  BY <1>3, <1>4, Zenon

-----------------------------------------------------------------------------
(* What such a step keeps.                                                 *)

Moves == Same \/ (\E s \in Times : Born(s)) \/ (\E c, s \in Times : Turns(c, s))

\* The chain.
LEMMA KeepsChain ==
  ASSUME Types, Chain, Moves
  PROVE  Chain'
<1> USE CyclesAssumption DEF Types, Chain, Exists, IsOpen, AnyOpen
<1>1. CASE Same
  BY <1>1, Zenon DEF Same
<1>2. ASSUME NEW s \in Times, Born(s) PROVE Chain'
  <2>1. /\ cycle'[s].status = "open" /\ s < cycle'[s].end
        /\ \A d \in Times : d # s => cycle'[d].status = "none"
    BY <1>2, Zenon DEF Born
  <2>2. s <= s
    BY DEF Times
  <2> QED
    BY <2>1, <2>2, Zenon
<1>3. ASSUME NEW c \in Times, NEW s \in Times, Turns(c, s) PROVE Chain'
  <2>1. /\ cycle'[c].status = "closed_for_usage" /\ cycle'[c].end = s /\ cycle'[s].status = "open"
        /\ s < cycle'[s].end /\ c < s /\ cycle[c].status = "open" /\ cycle[s].status = "none"
        /\ \A d \in Times : d # c /\ d # s => cycle'[d] = cycle[d]
    BY <1>3, Zenon DEF Turns
  <2>2. \A d \in Times : cycle[d].status # "none" => cycle'[d].status # "none"
    BY <2>1, Zenon
  <2>3. \A d, e \in Times : IsOpen(d)' /\ Exists(e)' => e <= d
    <3> SUFFICES ASSUME NEW d \in Times, NEW e \in Times, IsOpen(d)', Exists(e)' PROVE e <= d
      BY Zenon
    <3>1. d = s
      <4>1. d # s => cycle[d].status = "open" /\ d # c
        BY <2>1, Zenon
      <4>2. cycle[d].status = "open" => c <= d /\ d <= c
        BY <2>1, Zenon
      <4> QED
        BY <4>1, <4>2 DEF Times
    <3>2. e = s \/ e <= c
      BY <2>1, Zenon
    <3> QED
      BY <2>1, <3>1, <3>2 DEF Times
  <2>4. \A d \in Times : Exists(d)' => d < cycle'[d].end
    BY <2>1, Zenon
  <2>5. \A d \in Times : (Exists(d) /\ ~IsOpen(d) => cycle[d].end \in Times /\ Exists(cycle[d].end))'
    <3> SUFFICES ASSUME NEW d \in Times, cycle'[d].status \notin {"none", "open"}
                 PROVE  cycle'[d].end \in Times /\ cycle'[cycle'[d].end].status # "none"
      BY Zenon
    <3>1. CASE d = c
      BY <2>1, <3>1, Zenon
    <3>2. CASE d # c
      <4>1. cycle'[d] = cycle[d] /\ cycle[d].end \in Times /\ cycle[cycle[d].end].status # "none"
        BY <2>1, <3>2, Zenon
      <4> QED
        BY <2>2, <4>1, Zenon
    <3> QED
      BY <3>1, <3>2, Zenon
  <2> QED
    BY <2>1, <2>3, <2>4, <2>5, Zenon
<1> QED
  BY <1>1, <1>2, <1>3, Zenon DEF Moves

\* A row that exists goes on existing, and so does an open cycle.
LEMMA KeepsOpen ==
  ASSUME Types, Chain, Moves, AnyOpen
  PROVE  AnyOpen'
<1>1. PICK d \in Times : Exists(d)
  BY Zenon DEF AnyOpen, Exists, IsOpen
<1>2. Exists(d)'
  BY <1>1, Zenon DEF Moves, Same, Born, Turns, Exists
<1> QED
  BY <1>2, KeepsChain, Zenon DEF Chain

\* The time a row holds.
LEMMA KeepsHolds ==
  ASSUME Types, Moves, NEW d, NEW t, Holds(d, t)
  PROVE  Holds(d, t)'
<1> USE DEF Types, Holds, Exists
<1>1. CASE Same
  BY <1>1, Zenon DEF Same
<1>2. ASSUME NEW s \in Times, Born(s) PROVE Holds(d, t)'
  BY <1>2, Zenon DEF Born
<1>3. ASSUME NEW c \in Times, NEW s \in Times, Turns(c, s) PROVE Holds(d, t)'
  BY <1>3, Zenon DEF Turns
<1> QED
  BY <1>1, <1>2, <1>3, Zenon DEF Moves

\* The finalizations, when no worker moves.
LEMMA KeepsFinals ==
  ASSUME Types, Finals, Moves, work' = work
  PROVE  Finals'
<1> USE DEF Types, Finals, Exists, IsOpen, ClosedHasFinalization
<1>1. CASE Same
  BY <1>1, Zenon DEF Same
<1>2. ASSUME NEW s \in Times, Born(s) PROVE Finals'
  BY <1>2, ZenonT(60) DEF Born
<1>3. ASSUME NEW c \in Times, NEW s \in Times, Turns(c, s) PROVE Finals'
  <2>1. /\ fin'[c].state = "pending" /\ fin[c].state = "none" /\ fin[s].state = "none"
        /\ \A d \in Times : d # c => fin'[d] = fin[d]
    BY <1>3 DEF Turns
  <2>2. /\ cycle'[c].status = "closed_for_usage" /\ cycle'[s].status = "open" /\ c # s
        /\ \A d \in Times : d # c /\ d # s => cycle'[d] = cycle[d]
    BY <1>3, CyclesAssumption, Zenon DEF Turns, Times
  <2>3. \A k \in Workers : work[k].cycle # c
    <3>1. c # None
      BY CyclesAssumption DEF Times
    <3>2. \A k \in Workers : work[k].cycle # None => fin[work[k].cycle].state = "collecting_facts"
      BY Zenon
    <3> QED
      BY ONLY <2>1, <3>1, <3>2, Zenon
  <2>4. \A k \in Workers : work[k].cycle # None => work[k].cycle \in Times
    BY Zenon DEF WorkRows
  <2>5. ClosedHasFinalization'
    BY <2>1, <2>2
  <2>6. \A k \in Workers : work'[k].cycle # None => fin'[work'[k].cycle].state = "collecting_facts"
    BY <2>1, <2>3, <2>4
  <2>7. \A d \in Times : (IsOpen(d)' \/ ~Exists(d)') => fin'[d].state = "none"
    BY <2>1, <2>2
  <2> QED
    BY <2>5, <2>6, <2>7
<1> QED
  BY <1>1, <1>2, <1>3, Zenon DEF Moves

\* The days, when a calendar month is the first cycle or a cycle goes on.
LEMMA KeepsDays ==
  ASSUME Types, Days, phase' = phase,
         \/ Same
         \/ \E s \in Times : Born(s) /\ cycle'[s].cadence = "calendar_monthly"
         \/ \E c, s \in Times : Turns(c, s) /\ Goes(c, s)
  PROVE  Days'
<1> USE DEF Types, Days, Exists, IsOpen, AnniversaryOfPhase
<1>1. CASE Same
  BY <1>1, Zenon DEF Same
<1>2. ASSUME NEW s \in Times, Born(s), cycle'[s].cadence = "calendar_monthly" PROVE Days'
  BY <1>2, ZenonT(40) DEF Born
<1>3. ASSUME NEW c \in Times, NEW s \in Times, Turns(c, s), Goes(c, s) PROVE Days'
  <2>1. /\ cycle'[c].cadence = cycle[c].cadence /\ cycle'[c].status = "closed_for_usage"
        /\ cycle'[s].cadence = cycle[c].cadence /\ cycle'[s].status = "open"
        /\ cycle[c].status = "open" /\ s = cycle[c].end
        /\ \A d \in Times : d # c /\ d # s => cycle'[d] = cycle[d]
        /\ cycle'[s].cadence = "anniversary_monthly" => cycle'[s].end = s + Month
    BY <1>3, Zenon DEF Turns, Goes
  <2>2. ASSUME cycle'[s].cadence = "anniversary_monthly"
        PROVE  phase # None /\ s >= phase /\ (s - phase) % Month = 0
    <3>1. phase \in Nat /\ c \in Nat /\ c >= phase /\ (c - phase) % Month = 0 /\ s = c + Month
      BY <2>1, <2>2, SMTT(30) DEF Times
    <3>2. Month \in Nat \ {0} /\ c - phase \in Nat /\ s - phase = (c - phase) + Month
      BY <3>1, CyclesAssumption
    <3>3. ((c - phase) + Month) % Month = 0
      BY <3>1, <3>2, SameDay, Zenon
    <3> QED
      BY <2>1, <2>2, <3>1, <3>2, <3>3, SMTT(30)
  <2>3. AnniversaryOfPhase'
    BY <2>1, <2>2, ZenonT(30)
  <2>4. \A d \in Times : cycle'[d].cadence = "anniversary_monthly" /\ IsOpen(d)' => cycle'[d].end = d + Month
    BY <2>1, Zenon
  <2>5. \A d \in Times : Exists(d)' <=> cycle'[d].cadence # "none"
    BY <2>1, Zenon
  <2> QED
    BY <2>3, <2>4, <2>5, Zenon
<1> QED
  BY <1>1, <1>2, <1>3, Zenon

\* The days, when the phase begins.
LEMMA BeginsDays ==
  ASSUME Types, Days, phase = None, NEW t \in Times, phase' = t,
         \/ Same /\ Exists(t)
         \/ Born(t) /\ Begins(t)
         \/ \E c \in Times : Turns(c, t) /\ Begins(t)
  PROVE  Days'
<1> USE DEF Types, Days, Exists, IsOpen, AnniversaryOfPhase
<1>1. (t - t) % Month = 0 /\ t >= t
  BY CyclesAssumption DEF Times
<1>2. \A d \in Times : cycle[d].cadence # "anniversary_monthly"
  BY Zenon
<1>3. CASE Same
  BY <1>2, <1>3, Zenon DEF Same
<1>4. CASE Born(t) /\ Begins(t)
  <2>1. /\ cycle'[t].cadence = "anniversary_monthly" /\ cycle'[t].end = t + Month
        /\ cycle'[t].status = "open" /\ \A d \in Times : d # t => cycle'[d] = cycle[d]
    BY <1>4, Zenon DEF Born, Begins
  <2>2. t # None
    BY CyclesAssumption DEF Times
  <2> QED
    BY <1>1, <1>2, <2>1, <2>2, Zenon
<1>5. ASSUME NEW c \in Times, Turns(c, t), Begins(t) PROVE Days'
  <2>1. /\ cycle'[t].cadence = "anniversary_monthly" /\ cycle'[t].end = t + Month
        /\ cycle'[t].status = "open" /\ \A d \in Times : d # t /\ d # c => cycle'[d] = cycle[d]
        /\ cycle'[c].cadence = cycle[c].cadence /\ cycle'[c].status # "none" /\ Exists(c)
    BY <1>5, Zenon DEF Turns, Begins
  <2>2. t # None
    BY CyclesAssumption DEF Times
  <2> QED
    BY <1>1, <1>2, <2>1, <2>2, Zenon
<1> QED
  BY <1>3, <1>4, <1>5, Zenon

\* The windows and reservations, as far as the table goes.
LEMMA KeepsAttached ==
  ASSUME Types, Chain, Attached, Moves, win' = win, res' = res
  PROVE  Attached'
BY KeepsOpen, KeepsHolds, Zenon DEF Attached

-----------------------------------------------------------------------------
(* The steps.                                                              *)

\* The steps that write the table of cycles.
LEMMA TableSteps ==
  ASSUME IInv,
         \/ ApplyDueBillingWork \/ EnsureOpenBillingCycle
         \/ \E w \in Windows : ReserveDue(w)
         \/ \E h \in Handlers : ActivateCommit(h)
  PROVE  IInv' /\ Moves
<1> USE DEF IInv
<1>1. ASSUME NEW c \in Due, Roll(c), UNCHANGED <<now, win, res, phase, act, work>>
      PROVE  IInv' /\ Moves
  <2>1. Turns(c, cycle[c].end) /\ Goes(c, cycle[c].end)
    BY <1>1, RollTurns, Zenon
  <2>2. c \in Times /\ cycle[c].end \in Times /\ Moves
    BY <2>1, Zenon DEF Turns, Moves
  <2>3. Types'
    BY <1>1, <2>1, Zenon DEF Types, Turns, FinStates
  <2>4. Days'
    BY <1>1, <2>1, <2>2, KeepsDays, Zenon
  <2> QED
    BY <1>1, <2>2, <2>3, <2>4, KeepsChain, KeepsFinals, KeepsAttached, Zenon
<1>2. ASSUME NEW t \in Times, ensureOpenBillingCycle(t) # None, cycle' = WithOpenCycle(t),
             UNCHANGED <<now, fin, win, phase, act, work>>
      PROVE  Moves /\ AnyOpen' /\ cycle' \in [Times -> CycleRows] /\ Chain' /\ Finals' /\ Days'
  <2>1. \/ Same /\ AnyOpen
        \/ Born(monthStartUTC(t)) /\ cycle'[monthStartUTC(t)].cadence = "calendar_monthly"
    BY <1>2, EnsureBorn, Zenon
  <2>2. monthStartUTC(t) \in Times
    BY Months, Zenon
  <2>3. Moves /\ AnyOpen' /\ cycle' \in [Times -> CycleRows]
    BY <2>1, <2>2, Zenon DEF Moves, Same, Born, AnyOpen, IsOpen, Types
  <2>4. Days'
    BY <1>2, <2>1, <2>2, KeepsDays, Zenon
  <2> QED
    BY <1>2, <2>3, <2>4, KeepsChain, KeepsFinals, Zenon
<1>3. CASE ApplyDueBillingWork
  BY <1>1, <1>3, Zenon DEF ApplyDueBillingWork
<1>4. CASE EnsureOpenBillingCycle
  <2>1. now \in Times /\ UNCHANGED <<now, fin, win, res, phase, act, work>>
    BY <1>4, Zenon DEF EnsureOpenBillingCycle, Types
  <2>2. Moves /\ cycle' \in [Times -> CycleRows] /\ Chain' /\ Finals' /\ Days'
    BY <1>2, <1>4, <2>1, Zenon DEF EnsureOpenBillingCycle
  <2> QED
    BY <2>1, <2>2, KeepsAttached, Zenon DEF Types
<1>5. ASSUME NEW w \in Windows, ReserveDue(w) PROVE IInv' /\ Moves
  <2>1. CASE Due # {}
    BY <1>1, <1>5, <2>1, Zenon DEF ReserveDue
  <2>2. CASE Due = {}
    <3>1. /\ now \in Times /\ UNCHANGED <<now, fin, win, phase, act, work>>
          /\ res' = [res EXCEPT ![w].pc = "ensured"] /\ res[w].pc = "idle"
      BY <1>5, <2>2, Zenon DEF ReserveDue, Types
    <3>2. Moves /\ AnyOpen' /\ cycle' \in [Times -> CycleRows] /\ Chain' /\ Finals' /\ Days'
      BY <1>2, <1>5, <2>2, <3>1, Zenon DEF ReserveDue
    <3>3. Types'
      BY <3>1, <3>2, ZenonT(30) DEF Types, ReserveRows
    <3>4. /\ res'[w].pc = "ensured"
          /\ \A v \in Windows : v # w => res'[v] = res[v]
      BY <3>1, Zenon DEF Types, ReserveRows
    <3>5. Attached'
      BY <3>1, <3>2, <3>4, KeepsHolds, Zenon DEF Attached
    <3> QED
      BY <3>2, <3>3, <3>5, Zenon
  <2> QED
    BY <2>1, <2>2, Zenon
<1>6. ASSUME NEW h \in Handlers, ActivateCommit(h) PROVE IInv' /\ Moves
  <2> DEFINE t == act[h]
  <2>1. UNCHANGED <<now, win, res, work>> /\ act' \in [Handlers -> Times \cup {None}] /\ t \in Times
    BY <1>6, Zenon DEF ActivateCommit, Types
  <2>2. CASE UNCHANGED <<cycle, fin, phase>>
    <3>1. Moves /\ Same
      BY <2>2, Zenon DEF Moves, Same
    <3>2. Types'
      BY <2>1, <2>2, Zenon DEF Types
    <3>3. Days'
      BY <2>2, <3>1, KeepsDays, Zenon
    <3> QED
      BY <2>1, <3>1, <3>2, <3>3, KeepsChain, KeepsFinals, KeepsAttached, Zenon
  <2>3. CASE /\ phase = None /\ Admitted(splitCycle(t).table)
             /\ Containing(t) # {} \/ cycle[t].status = "none"
             /\ cycle' = splitCycle(t).table /\ fin' = splitCycle(t).fin /\ phase' = t
    <3> HIDE DEF t
    <3>1. \/ Same /\ Exists(t)
          \/ Born(t) /\ Begins(t)
          \/ \E c \in Times : Turns(c, t) /\ Begins(t)
      BY <2>1, <2>3, SplitTurns, Zenon
    <3>2. Moves
      BY <2>1, <3>1, Zenon DEF Moves
    <3>3. cycle' \in [Times -> CycleRows] /\ fin' \in [Times -> [state : FinStates, attempts : Nat]]
      BY <3>1, ZenonT(60) DEF Same, Born, Turns, Types, FinStates
    <3>4. Types'
      BY <2>1, <2>3, <3>3, Zenon DEF Types
    <3>5. Days'
      BY <2>1, <2>3, <3>1, BeginsDays, Zenon
    <3> QED
      BY <2>1, <3>2, <3>4, <3>5, KeepsChain, KeepsFinals, KeepsAttached, Zenon
  <2> QED
    BY <1>6, <2>2, <2>3, Zenon DEF ActivateCommit
<1> QED
  BY <1>3, <1>4, <1>5, <1>6, Zenon

\* Time, reservations, windows and the handlers of activations.
LEMMA WindowSteps ==
  ASSUME IInv,
         \/ Tick
         \/ \E w \in Windows : ReserveBegin(w) \/ ReserveLocked(w) \/ ReserveEnd(w) \/ EndWindow(w)
         \/ \E h \in Handlers : ActivateBegin(h)
         \/ UNCHANGED vars
  PROVE  IInv'
<1> USE DEF IInv
<1>1. UNCHANGED <<cycle, fin, phase, work>>
  BY Zenon DEF Tick, ReserveBegin, ReserveLocked, ReserveEnd, EndWindow, ActivateBegin, vars
<1>2. Chain' /\ Finals' /\ Days'
  <2>1. Moves /\ Same
    BY <1>1, Zenon DEF Moves, Same
  <2> QED
    BY <1>1, <2>1, KeepsChain, KeepsFinals, KeepsDays, Zenon
<1>3. \A c, t : Holds(c, t) => Holds(c, t)'
  BY <1>1, Zenon DEF Holds, Exists
<1>4. AnyOpen => AnyOpen'
  BY <1>1, Zenon DEF AnyOpen, IsOpen
<1>5. CASE Tick \/ (\E h \in Handlers : ActivateBegin(h)) \/ UNCHANGED vars
  <2>1. UNCHANGED <<win, res>>
    BY <1>5, Zenon DEF Tick, ActivateBegin, vars
  <2>2. Types'
    <3>1. CASE Tick
      <4>1. now' \in Times
        BY <3>1, CyclesAssumption DEF Types, Tick, Times
      <4> QED
        BY <1>1, <2>1, <3>1, <4>1, Zenon DEF Types, Tick
    <3>2. ASSUME NEW h \in Handlers, ActivateBegin(h) PROVE Types'
      BY <1>1, <2>1, <3>2, Zenon DEF Types, ActivateBegin
    <3>3. CASE UNCHANGED vars
      BY <3>3, Zenon DEF Types, vars
    <3> QED
      BY <1>5, <3>1, <3>2, <3>3, Zenon
  <2> QED
    BY <1>2, <1>3, <1>4, <2>1, <2>2, Zenon DEF Attached
<1>6. ASSUME NEW w \in Windows, ReserveBegin(w) PROVE IInv'
  <2>1. /\ UNCHANGED <<now, win, act>>
        /\ res' = [res EXCEPT ![w].pc = "begun", ![w].at = now] /\ res[w].pc = "ensured"
    BY <1>6, Zenon DEF ReserveBegin
  <2>2. Types'
    BY <1>1, <2>1, ZenonT(60) DEF Types, ReserveRows
  <2>3. /\ res'[w].pc = "begun" /\ res'[w].at = now
        /\ \A v \in Windows : v # w => res'[v] = res[v]
    BY <2>1, Zenon DEF Types, ReserveRows
  <2>4. now \in Times
    BY Zenon DEF Types
  <2> QED
    BY <1>2, <1>3, <1>4, <2>1, <2>2, <2>3, <2>4, Zenon DEF Attached
<1>7. ASSUME NEW w \in Windows, ReserveLocked(w) PROVE IInv'
  <2> DEFINE c == ensureOpenBillingCycle(res[w].at)
  <2>1. UNCHANGED <<now, win, act>> /\ res[w].pc = "begun" /\ res[w].at \in Times /\ AnyOpen
    BY <1>7, Zenon DEF ReserveLocked, Attached
  <2>2. CASE res' = [res EXCEPT ![w] = Idle]
    <3>1. Idle \in ReserveRows /\ Idle.pc = "idle"
      BY Zenon DEF Idle, ReserveRows
    <3>2. Types'
      BY <1>1, <2>1, <2>2, <3>1, Zenon DEF Types
    <3>3. res'[w].pc = "idle" /\ \A v \in Windows : v # w => res'[v] = res[v]
      BY <2>2, <3>1, Zenon DEF Types
    <3> QED
      BY <1>2, <1>3, <1>4, <2>1, <3>2, <3>3, Zenon DEF Attached
  <2>3. CASE c # None /\ res' = [res EXCEPT ![w].pc = "locked", ![w].cycle = c]
    <3>1. c \in Containing(res[w].at)
      BY <2>1, <2>3, Zenon DEF ensureOpenBillingCycle
    <3> HIDE DEF c
    <3>2. Holds(c, res[w].at)
      BY <2>1, <3>1, Zenon DEF Holds, Containing, Exists, IsOpen
    <3>3. c \in Times
      BY <3>1, Zenon DEF Containing
    <3>4. Types'
      BY <1>1, <2>1, <2>3, <3>3, ZenonT(30) DEF Types, ReserveRows
    <3>5. /\ res'[w].pc = "locked" /\ res'[w].cycle = c /\ res'[w].at = res[w].at
          /\ \A v \in Windows : v # w => res'[v] = res[v]
      BY <2>3, Zenon DEF Types, ReserveRows
    <3> QED
      BY <1>2, <1>3, <1>4, <2>1, <3>2, <3>4, <3>5, Zenon DEF Attached
  <2> QED
    BY <1>7, <2>2, <2>3, Zenon DEF ReserveLocked
<1>8. ASSUME NEW w \in Windows, ReserveEnd(w) PROVE IInv'
  <2> DEFINE row == [state |-> "reserved", cycle |-> res[w].cycle, start |-> res[w].at]
  <2>1. /\ UNCHANGED <<now, act>> /\ res[w].pc = "locked" /\ res' = [res EXCEPT ![w] = Idle]
        /\ win' = [win EXCEPT ![w] = row] \/ win' = win
    BY <1>8, Zenon DEF ReserveEnd
  <2>2. Holds(res[w].cycle, res[w].at)
    BY <2>1, ZenonT(30) DEF Attached
  <2>3. row \in WindowRows /\ row.state = "reserved" /\ row.cycle = res[w].cycle /\ row.start = res[w].at
    BY <2>2, Zenon DEF WindowRows, Live, Holds
  <2> HIDE DEF row
  <2>4. Idle \in ReserveRows /\ Idle.pc = "idle"
    BY Zenon DEF Idle, ReserveRows
  <2>5. Types'
    BY <1>1, <2>1, <2>3, <2>4, Zenon DEF Types
  <2>6. res'[w].pc = "idle" /\ \A v \in Windows : v # w => res'[v] = res[v] /\ win'[v] = win[v]
    BY <2>1, <2>4, Zenon DEF Types
  <2>7. win'[w] = win[w] \/ win'[w] = row
    BY <2>1, Zenon DEF Types
  <2>8. \A v \in Windows : (win[v].state # "none" => Holds(win[v].cycle, win[v].start))'
    <3>1. \A v \in Windows : v # w => (win[v].state # "none" => Holds(win[v].cycle, win[v].start))'
      BY <1>3, <2>6, Zenon DEF Attached
    <3>2. (win[w].state # "none" => Holds(win[w].cycle, win[w].start))'
      BY <1>3, <2>2, <2>3, <2>7, Zenon DEF Attached
    <3> QED
      BY <3>1, <3>2, Zenon
  <2> QED
    BY <1>2, <1>3, <1>4, <2>5, <2>6, <2>8, Zenon DEF Attached
<1>9. ASSUME NEW w \in Windows, EndWindow(w) PROVE IInv'
  <2>1. PICK st \in {"settled", "receivable", "voided"} : win' = [win EXCEPT ![w].state = st]
    BY <1>9, ZenonT(30) DEF EndWindow
  <2>2. UNCHANGED <<now, act, res>> /\ win[w].state = "reserved"
    BY <1>9, Zenon DEF EndWindow
  <2>3. Types'
    BY <1>1, <2>1, <2>2, ZenonT(30) DEF Types, WindowRows, Live
  <2>4. \A v \in Windows : /\ win'[v].cycle = win[v].cycle /\ win'[v].start = win[v].start
                           /\ win'[v].state # "none" => win[v].state # "none"
    BY <2>1, <2>2, Zenon DEF Types, WindowRows
  <2> QED
    BY <1>2, <1>3, <1>4, <2>2, <2>3, <2>4, Zenon DEF Attached
<1> QED
  BY <1>5, <1>6, <1>7, <1>8, <1>9, Zenon

\* The workers: one holds a finalization at a time, and issuing it finalizes
\* the cycle it was created for.
LEMMA WorkerSteps ==
  ASSUME IInv, NEW k \in Workers, Worker(k) \/ FailBillingFinalization(k) \/ WorkerDies(k)
  PROVE  IInv'
<1> USE DEF IInv
<1>1. UNCHANGED <<now, win, res, phase, act>>
  BY ZenonT(30) DEF Worker, ClaimBillingFinalization, ListStatementWindows, LoadStatementWindow,
         IssueFinalizationDocument, FailBillingFinalization, WorkerDies
<1>2. Free \in WorkRows /\ Free.cycle = None /\ Free.listed = FALSE
  BY Zenon DEF Free, WorkRows
<1>3. ASSUME UNCHANGED cycle, Types', Finals' PROVE IInv'
  <2>1. Chain' /\ Attached' /\ Days'
    BY <1>1, <1>3, Zenon DEF Chain, Attached, Days, Holds, Exists, IsOpen, AnyOpen, AnniversaryOfPhase
  <2> QED
    BY <1>3, <2>1, Zenon
<1>4. ASSUME NEW c \in Times, ClaimBillingFinalization(k, c) PROVE IInv'
  <2>1. /\ work[k] = Free /\ Claimable(c) /\ UNCHANGED cycle
        /\ fin' = [fin EXCEPT ![c].state = "collecting_facts", ![c].attempts = fin[c].attempts + 1]
        /\ work' = [work EXCEPT ![k].cycle = c]
    BY <1>4, Zenon DEF ClaimBillingFinalization
  <2>2. Types'
    <3>1. [fin[c] EXCEPT !.state = "collecting_facts", !.attempts = fin[c].attempts + 1] \in
             [state : FinStates, attempts : Nat]
      <4>1. fin[c] \in [state : FinStates, attempts : Nat] /\ "collecting_facts" \in FinStates
        BY Zenon DEF Types, FinStates
      <4>2. fin[c].attempts + 1 \in Nat
        BY ONLY <4>1, SMTT(30)
      <4> QED
        BY <4>1, <4>2, Zenon
    <3>2. fin' = [fin EXCEPT ![c] = [fin[c] EXCEPT !.state = "collecting_facts",
                                                   !.attempts = fin[c].attempts + 1]]
      BY <2>1, Zenon DEF Types
    <3>3. fin' \in [Times -> [state : FinStates, attempts : Nat]]
      BY <3>1, <3>2, Zenon DEF Types
    <3>4. work' \in [Workers -> WorkRows]
      BY <2>1, SMTT(60) DEF Types, WorkRows
    <3> QED
      BY <1>1, <2>1, <3>3, <3>4, Zenon DEF Types
  <2>3. /\ fin'[c].state = "collecting_facts" /\ fin[c].state \in {"pending", "failed"}
        /\ \A d \in Times : d # c => fin'[d] = fin[d]
    BY <2>1, Zenon DEF Types, Claimable
  <2>4. /\ work'[k].cycle = c /\ work'[k].listed = work[k].listed
        /\ \A l \in Workers : l # k => work'[l] = work[l]
    BY <2>1, Zenon DEF Types, WorkRows
  <2>5. \A l \in Workers : work[l].cycle # c /\ (work[l].cycle # None => work[l].cycle \in Times)
    <3>1. \A l \in Workers : work[l].cycle # None => work[l].cycle \in Times
      BY Zenon DEF Types, WorkRows
    <3>2. \A l \in Workers : work[l].cycle # None => fin[work[l].cycle].state = "collecting_facts"
      BY Zenon DEF Finals
    <3>3. c # None
      BY CyclesAssumption, SMTT(30) DEF Times
    <3> QED
      BY ONLY <2>3, <3>1, <3>2, <3>3, Zenon
  <2>6. Finals'
    <3>1. ClosedHasFinalization'
      BY <2>1, <2>3, Zenon DEF Finals, ClosedHasFinalization
    <3>2. \A d \in Times : (IsOpen(d)' \/ ~Exists(d)') => fin'[d].state = "none"
      BY <2>1, <2>3, Zenon DEF Finals, IsOpen, Exists
    <3>3. \A l \in Workers : work'[l].cycle # None => fin'[work'[l].cycle].state = "collecting_facts"
      BY <2>3, <2>4, <2>5, SMTT(30) DEF Finals
    <3>4. \A l, m \in Workers : work'[l].cycle # None /\ work'[l].cycle = work'[m].cycle => l = m
      BY <2>4, <2>5 DEF Finals
    <3>5. \A l \in Workers : work'[l].listed => work'[l].cycle # None
      BY <2>4, CyclesAssumption DEF Finals, Times
    <3> QED
      BY <3>1, <3>2, <3>3, <3>4, <3>5, Zenon DEF Finals
  <2> QED
    BY <1>3, <2>1, <2>2, <2>6, Zenon
<1>5. ASSUME ListStatementWindows(k) \/ (\E w \in Windows : LoadStatementWindow(k, w)) PROVE IInv'
  <2>1. UNCHANGED <<cycle, fin>>
    BY <1>5, Zenon DEF ListStatementWindows, LoadStatementWindow
  <2>2. /\ work' \in [Workers -> WorkRows]
        /\ \A l \in Workers : /\ work'[l].cycle = work[l].cycle
                              /\ work'[l].listed => work[l].listed \/ work[l].cycle # None
    <3>1. CASE ListStatementWindows(k)
      <4> DEFINE todo == {w \in Windows : win[w].cycle = work[k].cycle /\ win[w].state \in Live}
                 row == [work[k] EXCEPT !.listed = TRUE, !.todo = todo]
      <4>1. work' = [work EXCEPT ![k] = row] /\ work[k].cycle # None
        BY <3>1, Zenon DEF ListStatementWindows, Types
      <4>2. todo \in SUBSET Windows
        BY Zenon
      <4> HIDE DEF todo
      <4>3. row \in WorkRows /\ row.cycle = work[k].cycle
        BY <4>2, ZenonT(40) DEF Types, WorkRows
      <4> HIDE DEF row
      <4> QED
        BY <4>1, <4>3, Zenon DEF Types
    <3>2. ASSUME NEW w \in Windows, LoadStatementWindow(k, w)
          PROVE  /\ work' \in [Workers -> WorkRows]
                 /\ \A l \in Workers : /\ work'[l].cycle = work[l].cycle
                                       /\ work'[l].listed = work[l].listed
      <4> DEFINE read == IF win[w].state \in {"settled", "receivable"}
                         THEN work[k].read \cup {w} ELSE work[k].read
                 due == work[k].due \/ win[w].state = "receivable"
                 open == work[k].open \/ win[w].state = "reserved"
                 row == [work[k] EXCEPT !.todo = @ \ {w}, !.read = read, !.due = due, !.open = open]
      <4>1. work' = [work EXCEPT ![k] = row]
        BY <3>2, Zenon DEF LoadStatementWindow, Types
      <4>2. read \in SUBSET Windows
        BY Zenon DEF Types, WorkRows
      <4>3. due \in BOOLEAN /\ open \in BOOLEAN
        BY Zenon
      <4> HIDE DEF read, due, open
      <4>4. row \in WorkRows /\ row.cycle = work[k].cycle /\ row.listed = work[k].listed
        BY <4>2, <4>3, ZenonT(40) DEF Types, WorkRows
      <4> HIDE DEF row
      <4> QED
        BY <4>1, <4>4, Zenon DEF Types
    <3> QED
      BY <1>5, <3>1, <3>2, Zenon
  <2>3. Types'
    BY <1>1, <2>1, <2>2, Zenon DEF Types
  <2>4. Finals'
    BY <2>1, <2>2 DEF Finals, ClosedHasFinalization, IsOpen, Exists
  <2> QED
    BY <1>3, <2>1, <2>3, <2>4, Zenon
<1>6. ASSUME NEW c \in Times, NEW st \in FinStates \ {"none", "pending"}, c = work[k].cycle,
             work' = [work EXCEPT ![k] = Free], fin' = [fin EXCEPT ![c].state = st]
      PROVE  /\ fin' \in [Times -> [state : FinStates, attempts : Nat]]
             /\ work' \in [Workers -> WorkRows]
             /\ fin'[c].state = st /\ \A d \in Times : d # c => fin'[d] = fin[d]
             /\ \A l \in Workers : work'[l].cycle # None => fin'[work'[l].cycle].state = "collecting_facts"
             /\ \A l, m \in Workers : work'[l].cycle # None /\ work'[l].cycle = work'[m].cycle => l = m
             /\ \A l \in Workers : work'[l].listed => work'[l].cycle # None
  <2>1. /\ fin' \in [Times -> [state : FinStates, attempts : Nat]]
        /\ fin'[c].state = st /\ \A d \in Times : d # c => fin'[d] = fin[d]
    BY <1>6, Zenon DEF Types
  <2>2. work' \in [Workers -> WorkRows] /\ work'[k] = Free /\ \A l \in Workers : l # k => work'[l] = work[l]
    BY <1>2, <1>6, Zenon DEF Types
  <2>3. \A l \in Workers : l # k /\ work[l].cycle # None => work[l].cycle # c /\ work[l].cycle \in Times
    BY <1>6, Zenon DEF Finals, Types, WorkRows
  <2>4. \A l \in Workers : work'[l].cycle # None => fin'[work'[l].cycle].state = "collecting_facts"
    BY <1>2, <2>1, <2>2, <2>3, SMTT(30) DEF Finals
  <2>5. \A l, m \in Workers : work'[l].cycle # None /\ work'[l].cycle = work'[m].cycle => l = m
    BY <1>2, <2>2, SMTT(30) DEF Finals
  <2>6. \A l \in Workers : work'[l].listed => work'[l].cycle # None
    BY <1>2, <2>2 DEF Finals
  <2> QED
    BY <2>1, <2>2, <2>4, <2>5, <2>6, Zenon
<1>7. CASE IssueFinalizationDocument(k)
  <2> DEFINE c == work[k].cycle
             st == IF work[k].due THEN "collection_pending" ELSE "closed"
             to == IF cycle[c].status = "closed_for_usage" THEN "finalized" ELSE cycle[c].status
  <2>1. c \in Times /\ fin[c].state = "collecting_facts"
    BY <1>7, Zenon DEF IssueFinalizationDocument, Finals, Types, WorkRows
  <2>2. cycle[c].status = "closed_for_usage"
    <3>1. cycle[c].status \in {"none", "open", "closed_for_usage", "finalized"}
      BY <2>1, Zenon DEF Types, CycleRows
    <3> QED
      BY <2>1, <3>1, Zenon DEF Finals, ClosedHasFinalization, IsOpen, Exists
  <2>3. /\ work' = [work EXCEPT ![k] = Free] /\ fin' = [fin EXCEPT ![c].state = st]
        /\ cycle' = [cycle EXCEPT ![c].status = "finalized"]
    BY <1>7, <2>1, <2>2, Zenon DEF IssueFinalizationDocument, Types
  <2>4. st \in {"closed", "collection_pending"}
    BY Zenon
  <2> HIDE DEF c, st
  <2>5. /\ fin' \in [Times -> [state : FinStates, attempts : Nat]]
        /\ work' \in [Workers -> WorkRows]
        /\ fin'[c].state = st /\ \A d \in Times : d # c => fin'[d] = fin[d]
        /\ \A l \in Workers : work'[l].cycle # None => fin'[work'[l].cycle].state = "collecting_facts"
        /\ \A l, m \in Workers : work'[l].cycle # None /\ work'[l].cycle = work'[m].cycle => l = m
        /\ \A l \in Workers : work'[l].listed => work'[l].cycle # None
    <3>1. c = work[k].cycle /\ st \in FinStates \ {"none", "pending"}
      BY <2>4, Zenon DEF c, FinStates
    <3> QED
      BY <1>6, <2>1, <2>3, <3>1, Zenon
  <2>6. /\ cycle' \in [Times -> CycleRows] /\ cycle'[c].status = "finalized"
        /\ cycle'[c].end = cycle[c].end /\ cycle'[c].split = cycle[c].split
        /\ cycle'[c].cadence = cycle[c].cadence
        /\ \A d \in Times : d # c => cycle'[d] = cycle[d]
    BY <2>1, <2>3, ZenonT(30) DEF Types, CycleRows
  <2>7. Types'
    BY <1>1, <2>5, <2>6, Zenon DEF Types
  <2>8. Finals'
    <3>1. ClosedHasFinalization'
      BY <2>1, <2>4, <2>5, <2>6, SMTT(30) DEF Finals, ClosedHasFinalization
    <3>2. \A d \in Times : (IsOpen(d)' \/ ~Exists(d)') => fin'[d].state = "none"
      BY <2>1, <2>5, <2>6, SMTT(30) DEF Finals, IsOpen, Exists
    <3> QED
      BY <2>5, <3>1, <3>2, ZenonT(30) DEF Finals
  <2>9. /\ \A d \in Times : Exists(d)' <=> Exists(d)
        /\ \A d \in Times : IsOpen(d)' <=> IsOpen(d)
        /\ \A d \in Times : cycle'[d].end = cycle[d].end /\ cycle'[d].cadence = cycle[d].cadence
        /\ \A d \in Times : cycle'[d].split = cycle[d].split
    BY <2>1, <2>2, <2>6, Zenon DEF Exists, IsOpen
  <2>10. Chain'
    <3>1. \A d \in Times : (Exists(d) /\ ~IsOpen(d) => cycle[d].end \in Times /\ Exists(cycle[d].end))'
      BY <2>9, Zenon DEF Chain
    <3> QED
      BY <2>9, <3>1, Zenon DEF Chain, AnyOpen
  <2>11. Days'
    BY <1>1, <2>9, Zenon DEF Days, AnniversaryOfPhase
  <2>12. \A d, t : Holds(d, t) => Holds(d, t)'
    BY <2>9, Zenon DEF Holds
  <2>13. AnyOpen => AnyOpen'
    BY <2>9, Zenon DEF AnyOpen
  <2>14. Attached'
    BY <1>1, <2>12, <2>13, Zenon DEF Attached
  <2> QED
    BY <2>7, <2>8, <2>10, <2>11, <2>14, Zenon
<1>8. CASE FailBillingFinalization(k) \/ WorkerDies(k)
  <2> DEFINE c == work[k].cycle
             st == IF fin' = fin THEN "collecting_facts"
                   ELSE IF fin[c].attempts >= MaxAttempts THEN "blocked" ELSE "failed"
  <2>1. c \in Times /\ fin[c].state = "collecting_facts"
    BY <1>8 DEF FailBillingFinalization, WorkerDies, Finals, Types, WorkRows
  <2>2. work' = [work EXCEPT ![k] = Free] /\ UNCHANGED cycle
    BY <1>8, Zenon DEF FailBillingFinalization, WorkerDies
  <2>3. fin' = [fin EXCEPT ![c].state = st]
    <3>1. fin = [fin EXCEPT ![c].state = "collecting_facts"]
      BY <2>1, Zenon DEF Types
    <3> QED
      BY <1>8, <2>1, <3>1, Zenon DEF FailBillingFinalization, WorkerDies
  <2>4. st \in {"collecting_facts", "failed", "blocked"}
    BY Zenon
  <2> HIDE DEF c, st
  <2>5. /\ fin' \in [Times -> [state : FinStates, attempts : Nat]]
        /\ work' \in [Workers -> WorkRows]
        /\ fin'[c].state = st /\ \A d \in Times : d # c => fin'[d] = fin[d]
        /\ \A l \in Workers : work'[l].cycle # None => fin'[work'[l].cycle].state = "collecting_facts"
        /\ \A l, m \in Workers : work'[l].cycle # None /\ work'[l].cycle = work'[m].cycle => l = m
        /\ \A l \in Workers : work'[l].listed => work'[l].cycle # None
    <3>1. c = work[k].cycle /\ st \in FinStates \ {"none", "pending"}
      BY <2>4, Zenon DEF c, FinStates
    <3> QED
      BY <1>6, <2>1, <2>2, <2>3, <3>1, Zenon
  <2>6. Types'
    BY <1>1, <2>2, <2>5, Zenon DEF Types
  <2>7. ClosedHasFinalization'
    BY <2>1, <2>2, <2>4, <2>5, ZenonT(30) DEF Finals, ClosedHasFinalization
  <2>8. \A d \in Times : (IsOpen(d)' \/ ~Exists(d)') => fin'[d].state = "none"
    <3>1. \A d \in Times : cycle[d].status \in {"open", "none"} => fin[d].state = "none"
      BY Zenon DEF Finals, IsOpen, Exists
    <3>2. \A d \in Times : cycle[d].status \in {"open", "none"} => fin'[d].state = "none"
      BY ONLY <2>1, <2>5, <3>1, Zenon
    <3>3. cycle' = cycle
      BY <2>2, Zenon
    <3> QED
      BY ONLY <3>2, <3>3, Zenon DEF IsOpen, Exists
  <2>9. Finals'
    BY ONLY <2>5, <2>7, <2>8, Zenon DEF Finals
  <2> QED
    BY <1>3, <2>2, <2>6, <2>9, Zenon
<1> QED
  BY <1>4, <1>5, <1>7, <1>8, Zenon DEF Worker

\* The invariant is inductive.
THEOREM Invariance == Spec => []IInv
<1>1. Init => IInv
  <2> SUFFICES ASSUME Init PROVE IInv
    BY Zenon
  <2> USE CyclesAssumption DEF Init
  <2>1. Types
    <3>1. 0 \in Times
      BY SMTT(30) DEF Times
    <3>2. NoCycle \in CycleRows /\ Idle \in ReserveRows /\ Free \in WorkRows
      BY Zenon DEF NoCycle, CycleRows, Idle, ReserveRows, Free, WorkRows
    <3>3. [state |-> "none", attempts |-> 0] \in [state : FinStates, attempts : Nat]
      BY Zenon DEF FinStates
    <3>4. [state |-> "none", cycle |-> None, start |-> None] \in WindowRows
      BY Zenon DEF WindowRows
    <3> QED
      BY <3>1, <3>2, <3>3, <3>4, Zenon DEF Types
  <2>2. \A c \in Times : ~Exists(c) /\ ~IsOpen(c) /\ cycle[c].cadence = "none" /\ fin[c].state = "none"
    BY Zenon DEF NoCycle, Exists, IsOpen
  <2>3. Chain /\ Days
    BY <2>2, Zenon DEF Chain, Days, AnniversaryOfPhase
  <2>4. Finals
    BY <2>2, Zenon DEF Finals, ClosedHasFinalization, Free, NoCycle
  <2>5. Attached
    BY Zenon DEF Attached, Idle
  <2> QED
    BY <2>1, <2>3, <2>4, <2>5, Zenon DEF IInv
<1>2. IInv /\ [Next]_vars => IInv'
  BY TableSteps, WindowSteps, WorkerSteps, Zenon DEF Next, Reserve
<1> QED
  BY <1>1, <1>2, PTL DEF Spec

\* The chain of cycles has no gap, however late the rollover runs.
THEOREM Gapless == Spec => []NoGap
<1>1. IInv => NoGap
  BY Zenon DEF IInv, Chain, NoGap, Exists, IsOpen
<1> QED
  BY Invariance, <1>1, PTL

\* Every closed cycle has its finalization, which finalizes it.
THEOREM Finalized == Spec => []ClosedHasFinalization
BY Invariance, PTL DEF IInv, Finals

\* A window is in the cycle of its start, but for a split.
THEOREM InCycle == Spec => []WindowInCycle
<1>1. IInv => WindowInCycle
  BY Zenon DEF IInv, Attached, Holds, WindowInCycle
<1> QED
  BY Invariance, <1>1, PTL

\* Paid cycles keep the day of the phase, however many events announce it.
THEOREM Anniversary == Spec => []AnniversaryOfPhase
BY Invariance, PTL DEF IInv, Days

-----------------------------------------------------------------------------
(* The documents.                                                          *)

\* A finalized cycle may have a document; documents carry the numbers up to the
\* last one, each once.
Documents ==
  /\ number \in Nat /\ doc \in [Times -> [number : Nat, lines : SUBSET Windows]]
  /\ \A c \in Times : doc[c] # NoDocument =>
       cycle[c].status = "finalized" /\ doc[c].number \in 1 .. number
  /\ \A n \in 1 .. number : \E c \in Times : doc[c] # NoDocument /\ doc[c].number = n
  /\ \A c, d \in Times : doc[c] # NoDocument /\ doc[d] # NoDocument
                          /\ doc[c].number = doc[d].number => c = d

\* The worker k will put the window w on the document of the cycle of w.
Covers(k, w) ==
  work[k].listed /\ work[k].cycle = win[w].cycle => w \in work[k].todo \cup work[k].read

\* A window is reserved once, and one that was settled in time is billed, or
\* will be by the worker that holds its cycle.
Billed ==
  /\ early \subseteq Windows
  /\ \A w \in Windows : res[w].pc # "idle" => win[w].state = "none"
  /\ \A w \in early : win[w].state \in {"settled", "receivable"}
  /\ \A w \in early, k \in Workers : Covers(k, w)
  /\ EarlyUsageIsBilled

\* Only the worker that issues a document finalizes a cycle.
LEMMA MovesFinalize ==
  ASSUME Types, Moves, NEW c \in Times
  PROVE  cycle'[c].status = "finalized" <=> cycle[c].status = "finalized"
<1>1. CASE Same
  BY <1>1, Zenon DEF Same
<1>2. ASSUME NEW s \in Times, Born(s) PROVE cycle'[c].status = "finalized" <=> cycle[c].status = "finalized"
  BY <1>2, Zenon DEF Born, Exists
<1>3. ASSUME NEW d \in Times, NEW s \in Times, Turns(d, s)
      PROVE  cycle'[c].status = "finalized" <=> cycle[c].status = "finalized"
  BY <1>3, Zenon DEF Turns, Exists, IsOpen
<1> QED
  BY <1>1, <1>2, <1>3, Zenon DEF Moves

\* What the steps that issue nothing have to show.
LEMMA NothingIssued ==
  ASSUME Documents, Billed, Types, Attached, UNCHANGED <<doc, number, early>>,
         \A c \in Times : cycle'[c].status = "finalized" <=> cycle[c].status = "finalized",
         \A w \in Windows : res'[w].pc # "idle" => win'[w].state = "none",
         \A w \in early : win'[w] = win[w],
         \A w \in early, k \in Workers : Covers(k, w)'
  PROVE  Documents' /\ Billed'
<1>1. Documents'
  BY Zenon DEF Documents
<1>2. \A w \in early : win[w].cycle \in Times
  BY Zenon DEF Billed, Attached, Holds
<1>3. EarlyUsageIsBilled'
  BY <1>2 DEF Billed, EarlyUsageIsBilled
<1> QED
  BY <1>1, <1>3, Zenon DEF Billed

\* The issue of a document takes the next number and every window that was
\* settled in time.
LEMMA Issues ==
  ASSUME IInv, Documents, Billed, NEW k \in Workers, IssueFinalizationDocument(k)
  PROVE  Documents' /\ Billed'
<1> DEFINE c == work[k].cycle
           new == [number |-> number + 1, lines |-> work[k].read]
<1>1. c \in Times /\ fin[c].state = "collecting_facts" /\ work[k].listed /\ work[k].todo = {}
  BY Zenon DEF IInv, IssueFinalizationDocument, Finals, Types, WorkRows
<1>2. cycle[c].status = "closed_for_usage"
  <2>1. cycle[c].status \in {"none", "open", "closed_for_usage", "finalized"}
    BY <1>1, Zenon DEF IInv, Types, CycleRows
  <2> QED
    BY <1>1, <2>1, Zenon DEF IInv, Finals, ClosedHasFinalization, IsOpen, Exists
<1>3. doc[c] = NoDocument
  BY <1>1, <1>2, Zenon DEF Documents
<1>4. /\ UNCHANGED <<win, res, early>> /\ work' = [work EXCEPT ![k] = Free]
      /\ \A d \in Times : cycle'[d].status = IF d = c THEN "finalized" ELSE cycle[d].status
  BY <1>1, <1>2, ZenonT(30) DEF IssueFinalizationDocument, IInv, Types, CycleRows
<1>5. \/ CustomerVisible(work[k]) /\ number' = number + 1 /\ doc' = [doc EXCEPT ![c] = new]
      \/ ~CustomerVisible(work[k]) /\ UNCHANGED <<number, doc>>
  BY <1>3, Zenon DEF IssueFinalizationDocument
<1>6. \A l \in Workers : l # k => work'[l] = work[l]
  BY <1>4, Zenon DEF IInv, Types
<1>7. work'[k].listed = FALSE
  BY <1>4, Zenon DEF Free, IInv, Types
<1>8. new \in [number : Nat, lines : SUBSET Windows] /\ new # NoDocument
      /\ new.number = number + 1 /\ new.lines = work[k].read /\ number \in Nat
  <2>1. number \in Nat /\ work[k].read \in SUBSET Windows
    BY Zenon DEF Documents, IInv, Types, WorkRows
  <2> QED
    BY <2>1 DEF NoDocument
<1> HIDE DEF c, new
<1>9. Documents'
  <2>1. CASE UNCHANGED <<number, doc>>
    BY <1>1, <1>2, <1>4, <2>1, ZenonT(30) DEF Documents
  <2>2. CASE number' = number + 1 /\ doc' = [doc EXCEPT ![c] = new]
    <3>1. /\ doc'[c] = new /\ doc' \in [Times -> [number : Nat, lines : SUBSET Windows]]
          /\ \A d \in Times : d # c => doc'[d] = doc[d]
      BY <1>1, <1>8, <2>2, Zenon DEF Documents
    <3>2. \A d \in Times : doc'[d] # NoDocument =>
            cycle'[d].status = "finalized" /\ doc'[d].number \in 1 .. number'
      BY <1>1, <1>4, <1>8, <2>2, <3>1 DEF Documents
    <3>3. \A n \in 1 .. number' : \E d \in Times : doc'[d] # NoDocument /\ doc'[d].number = n
      <4> SUFFICES ASSUME NEW n \in 1 .. number'
                   PROVE  \E d \in Times : doc'[d] # NoDocument /\ doc'[d].number = n
        BY Zenon
      <4>1. CASE n = number + 1
        BY <1>1, <1>8, <3>1, <4>1, Zenon
      <4>2. CASE n # number + 1
        <5>1. n \in 1 .. number
          BY <1>8, <2>2, <4>2
        <5>2. PICK d \in Times : doc[d] # NoDocument /\ doc[d].number = n
          BY <5>1, Zenon DEF Documents
        <5> QED
          BY <1>3, <3>1, <5>2, Zenon DEF c
      <4> QED
        BY <4>1, <4>2, Zenon
    <3>4. \A d, e \in Times : doc'[d] # NoDocument /\ doc'[e] # NoDocument
                              /\ doc'[d].number = doc'[e].number => d = e
      BY <1>8, <3>1 DEF Documents
    <3> QED
      BY <1>8, <2>2, <3>1, <3>2, <3>3, <3>4, Zenon DEF Documents
  <2> QED
    BY <1>5, <2>1, <2>2, Zenon
<1>10. Billed'
  <2>1. \A w \in early, l \in Workers : Covers(l, w)'
    BY <1>4, <1>6, <1>7, ZenonT(30) DEF Billed, Covers
  <2>2. \A w \in early : win[w].cycle \in Times
    BY Zenon DEF Billed, IInv, Attached, Holds
  <2>3. ASSUME NEW w \in early, win[w].cycle = c PROVE w \in doc'[c].lines
    <3>1. w \in work[k].read
      BY <1>1, <2>3, Zenon DEF Billed, Covers, c
    <3>2. CustomerVisible(work[k])
      BY <3>1, Zenon DEF CustomerVisible
    <3> QED
      BY <1>1, <1>5, <1>8, <3>1, <3>2, Zenon DEF Documents
  <2>4. ASSUME NEW w \in early, win[w].cycle # c, cycle'[win[w].cycle].status = "finalized"
        PROVE  w \in doc'[win[w].cycle].lines
    <3>1. w \in doc[win[w].cycle].lines
      BY <1>4, <2>2, <2>4, Zenon DEF Billed, EarlyUsageIsBilled
    <3> QED
      BY <1>5, <2>2, <2>4, <3>1, Zenon DEF Documents
  <2>5. EarlyUsageIsBilled'
    BY <1>4, <2>3, <2>4, Zenon DEF EarlyUsageIsBilled
  <2> QED
    BY <1>4, <2>1, <2>5, Zenon DEF Billed
<1> QED
  BY <1>9, <1>10, Zenon

\* A window that is settled while its cycle is open has no worker to read it yet.
LEMMA Settles ==
  ASSUME IInv, Documents, Billed, NEW w \in Windows, EndWindow(w)
  PROVE  Documents' /\ Billed'
<1>1. PICK st \in {"settled", "receivable", "voided"} :
        /\ win' = [win EXCEPT ![w].state = st]
        /\ early' = IF st # "voided" /\ IsOpen(win[w].cycle) THEN early \cup {w} ELSE early
  BY ZenonT(30) DEF EndWindow
<1>2. win[w].state = "reserved" /\ UNCHANGED <<cycle, doc, number, res, work>>
  BY Zenon DEF EndWindow
<1>3. /\ win'[w].state = st /\ \A v \in Windows : win'[v].cycle = win[v].cycle
      /\ \A v \in Windows : v # w => win'[v] = win[v]
  BY <1>1, Zenon DEF IInv, Types, WindowRows
<1>4. w \notin early /\ res[w].pc = "idle"
  BY <1>2, Zenon DEF Billed
<1>5. win[w].cycle \in Times
  BY <1>2, Zenon DEF IInv, Attached, Holds
<1>6. \A v \in early' : v \in early \/ (v = w /\ st \in {"settled", "receivable"} /\ IsOpen(win[w].cycle))
  BY <1>1, Zenon
<1>7. ASSUME IsOpen(win[w].cycle), NEW k \in Workers PROVE work[k].cycle # win[w].cycle
  <2>1. fin[win[w].cycle].state = "none"
    BY <1>5, <1>7, Zenon DEF IInv, Finals
  <2>2. work[k].cycle # None => fin[work[k].cycle].state = "collecting_facts"
    BY Zenon DEF IInv, Finals
  <2>3. win[w].cycle # None
    BY <1>5, CyclesAssumption DEF Times
  <2> QED
    BY <2>1, <2>2, <2>3, Zenon
<1>8. Documents'
  BY <1>2, Zenon DEF Documents
<1>9. \A v \in early' : v \in Windows /\ win'[v].state \in {"settled", "receivable"}
  BY <1>3, <1>4, <1>6, Zenon DEF Billed
<1>10. \A v \in early', k \in Workers : Covers(k, v)'
  BY <1>2, <1>3, <1>6, <1>7, <1>9 DEF Billed, Covers
<1>11. EarlyUsageIsBilled'
  BY <1>2, <1>3, <1>6, <1>9, Zenon DEF Billed, EarlyUsageIsBilled, IsOpen
<1>12. \A v \in Windows : res'[v].pc # "idle" => win'[v].state = "none"
  BY <1>2, <1>3, <1>4, Zenon DEF Billed
<1> QED
  BY <1>8, <1>9, <1>10, <1>11, <1>12, Zenon DEF Billed

\* A worker reads every window of its cycle that was settled in time.
LEMMA Reads ==
  ASSUME IInv, Documents, Billed, NEW k \in Workers,
         \/ \E c \in Times : ClaimBillingFinalization(k, c)
         \/ ListStatementWindows(k)
         \/ \E w \in Windows : LoadStatementWindow(k, w)
         \/ FailBillingFinalization(k)
         \/ WorkerDies(k)
  PROVE  Documents' /\ Billed'
<1>1. UNCHANGED <<cycle, doc, number, win, res, early>>
  BY ZenonT(30) DEF ClaimBillingFinalization, ListStatementWindows, LoadStatementWindow,
                    FailBillingFinalization, WorkerDies
<1>2. \A l \in Workers : l # k => work'[l] = work[l]
  BY ZenonT(30) DEF ClaimBillingFinalization, ListStatementWindows, LoadStatementWindow,
                    FailBillingFinalization, WorkerDies, IInv, Types
<1>3. ASSUME NEW v \in early PROVE Covers(k, v)'
  <2>1. v \in Windows /\ win[v].state \in {"settled", "receivable"} /\ Covers(k, v)
    BY Zenon DEF Billed
  <2>2. work \in [Workers -> WorkRows]
    BY Zenon DEF IInv, Types
  <2>3. CASE \/ \E c \in Times : ClaimBillingFinalization(k, c)
             \/ FailBillingFinalization(k) \/ WorkerDies(k)
    <3>1. \/ \E c \in Times : work[k] = Free /\ work' = [work EXCEPT ![k].cycle = c]
          \/ work' = [work EXCEPT ![k] = Free]
      BY <2>3, Zenon DEF ClaimBillingFinalization, FailBillingFinalization, WorkerDies
    <3>2. work'[k].listed = FALSE
      BY <2>2, <3>1 DEF Free, WorkRows
    <3> QED
      BY <3>2, Zenon DEF Covers
  <2>4. CASE ListStatementWindows(k)
    <3>1. /\ work'[k].cycle = work[k].cycle
          /\ work'[k].todo = {w \in Windows : win[w].cycle = work[k].cycle /\ win[w].state \in Live}
      BY <2>2, <2>4, Zenon DEF ListStatementWindows, WorkRows
    <3> QED
      BY <1>1, <2>1, <3>1, Zenon DEF Covers, Live
  <2>5. ASSUME NEW w \in Windows, LoadStatementWindow(k, w) PROVE Covers(k, v)'
    <3>1. /\ work'[k].cycle = work[k].cycle /\ work'[k].listed = work[k].listed
          /\ work'[k].todo = work[k].todo \ {w}
          /\ work'[k].read = IF win[w].state \in {"settled", "receivable"}
                             THEN work[k].read \cup {w} ELSE work[k].read
      <4> DEFINE read == IF win[w].state \in {"settled", "receivable"}
                         THEN work[k].read \cup {w} ELSE work[k].read
                 due == work[k].due \/ win[w].state = "receivable"
                 open == work[k].open \/ win[w].state = "reserved"
                 row == [work[k] EXCEPT !.todo = @ \ {w}, !.read = read, !.due = due, !.open = open]
      <4>1. work'[k] = row
        BY <2>2, <2>5, Zenon DEF LoadStatementWindow
      <4>2. work[k] \in WorkRows
        BY <2>2, Zenon
      <4> HIDE DEF read, due, open
      <4>3. /\ row.cycle = work[k].cycle /\ row.listed = work[k].listed
            /\ row.todo = work[k].todo \ {w} /\ row.read = read
        BY ONLY <4>2, ZenonT(40) DEF WorkRows
      <4> HIDE DEF row
      <4> QED
        BY <4>1, <4>3, Zenon DEF read
    <3> QED
      BY <1>1, <2>1, <3>1, Zenon DEF Covers
  <2> QED
    BY <2>3, <2>4, <2>5, Zenon
<1>4. \A v \in early, l \in Workers : Covers(l, v)'
  BY <1>1, <1>2, <1>3, Zenon DEF Billed, Covers
<1> QED
  BY <1>1, <1>4, NothingIssued, Zenon DEF IInv, Billed

\* The two are inductive relative to IInv.
THEOREM Billing == Spec => [](Documents /\ Billed)
<1>1. Init => Documents /\ Billed
  <2> SUFFICES ASSUME Init PROVE Documents /\ Billed
    BY Zenon
  <2>1. number = 0 /\ \A c \in Times : doc[c] = NoDocument
    BY Zenon DEF Init
  <2>2. doc \in [Times -> [number : Nat, lines : SUBSET Windows]]
    BY Zenon DEF Init, NoDocument
  <2>3. Documents
    BY <2>1, <2>2 DEF Documents
  <2>4. early = {} /\ \A w \in Windows : res[w].pc = "idle"
    BY Zenon DEF Init, Idle
  <2> QED
    BY <2>3, <2>4, Zenon DEF Billed, EarlyUsageIsBilled
<1>2. IInv /\ Documents /\ Billed /\ [Next]_vars => Documents' /\ Billed'
  <2> SUFFICES ASSUME IInv, Documents, Billed, [Next]_vars PROVE Documents' /\ Billed'
    BY Zenon
  <2>1. ASSUME UNCHANGED <<doc, number, early, work>>,
               \A c \in Times : cycle'[c].status = "finalized" <=> cycle[c].status = "finalized",
               \A w \in early : win'[w] = win[w],
               \A w \in Windows : res'[w].pc # "idle" => win'[w].state = "none"
        PROVE  Documents' /\ Billed'
    <3>1. \A w \in early, k \in Workers : Covers(k, w)'
      BY <2>1, Zenon DEF Billed, Covers
    <3> QED
      BY <2>1, <3>1, NothingIssued, Zenon DEF IInv
  <2>2. CASE ApplyDueBillingWork \/ EnsureOpenBillingCycle
             \/ (\E w \in Windows : ReserveDue(w)) \/ (\E h \in Handlers : ActivateCommit(h))
    <3>1. Moves
      BY <2>2, TableSteps, Zenon
    <3>2. UNCHANGED <<doc, number, early, work, win>>
      BY <2>2, ZenonT(30) DEF ApplyDueBillingWork, EnsureOpenBillingCycle, ReserveDue, ActivateCommit
    <3>3. \/ res' = res
          \/ \E w \in Windows : win[w].state = "none" /\ res' = [res EXCEPT ![w].pc = "ensured"]
      BY <2>2, ZenonT(30) DEF ApplyDueBillingWork, EnsureOpenBillingCycle, ReserveDue, ActivateCommit
    <3>4. \A v \in Windows : res'[v].pc # "idle" => win'[v].state = "none"
      BY <3>2, <3>3, Zenon DEF Billed, IInv, Types
    <3>5. \A c \in Times : cycle'[c].status = "finalized" <=> cycle[c].status = "finalized"
      BY <3>1, MovesFinalize, Zenon DEF IInv
    <3> QED
      BY <2>1, <3>2, <3>4, <3>5, Zenon
  <2>3. CASE Tick \/ (\E h \in Handlers : ActivateBegin(h)) \/ UNCHANGED vars
    <3>1. UNCHANGED <<doc, number, early, work, win, res, cycle>>
      BY <2>3, ZenonT(30) DEF Tick, ActivateBegin, vars
    <3> QED
      BY <2>1, <3>1, Zenon DEF Billed
  <2>4. ASSUME NEW w \in Windows, ReserveBegin(w) \/ ReserveLocked(w) \/ ReserveEnd(w)
        PROVE  Documents' /\ Billed'
    <3>1. UNCHANGED <<doc, number, early, work, cycle>> /\ res[w].pc # "idle"
          /\ (UNCHANGED win \/ \E r : win' = [win EXCEPT ![w] = r] /\ res' = [res EXCEPT ![w] = Idle])
      BY <2>4, ZenonT(30) DEF ReserveBegin, ReserveLocked, ReserveEnd
    <3>2. \A v \in Windows : v # w => res'[v] = res[v]
      BY <2>4, ZenonT(30) DEF ReserveBegin, ReserveLocked, ReserveEnd, IInv, Types
    <3>3. w \notin early /\ win[w].state = "none"
      BY <3>1, Zenon DEF Billed
    <3>4. \A v \in Windows : v # w => win'[v] = win[v]
      BY <3>1, Zenon DEF IInv, Types
    <3>5. res'[w].pc # "idle" => win'[w].state = "none"
      BY <3>1, <3>3 DEF Idle, IInv, Types
    <3> QED
      BY <2>1, <3>1, <3>2, <3>3, <3>4, <3>5, ZenonT(30) DEF Billed
  <2> QED
    BY <2>2, <2>3, <2>4, Settles, Reads, Issues, Zenon DEF Next, Reserve, Worker
<1> QED
  BY Invariance, <1>1, <1>2, PTL DEF Spec

\* Usage settled while its cycle was open is on the cycle's document.
THEOREM EarlyBilled == Spec => []EarlyUsageIsBilled
BY Billing, PTL DEF Billed

\* The numbers that were allocated are those of the documents.
THEOREM Numbers == Spec => []GaplessNumbers
<1>1. Documents => GaplessNumbers
  BY DEF Documents, GaplessNumbers
<1> QED
  BY Billing, <1>1, PTL
=============================================================================
