------------------------ MODULE BillingLedgerProofs ------------------------
(***************************************************************************)
(* The safety properties of BillingLedger for any number of grants,        *)
(* windows, threads, attempts and faults.                                  *)
(***************************************************************************)
EXTENDS BillingLedger, FunctionTheorems, FiniteSetTheorems, TLAPS

(* The funding arithmetic, for every finite set of grants.                  *)

\* The units a function gives a finite set are finitely many, so a sum of
\* charge units is a natural number.
LEMMA SumType ==
    ASSUME NEW S, IsFiniteSet(S), NEW f
    PROVE  IsFiniteSet(UnitsOf(S, f)) /\ SumOf(S, f) \in Nat
<1>1. IsFiniteSet(1..MaxAmount)
  BY FS_Interval, FundingAssumption
<1>2. IsFiniteSet(S \X (1..MaxAmount))
  BY <1>1, FS_Product, Zenon
<1>3. UnitsOf(S, f) \in SUBSET (S \X (1..MaxAmount))
  BY Zenon DEF UnitsOf
<1>4. IsFiniteSet(UnitsOf(S, f))
  BY <1>2, <1>3, FS_Subset, Zenon
<1> QED
  BY <1>4, FS_CardinalityType, Zenon DEF SumOf

\* Nothing sums to zero.
LEMMA SumEmpty == ASSUME NEW f PROVE SumOf({}, f) = 0
<1>1. UnitsOf({}, f) = {}
  BY Zenon DEF UnitsOf
<1> QED
  BY <1>1, FS_EmptySet, Zenon DEF SumOf

\* The sum over one owner is that owner's amount.
LEMMA SumSingleton ==
    ASSUME NEW x, NEW f, f[x] \in Amounts
    PROVE  SumOf({x}, f) = f[x]
<1> DEFINE n == f[x]
           b == [i \in 1..n |-> <<x, i>>]
<1>1. n \in Nat /\ n <= MaxAmount /\ MaxAmount \in Nat
  BY FundingAssumption DEF Amounts
<1>2. UnitsOf({x}, f) = {<<x, i>> : i \in 1..n}
  BY <1>1 DEF UnitsOf
<1>3. b \in Bijection(1..n, UnitsOf({x}, f))
  BY <1>1, <1>2, Zenon DEF Bijection, Injection, Surjection, IsInjective
<1>4. IsFiniteSet(1..n) /\ Cardinality(1..n) = n
  <2> HIDE DEF n
  <2>1. 1 \in Int /\ n \in Int
    BY <1>1
  <2>2. Cardinality(1..n) = IF 1 > n THEN 0 ELSE n - 1 + 1
    BY <2>1, FS_Interval, Zenon
  <2> QED
    BY <1>1, <2>1, <2>2, FS_Interval
<1>5. ExistsBijection(1..n, UnitsOf({x}, f))
  BY <1>3, Zenon DEF ExistsBijection
<1> QED
  BY <1>4, <1>5, FS_Bijection, Zenon DEF SumOf

\* Sums over disjoint sets add up.
LEMMA SumUnion ==
    ASSUME NEW S, NEW T, IsFiniteSet(S), IsFiniteSet(T), S \cap T = {}, NEW f
    PROVE  SumOf(S \cup T, f) = SumOf(S, f) + SumOf(T, f)
<1>1. UnitsOf(S \cup T, f) = UnitsOf(S, f) \cup UnitsOf(T, f)
  BY Zenon DEF UnitsOf
<1>2. UnitsOf(S, f) \cap UnitsOf(T, f) = {}
  BY Zenon DEF UnitsOf
<1>3. IsFiniteSet(UnitsOf(S, f)) /\ IsFiniteSet(UnitsOf(T, f))
  BY SumType, Zenon
<1>4. SumOf(S, f) \in Nat /\ SumOf(T, f) \in Nat
  BY SumType, Zenon
<1> DEFINE A == UnitsOf(S, f)
           B == UnitsOf(T, f)
<1>5. Cardinality(A \cup B) = Cardinality(A) + Cardinality(B) - Cardinality(A \cap B)
  BY <1>3, FS_Union, Zenon
<1>6. Cardinality(A \cap B) = 0
  BY <1>2, FS_EmptySet, Zenon
<1>7. /\ SumOf(S \cup T, f) = Cardinality(A \cup B)
      /\ SumOf(S, f) = Cardinality(A)
      /\ SumOf(T, f) = Cardinality(B)
  BY <1>1, Zenon DEF SumOf
<1> HIDE DEF A, B
<1> QED
  BY <1>4, <1>5, <1>6, <1>7

\* One more owner adds its own amount.
LEMMA SumAdd ==
    ASSUME NEW S, IsFiniteSet(S), NEW x, x \notin S, NEW f, f[x] \in Amounts
    PROVE  SumOf(S \cup {x}, f) = SumOf(S, f) + f[x]
<1>1. IsFiniteSet({x}) /\ S \cap {x} = {}
  BY FS_Singleton, Zenon
<1> QED
  BY <1>1, SumUnion, SumSingleton

\* The sum over a set depends on the amounts of its members only.
LEMMA SumCongruence ==
    ASSUME NEW S, NEW f, NEW h, \A x \in S : f[x] = h[x]
    PROVE  SumOf(S, f) = SumOf(S, h)
<1>1. UnitsOf(S, f) = UnitsOf(S, h)
  BY Zenon DEF UnitsOf
<1> QED
  BY <1>1, Zenon DEF SumOf

\* fundReservationTx and settleWindowLedgerPayloadTx take from a source at
\* most what it has and at most what is asked for in total, and never a
\* negative amount.
LEMMA WaterfallType ==
    ASSUME NEW cap, \A s \in Sources : cap[s] \in Nat, NEW amount \in Amounts
    PROVE  /\ Waterfall(cap, amount) \in [Sources -> Amounts]
           /\ \A s \in Sources : Waterfall(cap, amount)[s] <= cap[s]
<1> SUFFICES ASSUME NEW s \in Sources
             PROVE  Waterfall(cap, amount)[s] \in Amounts /\ Waterfall(cap, amount)[s] <= cap[s]
  BY Zenon DEF Waterfall
<1> DEFINE left == amount - SumOf(Before(s), cap)
<1>1. IsFiniteSet(Before(s))
  <2>1. Before(s) \in SUBSET Grants
    BY Zenon DEF Before
  <2> QED
    BY <2>1, FS_Subset, FundingAssumption, Zenon
<1>2. SumOf(Before(s), cap) \in Nat
  BY <1>1, SumType, Zenon
<1>3. Waterfall(cap, amount)[s] = IF left <= 0 THEN 0 ELSE IF left < cap[s] THEN left ELSE cap[s]
  BY Zenon DEF Waterfall
<1> HIDE DEF Waterfall
<1> QED
  BY <1>2, <1>3, FundingAssumption DEF Amounts

-----------------------------------------------------------------------------
(* Types.                                                                  *)

\* A record of the thread table after some of its fields were set.
LEMMA ThreadFields ==
    ASSUME TypeOK, NEW t \in Threads
    PROVE  /\ thread[t] \in ThreadStates
           /\ thread[t].pc \in Steps
           /\ thread[t].caller \in {"none", "settle", "deposit", "sweep"}
           /\ thread[t].target \in Commands \cup {None}
           /\ thread[t].attempt \in 0..MaxAttempts
           /\ thread[t].bill \in Amounts
           /\ thread[t].want \in Windows \cup {None}
           /\ thread[t].todo \in SUBSET Grants
           /\ thread[t].listed \in SUBSET Grants
           /\ thread[t].balance \in [Grants -> Int]
BY Zenon DEF TypeOK, ThreadStates

\* An idle thread record is well typed.
LEMMA IdleType == Idle \in ThreadStates
<1>1. 0 \in 0..MaxAttempts /\ 0 \in Amounts /\ 0 \in Int
  BY LedgerAssumption, FundingAssumption DEF Amounts
<1> QED
  BY <1>1, ZenonT(40) DEF Idle, ThreadStates, Steps

\* The updates of a thread record that start or continue an operation.
LEMMA ThreadUpdates ==
    ASSUME NEW r \in ThreadStates
    PROVE  /\ \A g \in Grants : [r EXCEPT !.pc = "entitle", !.todo = {g}] \in ThreadStates
           /\ \A w \in Windows \cup {None}, todo \in SUBSET Grants :
                [r EXCEPT !.pc = "entitle", !.want = w, !.todo = todo] \in ThreadStates
           /\ \A w \in Windows, bill \in Amounts :
                [r EXCEPT !.pc = "prepare", !.caller = "settle", !.target = w, !.bill = bill]
                    \in ThreadStates
           /\ \A c \in Commands, step \in Steps :
                [r EXCEPT !.caller = "sweep", !.target = c, !.pc = step] \in ThreadStates
           /\ \A open \in SUBSET Grants, bal \in [Grants -> Int] :
                [r EXCEPT !.pc = "authorize", !.listed = open, !.balance = bal] \in ThreadStates
           /\ [r EXCEPT !.pc = "entitle", !.caller = "none", !.target = None, !.attempt = 0]
                    \in ThreadStates
<1>1. \A g \in Grants : [r EXCEPT !.pc = "entitle", !.todo = {g}] \in ThreadStates
  BY Zenon DEF ThreadStates, Steps
<1>2. \A w \in Windows \cup {None}, todo \in SUBSET Grants :
        [r EXCEPT !.pc = "entitle", !.want = w, !.todo = todo] \in ThreadStates
  BY Zenon DEF ThreadStates, Steps
<1>3. \A w \in Windows, bill \in Amounts :
        [r EXCEPT !.pc = "prepare", !.caller = "settle", !.target = w, !.bill = bill]
            \in ThreadStates
  BY Zenon DEF ThreadStates, Steps, Commands
<1>4. \A c \in Commands, step \in Steps :
        [r EXCEPT !.caller = "sweep", !.target = c, !.pc = step] \in ThreadStates
  BY Zenon DEF ThreadStates
<1>5. \A open \in SUBSET Grants, bal \in [Grants -> Int] :
        [r EXCEPT !.pc = "authorize", !.listed = open, !.balance = bal] \in ThreadStates
  BY Zenon DEF ThreadStates, Steps
<1>6. 0 \in 0..MaxAttempts
  BY LedgerAssumption
<1>7. [r EXCEPT !.pc = "entitle", !.caller = "none", !.target = None, !.attempt = 0]
            \in ThreadStates
  BY <1>6, Zenon DEF ThreadStates, Steps
<1> QED
  BY <1>1, <1>2, <1>3, <1>4, <1>5, <1>7, Zenon

\* Moving a thread to another step keeps the thread table well typed.
LEMMA GotoType ==
    ASSUME TypeOK, NEW t \in Threads, NEW step \in Steps, Goto(t, step)
    PROVE  thread' \in [Threads -> ThreadStates]
<1>1. [thread[t] EXCEPT !.pc = step] \in ThreadStates
  BY ThreadFields, Zenon DEF ThreadStates
<1> QED
  BY <1>1, Zenon DEF Goto, TypeOK

\* The units that may be taken from a source are a natural number, and a grant
\* offers some only if its TigerBeetle balance was positive.
LEMMA AvailableType ==
    ASSUME TypeOK, NEW t \in Threads, thread[t].want \in Windows, NEW s \in Sources
    PROVE  /\ Available(t, s) \in Nat
           /\ (s \in Grants /\ Available(t, s) > 0) => thread[t].balance[s] > 0
<1>1. CASE s = Receivable
  BY <1>1, LedgerAssumption, FundingAssumption DEF Available, Amounts
<1>2. CASE s # Receivable
  <2>1. s \in Grants
    BY <1>2, Zenon DEF Sources
  <2>2. AuthorizedUsage(s) \in Nat
    BY SumType, LedgerAssumption, Zenon DEF AuthorizedUsage
  <2>3. thread[t].balance[s] \in Int
    BY <2>1, ThreadFields, Zenon
  <2> QED
    BY <1>2, <2>1, <2>2, <2>3 DEF Available
<1> QED
  BY <1>1, <1>2, Zenon

\* The settlement spreads the bill over the reserved legs.
LEMMA SettlementLegsType ==
    ASSUME TypeOK, NEW t \in Threads, NEW w \in Windows
    PROVE  Waterfall(reserved[w], thread[t].bill) \in [Sources -> Amounts]
<1>1. \A s \in Sources : reserved[w][s] \in Nat
  BY FundingAssumption DEF TypeOK, Amounts
<1>2. thread[t].bill \in Amounts
  BY ThreadFields, Zenon
<1> QED
  BY <1>1, <1>2, WaterfallType, Zenon

\* The reservation spreads the charge over the available units.
LEMMA ReservationLegsType ==
    ASSUME TypeOK, NEW t \in Threads, NEW w \in Windows, thread[t].want = w
    PROVE  LET cap == [s \in Sources |-> Available(t, s)]
           IN  /\ Waterfall(cap, Charge[w]) \in [Sources -> Amounts]
               /\ \A s \in Sources : Waterfall(cap, Charge[w])[s] <= Available(t, s)
<1> DEFINE cap == [s \in Sources |-> Available(t, s)]
<1>1. \A s \in Sources : cap[s] = Available(t, s) /\ cap[s] \in Nat
  BY AvailableType, Zenon
<1>2. Charge[w] \in Amounts
  BY LedgerAssumption, Zenon
<1> HIDE DEF cap
<1>3. /\ Waterfall(cap, Charge[w]) \in [Sources -> Amounts]
      /\ \A s \in Sources : Waterfall(cap, Charge[w])[s] <= cap[s]
  BY <1>1, <1>2, WaterfallType, Zenon
<1>4. \A s \in Sources : Waterfall(cap, Charge[w])[s] <= Available(t, s)
  BY <1>1, <1>3, Zenon
<1> QED
  BY <1>3, <1>4, Zenon DEF cap

\* Every step keeps the types.
LEMMA TypeStep ==
    ASSUME TypeOK, OutboxCoherent, Next
    PROVE  TypeOK'
<1> USE DEF TypeOK, Threads
<1>1. ASSUME NEW t \in Threads, NEW g \in Grants, PostGrantDeposit(t, g)
      PROVE  TypeOK'
  <2>1. grantState' \in [Grants -> GrantStates]
    BY <1>1, ZenonT(40) DEF PostGrantDeposit, GrantStates
  <2>2. cmdState' \in [Commands -> CommandStates] /\ UNCHANGED <<cmdAttempts, leaseHeld>>
    BY <1>1, ZenonT(40) DEF PostGrantDeposit, CreateLedgerCommand, CommandStates
  <2>3. thread' \in [Threads -> ThreadStates]
    <3>1. thread' = [thread EXCEPT ![t].pc = "lease", ![t].caller = "deposit",
                                   ![t].target = g, ![t].todo = @ \ {g}]
      BY <1>1, Zenon DEF PostGrantDeposit
    <3>2. thread[t] \in ThreadStates
      BY ThreadFields, Zenon
    <3>3. [thread[t] EXCEPT !.pc = "lease", !.caller = "deposit",
                            !.target = g, !.todo = @ \ {g}] \in ThreadStates
      BY <3>2, Zenon DEF ThreadStates, Steps, Commands
    <3> QED
      BY <3>1, <3>3, ZenonT(40)
  <2> QED
    BY <1>1, <2>1, <2>2, <2>3, ZenonT(40) DEF PostGrantDeposit, tbVars
<1>2. ASSUME NEW t \in Threads, EntitlementsEnsured(t)
      PROVE  TypeOK'
  BY <1>2, IdleType, Zenon DEF EntitlementsEnsured, Return, pgVars, cmdVars, tbVars
<1>3. ASSUME NEW t \in Threads, LeaseLedgerCommand(t)
      PROVE  TypeOK'
  <2> DEFINE c == thread[t].target
             n == IF cmdAttempts[c] < MaxAttempts THEN cmdAttempts[c] + 1 ELSE MaxAttempts
             step == IF c \in Grants THEN "accounts" ELSE "transfers"
  <2>1. c \in Commands
    BY <1>3, Zenon DEF LeaseLedgerCommand, OutboxCoherent, ThreadCoherent
  <2>2. n \in 0..MaxAttempts /\ step \in Steps
    BY <2>1, LedgerAssumption DEF Steps
  <2>3. /\ cmdState' = [cmdState EXCEPT ![c] = "in_progress"]
        /\ cmdAttempts' = [cmdAttempts EXCEPT ![c] = n]
        /\ leaseHeld' = [leaseHeld EXCEPT ![c] = TRUE]
        /\ thread' = [thread EXCEPT ![t].attempt = n, ![t].pc = step]
        /\ UNCHANGED <<pgVars, tbVars, faults>>
    BY <1>3, Zenon DEF LeaseLedgerCommand
  <2> HIDE DEF c, n, step
  <2>4. [thread[t] EXCEPT !.attempt = n, !.pc = step] \in ThreadStates
    BY <2>2, ThreadFields, ZenonT(40) DEF ThreadStates
  <2>5. thread' \in [Threads -> ThreadStates]
    BY <2>3, <2>4, Zenon
  <2> QED
    BY <2>1, <2>2, <2>3, <2>5, Zenon DEF CommandStates, pgVars, tbVars
<1>4. ASSUME NEW t \in Threads, LeaseRefused(t)
      PROVE  TypeOK'
  BY <1>4, GotoType, Zenon DEF LeaseRefused, Steps, pgVars, cmdVars, tbVars
<1>5. ASSUME NEW t \in Threads, CreateAccounts(t)
      PROVE  TypeOK'
  <2>1. thread' \in [Threads -> ThreadStates]
    BY <1>5, GotoType, Zenon DEF CreateAccounts, Steps
  <2>2. thread[t].target \in Grants
    BY <1>5, Zenon DEF CreateAccounts, OutboxCoherent, ThreadCoherent
  <2> QED
    BY <1>5, <2>1, <2>2, Zenon DEF CreateAccounts, pgVars, cmdVars
<1>6. ASSUME NEW t \in Threads, NEW c \in Commands, ApplyTransfers(c)
      PROVE  /\ applied' \subseteq Commands
             /\ credits' \in [Grants -> Nat]
             /\ debits' \in [Grants -> Nat]
  BY <1>6, LedgerAssumption, FundingAssumption DEF ApplyTransfers, Amounts, Sources
<1>7. ASSUME NEW t \in Threads, CreateTransfers(t)
      PROVE  TypeOK'
  <2>1. thread[t].target \in Commands
    BY <1>7, Zenon DEF CreateTransfers, OutboxCoherent, ThreadCoherent
  <2>2. thread' \in [Threads -> ThreadStates]
    BY <1>7, GotoType, Zenon DEF CreateTransfers, Steps
  <2> QED
    BY <1>6, <1>7, <2>1, <2>2, Zenon DEF CreateTransfers, pgVars, cmdVars
<1>8. ASSUME NEW t \in Threads, TransfersRefused(t)
      PROVE  TypeOK'
  BY <1>8, GotoType, Zenon DEF TransfersRefused, Steps, pgVars, cmdVars, tbVars
<1>9. ASSUME NEW t \in Threads, LedgerUnavailable(t)
      PROVE  TypeOK'
  <2>1. thread' \in [Threads -> ThreadStates]
    BY <1>9, GotoType, Zenon DEF LedgerUnavailable, Steps
  <2>2. faults' \in 0..MaxFaults
    BY <1>9, LedgerAssumption DEF LedgerUnavailable
  <2> QED
    BY <1>9, <2>1, <2>2, Zenon DEF LedgerUnavailable, pgVars, cmdVars, tbVars
<1>10. ASSUME NEW t \in Threads, AcknowledgementLost(t)
       PROVE  TypeOK'
  <2>1. thread[t].target \in Commands
    BY <1>10, Zenon DEF AcknowledgementLost, OutboxCoherent, ThreadCoherent
  <2>2. faults' \in 0..MaxFaults
    BY <1>10, LedgerAssumption DEF AcknowledgementLost
  <2>3. thread' \in [Threads -> ThreadStates]
    BY <1>10, GotoType, Zenon DEF AcknowledgementLost, Steps
  <2> QED
    BY <1>6, <1>10, <2>1, <2>2, <2>3, ZenonT(40) DEF AcknowledgementLost, pgVars, cmdVars
<1>11. ASSUME NEW t \in Threads, MarkLedgerCommandPosted(t)
       PROVE  TypeOK'
  BY <1>11, GotoType, Zenon DEF MarkLedgerCommandPosted, Steps, CommandStates, pgVars, tbVars
<1>12. ASSUME NEW t \in Threads, MarkLedgerCommandFailed(t)
       PROVE  TypeOK'
  <2>1. thread' \in [Threads -> ThreadStates]
    BY <1>12, GotoType, IdleType, Zenon DEF MarkLedgerCommandFailed, Return, Steps
  <2> QED
    BY <1>12, <2>1, Zenon DEF MarkLedgerCommandFailed, CommandStates, pgVars, tbVars
<1>13. ASSUME NEW t \in Threads, MarkGrantLedgerPostingFailed(t)
       PROVE  TypeOK'
  BY <1>13, IdleType, ZenonT(40) DEF MarkGrantLedgerPostingFailed, Return, GrantStates, cmdVars, tbVars
<1>14. ASSUME NEW t \in Threads, MarkGrantLedgerPostingPosted(t)
       PROVE  TypeOK'
  <2>1. [thread[t] EXCEPT !.pc = "entitle", !.caller = "none", !.target = None, !.attempt = 0]
            \in ThreadStates
    BY ThreadUpdates, Zenon
  <2>2. thread' \in [Threads -> ThreadStates]
    BY <1>14, <2>1, IdleType, Zenon DEF MarkGrantLedgerPostingPosted, Return
  <2> QED
    BY <1>14, <2>2, Zenon DEF MarkGrantLedgerPostingPosted, GrantStates, cmdVars, tbVars
<1>15. ASSUME NEW t \in Threads, MarkWindowSettlementPosted(t)
       PROVE  TypeOK'
  BY <1>15, IdleType, Zenon DEF MarkWindowSettlementPosted, Return, WindowStates, cmdVars, tbVars
<1>16. ASSUME NEW t \in Threads, HydrateGrantLedgerBalances(t)
       PROVE  TypeOK'
  <2> DEFINE open == {g \in Grants : grantState[g] # "absent"}
             bal == [g \in Grants |-> IF g \in open THEN credits[g] - debits[g] ELSE 0]
  <2>1. bal \in [Grants -> Int] /\ open \in SUBSET Grants
    OBVIOUS
  <2>2. \/ thread' = [thread EXCEPT ![t].pc = "authorize", ![t].listed = open, ![t].balance = bal]
        \/ thread' = [thread EXCEPT ![t] = Idle]
    BY <1>16, ZenonT(40) DEF HydrateGrantLedgerBalances, Return
  <2> HIDE DEF open, bal
  <2>3. [thread[t] EXCEPT !.pc = "authorize", !.listed = open, !.balance = bal] \in ThreadStates
    BY <2>1, ThreadUpdates, Zenon
  <2>4. thread' \in [Threads -> ThreadStates]
    BY <2>2, <2>3, IdleType, Zenon
  <2> QED
    BY <1>16, <2>4, Zenon DEF HydrateGrantLedgerBalances, pgVars, cmdVars, tbVars
<1>17. ASSUME NEW t \in Threads, ReserveWindow(t)
       PROVE  TypeOK'
  <2> DEFINE w == thread[t].want
             legs == Waterfall([s \in Sources |-> Available(t, s)], Charge[w])
  <2>1. w \in Windows
    BY <1>17, Zenon DEF ReserveWindow, OutboxCoherent, ThreadCoherent
  <2>2. legs \in [Sources -> Amounts]
    BY <2>1, ReservationLegsType, Zenon
  <2>3. \/ UNCHANGED pgVars
        \/ /\ windowState' = [windowState EXCEPT ![w] = "reserved"]
           /\ reserved' = [reserved EXCEPT ![w] = legs]
           /\ UNCHANGED <<grantState, posted>>
    BY <1>17, Zenon DEF ReserveWindow
  <2> HIDE DEF w, legs
  <2> QED
    BY <1>17, <2>1, <2>2, <2>3, IdleType, ZenonT(60)
       DEF ReserveWindow, Return, WindowStates, pgVars, cmdVars, tbVars
<1>18. ASSUME NEW t \in Threads, PrepareBillingWindowSettlement(t)
       PROVE  TypeOK'
  <2> DEFINE w == thread[t].target
             legs == Waterfall(reserved[w], thread[t].bill)
  <2>1. w \in Windows
    BY <1>18, Zenon DEF PrepareBillingWindowSettlement, OutboxCoherent, ThreadCoherent
  <2>2. legs \in [Sources -> Amounts]
    BY <2>1, SettlementLegsType, ZenonT(40)
  <2>3. /\ \/ UNCHANGED <<windowState, posted>>
           \/ /\ windowState' = [windowState EXCEPT ![w] = "settling"]
              /\ posted' = [posted EXCEPT ![w] = legs]
        /\ UNCHANGED cmdVars \/ CreateLedgerCommand(w)
        /\ Goto(t, "lease") \/ Goto(t, "complete")
    BY <1>18, Zenon DEF PrepareBillingWindowSettlement
  <2> HIDE DEF w, legs
  <2>4. cmdState' \in [Commands -> CommandStates] /\ UNCHANGED <<cmdAttempts, leaseHeld>>
    BY <2>1, <2>3, ZenonT(30) DEF CreateLedgerCommand, CommandStates, cmdVars
  <2>5. thread' \in [Threads -> ThreadStates]
    BY <2>3, GotoType, Zenon DEF Steps
  <2>6. windowState' \in [Windows -> WindowStates] /\ posted' \in [Windows -> [Sources -> Amounts]]
    BY <2>1, <2>2, <2>3, ZenonT(30) DEF WindowStates
  <2> QED
    BY <1>18, <2>4, <2>5, <2>6, ZenonT(40) DEF PrepareBillingWindowSettlement, tbVars
<1>19. ASSUME NEW t \in Requests, NEW g \in Grants, DepositCredits(t, g)
       PROVE  TypeOK'
  <2>1. [thread[t] EXCEPT !.pc = "entitle", !.todo = {g}] \in ThreadStates
    BY ThreadUpdates, Zenon
  <2> QED
    BY <1>19, <2>1, Zenon DEF DepositCredits, GrantStates, cmdVars, tbVars
<1>20. ASSUME NEW t \in Requests, NEW w \in Windows \cup {None}, EnsureCurrentEntitlements(t, w)
       PROVE  TypeOK'
  <2>1. grantState' \in [Grants -> GrantStates]
    BY <1>20, Zenon DEF EnsureCurrentEntitlements, GrantStates
  <2> DEFINE open == {g \in Grants : grantState'[g] \in {"pending", "retryable_failed"}}
  <2>2. thread' = [thread EXCEPT ![t].pc = "entitle", ![t].want = w, ![t].todo = open]
    BY <1>20, Zenon DEF EnsureCurrentEntitlements
  <2>3. open \in SUBSET Grants
    BY Zenon
  <2> HIDE DEF open
  <2>4. [thread[t] EXCEPT !.pc = "entitle", !.want = w, !.todo = open] \in ThreadStates
    BY <2>3, ThreadUpdates, Zenon
  <2>5. thread' \in [Threads -> ThreadStates]
    BY <2>2, <2>4, Zenon
  <2> QED
    BY <1>20, <2>1, <2>5, Zenon DEF EnsureCurrentEntitlements, cmdVars, tbVars
<1>21. ASSUME NEW t \in Requests, NEW w \in Windows, NEW actual \in 0..Charge[w] + 1,
              SettleWindow(t, w, actual)
       PROVE  TypeOK'
  <2> DEFINE billed == IF actual > Charge[w] THEN Charge[w] ELSE actual
  <2>1. billed \in Amounts
    BY LedgerAssumption, FundingAssumption, SMTT(30) DEF Amounts
  <2>2. thread' = [thread EXCEPT ![t].pc = "prepare", ![t].caller = "settle", ![t].target = w,
                                 ![t].bill = billed]
    BY <1>21, Zenon DEF SettleWindow
  <2> HIDE DEF billed
  <2>3. [thread[t] EXCEPT !.pc = "prepare", !.caller = "settle", !.target = w, !.bill = billed]
            \in ThreadStates
    BY <2>1, ThreadUpdates, Zenon
  <2>4. thread' \in [Threads -> ThreadStates]
    BY <2>2, <2>3, Zenon
  <2> QED
    BY <1>21, <2>4, Zenon DEF SettleWindow, pgVars, cmdVars, tbVars
<1>22. ASSUME NEW t \in Sweepers, NEW c \in Commands, DispatchPendingLedgerCommands(t, c)
       PROVE  TypeOK'
  <2> DEFINE step == IF cmdState[c] = "posted" THEN "complete" ELSE "lease"
  <2>1. [thread[t] EXCEPT !.caller = "sweep", !.target = c, !.pc = step] \in ThreadStates
    BY ThreadUpdates, Zenon DEF Steps
  <2>2. thread' = [thread EXCEPT ![t].caller = "sweep", ![t].target = c, ![t].pc = step]
    BY <1>22, Zenon DEF DispatchPendingLedgerCommands
  <2>3. thread' \in [Threads -> ThreadStates]
    BY <2>1, <2>2, Zenon
  <2> QED
    BY <1>22, <2>3, ZenonT(40) DEF DispatchPendingLedgerCommands, pgVars, cmdVars, tbVars
<1>23. ASSUME NEW t \in Threads, Crash(t)
       PROVE  TypeOK'
  <2>1. faults' \in 0..MaxFaults
    BY <1>23, LedgerAssumption DEF Crash
  <2>2. thread' \in [Threads -> ThreadStates]
    BY <1>23, IdleType, ZenonT(40) DEF Crash, Return
  <2> QED
    BY <1>23, <2>1, <2>2, ZenonT(40) DEF Crash, pgVars, cmdVars, tbVars
<1>24. ASSUME NEW w \in Windows, ActivateWindow(w)
       PROVE  TypeOK'
  BY <1>24, Zenon DEF ActivateWindow, WindowStates, cmdVars, tbVars
<1>25. ASSUME NEW w \in Windows, VoidWindow(w)
       PROVE  TypeOK'
  <2>1. NoLegs \in [Sources -> Amounts]
    BY FundingAssumption DEF NoLegs, Amounts
  <2> QED
    BY <1>25, <2>1, Zenon DEF VoidWindow, WindowStates, cmdVars, tbVars
<1>26. ASSUME NEW c \in Commands, LeaseExpires(c)
       PROVE  TypeOK'
  BY <1>26, Zenon DEF LeaseExpires, pgVars, tbVars
<1>27. ASSUME NEW t \in Threads, FailureNotRecorded(t)
       PROVE  TypeOK'
  <2>1. thread' \in [Threads -> ThreadStates]
    BY <1>27, GotoType, Zenon DEF FailureNotRecorded, Steps
  <2>2. faults' \in 0..MaxFaults
    BY <1>27, LedgerAssumption DEF FailureNotRecorded
  <2> QED
    BY <1>27, <2>1, <2>2, Zenon DEF FailureNotRecorded, pgVars, cmdVars, tbVars
<1> HIDE DEF TypeOK, Threads
<1> QED
  BY <1>1, <1>2, <1>3, <1>4, <1>5, <1>7, <1>8, <1>9, <1>10, <1>11, <1>12, <1>13, <1>14,
     <1>15, <1>16, <1>17, <1>18, <1>19, <1>20, <1>21, <1>22, <1>23, <1>24, <1>25, <1>26, <1>27, ZenonT(30)
     DEF Next, ThreadStep, StartRequest

\* What Goto and Return leave in the thread table.
LEMMA GotoFields ==
    ASSUME TypeOK, NEW t \in Threads, NEW step, Goto(t, step)
    PROVE  /\ thread'[t].pc = step
           /\ thread'[t].caller = thread[t].caller
           /\ thread'[t].target = thread[t].target
           /\ thread'[t].want = thread[t].want
           /\ thread'[t].balance = thread[t].balance
           /\ \A u \in Threads \ {t} : thread'[u] = thread[u]
<1>1. thread'[t] = [thread[t] EXCEPT !.pc = step] /\ \A u \in Threads \ {t} : thread'[u] = thread[u]
  BY Zenon DEF Goto, TypeOK
<1>2. thread[t] \in ThreadStates
  BY ThreadFields, Zenon
<1> QED
  BY <1>1, <1>2, Zenon DEF ThreadStates

\* A thread that returns holds nothing.
LEMMA ReturnFields ==
    ASSUME TypeOK, NEW t \in Threads, Return(t)
    PROVE  /\ thread'[t] = Idle
           /\ thread'[t].pc = "idle"
           /\ \A u \in Threads \ {t} : thread'[u] = thread[u]
           /\ ThreadCoherent(t)'
<1>1. thread'[t] = Idle /\ \A u \in Threads \ {t} : thread'[u] = thread[u]
  BY Zenon DEF Return, TypeOK
<1>2. Idle.pc = "idle" /\ Idle.caller = "none"
  BY Zenon DEF Idle
<1> QED
  BY <1>1, <1>2, Zenon DEF ThreadCoherent

\* A step of one thread does not disturb what the others know, if it deletes
\* no command and no transfer and respects the reservation lock.
LEMMA OtherThreads ==
    ASSUME TypeOK, OutboxCoherent, NEW t \in Threads,
           ThreadCoherent(t)',
           \A u \in Threads \ {t} : thread'[u] = thread[u],
           \A c \in Commands : cmdState[c] # "absent" => cmdState'[c] # "absent",
           applied \subseteq applied',
           \A u \in Threads \ {t} : thread[u].pc = "authorize" =>
                /\ windowState'[thread[u].want] = "absent"
                /\ thread'[t].pc # "authorize"
    PROVE  /\ \A u \in Threads : ThreadCoherent(u)'
           /\ \A u, v \in Threads :
                thread'[u].pc = "authorize" /\ thread'[v].pc = "authorize" => u = v
<1>1. ASSUME NEW u \in Threads \ {t}
      PROVE  ThreadCoherent(u)'
  <2>1. ThreadCoherent(u) /\ thread'[u] = thread[u]
    BY Zenon DEF OutboxCoherent
  <2>2. Grants \subseteq Commands
    BY Zenon DEF Commands
  <2> QED
    BY <2>1, <2>2, Zenon DEF ThreadCoherent
<1>2. \A u, v \in Threads : thread[u].pc = "authorize" /\ thread[v].pc = "authorize" => u = v
  BY Zenon DEF OutboxCoherent
<1> QED
  BY <1>1, <1>2, ZenonT(40)

\* Steps that leave commands, transfers and windows alone keep them matched.
LEMMA MatchStutter ==
    ASSUME CommandsMatch, UNCHANGED <<cmdState, applied, windowState, posted>>
    PROVE  CommandsMatch'
BY Zenon DEF CommandsMatch, GrantBacked

\* A step that only moves one thread, not into a reservation.
LEMMA ThreadOnly ==
    ASSUME TypeOK, OutboxCoherent, NEW t \in Threads,
           ThreadCoherent(t)',
           thread'[t].pc # "authorize",
           \A u \in Threads \ {t} : thread'[u] = thread[u],
           UNCHANGED <<cmdState, applied, windowState, posted>>
    PROVE  OutboxCoherent'
<1>1. \A u \in Threads : thread[u].pc = "authorize" => windowState[thread[u].want] = "absent"
  BY Zenon DEF OutboxCoherent, ThreadCoherent
<1>2. CommandsMatch'
  BY MatchStutter, Zenon DEF OutboxCoherent
<1>3. /\ \A u \in Threads : ThreadCoherent(u)'
      /\ \A u, v \in Threads :
            thread'[u].pc = "authorize" /\ thread'[v].pc = "authorize" => u = v
  BY <1>1, OtherThreads, Zenon
<1> QED
  BY <1>2, <1>3, Zenon DEF OutboxCoherent, Threads

\* A step of no thread.
LEMMA NoThread ==
    ASSUME TypeOK, OutboxCoherent, CommandsMatch',
           UNCHANGED <<thread, cmdState, applied>>,
           \A w \in Windows : windowState[w] = "absent" => windowState'[w] = "absent"
    PROVE  OutboxCoherent'
<1>1. ASSUME NEW t \in Threads
      PROVE  ThreadCoherent(t)'
  BY Zenon DEF OutboxCoherent, ThreadCoherent
<1> QED
  BY <1>1, Zenon DEF OutboxCoherent, Threads

\* The steps that only move a thread keep the outbox coherent.
LEMMA CoherentMoves ==
    ASSUME TypeOK, OutboxCoherent, NEW t \in Threads,
           \/ EntitlementsEnsured(t)
           \/ LeaseRefused(t)
           \/ CreateAccounts(t)
           \/ TransfersRefused(t)
           \/ LedgerUnavailable(t)
           \/ FailureNotRecorded(t)
           \/ MarkGrantLedgerPostingFailed(t)
           \/ MarkGrantLedgerPostingPosted(t)
           \/ Crash(t)
    PROVE  OutboxCoherent'
<1> USE DEF pgVars, cmdVars, tbVars
<1>0. ThreadCoherent(t) /\ Grants \subseteq Commands
  BY Zenon DEF OutboxCoherent, Commands
<1>1. ASSUME Return(t), UNCHANGED <<cmdState, applied, windowState, posted>>
      PROVE  OutboxCoherent'
  BY <1>1, ReturnFields, ThreadOnly, Zenon
<1>11. ASSUME NEW step, Goto(t, step), step # "authorize", ThreadCoherent(t)',
              UNCHANGED <<cmdState, applied, windowState, posted>>
       PROVE  OutboxCoherent'
  <2>1. thread'[t].pc = step /\ \A u \in Threads \ {t} : thread'[u] = thread[u]
    BY <1>11, GotoFields, ZenonT(40)
  <2> QED
    BY <1>11, <2>1, ThreadOnly, Zenon
<1>2. CASE EntitlementsEnsured(t)
  BY <1>1, <1>2, Zenon DEF EntitlementsEnsured
<1>3. CASE LeaseRefused(t)
  <2>1. /\ thread[t].pc = "lease"
        /\ Goto(t, "complete")
        /\ UNCHANGED <<cmdState, applied, windowState, posted>>
    BY <1>3, ZenonT(40) DEF LeaseRefused
  <2>2. /\ thread'[t].pc = "complete"
        /\ thread'[t].caller = thread[t].caller
        /\ thread'[t].target = thread[t].target
    BY <2>1, GotoFields, ZenonT(40)
  <2>3. ThreadCoherent(t)'
    BY <1>0, <2>1, <2>2, Zenon DEF ThreadCoherent
  <2> QED
    BY <1>11, <2>1, <2>3, ZenonT(40)
<1>4. CASE CreateAccounts(t)
  <2>1. /\ thread[t].pc = "accounts"
        /\ Goto(t, "transfers")
        /\ UNCHANGED <<cmdState, applied, windowState, posted>>
    BY <1>4, ZenonT(40) DEF CreateAccounts
  <2>2. /\ thread'[t].pc = "transfers"
        /\ thread'[t].caller = thread[t].caller
        /\ thread'[t].target = thread[t].target
    BY <2>1, GotoFields, ZenonT(40)
  <2>3. ThreadCoherent(t)'
    BY <1>0, <2>1, <2>2, Zenon DEF ThreadCoherent
  <2> QED
    BY <1>11, <2>1, <2>3, ZenonT(40)
<1>5. CASE TransfersRefused(t)
  <2>1. /\ thread[t].pc = "transfers"
        /\ Goto(t, "mark_failed")
        /\ UNCHANGED <<cmdState, applied, windowState, posted>>
    BY <1>5, ZenonT(40) DEF TransfersRefused
  <2>2. /\ thread'[t].pc = "mark_failed"
        /\ thread'[t].caller = thread[t].caller
        /\ thread'[t].target = thread[t].target
    BY <2>1, GotoFields, ZenonT(40)
  <2>3. ThreadCoherent(t)'
    BY <1>0, <2>1, <2>2, Zenon DEF ThreadCoherent
  <2> QED
    BY <1>11, <2>1, <2>3, ZenonT(40)
<1>6. CASE LedgerUnavailable(t)
  <2>1. /\ thread[t].pc \in {"accounts", "transfers"}
        /\ Goto(t, "mark_failed")
        /\ UNCHANGED <<cmdState, applied, windowState, posted>>
    BY <1>6, ZenonT(40) DEF LedgerUnavailable
  <2>2. /\ thread'[t].pc = "mark_failed"
        /\ thread'[t].caller = thread[t].caller
        /\ thread'[t].target = thread[t].target
    BY <2>1, GotoFields, ZenonT(40)
  <2>3. ThreadCoherent(t)'
    BY <1>0, <2>1, <2>2, ZenonT(40) DEF ThreadCoherent
  <2> QED
    BY <1>11, <2>1, <2>3, ZenonT(40)
<1>7. CASE MarkGrantLedgerPostingFailed(t)
  BY <1>1, <1>7, Zenon DEF MarkGrantLedgerPostingFailed
<1>8. CASE MarkGrantLedgerPostingPosted(t)
  <2>1. CASE thread[t].caller = "deposit"
    <3>1. /\ thread'[t] = [thread[t] EXCEPT !.pc = "entitle", !.caller = "none",
                                            !.target = None, !.attempt = 0]
          /\ \A u \in Threads \ {t} : thread'[u] = thread[u]
      BY <1>8, <2>1, ZenonT(40) DEF MarkGrantLedgerPostingPosted, TypeOK
    <3>2. thread'[t].pc = "entitle" /\ thread'[t].caller = "none"
      BY <3>1, ThreadFields, ZenonT(40) DEF ThreadStates
    <3>3. ThreadCoherent(t)'
      BY <3>2, Zenon DEF ThreadCoherent
    <3> QED
      BY <1>8, <3>1, <3>2, <3>3, ThreadOnly, Zenon DEF MarkGrantLedgerPostingPosted
  <2>2. CASE thread[t].caller # "deposit"
    BY <1>1, <1>8, <2>2, Zenon DEF MarkGrantLedgerPostingPosted
  <2> QED
    BY <2>1, <2>2, Zenon
<1>9. CASE Crash(t)
  BY <1>1, <1>9, Zenon DEF Crash
<1>10. CASE FailureNotRecorded(t)
  <2>1. /\ thread[t].pc = "mark_failed" /\ thread[t].caller = "deposit"
        /\ Goto(t, "grant_failed")
        /\ UNCHANGED <<cmdState, applied, windowState, posted>>
    BY <1>10, Zenon DEF FailureNotRecorded
  <2>2. /\ thread'[t].pc = "grant_failed"
        /\ thread'[t].caller = thread[t].caller
        /\ thread'[t].target = thread[t].target
    BY <2>1, GotoFields, ZenonT(40)
  <2>3. ThreadCoherent(t)'
    BY <1>0, <2>1, <2>2, Zenon DEF ThreadCoherent
  <2> QED
    BY <1>11, <2>1, <2>3, ZenonT(40)
<1> QED
  BY <1>2, <1>3, <1>4, <1>5, <1>6, <1>7, <1>8, <1>9, <1>10, ZenonT(40)

\* The steps that start an operation keep the outbox coherent.
LEMMA CoherentStarts ==
    ASSUME TypeOK, OutboxCoherent, NEW t \in Threads,
           \/ \E g \in Grants : DepositCredits(t, g)
           \/ \E w \in Windows \cup {None} : EnsureCurrentEntitlements(t, w)
           \/ \E w \in Windows : \E actual \in 0..Charge[w] + 1 : SettleWindow(t, w, actual)
           \/ \E c \in Commands : DispatchPendingLedgerCommands(t, c)
    PROVE  OutboxCoherent'
<1> USE DEF pgVars, cmdVars, tbVars
<1>0. ThreadCoherent(t) /\ thread[t] \in ThreadStates
  BY ThreadFields, Zenon DEF OutboxCoherent
<1>1. ASSUME NEW g \in Grants, DepositCredits(t, g)
      PROVE  OutboxCoherent'
  <2>1. /\ thread'[t] = [thread[t] EXCEPT !.pc = "entitle", !.todo = {g}]
        /\ \A u \in Threads \ {t} : thread'[u] = thread[u]
    BY <1>1, Zenon DEF DepositCredits, TypeOK
  <2>2. /\ thread'[t].pc = "entitle"
        /\ thread'[t].caller = thread[t].caller
        /\ thread'[t].target = thread[t].target
    BY <1>0, <2>1, ZenonT(40) DEF ThreadStates
  <2>3. ThreadCoherent(t)'
    BY <1>0, <2>2, ZenonT(40) DEF ThreadCoherent
  <2> QED
    BY <1>1, <2>1, <2>2, <2>3, ThreadOnly, Zenon DEF DepositCredits
<1>2. ASSUME NEW w \in Windows \cup {None}, EnsureCurrentEntitlements(t, w)
      PROVE  OutboxCoherent'
  <2> DEFINE open == {g \in Grants : grantState'[g] \in {"pending", "retryable_failed"}}
  <2>1. /\ thread'[t] = [thread[t] EXCEPT !.pc = "entitle", !.want = w, !.todo = open]
        /\ \A u \in Threads \ {t} : thread'[u] = thread[u]
    BY <1>2, Zenon DEF EnsureCurrentEntitlements, TypeOK
  <2> HIDE DEF open
  <2>2. /\ thread'[t].pc = "entitle"
        /\ thread'[t].caller = thread[t].caller
        /\ thread'[t].target = thread[t].target
    BY <1>0, <2>1, ZenonT(40) DEF ThreadStates
  <2>3. ThreadCoherent(t)'
    BY <1>0, <2>2, ZenonT(40) DEF ThreadCoherent
  <2> QED
    BY <1>2, <2>1, <2>2, <2>3, ThreadOnly, ZenonT(40) DEF EnsureCurrentEntitlements
<1>3. ASSUME NEW w \in Windows, NEW actual \in 0..Charge[w] + 1, SettleWindow(t, w, actual)
      PROVE  OutboxCoherent'
  <2> DEFINE billed == IF actual > Charge[w] THEN Charge[w] ELSE actual
  <2>1. /\ thread'[t] = [thread[t] EXCEPT !.pc = "prepare", !.caller = "settle",
                                          !.target = w, !.bill = billed]
        /\ \A u \in Threads \ {t} : thread'[u] = thread[u]
    BY <1>3, Zenon DEF SettleWindow, TypeOK
  <2> HIDE DEF billed
  <2>2. thread'[t].pc = "prepare" /\ thread'[t].caller = "settle" /\ thread'[t].target = w
    BY <1>0, <2>1, ZenonT(30) DEF ThreadStates
  <2>3. ThreadCoherent(t)'
    BY <2>2, ZenonT(40) DEF ThreadCoherent
  <2> QED
    BY <1>3, <2>1, <2>2, <2>3, ThreadOnly, ZenonT(40) DEF SettleWindow
<1>4. ASSUME NEW c \in Commands, DispatchPendingLedgerCommands(t, c)
      PROVE  OutboxCoherent'
  <2> DEFINE step == IF cmdState[c] = "posted" THEN "complete" ELSE "lease"
  <2>1. /\ thread'[t] = [thread[t] EXCEPT !.caller = "sweep", !.target = c, !.pc = step]
        /\ \A u \in Threads \ {t} : thread'[u] = thread[u]
    BY <1>4, ZenonT(40) DEF DispatchPendingLedgerCommands, TypeOK
  <2>2. step \in {"complete", "lease"} /\ cmdState[c] # "absent" /\ UNCHANGED cmdState
    BY <1>4, Zenon DEF DispatchPendingLedgerCommands, Leasable
  <2> HIDE DEF step
  <2>3. thread'[t].pc = step /\ thread'[t].caller = "sweep" /\ thread'[t].target = c
    BY <1>0, <2>1, ZenonT(40) DEF ThreadStates
  <2>4. ThreadCoherent(t)'
    BY <2>2, <2>3, Zenon DEF ThreadCoherent
  <2> QED
    BY <1>4, <2>1, <2>2, <2>3, <2>4, ThreadOnly, ZenonT(40) DEF DispatchPendingLedgerCommands
<1> QED
  BY <1>1, <1>2, <1>3, <1>4, ZenonT(40)

\* Creating, leasing, applying and acknowledging a command keeps the outbox
\* coherent.
LEMMA CoherentDispatch ==
    ASSUME TypeOK, OutboxCoherent, NEW t \in Threads,
           \/ \E g \in Grants : PostGrantDeposit(t, g)
           \/ LeaseLedgerCommand(t)
           \/ CreateTransfers(t)
           \/ AcknowledgementLost(t)
           \/ MarkLedgerCommandPosted(t)
           \/ MarkLedgerCommandFailed(t)
    PROVE  OutboxCoherent'
<1> USE DEF pgVars, cmdVars, tbVars
<1> DEFINE c == thread[t].target
<1>0. ThreadCoherent(t) /\ thread[t] \in ThreadStates /\ CommandsMatch
  BY ThreadFields, ZenonT(40) DEF OutboxCoherent
<1>1. \A u \in Threads : thread[u].pc = "authorize" => windowState[thread[u].want] = "absent"
  BY ZenonT(40) DEF OutboxCoherent, ThreadCoherent
<1>2. ASSUME ThreadCoherent(t)', thread'[t].pc # "authorize",
             \A u \in Threads \ {t} : thread'[u] = thread[u],
             \A d \in Commands : cmdState[d] # "absent" => cmdState'[d] # "absent",
             applied \subseteq applied', UNCHANGED windowState, CommandsMatch'
      PROVE  OutboxCoherent'
  BY <1>1, <1>2, OtherThreads, ZenonT(40) DEF OutboxCoherent, Threads
<1>3. ASSUME NEW g \in Grants, PostGrantDeposit(t, g)
      PROVE  OutboxCoherent'
  <2>1. /\ thread'[t] = [thread[t] EXCEPT !.pc = "lease", !.caller = "deposit",
                                          !.target = g, !.todo = @ \ {g}]
        /\ \A u \in Threads \ {t} : thread'[u] = thread[u]
    BY <1>3, Zenon DEF PostGrantDeposit, TypeOK
  <2>2. thread'[t].pc = "lease" /\ thread'[t].caller = "deposit" /\ thread'[t].target = g
    BY <1>0, <2>1, ZenonT(40) DEF ThreadStates
  <2>3. /\ cmdState' = [cmdState EXCEPT ![g] = IF @ = "absent" THEN "pending" ELSE @]
        /\ UNCHANGED <<applied, windowState, posted>>
    BY <1>3, Zenon DEF PostGrantDeposit, CreateLedgerCommand
  <2>4. g \in Commands /\ g \notin Windows /\ Windows \subseteq Commands
    BY LedgerAssumption, Zenon DEF Commands
  <2>5. /\ \A d \in Commands \ {g} : cmdState'[d] = cmdState[d]
        /\ cmdState'[g] # "absent"
        /\ cmdState'[g] = "posted" => cmdState[g] = "posted"
    BY <2>3, <2>4, ZenonT(40) DEF TypeOK
  <2>6. CommandsMatch'
    BY <1>0, <2>3, <2>4, <2>5, ZenonT(40) DEF CommandsMatch, GrantBacked, TypeOK
  <2>7. ThreadCoherent(t)'
    BY <2>2, <2>4, <2>5, Zenon DEF ThreadCoherent
  <2> QED
    BY <1>2, <2>1, <2>2, <2>3, <2>5, <2>6, <2>7, ZenonT(40)
<1>4. CASE LeaseLedgerCommand(t)
  <2> DEFINE n == IF cmdAttempts[c] < MaxAttempts THEN cmdAttempts[c] + 1 ELSE MaxAttempts
             step == IF c \in Grants THEN "accounts" ELSE "transfers"
  <2>1. c \in Commands /\ cmdState[c] # "absent"
    BY <1>0, <1>4, Zenon DEF LeaseLedgerCommand, ThreadCoherent
  <2>2. /\ cmdState' = [cmdState EXCEPT ![c] = "in_progress"]
        /\ thread' = [thread EXCEPT ![t].attempt = n, ![t].pc = step]
        /\ UNCHANGED <<applied, windowState, posted>>
    BY <1>4, Zenon DEF LeaseLedgerCommand
  <2>3. /\ thread'[t] = [thread[t] EXCEPT !.attempt = n, !.pc = step]
        /\ \A u \in Threads \ {t} : thread'[u] = thread[u]
    BY <2>2, Zenon DEF TypeOK
  <2>4. step \in {"accounts", "transfers"} /\ (step = "accounts" => c \in Grants)
    BY Zenon
  <2> HIDE DEF n, step
  <2>5. /\ thread'[t].pc = step
        /\ thread'[t].caller = thread[t].caller
        /\ thread'[t].target = c
    BY <1>0, <2>3, Zenon DEF ThreadStates
  <2>6. ThreadCoherent(t)'
    BY <1>0, <2>1, <2>2, <2>4, <2>5, ZenonT(40) DEF ThreadCoherent, TypeOK
  <2>7. CommandsMatch'
    BY <1>0, <2>1, <2>2, SMTT(30) DEF CommandsMatch, GrantBacked, TypeOK
  <2>8. \A d \in Commands : cmdState[d] # "absent" => cmdState'[d] # "absent"
    BY <2>2, ZenonT(40) DEF TypeOK
  <2> QED
    BY <1>2, <2>2, <2>3, <2>4, <2>5, <2>6, <2>7, <2>8, ZenonT(30)
<1>5. CASE CreateTransfers(t) \/ AcknowledgementLost(t)
  <2> DEFINE step == thread'[t].pc
  <2>1. c \in Commands /\ cmdState[c] # "absent"
    BY <1>0, <1>5, ZenonT(40) DEF CreateTransfers, AcknowledgementLost, ThreadCoherent
  <2>2. applied' = applied \cup {c} /\ UNCHANGED <<cmdState, windowState, posted>>
    BY <1>5, ZenonT(40) DEF CreateTransfers, AcknowledgementLost, ApplyTransfers
  <2>3. /\ thread'[t].pc \in {"mark_posted", "mark_failed"}
        /\ thread'[t].caller = thread[t].caller
        /\ thread'[t].target = c
        /\ \A u \in Threads \ {t} : thread'[u] = thread[u]
    BY <1>5, GotoFields, ZenonT(40) DEF CreateTransfers, AcknowledgementLost
  <2>4. ThreadCoherent(t)'
    BY <1>0, <2>1, <2>2, <2>3, ZenonT(40) DEF ThreadCoherent
  <2>5. CommandsMatch'
    BY <1>0, <2>1, <2>2, ZenonT(40) DEF CommandsMatch, GrantBacked
  <2> QED
    BY <1>2, <2>2, <2>3, <2>4, <2>5, ZenonT(40)
<1>6. CASE MarkLedgerCommandPosted(t)
  <2>1. c \in Commands /\ cmdState[c] # "absent" /\ c \in applied
    BY <1>0, <1>6, ZenonT(40) DEF MarkLedgerCommandPosted, ThreadCoherent
  <2>2. /\ cmdState' = [cmdState EXCEPT ![c] = "posted"]
        /\ UNCHANGED <<applied, windowState, posted>>
    BY <1>6, ZenonT(40) DEF MarkLedgerCommandPosted
  <2>3. /\ thread'[t].pc = "complete"
        /\ thread'[t].caller = thread[t].caller
        /\ thread'[t].target = c
        /\ \A u \in Threads \ {t} : thread'[u] = thread[u]
    BY <1>6, GotoFields, ZenonT(40) DEF MarkLedgerCommandPosted
  <2>4. ThreadCoherent(t)'
    BY <1>0, <2>1, <2>3, ZenonT(40) DEF ThreadCoherent
  <2>5. CommandsMatch'
    BY <1>0, <2>1, <2>2, SMTT(30) DEF CommandsMatch, GrantBacked, TypeOK
  <2>6. \A d \in Commands : cmdState[d] # "absent" => cmdState'[d] # "absent"
    BY <2>2, Zenon DEF TypeOK
  <2> QED
    BY <1>2, <2>2, <2>3, <2>4, <2>5, <2>6, ZenonT(40)
<1>7. CASE MarkLedgerCommandFailed(t)
  <2> DEFINE failed == IF thread[t].attempt >= MaxAttempts THEN "dead_letter" ELSE "retryable_failed"
  <2>1. c \in Commands /\ cmdState[c] # "absent"
    BY <1>0, <1>7, ZenonT(40) DEF MarkLedgerCommandFailed, ThreadCoherent
  <2>2. /\ cmdState' = [cmdState EXCEPT ![c] = failed]
        /\ UNCHANGED <<applied, windowState, posted>>
    BY <1>7, ZenonT(40) DEF MarkLedgerCommandFailed
  <2>3. failed \in {"dead_letter", "retryable_failed"}
    BY Zenon
  <2> HIDE DEF failed
  <2>4. CommandsMatch'
    BY <1>0, <2>1, <2>2, <2>3, SMTT(30) DEF CommandsMatch, GrantBacked, TypeOK
  <2>5. \A d \in Commands : cmdState[d] # "absent" => cmdState'[d] # "absent"
    BY <2>2, <2>3, Zenon DEF TypeOK
  <2>6. CASE thread[t].caller = "deposit"
    <3>1. /\ thread'[t].pc = "grant_failed"
          /\ thread'[t].caller = thread[t].caller
          /\ thread'[t].target = c
          /\ \A u \in Threads \ {t} : thread'[u] = thread[u]
      BY <1>7, <2>6, GotoFields, ZenonT(40) DEF MarkLedgerCommandFailed
    <3>2. ThreadCoherent(t)'
      BY <1>0, <2>6, <3>1, ZenonT(40) DEF ThreadCoherent
    <3> QED
      BY <1>2, <2>2, <2>4, <2>5, <3>1, <3>2, ZenonT(40)
  <2>7. CASE thread[t].caller # "deposit"
    <3>1. Return(t)
      BY <1>7, <2>7, Zenon DEF MarkLedgerCommandFailed
    <3> QED
      BY <1>2, <2>2, <2>4, <2>5, <3>1, ReturnFields, ZenonT(40)
  <2> QED
    BY <2>6, <2>7, ZenonT(40)
<1> QED
  BY <1>3, <1>4, <1>5, <1>6, <1>7, ZenonT(40)

\* The steps of the windows keep the outbox coherent.
LEMMA CoherentWindows ==
    ASSUME TypeOK, OutboxCoherent, LedgerExactlyOnce, NEW t \in Threads,
           \/ MarkWindowSettlementPosted(t)
           \/ HydrateGrantLedgerBalances(t)
           \/ ReserveWindow(t)
           \/ PrepareBillingWindowSettlement(t)
    PROVE  OutboxCoherent'
<1> USE DEF pgVars, cmdVars, tbVars
<1>0. ThreadCoherent(t) /\ thread[t] \in ThreadStates /\ CommandsMatch
  BY ThreadFields, ZenonT(40) DEF OutboxCoherent
<1>1. \A u \in Threads : thread[u].pc = "authorize" =>
            thread[u].want \in Windows /\ windowState[thread[u].want] = "absent"
  BY ZenonT(40) DEF OutboxCoherent, ThreadCoherent
<1>2. ASSUME ThreadCoherent(t)', thread'[t].pc # "authorize",
             \A u \in Threads \ {t} : thread'[u] = thread[u],
             \A d \in Commands : cmdState[d] # "absent" => cmdState'[d] # "absent",
             UNCHANGED applied, CommandsMatch',
             \A u \in Threads \ {t} : thread[u].pc = "authorize" =>
                windowState'[thread[u].want] = "absent"
      PROVE  OutboxCoherent'
  BY <1>2, OtherThreads, ZenonT(40) DEF OutboxCoherent, Threads
<1>3. CASE MarkWindowSettlementPosted(t)
  <2> DEFINE w == thread[t].target
  <2>1. /\ w \in Windows
        /\ windowState' = [windowState EXCEPT ![w] = IF @ = "settling" THEN "settled" ELSE @]
        /\ UNCHANGED <<cmdState, applied, posted>>
        /\ Return(t)
    BY <1>3, Zenon DEF MarkWindowSettlementPosted
  <2> HIDE DEF w
  <2>2. \A v \in Windows : \/ windowState'[v] = windowState[v]
                           \/ windowState[v] = "settling" /\ windowState'[v] = "settled"
    <3>1. DOMAIN windowState = Windows
      BY Zenon DEF TypeOK
    <3> QED
      BY <2>1, <3>1, Zenon
  <2>3. CommandsMatch'
    BY <1>0, <2>1, <2>2, ZenonT(40) DEF CommandsMatch, GrantBacked
  <2>4. /\ thread'[t].pc = "idle" /\ ThreadCoherent(t)'
        /\ \A u \in Threads \ {t} : thread'[u] = thread[u]
    BY <2>1, ReturnFields, Zenon
  <2>5. \A u \in Threads \ {t} : thread[u].pc = "authorize" =>
            windowState'[thread[u].want] = "absent"
    BY <1>1, <2>2, ZenonT(30)
  <2>6. UNCHANGED <<cmdState, applied>>
    BY <2>1, Zenon
  <2> QED
    BY <1>2, <2>3, <2>4, <2>5, <2>6, ZenonT(40)
<1>4. CASE HydrateGrantLedgerBalances(t)
  <2> DEFINE open == {g \in Grants : grantState[g] # "absent"}
             bal == [g \in Grants |-> IF g \in open THEN credits[g] - debits[g] ELSE 0]
  <2>1. CASE Return(t)
    <3>1. UNCHANGED <<cmdState, applied, windowState, posted>>
      BY <1>4, Zenon DEF HydrateGrantLedgerBalances
    <3>2. /\ thread'[t].pc = "idle" /\ ThreadCoherent(t)'
          /\ \A u \in Threads \ {t} : thread'[u] = thread[u]
      BY <2>1, ReturnFields, Zenon
    <3> QED
      BY <3>1, <3>2, ThreadOnly, ZenonT(40)
  <2>2. CASE ~ Return(t)
    <3>1. /\ thread' = [thread EXCEPT ![t].pc = "authorize", ![t].listed = open, ![t].balance = bal]
          /\ thread[t].want \in Windows
          /\ windowState[thread[t].want] = "absent"
          /\ thread[t].pc = "entitle"
          /\ \A u \in Threads : thread[u].pc # "authorize"
          /\ UNCHANGED <<cmdState, applied, windowState, posted>>
      BY <1>4, <2>2, Zenon DEF HydrateGrantLedgerBalances, ProductLockFree
    <3>2. \A g \in Grants : bal[g] > 0 => g \in applied
      BY LedgerAssumption DEF LedgerExactlyOnce, TypeOK
    <3> HIDE DEF open, bal
    <3>3. /\ thread'[t] = [thread[t] EXCEPT !.pc = "authorize", !.listed = open, !.balance = bal]
          /\ \A u \in Threads \ {t} : thread'[u] = thread[u]
      BY <3>1, Zenon DEF TypeOK
    <3>4. /\ thread'[t].pc = "authorize"
          /\ thread'[t].caller = thread[t].caller
          /\ thread'[t].target = thread[t].target
          /\ thread'[t].want = thread[t].want
          /\ thread'[t].balance = bal
      BY <1>0, <3>3, Zenon DEF ThreadStates
    <3>5. ThreadCoherent(t)'
      BY <1>0, <3>1, <3>2, <3>4, Zenon DEF ThreadCoherent
    <3>6. CommandsMatch'
      BY <1>0, <3>1, MatchStutter, ZenonT(30)
    <3>7. /\ \A u \in Threads : ThreadCoherent(u)'
          /\ \A u, v \in Threads :
                thread'[u].pc = "authorize" /\ thread'[v].pc = "authorize" => u = v
      BY <3>1, <3>3, <3>5, OtherThreads, ZenonT(40)
    <3> QED
      BY <3>6, <3>7, ZenonT(40) DEF OutboxCoherent, Threads
  <2> QED
    BY <2>1, <2>2, Zenon
<1>5. CASE ReserveWindow(t)
  <2> DEFINE w == thread[t].want
  <2>1. /\ thread[t].pc = "authorize"
        /\ Return(t)
        /\ \/ UNCHANGED windowState
           \/ windowState' = [windowState EXCEPT ![w] = "reserved"]
        /\ UNCHANGED <<cmdState, applied, posted>>
    BY <1>5, ZenonT(40) DEF ReserveWindow
  <2>2. w \in Windows /\ windowState[w] = "absent"
    BY <1>1, <2>1, ZenonT(30)
  <2> HIDE DEF w
  <2>3. \A v \in Windows : \/ windowState'[v] = windowState[v]
                           \/ windowState[v] = "absent" /\ windowState'[v] = "reserved"
    <3>1. windowState \in [Windows -> WindowStates]
      BY ZenonT(40) DEF TypeOK
    <3> QED
      BY <2>1, <2>2, <3>1, ZenonT(30)
  <2>4. CommandsMatch'
    BY <1>0, <2>1, <2>3, ZenonT(40) DEF CommandsMatch, GrantBacked
  <2>5. \A u \in Threads \ {t} : thread[u].pc # "authorize"
    BY <2>1, Zenon DEF OutboxCoherent
  <2> QED
    BY <1>2, <2>1, <2>4, <2>5, ReturnFields, ZenonT(40)
<1>6. CASE PrepareBillingWindowSettlement(t)
  <2> DEFINE w == thread[t].target
             legs == Waterfall(reserved[w], thread[t].bill)
  <2>1. w \in Windows /\ w \in Commands
    BY <1>0, <1>6, Zenon DEF PrepareBillingWindowSettlement, ThreadCoherent, Commands
  <2>2. legs \in [Sources -> Amounts]
    BY <2>1, SettlementLegsType, ZenonT(40)
  <2>3. CASE windowState[w] \in {"reserved", "active"}
    <3>1. /\ windowState' = [windowState EXCEPT ![w] = "settling"]
          /\ posted' = [posted EXCEPT ![w] = legs]
          /\ UNCHANGED applied
          /\ \/ /\ \E g \in Grants : legs[g] > 0
                /\ CreateLedgerCommand(w)
                /\ Goto(t, "lease")
             \/ /\ ~ \E g \in Grants : legs[g] > 0
                /\ UNCHANGED cmdVars
                /\ Goto(t, "complete")
      BY <1>6, <2>3, Zenon DEF PrepareBillingWindowSettlement
    <3> HIDE DEF w, legs
    <3>2. /\ \A v \in Windows \ {w} : windowState'[v] = windowState[v] /\ posted'[v] = posted[v]
          /\ windowState'[w] = "settling" /\ posted'[w] = legs
      BY <2>1, <3>1, ZenonT(40) DEF TypeOK
    <3>3. cmdState[w] = "absent"
      BY <1>0, <2>1, <2>3, Zenon DEF CommandsMatch
    <3>4. /\ \A d \in Commands \ {w} : cmdState'[d] = cmdState[d]
          /\ cmdState'[w] \in {"absent", "pending"}
          /\ (\E g \in Grants : legs[g] > 0) => cmdState'[w] = "pending"
      BY <2>1, <3>1, <3>3, ZenonT(40) DEF CreateLedgerCommand, TypeOK
    <3>5. CommandsMatch'
      <4>1. Windows \subseteq Commands
        BY ZenonT(40) DEF Commands
      <4> QED
        BY <1>0, <2>1, <3>1, <3>2, <3>3, <3>4, <4>1, ZenonT(70) DEF CommandsMatch, GrantBacked, TypeOK
    <3>6. /\ thread'[t].pc \in {"lease", "complete"}
          /\ thread'[t].pc = "lease" => cmdState'[w] = "pending"
          /\ thread'[t].caller = thread[t].caller
          /\ thread'[t].target = w
          /\ \A u \in Threads \ {t} : thread'[u] = thread[u]
      <4>1. CASE Goto(t, "lease") /\ \E g \in Grants : legs[g] > 0
        BY <3>4, <4>1, GotoFields, ZenonT(40) DEF w
      <4>2. CASE Goto(t, "complete")
        <5>1. /\ thread'[t].pc = "complete"
              /\ thread'[t].caller = thread[t].caller
              /\ thread'[t].target = thread[t].target
              /\ \A u \in Threads \ {t} : thread'[u] = thread[u]
          BY <4>2, GotoFields, ZenonT(40)
        <5> QED
          BY <5>1, ZenonT(40) DEF w
      <4> QED
        BY <3>1, <4>1, <4>2, ZenonT(40)
    <3>7. ThreadCoherent(t)'
      BY <1>0, <2>1, <3>6, ZenonT(40) DEF ThreadCoherent, w
    <3>8. \A u \in Threads : thread[u].pc = "authorize" => windowState'[thread[u].want] = "absent"
      BY <1>1, <2>3, <3>2, Zenon
    <3>9. \A d \in Commands : cmdState[d] # "absent" => cmdState'[d] # "absent"
      BY <3>3, <3>4, Zenon
    <3> QED
      BY <1>2, <3>1, <3>5, <3>6, <3>7, <3>8, <3>9, ZenonT(40)
  <2>4. CASE windowState[w] \notin {"reserved", "active"}
    <3>1. UNCHANGED <<cmdState, applied, windowState, posted>> /\ Goto(t, "complete")
      BY <1>6, <2>4, ZenonT(40) DEF PrepareBillingWindowSettlement
    <3>2. /\ thread'[t].pc = "complete"
          /\ thread'[t].caller = thread[t].caller
          /\ thread'[t].target = thread[t].target
          /\ \A u \in Threads \ {t} : thread'[u] = thread[u]
      BY <3>1, GotoFields, ZenonT(40)
    <3>3. ThreadCoherent(t)'
      BY <1>0, <2>1, <3>1, <3>2, ZenonT(40) DEF ThreadCoherent
    <3> QED
      BY <3>1, <3>2, <3>3, ThreadOnly, ZenonT(40)
  <2> QED
    BY <2>3, <2>4, ZenonT(40)
<1> QED
  BY <1>3, <1>4, <1>5, <1>6, ZenonT(40)

\* Every step keeps the outbox coherent.
LEMMA CoherentStep ==
    ASSUME TypeOK, OutboxCoherent, LedgerExactlyOnce, Next
    PROVE  OutboxCoherent'
<1>0. CommandsMatch
  BY Zenon DEF OutboxCoherent
<1>1. ASSUME NEW w \in Windows, ActivateWindow(w) \/ VoidWindow(w)
      PROVE  OutboxCoherent'
  <2>1. /\ windowState[w] \in {"reserved", "active"}
        /\ \A v \in Windows \ {w} : windowState'[v] = windowState[v] /\ posted'[v] = posted[v]
        /\ windowState'[w] \in {"active", "voided"}
        /\ UNCHANGED <<thread, cmdState, applied>>
    BY <1>1, ZenonT(40) DEF ActivateWindow, VoidWindow, TypeOK, cmdVars, tbVars
  <2>2. CommandsMatch'
    BY <1>0, <2>1, Zenon DEF CommandsMatch, GrantBacked
  <2> QED
    BY <2>1, <2>2, NoThread, ZenonT(40)
<1>2. ASSUME NEW c \in Commands, LeaseExpires(c)
      PROVE  OutboxCoherent'
  BY <1>0, <1>2, MatchStutter, NoThread, Zenon DEF LeaseExpires, pgVars, tbVars
<1>3. Requests \subseteq Threads /\ Sweepers \subseteq Threads
  BY Zenon DEF Threads
<1> QED
  BY <1>1, <1>2, <1>3, CoherentMoves, CoherentStarts, CoherentDispatch, CoherentWindows, ZenonT(40)
     DEF Next, ThreadStep, StartRequest

\* Steps that leave the ledger and the prepared legs alone.
LEMMA LedgerStutter ==
    ASSUME LedgerExactlyOnce, UNCHANGED <<posted, credits, debits, applied>>
    PROVE  LedgerExactlyOnce'
BY Zenon DEF LedgerExactlyOnce, SpendOf

\* The legs of a window without transfers may change.
LEMMA LedgerLegs ==
    ASSUME TypeOK, LedgerExactlyOnce, NEW w \in Windows, w \notin applied,
           \A v \in Windows \ {w} : posted'[v] = posted[v],
           UNCHANGED <<credits, debits, applied>>
    PROVE  LedgerExactlyOnce'
<1>1. ASSUME NEW g \in Grants
      PROVE  SpendOf(applied \cap Windows, g)' = SpendOf(applied \cap Windows, g)
  <2> DEFINE f == [v \in Windows |-> posted[v][g]]
             h == [v \in Windows |-> posted'[v][g]]
  <2>1. \A v \in applied \cap Windows : f[v] = h[v]
    BY Zenon
  <2> HIDE DEF f, h
  <2>2. SumOf(applied \cap Windows, f) = SumOf(applied \cap Windows, h)
    BY <2>1, SumCongruence, Zenon
  <2> QED
    BY <2>2, Zenon DEF SpendOf, f, h
<1> QED
  BY <1>1, Zenon DEF LedgerExactlyOnce

\* Applying the transfers of a command, for the first time or again.
LEMMA LedgerApply ==
    ASSUME TypeOK, LedgerExactlyOnce, NEW c \in Commands, ApplyTransfers(c), UNCHANGED posted
    PROVE  LedgerExactlyOnce'
<1> SUFFICES ASSUME NEW g \in Grants
             PROVE  /\ debits'[g] = SpendOf(applied \cap Windows, g)'
                    /\ credits'[g] = IF g \in applied' THEN Amount[g] ELSE 0
  BY Zenon DEF LedgerExactlyOnce
<1> DEFINE f == [w \in Windows |-> posted[w][g]]
           A == applied \cap Windows
<1>1. /\ debits[g] = SumOf(A, f)
      /\ credits[g] = IF g \in applied THEN Amount[g] ELSE 0
      /\ Amount[g] \in Nat
  <2>1. Amount[g] \in Nat
    <3>1. Amount[g] \in Amounts
      BY LedgerAssumption, Zenon
    <3>2. Amounts \subseteq Nat
      BY FundingAssumption DEF Amounts
    <3> QED
      BY <3>1, <3>2, Zenon
  <2>2. debits[g] = SpendOf(A, g) /\ credits[g] = IF g \in applied THEN Amount[g] ELSE 0
    BY Zenon DEF LedgerExactlyOnce
  <2>3. SpendOf(A, g) = SumOf(A, f)
    BY Zenon DEF SpendOf
  <2> QED
    BY <2>1, <2>2, <2>3, Zenon
<1>2. /\ applied' = applied \cup {c}
      /\ credits'[g] = IF c = g /\ c \notin applied THEN credits[g] + Amount[g] ELSE credits[g]
      /\ debits'[g] = IF c \in Windows \ applied THEN debits[g] + posted[c][g] ELSE debits[g]
  BY Zenon DEF ApplyTransfers
<1>3. SpendOf(applied \cap Windows, g)' = SumOf(applied' \cap Windows, f)
  BY ZenonT(40) DEF SpendOf
<1>4. credits'[g] = IF g \in applied' THEN Amount[g] ELSE 0
  <2>1. 0 + Amount[g] = Amount[g]
    BY <1>1
  <2>2. CASE g \in applied
    BY <1>1, <1>2, <2>2, Zenon
  <2>3. CASE g \notin applied
    BY <1>1, <1>2, <2>1, <2>3, Zenon
  <2> QED
    BY <2>2, <2>3, Zenon
<1>5. CASE c \in Windows \ applied
  <2>1. IsFiniteSet(A) /\ c \notin A /\ applied' \cap Windows = A \cup {c}
    <3>1. IsFiniteSet(A)
      BY FS_Subset, LedgerAssumption, Zenon
    <3>2. c \notin A /\ applied' \cap Windows = A \cup {c}
      BY <1>2, <1>5, Zenon
    <3> QED
      BY <3>1, <3>2, Zenon
  <2>2. f[c] = posted[c][g] /\ f[c] \in Amounts
    BY <1>5, ZenonT(30) DEF TypeOK, Sources
  <2> HIDE DEF A, f
  <2>3. SumOf(A \cup {c}, f) = SumOf(A, f) + f[c]
    BY <2>1, <2>2, SumAdd, Zenon
  <2> QED
    BY <1>1, <1>2, <1>3, <1>4, <1>5, <2>1, <2>2, <2>3, ZenonT(40)
<1>6. CASE c \notin Windows \ applied
  <2>1. applied' \cap Windows = A
    BY <1>2, <1>6, Zenon
  <2> QED
    BY <1>1, <1>2, <1>3, <1>4, <1>6, <2>1, Zenon
<1> QED
  BY <1>5, <1>6, Zenon

\* Only seven actions touch the window rows or move money.
LEMMA Frames ==
    ASSUME Next
    PROVE  \/ \E t \in Threads : CreateTransfers(t) \/ AcknowledgementLost(t)
           \/ \E t \in Threads : \/ ReserveWindow(t)
                                 \/ PrepareBillingWindowSettlement(t)
                                 \/ MarkWindowSettlementPosted(t)
           \/ \E w \in Windows : ActivateWindow(w) \/ VoidWindow(w)
           \/ UNCHANGED <<windowState, reserved, posted, credits, debits, applied>>
<1> DEFINE Same == UNCHANGED <<windowState, reserved, posted, credits, debits, applied>>
<1> USE DEF pgVars, tbVars
<1>1. ASSUME NEW t \in Threads, ThreadStep(t)
      PROVE  \/ CreateTransfers(t) \/ AcknowledgementLost(t) \/ ReserveWindow(t)
             \/ PrepareBillingWindowSettlement(t) \/ MarkWindowSettlementPosted(t) \/ Same
  <2>1. CASE \/ \E g \in Grants : PostGrantDeposit(t, g)
             \/ EntitlementsEnsured(t) \/ LeaseLedgerCommand(t) \/ LeaseRefused(t)
    BY <2>1, ZenonT(40) DEF PostGrantDeposit, EntitlementsEnsured, LeaseLedgerCommand, LeaseRefused
  <2>2. CASE CreateAccounts(t) \/ TransfersRefused(t) \/ LedgerUnavailable(t)
    BY <2>2, ZenonT(40) DEF CreateAccounts, TransfersRefused, LedgerUnavailable
  <2>3. CASE MarkLedgerCommandPosted(t) \/ MarkLedgerCommandFailed(t) \/ FailureNotRecorded(t)
    BY <2>3, ZenonT(40) DEF MarkLedgerCommandPosted, MarkLedgerCommandFailed, FailureNotRecorded
  <2>4. CASE MarkGrantLedgerPostingFailed(t) \/ MarkGrantLedgerPostingPosted(t)
    BY <2>4, ZenonT(40) DEF MarkGrantLedgerPostingFailed, MarkGrantLedgerPostingPosted
  <2>5. CASE HydrateGrantLedgerBalances(t)
    BY <2>5, ZenonT(40) DEF HydrateGrantLedgerBalances
  <2> HIDE DEF Same
  <2> QED
    BY <1>1, <2>1, <2>2, <2>3, <2>4, <2>5, ZenonT(40) DEF ThreadStep
<1>2. ASSUME NEW t \in Threads, StartRequest(t)
      PROVE  Same
  BY <1>2, Zenon DEF StartRequest, DepositCredits, EnsureCurrentEntitlements, SettleWindow
<1>3. ASSUME NEW t \in Threads, NEW c \in Commands, DispatchPendingLedgerCommands(t, c)
      PROVE  Same
  BY <1>3, Zenon DEF DispatchPendingLedgerCommands
<1>4. ASSUME NEW c \in Commands, LeaseExpires(c)
      PROVE  Same
  BY <1>4, Zenon DEF LeaseExpires
<1>5. ASSUME NEW t \in Threads, Crash(t)
      PROVE  Same
  BY <1>5, Zenon DEF Crash
<1>6. Requests \subseteq Threads /\ Sweepers \subseteq Threads
  BY Zenon DEF Threads
<1> HIDE DEF Same
<1>7. \/ \E t \in Threads : CreateTransfers(t) \/ AcknowledgementLost(t)
      \/ \E t \in Threads : \/ ReserveWindow(t)
                            \/ PrepareBillingWindowSettlement(t)
                            \/ MarkWindowSettlementPosted(t)
      \/ \E w \in Windows : ActivateWindow(w) \/ VoidWindow(w)
      \/ Same
  BY <1>1, <1>2, <1>3, <1>4, <1>5, <1>6, ZenonT(40) DEF Next
<1> QED
  BY <1>7, Zenon DEF Same

\* Every step keeps the ledger equal to the applied commands.
LEMMA LedgerStep ==
    ASSUME TypeOK, OutboxCoherent, LedgerExactlyOnce, Next
    PROVE  LedgerExactlyOnce'
<1>0. \A w \in Windows : windowState[w] \in {"reserved", "active"} => w \notin applied
  BY Zenon DEF OutboxCoherent, CommandsMatch
<1>1. ASSUME NEW t \in Threads, CreateTransfers(t) \/ AcknowledgementLost(t)
      PROVE  LedgerExactlyOnce'
  <2>1. thread[t].target \in Commands /\ ApplyTransfers(thread[t].target) /\ UNCHANGED posted
    BY <1>1, Zenon DEF CreateTransfers, AcknowledgementLost, OutboxCoherent, ThreadCoherent, pgVars
  <2> QED
    BY <2>1, LedgerApply, ZenonT(40)
<1>2. ASSUME NEW t \in Threads, PrepareBillingWindowSettlement(t)
      PROVE  LedgerExactlyOnce'
  <2>1. thread[t].target \in Windows
    BY <1>2, Zenon DEF PrepareBillingWindowSettlement, OutboxCoherent, ThreadCoherent
  <2>2. CASE windowState[thread[t].target] \in {"reserved", "active"}
    <3>1. /\ \A v \in Windows \ {thread[t].target} : posted'[v] = posted[v]
          /\ UNCHANGED <<credits, debits, applied>>
      BY <1>2, <2>1, <2>2, ZenonT(40) DEF PrepareBillingWindowSettlement, TypeOK, tbVars
    <3> QED
      BY <1>0, <2>1, <2>2, <3>1, LedgerLegs, ZenonT(40)
  <2>3. CASE windowState[thread[t].target] \notin {"reserved", "active"}
    BY <1>2, <2>3, LedgerStutter, Zenon DEF PrepareBillingWindowSettlement, tbVars
  <2> QED
    BY <2>2, <2>3, ZenonT(40)
<1>3. ASSUME NEW w \in Windows, VoidWindow(w)
      PROVE  LedgerExactlyOnce'
  <2>1. /\ \A v \in Windows \ {w} : posted'[v] = posted[v]
        /\ UNCHANGED <<credits, debits, applied>>
        /\ windowState[w] \in {"reserved", "active"}
    BY <1>3, Zenon DEF VoidWindow, TypeOK, tbVars
  <2> QED
    BY <1>0, <2>1, LedgerLegs, Zenon
<1>4. ASSUME UNCHANGED <<posted, credits, debits, applied>>
      PROVE  LedgerExactlyOnce'
  BY <1>4, LedgerStutter, ZenonT(40)
<1>5. ASSUME NEW t \in Threads, ReserveWindow(t) \/ MarkWindowSettlementPosted(t)
      PROVE  UNCHANGED <<posted, credits, debits, applied>>
  BY <1>5, Zenon DEF ReserveWindow, MarkWindowSettlementPosted, pgVars, tbVars
<1>6. ASSUME NEW w \in Windows, ActivateWindow(w)
      PROVE  UNCHANGED <<posted, credits, debits, applied>>
  BY <1>6, Zenon DEF ActivateWindow, tbVars
<1> QED
  BY <1>1, <1>2, <1>3, <1>4, <1>5, <1>6, Frames, ZenonT(40)

\* A reservation takes nothing from a grant whose deposit the ledger lacks.
LEMMA FundedStep ==
    ASSUME TypeOK, OutboxCoherent, FundedByDeposits, Next
    PROVE  FundedByDeposits'
<1>1. ASSUME UNCHANGED reserved, applied \subseteq applied'
      PROVE  FundedByDeposits'
  BY <1>1, ZenonT(40) DEF FundedByDeposits
<1>2. ASSUME NEW t \in Threads, ReserveWindow(t)
      PROVE  FundedByDeposits'
  <2> DEFINE w == thread[t].want
             cap == [s \in Sources |-> Available(t, s)]
             legs == Waterfall(cap, Charge[w])
  <2>1. /\ w \in Windows
        /\ \A g \in Grants : thread[t].balance[g] > 0 => g \in applied
    BY <1>2, ZenonT(40) DEF ReserveWindow, OutboxCoherent, ThreadCoherent
  <2>2. applied' = applied /\ (reserved' = reserved \/ reserved' = [reserved EXCEPT ![w] = legs])
    BY <1>2, ZenonT(40) DEF ReserveWindow, pgVars, tbVars
  <2>3. legs \in [Sources -> Amounts] /\ \A s \in Sources : legs[s] <= Available(t, s)
    BY <2>1, ReservationLegsType, Zenon
  <2>4. ASSUME NEW g \in Grants, legs[g] > 0
        PROVE  g \in applied
    <3>1. g \in Sources
      BY ZenonT(40) DEF Sources
    <3>2. legs[g] \in Nat /\ legs[g] <= Available(t, g) /\ Available(t, g) \in Nat
      <4>1. legs[g] \in Amounts /\ legs[g] <= Available(t, g)
        BY <2>3, <3>1, Zenon
      <4>2. Available(t, g) \in Nat
        BY <2>1, <3>1, AvailableType, Zenon
      <4>3. Amounts \subseteq Nat
        BY FundingAssumption DEF Amounts
      <4> HIDE DEF legs
      <4> QED
        BY <4>1, <4>2, <4>3, ZenonT(40)
    <3> HIDE DEF legs, w
    <3>3. Available(t, g) > 0
      BY <2>4, <3>2
    <3>4. thread[t].balance[g] > 0
      BY <2>1, <3>1, <3>3, AvailableType, Zenon DEF w
    <3> QED
      BY <2>1, <3>4, Zenon
  <2> HIDE DEF legs, w
  <2> QED
    BY <2>1, <2>2, <2>4, ZenonT(40) DEF FundedByDeposits, TypeOK
<1>3. ASSUME NEW t \in Threads, CreateTransfers(t) \/ AcknowledgementLost(t)
      PROVE  UNCHANGED reserved /\ applied \subseteq applied'
  BY <1>3, ZenonT(40) DEF CreateTransfers, AcknowledgementLost, ApplyTransfers, pgVars
<1>4. ASSUME NEW t \in Threads, PrepareBillingWindowSettlement(t) \/ MarkWindowSettlementPosted(t)
      PROVE  UNCHANGED reserved /\ applied \subseteq applied'
  BY <1>4, Zenon DEF PrepareBillingWindowSettlement, MarkWindowSettlementPosted, tbVars
<1>5. ASSUME NEW w \in Windows, ActivateWindow(w) \/ VoidWindow(w)
      PROVE  UNCHANGED reserved /\ applied \subseteq applied'
  BY <1>5, ZenonT(40) DEF ActivateWindow, VoidWindow, tbVars
<1> QED
  BY <1>1, <1>2, <1>3, <1>4, <1>5, Frames, ZenonT(40)

\* A step leaves the legs of a prepared window and the state of a terminal one.
LEMMA FrozenStep ==
    ASSUME TypeOK, OutboxCoherent, Next, NEW w \in Windows
    PROVE  /\ windowState[w] \in {"settling", "settled", "voided"} =>
                posted'[w] = posted[w] /\ reserved'[w] = reserved[w]
           /\ windowState[w] \in {"settled", "voided"} => windowState'[w] = windowState[w]
<1>1. ASSUME NEW t \in Threads, CreateTransfers(t) \/ AcknowledgementLost(t)
      PROVE  UNCHANGED <<windowState, posted, reserved>>
  BY <1>1, ZenonT(40) DEF CreateTransfers, AcknowledgementLost, pgVars
<1>2. CASE \E t \in Threads : ReserveWindow(t)
  <2> PICK t \in Threads : ReserveWindow(t)
    BY <1>2, ZenonT(40)
  <2>1. thread[t].want \in Windows /\ windowState[thread[t].want] = "absent"
    BY ZenonT(40) DEF ReserveWindow, OutboxCoherent, ThreadCoherent
  <2> QED
    BY <2>1, Zenon DEF ReserveWindow, TypeOK, pgVars
<1>3. CASE \E t \in Threads : PrepareBillingWindowSettlement(t)
  BY <1>3, Zenon DEF PrepareBillingWindowSettlement, TypeOK
<1>4. CASE \E t \in Threads : MarkWindowSettlementPosted(t)
  BY <1>4, ZenonT(40) DEF MarkWindowSettlementPosted, TypeOK
<1>5. CASE \E v \in Windows : ActivateWindow(v) \/ VoidWindow(v)
  BY <1>5, Zenon DEF ActivateWindow, VoidWindow, TypeOK
<1> QED
  BY <1>1, <1>2, <1>3, <1>4, <1>5, Frames, ZenonT(40)

----------------------------------------------------------------------------
(* The inductive invariant and what follows from it.                       *)

Inv == TypeOK /\ OutboxCoherent /\ LedgerExactlyOnce /\ FundedByDeposits

\* Nothing is deposited, reserved or dispatched at first.
LEMMA InitInv == Init => Inv
<1> SUFFICES ASSUME Init
             PROVE  Inv
  BY Zenon
<1>1. 0 \in Amounts /\ 0 \in 0..MaxAttempts /\ 0 \in 0..MaxFaults
  BY LedgerAssumption, FundingAssumption DEF Amounts
<1>2. NoLegs \in [Sources -> Amounts]
  BY <1>1, Zenon DEF NoLegs
<1>3. TypeOK
  BY <1>1, <1>2, IdleType, ZenonT(40) DEF Init, TypeOK, GrantStates, WindowStates, CommandStates
<1>4. Idle.pc = "idle" /\ Idle.caller = "none"
  BY ZenonT(40) DEF Idle
<1>5. OutboxCoherent
  BY <1>4, Zenon DEF Init, OutboxCoherent, ThreadCoherent, CommandsMatch, Commands
<1>6. ASSUME NEW g \in Grants
      PROVE  SpendOf(applied \cap Windows, g) = 0
  BY SumEmpty, Zenon DEF SpendOf, Init
<1>7. LedgerExactlyOnce
  BY <1>6, Zenon DEF Init, LedgerExactlyOnce
<1>8. FundedByDeposits
  BY DEF Init, FundedByDeposits, NoLegs, Sources
<1> QED
  BY <1>3, <1>5, <1>7, <1>8, Zenon DEF Inv

\* The invariant is inductive: each part by its own lemma.
LEMMA NextInv == Inv /\ [Next]_vars => Inv'
<1>1. ASSUME Inv, Next
      PROVE  Inv'
  BY <1>1, TypeStep, CoherentStep, LedgerStep, FundedStep, Zenon DEF Inv
<1>2. ASSUME Inv, UNCHANGED vars
      PROVE  Inv'
  <2> USE <1>2 DEF vars, pgVars, cmdVars, tbVars, Inv
  <2>1. TypeOK'
    BY ZenonT(40) DEF TypeOK
  <2>2. OutboxCoherent'
    BY NoThread, MatchStutter, ZenonT(40) DEF OutboxCoherent
  <2>3. LedgerExactlyOnce' /\ FundedByDeposits'
    BY LedgerStutter, Zenon DEF FundedByDeposits
  <2> QED
    BY <2>1, <2>2, <2>3, ZenonT(40)
<1> QED
  BY <1>1, <1>2, Zenon

\* The invariant holds in every reachable state, for any constants.
THEOREM Invariance == Spec => []Inv
BY InitInv, NextInv, PTL DEF Spec

\* Every row, account and thread record keeps its type.
THEOREM TypeCorrect == Spec => []TypeOK
<1>1. Inv => TypeOK
  BY Zenon DEF Inv
<1> QED
  BY <1>1, Invariance, PTL

\* The outbox, the domain rows, the ledger and the threads agree at any time.
THEOREM OutboxAgrees == Spec => []OutboxCoherent
<1>1. Inv => OutboxCoherent
  BY Zenon DEF Inv
<1> QED
  BY <1>1, Invariance, PTL

\* However often commands are leased, retried, failed and replayed, TigerBeetle
\* holds every deposit and every settled spend exactly once.
THEOREM ExactlyOnce == Spec => []LedgerExactlyOnce
<1>1. Inv => LedgerExactlyOnce
  BY Zenon DEF Inv
<1> QED
  BY <1>1, Invariance, PTL

\* No interleaving of VoidWindow and SettleWindow charges a voided window.
THEOREM VoidIsFree == Spec => []VoidedNeverCharged
<1>1. Inv => VoidedNeverCharged
  BY ZenonT(40) DEF Inv, OutboxCoherent, CommandsMatch, VoidedNeverCharged
<1> QED
  BY <1>1, Invariance, PTL

\* A prepared grant-backed spend is in the ledger or still in the outbox.
THEOREM SpendKept == Spec => []SpendNeverLost
<1>1. Inv => SpendNeverLost
  BY Zenon DEF Inv, OutboxCoherent, CommandsMatch, SpendNeverLost, TypeOK, CommandStates, Commands
<1> QED
  BY <1>1, Invariance, PTL

\* Reservations are backed by deposits that TigerBeetle holds.
THEOREM DepositsFund == Spec => []FundedByDeposits
<1>1. Inv => FundedByDeposits
  BY Zenon DEF Inv
<1> QED
  BY <1>1, Invariance, PTL

\* Once prepared, a settlement keeps its legs; once terminal, a window its state.
THEOREM Frozen == Spec => SettlementFrozen
<1> DEFINE A == \A w \in Windows :
        /\ windowState[w] \in {"settling", "settled", "voided"} =>
                posted'[w] = posted[w] /\ reserved'[w] = reserved[w]
        /\ windowState[w] \in {"settled", "voided"} => windowState'[w] = windowState[w]
<1>1. Inv /\ [Next]_vars => [A]_vars
  BY FrozenStep, Zenon DEF Inv
<1>2. SettlementFrozen <=> [][A]_vars
  BY Zenon DEF SettlementFrozen
<1> HIDE DEF A
<1> QED
  BY <1>1, <1>2, Invariance, PTL DEF Spec

\* A ledger call is a payment of the contract, or nothing the contract sees.
LEMMA ContractPays ==
    ASSUME Inv, NEW t \in Threads, CreateTransfers(t) \/ AcknowledgementLost(t)
    PROVE  Contract!Next \/ UNCHANGED Contract!cvars
<1> DEFINE c == thread[t].target
<1>1. /\ c \in Commands /\ cmdState[c] # "absent"
      /\ ApplyTransfers(c) /\ UNCHANGED <<windowState, posted>>
  BY Zenon DEF CreateTransfers, AcknowledgementLost, Inv, OutboxCoherent, ThreadCoherent, pgVars
<1> HIDE DEF c
<1>2. CASE c \in Windows \ applied
  <2>1. windowState[c] \in {"settling", "settled"}
    BY <1>1, <1>2, ZenonT(40) DEF Inv, OutboxCoherent, CommandsMatch
  <2>2. /\ applied' \cap Windows = (applied \cap Windows) \cup {c}
        /\ debits' = [g \in Grants |-> debits[g] + posted[c][g]]
    BY <1>1, <1>2, ZenonT(40) DEF ApplyTransfers
  <2>3. Contract!Pay(c)
    BY <1>1, <1>2, <2>1, <2>2, Zenon DEF Contract!Pay
  <2> QED
    BY <1>2, <2>3, ZenonT(40) DEF Contract!Next
<1>3. CASE c \notin Windows \ applied
  <2>1. debits' = debits
    BY <1>1, <1>3, ZenonT(40) DEF ApplyTransfers, Inv, TypeOK
  <2>2. applied' \cap Windows = applied \cap Windows
    BY <1>1, <1>3, Zenon DEF ApplyTransfers
  <2> QED
    BY <1>1, <2>1, <2>2, ZenonT(40) DEF Contract!cvars
<1> QED
  BY <1>2, <1>3, ZenonT(40)

\* Every other step moves one window as the contract allows, or none.
LEMMA ContractMoves ==
    ASSUME Inv, Next
    PROVE  Contract!Next \/ UNCHANGED Contract!cvars
<1> USE DEF Inv
<1>1. ASSUME NEW t \in Threads, ReserveWindow(t)
      PROVE  Contract!Next \/ UNCHANGED Contract!cvars
  <2> DEFINE w == thread[t].want
  <2>1. w \in Windows /\ windowState[w] = "absent"
    BY <1>1, ZenonT(40) DEF ReserveWindow, OutboxCoherent, ThreadCoherent
  <2>2. /\ UNCHANGED <<posted, applied, debits>>
        /\ \/ UNCHANGED windowState
           \/ windowState' = [windowState EXCEPT ![w] = "reserved"]
    BY <1>1, Zenon DEF ReserveWindow, pgVars, tbVars
  <2> HIDE DEF w
  <2>3. CASE UNCHANGED windowState
    BY <2>2, <2>3, Zenon DEF Contract!cvars
  <2>4. CASE windowState' = [windowState EXCEPT ![w] = "reserved"]
    BY <2>1, <2>2, <2>4, Zenon DEF Contract!Next, Contract!Reserve, Contract!Move
  <2> QED
    BY <2>2, <2>3, <2>4, ZenonT(40)
<1>2. ASSUME NEW t \in Threads, PrepareBillingWindowSettlement(t)
      PROVE  Contract!Next \/ UNCHANGED Contract!cvars
  <2> DEFINE w == thread[t].target
             legs == Waterfall(reserved[w], thread[t].bill)
  <2>1. w \in Windows
    BY <1>2, Zenon DEF PrepareBillingWindowSettlement, OutboxCoherent, ThreadCoherent
  <2>2. legs \in [Sources -> Amounts]
    BY <2>1, SettlementLegsType, ZenonT(40)
  <2>3. /\ UNCHANGED <<applied, debits>>
        /\ \/ UNCHANGED <<windowState, posted>>
           \/ /\ windowState[w] \in {"reserved", "active"}
              /\ windowState' = [windowState EXCEPT ![w] = "settling"]
              /\ posted' = [posted EXCEPT ![w] = legs]
    BY <1>2, Zenon DEF PrepareBillingWindowSettlement, tbVars
  <2> HIDE DEF w, legs
  <2>4. CASE UNCHANGED <<windowState, posted>>
    BY <2>3, <2>4, Zenon DEF Contract!cvars
  <2>5. CASE /\ windowState[w] \in {"reserved", "active"}
             /\ windowState' = [windowState EXCEPT ![w] = "settling"]
             /\ posted' = [posted EXCEPT ![w] = legs]
    <3>1. Contract!Prepare(w)
      BY <2>2, <2>3, <2>5, Zenon DEF Contract!Prepare, Contract!Move
    <3> QED
      BY <2>1, <3>1, Zenon DEF Contract!Next
  <2> QED
    BY <2>3, <2>4, <2>5, Zenon
<1>3. ASSUME NEW t \in Threads, MarkWindowSettlementPosted(t)
      PROVE  Contract!Next \/ UNCHANGED Contract!cvars
  <2> DEFINE w == thread[t].target
  <2>1. /\ w \in Windows
        /\ UNCHANGED <<posted, applied, debits>>
        /\ windowState' = [windowState EXCEPT ![w] = IF @ = "settling" THEN "settled" ELSE @]
    BY <1>3, Zenon DEF MarkWindowSettlementPosted, tbVars
  <2> HIDE DEF w
  <2>2. CASE windowState[w] = "settling"
    BY <2>1, <2>2, Zenon DEF Contract!Next, Contract!Finish, Contract!Move
  <2>3. CASE windowState[w] # "settling"
    BY <2>1, <2>3, Zenon DEF Contract!cvars, TypeOK
  <2> QED
    BY <2>2, <2>3, Zenon
<1>4. ASSUME NEW w \in Windows, ActivateWindow(w)
      PROVE  Contract!Next
  <2>1. Contract!Activate(w)
    BY <1>4, Zenon DEF ActivateWindow, tbVars, Contract!Activate, Contract!Move
  <2> QED
    BY <2>1, Zenon DEF Contract!Next
<1>5. ASSUME NEW w \in Windows, VoidWindow(w)
      PROVE  Contract!Next
  <2>1. Contract!Void(w)
    BY <1>5, Zenon DEF VoidWindow, tbVars, Contract!Void, Contract!Move
  <2> QED
    BY <2>1, Zenon DEF Contract!Next
<1>6. ASSUME UNCHANGED <<windowState, reserved, posted, credits, debits, applied>>
      PROVE  UNCHANGED Contract!cvars
  BY <1>6, Zenon DEF Contract!cvars
<1> QED
  BY <1>1, <1>2, <1>3, <1>4, <1>5, <1>6, ContractPays, Frames, ZenonT(40)

\* The outbox protocol implements the window contract: whatever fails, windows
\* only move forward and each prepared spend is paid at most once, after its
\* preparation and never for a voided window.
THEOREM Refinement == Spec => KeepsContract
<1>1. Init => Contract!Init
  BY Zenon DEF Init, Contract!Init
<1>2. Inv /\ [Next]_vars => [Contract!Next]_(Contract!cvars)
  <2>1. ASSUME Inv, UNCHANGED vars
        PROVE  UNCHANGED Contract!cvars
    BY <2>1, Zenon DEF vars, pgVars, tbVars, Contract!cvars
  <2> QED
    BY <2>1, ContractMoves, Zenon
<1> QED
  BY <1>1, <1>2, Invariance, PTL DEF Spec, KeepsContract, Contract!Spec
============================================================================
