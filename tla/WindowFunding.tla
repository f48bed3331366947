--------------------------- MODULE WindowFunding ---------------------------
(***************************************************************************)
(* billing-service: how one billing window is priced, funded and trimmed.  *)
(* A reservation prices its allocation per SKU and draws each SKU's charge *)
(* from the org's credit grants; a settlement prices the usage and trims   *)
(* the reserved legs.  BillingLedger uses the one-SKU form of these        *)
(* computations, module Funding; here they are the code's loops over       *)
(* several SKUs, and compared with it.                                     *)
(*                                                                         *)
(* A step is one iteration of a loop.  The loops run inside a transaction  *)
(* that holds the lock of the org and product, or of the window, so that   *)
(* nothing else comes between their steps.                                 *)
(*                                                                         *)
(* Grants and SKUs are numbers: the order of grant ids, standing also for  *)
(* the plan tier and starts_at that precede it, and of SKU ids.  A rate is *)
(* allocation times price, in 1/Denominator of a charge unit.              *)
(***************************************************************************)
EXTENDS Integers, Sequences, FiniteSets

CONSTANTS
    Grants, Skus,
    BucketOf,       \* bucket of each SKU, numbered by bucket order
    GrantSources,   \* the sources of grants in use
    MaxAvailable, MaxRate, MaxQuantity, Denominator

ASSUME WindowFundingAssumption ==
    /\ Grants \subseteq Nat \ {0} /\ IsFiniteSet(Grants)
    /\ Skus \subseteq Nat /\ IsFiniteSet(Skus)
    /\ BucketOf \in [Skus -> Nat]
    /\ GrantSources \subseteq {"free_tier", "contract", "promo", "refund", "purchase"}
    /\ MaxAvailable \in Nat /\ MaxRate \in Nat /\ MaxQuantity \in Nat
    /\ Denominator \in Nat \ {0}

VARIABLES
    grants,      \* source, scope and available balance of each grant
    request,     \* rate of each SKU, quantity, and consent to overage
    window,      \* its state, the usage reported and how much is written off
    legs,        \* its billing_window_ledger_legs in leg_seq order
    posted,      \* amount_posted of the legs that are trimmed
    balance,     \* what the funding loop has left of each grant
    owed,        \* what a loop has still to cover of each SKU's charge
    skusLeft,    \* SKUs the loop over componentChargeOrder has not finished
    grantsLeft   \* grants the inner loop has not reached for the current SKU

given == <<grants, request>>
loops == <<balance, owed, skusLeft, grantsLeft>>
vars == <<given, window, legs, posted, loops>>

Scopes ==
    {[type |-> "account", target |-> 0], [type |-> "product", target |-> 0]}
        \cup {[type |-> "bucket", target |-> BucketOf[s]] : s \in Skus}
        \cup {[type |-> "sku", target |-> s] : s \in Skus}

Init ==
    /\ grants \in [Grants -> [source : GrantSources, scope : Scopes, available : 0..MaxAvailable]]
    /\ request \in [rate : [Skus -> 0..MaxRate], quantity : 1..MaxQuantity, overage : BOOLEAN]
    /\ window = [state |-> "requested", actual |-> 0, writeoff |-> 0]
    /\ legs = <<>> /\ posted = <<>>
    /\ balance = [g \in Grants |-> 0] /\ owed = [s \in Skus |-> 0]
    /\ skusLeft = {} /\ grantsLeft = {}
----------------------------------------------------------------------------
\* The ceiling of allocation * quantity * price.
ChargeUnitsForQuantity(rate, quantity) ==
    (rate * quantity + Denominator - 1) \div Denominator

ComputeWindowCharges(quantity) ==
    [s \in Skus |-> ChargeUnitsForQuantity(request.rate[s], quantity)]

MinUint64(a, b) == IF a < b THEN a ELSE b

SourcePriority ==
    [free_tier |-> 1, contract |-> 2, promo |-> 3, refund |-> 4, purchase |-> 5]

ScopePriority == [sku |-> 1, bucket |-> 2, product |-> 3, account |-> 4]

SourceRank(g) == SourcePriority[grants[g].source]

ScopeRank(g) == ScopePriority[grants[g].scope.type]

\* The comparison by which grantsByFundingPriority sorts.
DrawnBefore(g, h) ==
    \/ SourceRank(g) < SourceRank(h)
    \/ SourceRank(g) = SourceRank(h) /\ ScopeRank(g) < ScopeRank(h)
    \/ SourceRank(g) = SourceRank(h) /\ ScopeRank(g) = ScopeRank(h) /\ g < h

\* The comparison by which componentChargeOrder sorts.
ChargedBefore(s, t) ==
    \/ BucketOf[s] < BucketOf[t]
    \/ BucketOf[s] = BucketOf[t] /\ s < t

\* Mutant: the grants are taken in the order of their ids.
NextGrantById(g) == g \in grantsLeft /\ \A h \in grantsLeft \ {g} : g < h

\* The grant that the inner loop reaches next.
NextGrant(g) == g \in grantsLeft /\ \A h \in grantsLeft \ {g} : DrawnBefore(g, h)

\* The SKU whose turn it is.
NextSku(s) == s \in skusLeft /\ \A t \in skusLeft \ {s} : ChargedBefore(s, t)

GrantCoversSKU(g, s) ==
    LET scope == grants[g].scope
    IN  CASE scope.type = "bucket" -> scope.target = BucketOf[s]
          [] scope.type = "sku"    -> scope.target = s
          [] OTHER                 -> TRUE

\* The source 'receivable' of a leg that no grant backs.
Receivable == 0

\* How many grants are drained before each grant, the largest charge or balance,
\* and module Funding with them.
Position == [g \in Grants |-> Cardinality({h \in Grants : DrawnBefore(h, g)})]

MaxAmount ==
    LET charge == ChargeUnitsForQuantity(MaxRate, MaxQuantity)
    IN  IF charge < MaxAvailable THEN MaxAvailable ELSE charge

OneSku == INSTANCE Funding WITH Rank <- Position
----------------------------------------------------------------------------
(* Reservation: fundReservationTx, then the legs of an agreed overage.     *)

Charges == ComputeWindowCharges(request.quantity)

\* What the legs reserve, in leg_seq order.
LegAmounts == [i \in DOMAIN legs |-> legs[i].amount]

SumFundingLegs == OneSku!SumOf(DOMAIN legs, LegAmounts)

FundingLegsForComponent(s) == OneSku!SumOf({i \in DOMAIN legs : legs[i].sku = s}, LegAmounts)

Leg(s, f, amount) == [sku |-> s, source |-> f, amount |-> amount]

ReserveWindow ==
    /\ window.state = "requested"
    /\ window' = [window EXCEPT !.state = "funding"]
    /\ balance' = [g \in Grants |-> grants[g].available]
    /\ owed' = Charges
    /\ skusLeft' = Skus /\ grantsLeft' = Grants
    /\ UNCHANGED <<given, legs, posted>>

\* Mutant: the drawn amount is not taken from the grant's balance.
DrawForgetful(s, g) ==
    /\ window.state = "funding" /\ NextSku(s) /\ owed[s] > 0 /\ NextGrant(g)
    /\ grantsLeft' = grantsLeft \ {g}
    /\ IF balance[g] = 0 \/ ~ GrantCoversSKU(g, s)
         THEN UNCHANGED <<legs, owed>>
         ELSE /\ legs' = Append(legs, Leg(s, g, MinUint64(owed[s], balance[g])))
              /\ owed' = [owed EXCEPT ![s] = @ - MinUint64(@, balance[g])]
    /\ UNCHANGED <<given, window, posted, skusLeft, balance>>

\* One pass of the inner loop: SKU s draws what it can from grant g.
Draw(s, g) ==
    /\ window.state = "funding" /\ NextSku(s) /\ owed[s] > 0 /\ NextGrant(g)
    /\ grantsLeft' = grantsLeft \ {g}
    /\ IF balance[g] = 0 \/ ~ GrantCoversSKU(g, s)
         THEN UNCHANGED <<legs, balance, owed>>
         ELSE LET amount == MinUint64(owed[s], balance[g])
              IN  /\ legs' = Append(legs, Leg(s, g, amount))
                  /\ balance' = [balance EXCEPT ![g] = @ - amount]
                  /\ owed' = [owed EXCEPT ![s] = @ - amount]
    /\ UNCHANGED <<given, window, posted, skusLeft>>

\* SKU s is covered or has tried every grant.
FinishSku(s) ==
    /\ window.state = "funding" /\ NextSku(s)
    /\ owed[s] = 0 \/ grantsLeft = {}
    /\ skusLeft' = skusLeft \ {s} /\ grantsLeft' = Grants
    /\ UNCHANGED <<given, window, legs, posted, balance, owed>>

\* Denied with insufficient balance, and rolled back, unless the org agreed to
\* overage.
Authorize ==
    /\ window.state = "funding" /\ skusLeft = {}
    /\ LET funded == SumFundingLegs >= OneSku!SumOf(Skus, Charges)
       IN  /\ window' = [window EXCEPT !.state = IF funded THEN "reserved"
                                                 ELSE IF request.overage THEN "overage" ELSE "denied"]
           /\ legs' = IF funded \/ request.overage THEN legs ELSE <<>>
    /\ skusLeft' = Skus
    /\ UNCHANGED <<given, posted, balance, owed, grantsLeft>>

\* What the grants do not cover of SKU s is billed as overage.
ReceivableLeg(s) ==
    /\ window.state = "overage" /\ NextSku(s)
    /\ LET funded == FundingLegsForComponent(s)
       IN  legs' = IF funded < Charges[s] THEN Append(legs, Leg(s, Receivable, Charges[s] - funded)) ELSE legs
    /\ skusLeft' = skusLeft \ {s}
    /\ UNCHANGED <<given, window, posted, balance, owed, grantsLeft>>

InsertWindow ==
    /\ window.state = "overage" /\ skusLeft = {}
    /\ window' = [window EXCEPT !.state = "reserved"]
    /\ UNCHANGED <<given, legs, posted, loops>>
----------------------------------------------------------------------------
(* Settlement: settleWindowLedgerPayloadTx.                                *)

\* Usage beyond the reservation is written off, the rest is priced.
SettleWindow(actual) ==
    /\ window.state = "reserved"
    /\ LET billable == MinUint64(actual, request.quantity)
       IN  /\ window' = [state |-> "trimming", actual |-> actual, writeoff |-> actual - billable]
           /\ owed' = ComputeWindowCharges(billable)
    /\ UNCHANGED <<given, legs, posted, balance, skusLeft, grantsLeft>>

\* Mutant: every leg of a SKU is trimmed on its own.
TrimEachLeg ==
    /\ window.state = "trimming" /\ Len(posted) < Len(legs)
    /\ LET leg == legs[Len(posted) + 1]
       IN  posted' = Append(posted, MinUint64(owed[leg.sku], leg.amount))
    /\ UNCHANGED <<given, window, legs, loops>>

\* The next leg posts what its SKU still owes; the rest of it is released.
Trim ==
    /\ window.state = "trimming" /\ Len(posted) < Len(legs)
    /\ LET leg == legs[Len(posted) + 1]
           amount == MinUint64(owed[leg.sku], leg.amount)
       IN  /\ posted' = Append(posted, amount)
           /\ owed' = [owed EXCEPT ![leg.sku] = @ - amount]
    /\ UNCHANGED <<given, window, legs, balance, skusLeft, grantsLeft>>

\* A bill that exceeds the reserved legs is an error and the transaction is
\* rolled back: "refused".
PrepareSettlement ==
    /\ window.state = "trimming" /\ Len(posted) = Len(legs)
    /\ window' = [window EXCEPT !.state = IF \E s \in Skus : owed[s] > 0 THEN "refused" ELSE "settled"]
    /\ UNCHANGED <<given, legs, posted, loops>>

Done == window.state \in {"denied", "refused", "settled"} /\ UNCHANGED vars

Next ==
    \/ ReserveWindow \/ Authorize \/ InsertWindow
    \/ \E s \in Skus : FinishSku(s) \/ ReceivableLeg(s) \/ \E g \in Grants : Draw(s, g)
    \/ \E actual \in 0..(MaxQuantity + 1) : SettleWindow(actual)
    \/ Trim \/ PrepareSettlement \/ Done

Spec == Init /\ [][Next]_vars
----------------------------------------------------------------------------
Reserved == window.state \in {"reserved", "trimming", "settled"}

Earlier(s) == {t \in Skus : ChargedBefore(t, s)}

LegsOf(S, f) == {i \in DOMAIN legs : legs[i].sku \in S /\ legs[i].source = f}

\* What the legs of the SKUs in S take from source f.
Taken(S, f) == OneSku!SumOf(LegsOf(S, f), LegAmounts)

PostedFrom(s, f) == OneSku!SumOf(LegsOf({s}, f), posted)

\* What SKU s may take from each source when its turn comes.
Cap(s) ==
    [f \in OneSku!Sources |->
        IF f = Receivable THEN IF request.overage THEN Charges[s] ELSE 0
        ELSE IF GrantCoversSKU(f, s) THEN grants[f].available - Taken(Earlier(s), f) ELSE 0]

\* The loops of fundReservationTx and the receivable legs give every SKU the
\* strict waterfall that BillingLedger uses, over what earlier SKUs left.
FundingIsWaterfall ==
    Reserved => \A s \in Skus :
        [f \in OneSku!Sources |-> Taken({s}, f)] = OneSku!Waterfall(Cap(s), Charges[s])

\* Two SKUs of one window never share a unit of a grant.
NeverOverdrawn ==
    \A g \in Grants : Taken(Skus, g) <= grants[g].available

\* The legs of a reservation always suffice for its settlement, which posts
\* the price of the billable usage and trims the legs in funding order: it
\* never spreads the price over the sources.
TrimmedInOrder ==
    /\ window.state # "refused"
    /\ window.state = "settled" => \A s \in Skus :
        [f \in OneSku!Sources |-> PostedFrom(s, f)]
            = OneSku!Waterfall([f \in OneSku!Sources |-> Taken({s}, f)],
                               ComputeWindowCharges(window.actual - window.writeoff)[s])
============================================================================
