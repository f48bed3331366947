------------------------------ MODULE Funding ------------------------------
(***************************************************************************)
(* The funding arithmetic of a billing window: sums of charge units and    *)
(* the waterfall that spreads an amount over the funding sources of one    *)
(* SKU.  A source is a credit grant or the receivable of an org that       *)
(* consented to overage.  The same waterfall is used twice by the code:    *)
(* over the available balances when a window is reserved, and over the     *)
(* reserved legs when it is settled.                                       *)
(***************************************************************************)
EXTENDS Integers, FiniteSets

CONSTANTS
    Grants,        \* credit_grants rows of one (org, product)
    Receivable,    \* the source 'receivable', funded after every grant
    Rank,          \* Rank[g]: position of g in grantsByFundingPriority
    MaxAmount      \* largest value of a BIGINT amount column

ASSUME FundingAssumption ==
    /\ IsFiniteSet(Grants)
    /\ Receivable \notin Grants
    /\ MaxAmount \in Nat
    /\ Rank \in [Grants -> Nat]
    /\ \A g, h \in Grants : Rank[g] = Rank[h] => g = h

Sources == Grants \cup {Receivable}

Amounts == 0..MaxAmount

(***************************************************************************)
(* The charge units that f gives the members of S, each unit told apart by *)
(* its owner and its number, and how many there are: the sum of f over S.  *)
(***************************************************************************)
UnitsOf(S, f) == {u \in S \X (1..MaxAmount) : u[2] <= f[u[1]]}

SumOf(S, f) == Cardinality(UnitsOf(S, f))

\* The sources the waterfall drains before it reaches s.
Before(s) ==
    IF s = Receivable THEN Grants ELSE {g \in Grants : Rank[g] < Rank[s]}

(***************************************************************************)
(* Spread amount over the sources in order, taking from each at most its   *)
(* cap: what a source gives is what the earlier ones left uncovered.       *)
(***************************************************************************)
Waterfall(cap, amount) ==
    [s \in Sources |->
        LET left == amount - SumOf(Before(s), cap)
        IN  IF left <= 0 THEN 0 ELSE IF left < cap[s] THEN left ELSE cap[s]]
============================================================================
