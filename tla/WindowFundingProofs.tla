------------------------ MODULE WindowFundingProofs ------------------------
(***************************************************************************)
(* The loops that fund and trim a billing window compute the waterfall of  *)
(* module Funding, for any grants, SKUs, balances, rates and quantities:   *)
(* the receivable legs, the steps of a settlement, and the theorems.       *)
(***************************************************************************)
EXTENDS WindowReservationProofs

(* The receivable legs, and the end of a reservation.                      *)

\* The receivable takes exactly what the grants left of SKU s.
LEMMA ReceivableStep ==
  ASSUME TypeOK, Overage, NeverOverdrawn, LegsOrdered, UNCHANGED given, NEW s \in Skus, ReceivableLeg(s)
  PROVE  window' = window /\ Overage' /\ NeverOverdrawn' /\ LegsOrdered'
<1>1. /\ window.state = "overage" /\ window' = window /\ s \in skusLeft /\ skusLeft \in SUBSET Skus
      /\ skusLeft' = skusLeft \ {s} /\ owed' = owed
      /\ legs' = IF FundingLegsForComponent(s) < Charges[s]
                   THEN Append(legs, Leg(s, Receivable, Charges[s] - FundingLegsForComponent(s))) ELSE legs
  BY Zenon DEF ReceivableLeg, NextSku, TypeOK
<1>2. /\ request.overage /\ \A t \in Skus : Served(t, Grants)
      /\ \A t \in skusLeft : LegsOf({t}, Receivable) = {} /\ FundingLegsForComponent(t) + owed[t] = Charges[t]
      /\ \A t \in Skus \ skusLeft : Taken({t}, Receivable) = owed[t] /\ FundingLegsForComponent(t) = Charges[t]
  BY <1>1, Zenon DEF Overage
<1>3. PICK n : n = owed[s]
  BY Zenon
<1>4. n \in OneSku!Amounts /\ n \in Nat /\ FundingLegsForComponent(s) \in Nat
  <2>1. n \in OneSku!Amounts
    BY <1>3, Zenon DEF TypeOK
  <2> QED
    BY <2>1, AmountsType, LegSums, SMTT(30)
<1>5. FundingLegsForComponent(s) + n = Charges[s]
  BY <1>1, <1>2, <1>3, Zenon
<1>6. legs' = IF n = 0 THEN legs ELSE Append(legs, Leg(s, Receivable, n))
  <2>1. CASE n = 0
    <3>1. ~ (FundingLegsForComponent(s) < Charges[s])
      BY <1>4, <1>5, <2>1, SMTT(15)
    <3> QED
      BY <1>1, <2>1, <3>1, Zenon
  <2>2. CASE n # 0
    <3>1. FundingLegsForComponent(s) < Charges[s] /\ Charges[s] - FundingLegsForComponent(s) = n
      BY <1>4, <1>5, <2>2, SMTT(30)
    <3> QED
      BY <1>1, <2>2, <3>1, Zenon
  <2> QED
    BY <2>1, <2>2, Zenon
<1>7. /\ \A S, h : h # Receivable => Taken(S, h)' = Taken(S, h)
      /\ \A S : s \notin S => Taken(S, Receivable)' = Taken(S, Receivable) /\ LegsOf(S, Receivable)' = LegsOf(S, Receivable)
      /\ \A t : t # s => FundingLegsForComponent(t)' = FundingLegsForComponent(t)
      /\ Taken({s}, Receivable)' = n /\ FundingLegsForComponent(s)' = Charges[s]
  <2>0. Taken({s}, Receivable) = 0
    <3>1. OneSku!SumOf({}, LegAmounts) = 0
      BY SumZero, ZenonT(30)
    <3> QED
      BY <1>1, <1>2, <3>1, ZenonT(30) DEF Taken
  <2>1. CASE n = 0
    <3>1. legs' = legs
      BY <1>6, <2>1, Zenon
    <3>2. FundingLegsForComponent(s) = Charges[s]
      BY <1>4, <1>5, <2>1, SMTT(30)
    <3> QED
      BY <2>0, <2>1, <3>1, <3>2, SameLegs, ZenonT(40) DEF Receivable
  <2>2. CASE n # 0
    <3>0. Receivable \in OneSku!Sources /\ legs' = Append(legs, Leg(s, Receivable, n))
      BY <1>6, <2>2, Zenon DEF OneSku!Sources
    <3>1. /\ \A S, h : Taken(S, h)' = Grown(Taken(S, h), s \in S /\ h = Receivable, n)
          /\ \A t : FundingLegsForComponent(t)' = Grown(FundingLegsForComponent(t), t = s, n)
      BY <1>4, <3>0, Appending, SMTT(30)
    <3>2. \A S, h : h # Receivable => Taken(S, h)' = Taken(S, h)
      BY <3>1, Zenon DEF Grown
    <3>3. \A S : s \notin S => Taken(S, Receivable)' = Taken(S, Receivable)
      BY <3>1, Zenon DEF Grown, Receivable
    <3>4. \A t : t # s => FundingLegsForComponent(t)' = FundingLegsForComponent(t)
      BY <3>1, ZenonT(30) DEF Grown
    <3>5. Taken({s}, Receivable)' = n
      <4>1. Taken({s}, Receivable)' = 0 + n
        BY <2>0, <3>1, ZenonT(30) DEF Grown, Receivable
      <4> QED
        BY <1>4, <4>1, SMTT(30)
    <3>6. FundingLegsForComponent(s)' = Charges[s]
      BY <1>5, <3>1, ZenonT(30) DEF Grown
    <3>7. \A S : s \notin S => LegsOf(S, Receivable)' = LegsOf(S, Receivable)
      <4>1. /\ DOMAIN legs' = DOMAIN legs \cup {Len(legs) + 1} /\ \A i \in DOMAIN legs : legs'[i] = legs[i]
            /\ legs'[Len(legs) + 1].sku = s
        BY <1>4, <3>0, Appended, ZenonT(40)
      <4> QED
        BY <4>1, Zenon DEF LegsOf, Receivable
    <3> QED
      BY <3>2, <3>3, <3>4, <3>5, <3>6, <3>7, ZenonT(30)
  <2> QED
    BY <2>1, <2>2, Zenon
<1>8. \A g \in Grants : g # Receivable
  BY AmountsType, Zenon
<1>9. NeverOverdrawn'
  BY <1>7, <1>8, ZenonT(30) DEF NeverOverdrawn, given
<1>10. Overage'
  <2>1. ASSUME NEW t \in Skus PROVE Served(t, Grants)' /\ Charges' = Charges
    <3>1. \A g \in Grants : Taken(Earlier(t), g)' = Taken(Earlier(t), g)
      <4>1. Earlier(t)' = Earlier(t)
        BY Zenon DEF Earlier, ChargedBefore
      <4> QED
        BY <1>7, <1>8, <4>1, Zenon
    <3>2. Share(t)' = Share(t) /\ Uncovered(t, Grants)' = Uncovered(t, Grants) /\ Charges' = Charges
      BY <3>1, SameShare, Zenon
    <3>3. Served(t, Grants)
      BY <1>2, Zenon
    <3> QED
      BY <1>1, <1>7, <1>8, <3>2, <3>3, ZenonT(30) DEF Served
  <2>2. ASSUME NEW t \in skusLeft'
        PROVE  LegsOf({t}, Receivable)' = {} /\ FundingLegsForComponent(t)' + owed'[t] = Charges'[t]
    <3>1. t \in skusLeft /\ t # s /\ t \in Skus /\ s \notin {t}
      BY <1>1, <2>2, Zenon
    <3>2. LegsOf({t}, Receivable)' = LegsOf({t}, Receivable) /\ FundingLegsForComponent(t)' = FundingLegsForComponent(t)
      BY <1>7, <3>1, Zenon
    <3> QED
      BY <1>1, <1>2, <2>1, <3>1, <3>2, ZenonT(30)
  <2>3. ASSUME NEW t \in Skus \ skusLeft'
        PROVE  Taken({t}, Receivable)' = owed'[t] /\ FundingLegsForComponent(t)' = Charges'[t]
    <3>1. CASE t = s
      BY <1>1, <1>3, <1>7, <2>1, <3>1, ZenonT(30)
    <3>2. CASE t # s
      <4>1. t \in Skus \ skusLeft /\ s \notin {t}
        BY <1>1, <2>3, <3>2, Zenon
      <4> QED
        BY <1>1, <1>2, <1>7, <2>1, <3>2, <4>1, ZenonT(30)
    <3> QED
      BY <3>1, <3>2, Zenon
  <2> QED
    BY <1>2, <2>1, <2>2, <2>3, ZenonT(30) DEF Overage, given
<1>11. LegsOrdered'
  <2>1. CASE n = 0
    BY <1>6, <2>1, SameOrder, ZenonT(30)
  <2>2. CASE n # 0
    <3>0. Receivable \in OneSku!Sources /\ legs' = Append(legs, Leg(s, Receivable, n))
      BY <1>6, <2>2, Zenon DEF OneSku!Sources
    <3>1. PICK k : k = Len(legs) + 1
      BY Zenon
    <3>2. /\ DOMAIN legs' = DOMAIN legs \cup {k} /\ \A i \in DOMAIN legs : legs'[i] = legs[i]
          /\ legs'[k].sku = s /\ legs'[k].source = Receivable
      BY <1>4, <3>0, <3>1, Appended, ZenonT(30)
    <3>3. \A i \in DOMAIN legs : ~ (k < i)
      BY <3>1, LegsType, SMTT(15)
    <3>4. ~ (k < k)
      BY <3>1, LegsType, SMTT(30)
    <3>5. ASSUME NEW i \in DOMAIN legs', NEW j \in DOMAIN legs', i < j, legs'[i].sku = legs'[j].sku
          PROVE  Drained(legs'[i].source, legs'[j].source)
      <4>1. CASE i \in DOMAIN legs /\ j \in DOMAIN legs
        BY <3>2, <3>5, <4>1, ZenonT(30) DEF LegsOrdered
      <4>2. CASE i \in DOMAIN legs /\ j = k
        <5>1. legs[i].sku = s /\ legs'[i].source = legs[i].source /\ legs'[j].source = Receivable
          BY <3>2, <3>5, <4>2, Zenon
        <5>2. legs[i].source # Receivable
          BY <1>1, <1>2, <4>2, <5>1, ZenonT(30) DEF LegsOf
        <5>3. legs[i].source \in Grants
          BY <4>2, <5>2, LegsType, ZenonT(40) DEF OneSku!Sources
        <5> QED
          BY <5>1, <5>3, Zenon DEF Drained
      <4>3. CASE i = k
        BY <3>2, <3>3, <3>4, <3>5, <4>3, ZenonT(30)
      <4> QED
        BY <3>2, <4>1, <4>2, <4>3, ZenonT(30)
    <3> QED
      BY <3>5, OrderedLater, ZenonT(30)
  <2> QED
    BY <2>1, <2>2, Zenon
<1> QED
  BY <1>1, <1>9, <1>10, <1>11, Zenon

\* With the receivable's legs, the reservation of an overage is complete.
LEMMA InsertStep ==
  ASSUME TypeOK, Overage, NeverOverdrawn, LegsOrdered, UNCHANGED given, InsertWindow
  PROVE  window'.state = "reserved" /\ Complete' /\ FundingIsWaterfall' /\ NeverOverdrawn' /\ LegsOrdered'
<1>1. /\ window.state = "overage" /\ skusLeft = {} /\ legs' = legs
      /\ window' = [window EXCEPT !.state = "reserved"]
  BY Zenon DEF InsertWindow
<1>2. window'.state = "reserved"
  <2>1. "reserved" \in States
    BY Zenon DEF States
  <2> QED
    BY <1>1, <2>1, WindowType, Zenon
<1>3. /\ request.overage
      /\ \A s \in Skus : Served(s, Grants) /\ Taken({s}, Receivable) = owed[s] /\ FundingLegsForComponent(s) = Charges[s]
  BY <1>1, Zenon DEF Overage
<1>4. Complete'
  <2>1. Charges' = Charges /\ \A s : FundingLegsForComponent(s)' = FundingLegsForComponent(s)
    BY <1>1, SameLegs, Zenon DEF Charges, ComputeWindowCharges, given
  <2> QED
    BY <1>3, <2>1, Zenon DEF Complete
<1>5. FundingIsWaterfall'
  <2>1. ASSUME NEW s \in Skus PROVE [f \in OneSku!Sources |-> Taken({s}, f)] = Share(s)
    BY <1>3, AllShares, Zenon
  <2> QED
    BY <1>1, <2>1, SameWaterfall, Zenon
<1> QED
  BY <1>1, <1>2, <1>4, <1>5, SameDebts, SameOrder, ZenonT(30)

-----------------------------------------------------------------------------
(* Settlement.                                                             *)

\* A reservation keeps its legs while it is settled.
LEMMA SettlingKeeps ==
  ASSUME UNCHANGED given, UNCHANGED legs, Reserved, Complete, FundingIsWaterfall, NeverOverdrawn, LegsOrdered
  PROVE  Complete' /\ FundingIsWaterfall' /\ NeverOverdrawn' /\ LegsOrdered'
<1>1. Complete'
  <2>1. Charges' = Charges /\ \A s : FundingLegsForComponent(s)' = FundingLegsForComponent(s)
    BY SameLegs, Zenon DEF Charges, ComputeWindowCharges, given
  <2> QED
    BY <2>1, Zenon DEF Complete
<1>2. FundingIsWaterfall'
  <2>1. \A s \in Skus : [f \in OneSku!Sources |-> Taken({s}, f)] = Share(s)
    BY Zenon DEF FundingIsWaterfall, Share
  <2> QED
    BY <2>1, SameWaterfall, Zenon
<1> QED
  BY <1>1, <1>2, SameDebts, SameOrder, Zenon

\* The bill is never more than the reservation's price.
LEMMA BillType ==
  ASSUME TypeOK, window.actual - window.writeoff \in 0..request.quantity, NEW s \in Skus
  PROVE  Billed[s] \in Nat /\ Charges[s] \in Nat /\ Billed[s] <= Charges[s]
<1>1. PICK b, q : b = window.actual - window.writeoff /\ q = request.quantity
  BY Zenon
<1>2. b \in 0..MaxQuantity /\ q \in 0..MaxQuantity /\ b <= q
  BY <1>1, QuantityType, SMTT(30)
<1>3. /\ ComputeWindowCharges(b) \in [Skus -> OneSku!Amounts]
      /\ ComputeWindowCharges(b)[s] <= ComputeWindowCharges(q)[s]
  BY <1>2, ChargesType, Zenon
<1>4. Billed = ComputeWindowCharges(b) /\ Charges = ComputeWindowCharges(q)
  BY <1>1, Zenon DEF Billed, Charges
<1>5. Billed[s] \in OneSku!Amounts /\ Billed[s] <= Charges[s]
  BY <1>3, <1>4, Zenon
<1> QED
  BY <1>5, AmountsType, QuantityType, SMTT(15)

LEMMA SettleStep ==
  ASSUME TypeOK, Absent, UNCHANGED given, NEW actual \in 0..(MaxQuantity + 1), SettleWindow(actual)
  PROVE  Trimmed' /\ window'.state = "trimming" /\ legs' = legs
<1>1. PICK b : b = MinUint64(actual, request.quantity)
  BY Zenon
<1>2. /\ window' = [state |-> "trimming", actual |-> actual, writeoff |-> actual - b]
      /\ owed' = ComputeWindowCharges(b) /\ legs' = legs /\ posted' = posted /\ window.state = "reserved"
  BY <1>1, Zenon DEF SettleWindow
<1>3. window'.state = "trimming" /\ window'.actual = actual /\ window'.writeoff = actual - b
  BY <1>2, Zenon
<1>4. posted' = <<>> /\ Len(posted') = 0 /\ DOMAIN posted' = {}
  <2>1. posted' = <<>>
    BY <1>2, Zenon DEF Absent
  <2> QED
    BY <2>1
<1>5. b \in 0..request.quantity /\ actual - (actual - b) = b /\ b \in 0..MaxQuantity
  BY <1>1, QuantityType, SMTT(30) DEF MinUint64
<1>6. window'.actual - window'.writeoff = b
  BY <1>3, <1>5, Zenon
<1>7. Billed' = owed'
  BY <1>2, <1>6, Zenon DEF Billed, ComputeWindowCharges, given
<1>8. ASSUME NEW s \in Skus PROVE owed'[s] = Rest(Billed'[s], OneSku!SumOf(LegsUpTo(s, Len(posted))', LegAmounts'))
  <2>1. \A i \in DOMAIN legs' : ~ (i <= 0)
    BY <1>2, LegsType, SMTT(30)
  <2>2. LegsUpTo(s, Len(posted))' = {}
    BY <1>4, <2>1, Zenon DEF LegsUpTo
  <2>3. OneSku!SumOf({}, LegAmounts') = 0
    BY SumZero, Zenon
  <2>4. ComputeWindowCharges(b) \in [Skus -> OneSku!Amounts]
    <3>1. b <= b
      BY <1>5, SMTT(30)
    <3> QED
      BY <1>5, <3>1, ChargesType, ZenonT(30)
  <2>5. owed'[s] \in OneSku!Amounts
    BY <1>2, <2>4, Zenon
  <2>6. Rest(owed'[s], 0) = owed'[s]
    BY <2>5, AmountsType, SMTT(30) DEF Rest
  <2> QED
    BY <1>7, <2>2, <2>3, <2>6, ZenonT(30)
<1>9. Len(posted') <= Len(legs')
  BY <1>2, <1>4, LegsType, SMTT(30)
<1>10. window'.actual - window'.writeoff \in 0..request'.quantity
  BY <1>5, <1>6, Zenon DEF given
<1> QED
  BY <1>2, <1>3, <1>4, <1>8, <1>9, <1>10, ZenonT(30) DEF Trimmed

\* Settlement reads the price and the legs, which no longer change.
LEMMA SameBill ==
  ASSUME UNCHANGED given, UNCHANGED legs, window'.actual = window.actual, window'.writeoff = window.writeoff
  PROVE  /\ Billed' = Billed /\ LegAmounts' = LegAmounts
         /\ \A s, n : LegsUpTo(s, n)' = LegsUpTo(s, n)
         /\ window'.actual - window'.writeoff = window.actual - window.writeoff
         /\ request'.quantity = request.quantity
BY Zenon DEF Billed, ComputeWindowCharges, given, LegAmounts, LegsUpTo

\* A leg that is trimmed posts its share of the bill.
LEMMA TrimStep ==
  ASSUME TypeOK, Trimmed, UNCHANGED given, Trim
  PROVE  Trimmed' /\ window' = window /\ legs' = legs
<1>1. PICK n, k, s : n = Len(posted) /\ k = n + 1 /\ s = legs[k].sku
  BY Zenon
<1>2. PICK cap, a : cap = legs[k].amount /\ a = MinUint64(owed[s], cap)
  BY Zenon
<1>3. /\ window.state = "trimming" /\ window' = window /\ legs' = legs /\ n < Len(legs)
      /\ posted' = Append(posted, a) /\ owed' = [owed EXCEPT ![s] = @ - a]
  BY <1>1, <1>2, Zenon DEF Trim
<1>4. n \in Nat /\ DOMAIN posted = 1..n /\ posted \in Seq(OneSku!Amounts)
  BY <1>1, SMTT(30) DEF TypeOK
<1>5. /\ Len(posted') = k /\ DOMAIN posted' = DOMAIN posted \cup {k} /\ posted'[k] = a
      /\ \A i \in DOMAIN posted : posted'[i] = posted[i]
  BY <1>1, <1>3, <1>4, SMTT(15)
<1>6. k \in DOMAIN legs /\ k <= Len(legs) /\ k - 1 = n
  BY <1>1, <1>3, <1>4, LegsType, SMTT(15)
<1>7. s \in Skus /\ cap \in OneSku!Amounts /\ LegAmounts[k] = cap
  BY <1>1, <1>2, <1>6, LegsType, ZenonT(30)
<1>8. /\ Billed' = Billed /\ LegAmounts' = LegAmounts /\ \A t, m : LegsUpTo(t, m)' = LegsUpTo(t, m)
      /\ window'.actual - window'.writeoff = window.actual - window.writeoff
      /\ request'.quantity = request.quantity
  BY <1>3, SameBill, Zenon
<1>9. /\ window.actual - window.writeoff \in 0..request.quantity
      /\ \A t \in Skus : owed[t] = Rest(Billed[t], OneSku!SumOf(LegsUpTo(t, n), LegAmounts))
      /\ \A i \in DOMAIN posted :
           posted[i] = Clip(Billed[legs[i].sku] - OneSku!SumOf(LegsUpTo(legs[i].sku, i - 1), LegAmounts), legs[i].amount)
  BY <1>1, <1>3, Zenon DEF Trimmed
<1>10. PICK c, x : c = Billed[s] /\ x = OneSku!SumOf(LegsUpTo(s, n), LegAmounts)
  BY Zenon
<1>11. IsFiniteSet(LegsUpTo(s, n)) /\ c \in Nat /\ x \in Nat /\ cap \in Nat
  <2>1. LegsUpTo(s, n) \in SUBSET DOMAIN legs
    BY Zenon DEF LegsUpTo
  <2>2. IsFiniteSet(LegsUpTo(s, n))
    BY <2>1, LegsType, Zenon
  <2>3. c \in Nat
    BY <1>7, <1>9, <1>10, BillType, ZenonT(30)
  <2>4. x \in Nat
    BY <1>10, <2>2, SumType, Zenon
  <2> QED
    BY <1>7, <2>2, <2>3, <2>4, AmountsType, SMTT(15)
<1>12. a = Clip(c - x, cap) /\ owed[s] - a = Rest(c, x + cap)
  <2>1. owed[s] = Rest(c, x)
    BY <1>7, <1>9, <1>10, ZenonT(30)
  <2>2. /\ MinUint64(Rest(c, x), cap) = Clip(c - x, cap)
        /\ Rest(c, x) - MinUint64(Rest(c, x), cap) = Rest(c, x + cap)
    BY <1>11, DrawArithmetic, SMTT(15)
  <2> QED
    BY <1>2, <2>1, <2>2, ZenonT(30)
<1>13. \A i \in DOMAIN legs : (i <= k <=> i <= n \/ i = k) /\ ~ (k <= n)
  BY <1>1, <1>4, LegsType, SMTT(15)
<1>14. LegsUpTo(s, k) = LegsUpTo(s, n) \cup {k} /\ k \notin LegsUpTo(s, n)
  BY <1>1, <1>6, <1>13, ZenonT(30) DEF LegsUpTo
<1>15. OneSku!SumOf(LegsUpTo(s, k), LegAmounts) = x + cap
  BY <1>7, <1>10, <1>11, <1>14, SumAdd, ZenonT(30)
<1>16. ASSUME NEW t \in Skus PROVE owed'[t] = Rest(Billed[t], OneSku!SumOf(LegsUpTo(t, k), LegAmounts))
  <2>0. owed \in [Skus -> OneSku!Amounts]
    BY Zenon DEF TypeOK
  <2>1. CASE t = s
    <3>1. owed'[s] = owed[s] - a
      BY <1>3, <1>7, <2>0, ZenonT(30)
    <3> QED
      BY <1>10, <1>12, <1>15, <2>1, <3>1, ZenonT(30)
  <2>2. CASE t # s
    <3>1. owed'[t] = owed[t]
      BY <1>3, <2>0, <2>2, ZenonT(30)
    <3>2. LegsUpTo(t, k) = LegsUpTo(t, n)
      BY <1>1, <1>13, <2>2, ZenonT(30) DEF LegsUpTo
    <3> QED
      BY <1>9, <3>1, <3>2, ZenonT(30)
  <2> QED
    BY <2>1, <2>2, Zenon
<1>17. ASSUME NEW i \in DOMAIN posted'
       PROVE  posted'[i] = Clip(Billed[legs[i].sku] - OneSku!SumOf(LegsUpTo(legs[i].sku, i - 1), LegAmounts), legs[i].amount)
  <2>1. CASE i \in DOMAIN posted
    BY <1>5, <1>9, <2>1, ZenonT(30)
  <2>2. CASE i = k
    BY <1>1, <1>2, <1>5, <1>6, <1>10, <1>12, <2>2, ZenonT(30)
  <2> QED
    BY <1>5, <2>1, <2>2, ZenonT(30)
<1>18. Trimmed'
  <2>1. window'.state # "settled"
    BY <1>3, Zenon
  <2>2. Len(posted') <= Len(legs')
    BY <1>3, <1>5, <1>6, ZenonT(30)
  <2>3. \A t \in Skus : owed'[t] = Rest(Billed'[t], OneSku!SumOf(LegsUpTo(t, Len(posted))', LegAmounts'))
    <3>1. \A t : LegsUpTo(t, Len(posted))' = LegsUpTo(t, k)
      BY <1>3, <1>5, Zenon DEF LegsUpTo
    <3> QED
      BY <1>8, <1>16, <3>1, ZenonT(30)
  <2>4. ASSUME NEW i \in DOMAIN posted'
        PROVE  posted'[i] = Clip(Billed'[legs'[i].sku] - OneSku!SumOf(LegsUpTo(legs[i].sku, i - 1)', LegAmounts'), legs'[i].amount)
    <3>1. LegsUpTo(legs[i].sku, i - 1)' = LegsUpTo(legs[i].sku, i - 1)
      BY <1>3, ZenonT(30) DEF LegsUpTo
    <3> QED
      BY <1>3, <1>8, <1>17, <3>1, ZenonT(30)
  <2> QED
    BY <1>8, <1>9, <2>1, <2>2, <2>3, <2>4, ZenonT(30) DEF Trimmed
<1> QED
  BY <1>3, <1>18, Zenon

\* Once every leg is trimmed nothing is owed.
LEMMA NothingOwed ==
  ASSUME TypeOK, Complete, Trimmed, window.state \in {"trimming", "settled"}, Len(posted) = Len(legs), NEW s \in Skus
  PROVE  owed[s] = 0 /\ LegsUpTo(s, Len(posted)) = {i \in DOMAIN legs : legs[i].sku = s}
<1>1. \A i \in DOMAIN legs : i <= Len(legs)
  BY LegsType
<1>2. LegsUpTo(s, Len(posted)) = {i \in DOMAIN legs : legs[i].sku = s}
  BY <1>1, Zenon DEF LegsUpTo
<1>3. FundingLegsForComponent(s) = Charges[s]
  BY Zenon DEF Complete, Reserved
<1>4. owed[s] = Rest(Billed[s], Charges[s])
  BY <1>2, <1>3, Zenon DEF FundingLegsForComponent, Trimmed
<1>5. Billed[s] \in Nat /\ Charges[s] \in Nat /\ Billed[s] <= Charges[s]
  BY BillType, Zenon DEF Trimmed
<1> QED
  BY <1>2, <1>4, <1>5, SMTT(15) DEF Rest

\* The settlement is not refused.
LEMMA PrepareStep ==
  ASSUME TypeOK, Complete, Trimmed, UNCHANGED given, PrepareSettlement
  PROVE  Trimmed' /\ window'.state = "settled" /\ legs' = legs
<1>1. /\ window.state = "trimming" /\ Len(posted) = Len(legs) /\ legs' = legs /\ posted' = posted /\ owed' = owed
      /\ window' = [window EXCEPT !.state = IF \E s \in Skus : owed[s] > 0 THEN "refused" ELSE "settled"]
  BY Zenon DEF PrepareSettlement, loops
<1>2. /\ window.actual - window.writeoff \in 0..request.quantity
      /\ \A t \in Skus : owed[t] = Rest(Billed[t], OneSku!SumOf(LegsUpTo(t, Len(posted)), LegAmounts))
      /\ \A i \in DOMAIN posted :
           posted[i] = Clip(Billed[legs[i].sku] - OneSku!SumOf(LegsUpTo(legs[i].sku, i - 1), LegAmounts), legs[i].amount)
  BY <1>1, Zenon DEF Trimmed
<1>3. ASSUME NEW s \in Skus PROVE ~ (owed[s] > 0)
  <2>1. owed[s] = 0
    BY <1>1, NothingOwed, Zenon
  <2> QED
    BY <2>1
<1>4. window' = [window EXCEPT !.state = "settled"]
  BY <1>1, <1>3, Zenon
<1>5. window'.state = "settled" /\ window'.actual = window.actual /\ window'.writeoff = window.writeoff
  <2>1. "settled" \in States
    BY Zenon DEF States
  <2> QED
    BY <1>4, <2>1, WindowType, ZenonT(30)
<1>6. /\ Billed' = Billed /\ LegAmounts' = LegAmounts /\ \A t, m : LegsUpTo(t, m)' = LegsUpTo(t, m)
      /\ window'.actual - window'.writeoff = window.actual - window.writeoff
      /\ request'.quantity = request.quantity
  BY <1>1, <1>5, SameBill, ZenonT(30)
<1>7. Len(posted') <= Len(legs')
  BY <1>1, LegsType, SMTT(15)
<1>8. \A t \in Skus : owed'[t] = Rest(Billed'[t], OneSku!SumOf(LegsUpTo(t, Len(posted))', LegAmounts'))
  <2>1. \A t : LegsUpTo(t, Len(posted))' = LegsUpTo(t, Len(posted))
    BY <1>1, Zenon DEF LegsUpTo
  <2> QED
    BY <1>1, <1>2, <1>6, <2>1, ZenonT(30)
<1>9. ASSUME NEW i \in DOMAIN posted'
      PROVE  posted'[i] = Clip(Billed'[legs'[i].sku] - OneSku!SumOf(LegsUpTo(legs[i].sku, i - 1)', LegAmounts'), legs'[i].amount)
  <2>1. LegsUpTo(legs[i].sku, i - 1)' = LegsUpTo(legs[i].sku, i - 1)
    BY <1>1, Zenon DEF LegsUpTo
  <2> QED
    BY <1>1, <1>2, <1>6, <2>1, ZenonT(30)
<1>10. Trimmed'
  BY <1>1, <1>2, <1>6, <1>7, <1>8, <1>9, ZenonT(30) DEF Trimmed
<1> QED
  BY <1>1, <1>5, <1>10, Zenon

\* A SKU has at most one leg of a source.
LEMMA OneLeg ==
  ASSUME TypeOK, LegsOrdered, NEW i \in DOMAIN legs
  PROVE  LegsOf({legs[i].sku}, legs[i].source) = {i}
<1> DEFINE f == legs[i].source
<1>1. ~ Drained(f, f)
  <2>1. f \in Grants => f # Receivable
    BY AmountsType, ZenonT(30)
  <2>2. GrantTypes
    BY Zenon DEF TypeOK
  <2> QED
    BY <2>1, <2>2, DrawnOrder, ZenonT(30) DEF Drained
<1>2. ASSUME NEW j \in DOMAIN legs, legs[j].sku = legs[i].sku, legs[j].source = f PROVE j = i
  <2>1. ~ (i < j) /\ ~ (j < i)
    BY <1>1, <1>2, Zenon DEF LegsOrdered
  <2> QED
    BY <2>1, LegsType, SMTT(15)
<1> QED
  BY <1>2, Zenon DEF LegsOf

\* What the sources before that of leg i reserve for its SKU is in the earlier legs.
LEMMA EarlierLegs ==
  ASSUME TypeOK, LegsOrdered, NEW i \in DOMAIN legs, NEW s, s = legs[i].sku, NEW f, f = legs[i].source,
         NEW taken, taken = [h \in OneSku!Sources |-> Taken({s}, h)]
  PROVE  OneSku!SumOf(OneSku!Before(f), taken) = OneSku!SumOf(LegsUpTo(s, i - 1), LegAmounts)
<1>0. GrantTypes /\ f \in OneSku!Sources
  BY LegsType, Zenon DEF TypeOK
<1>1. PICK S, B : S = LegsUpTo(s, i - 1) /\ B = OneSku!Before(f)
  BY Zenon
<1>2. \A j \in DOMAIN legs : (j <= i - 1 <=> j < i) /\ (j # i => j < i \/ i < j)
  BY LegsType
<1>3. \A j : j \in S <=> j \in DOMAIN legs /\ j < i /\ legs[j].sku = s
  BY <1>1, <1>2, ZenonT(30) DEF LegsUpTo
<1>4. IsFiniteSet(S)
  <2>1. S \in SUBSET DOMAIN legs
    BY <1>3, Zenon
  <2> QED
    BY <2>1, LegsType, ZenonT(30)
<1>5. \A h : h \in B <=> Drained(h, f)
  <2>1. CASE f \in Grants
    <3>1. B = {h \in Grants : DrawnBefore(h, f)} /\ f # Receivable
      BY <1>0, <1>1, <2>1, BeforeIs, AmountsType, ZenonT(30)
    <3> QED
      BY <2>1, <3>1, Zenon DEF Drained
  <2>2. CASE f = Receivable
    <3>1. B = Grants
      BY <1>0, <1>1, <2>2, BeforeIs, ZenonT(30)
    <3> QED
      BY <2>2, <3>1, ZenonT(40) DEF Drained
  <2> QED
    BY <1>0, <2>1, <2>2, ZenonT(30) DEF OneSku!Sources
<1>6. \A j \in S : Taken({s}, legs[j].source) = LegAmounts[j] /\ legs[j].source \in B
  <2> SUFFICES ASSUME NEW j \in S PROVE Taken({s}, legs[j].source) = LegAmounts[j] /\ legs[j].source \in B
    BY Zenon
  <2>1. j \in DOMAIN legs /\ j < i /\ legs[j].sku = s
    BY <1>3, Zenon
  <2>2. LegsOf({s}, legs[j].source) = {j}
    BY <2>1, OneLeg, ZenonT(40)
  <2>3. LegAmounts[j] \in OneSku!Amounts
    BY <2>1, LegsType, Zenon
  <2>4. Taken({s}, legs[j].source) = LegAmounts[j]
    BY <2>2, <2>3, SumSingleton, ZenonT(30) DEF Taken
  <2>5. Drained(legs[j].source, f)
    BY <2>1, Zenon DEF LegsOrdered
  <2> QED
    BY <1>5, <2>4, <2>5, ZenonT(30)
<1>7. PICK m : m = [j \in S |-> legs[j].source]
  BY Zenon
<1>8. m \in [S -> B]
  BY <1>6, <1>7, ZenonT(40)
<1>9. \A x, y \in S : m[x] = m[y] => x = y
  <2> SUFFICES ASSUME NEW x \in S, NEW y \in S, legs[x].source = legs[y].source PROVE x = y
    BY <1>7, ZenonT(40)
  <2>1. x \in DOMAIN legs /\ y \in DOMAIN legs /\ legs[x].sku = s /\ legs[y].sku = s
    BY <1>3, ZenonT(40)
  <2>2. LegsOf({s}, legs[x].source) = {x} /\ LegsOf({s}, legs[y].source) = {y}
    BY <2>1, OneLeg, ZenonT(30)
  <2> QED
    BY <2>2, ZenonT(40)
<1>10. \A x \in S : LegAmounts[x] = taken[m[x]]
  <2>1. \A h \in B : h \in OneSku!Sources
    BY <1>5, ZenonT(40) DEF Drained, OneSku!Sources
  <2> QED
    BY <1>6, <1>7, <2>1, ZenonT(30)
<1>11. \A y \in B : (\A x \in S : m[x] # y) => taken[y] = 0
  <2> SUFFICES ASSUME NEW y \in B, \A x \in S : m[x] # y PROVE taken[y] = 0
    BY Zenon
  <2>1. y \in Grants /\ y # Receivable /\ y \in OneSku!Sources /\ Drained(y, f)
    BY <1>5, AmountsType, ZenonT(40) DEF Drained, OneSku!Sources
  <2>2. ~ Drained(f, y) /\ y # f
    <3>1. CASE f = Receivable
      BY <2>1, <3>1, AmountsType, ZenonT(30) DEF Drained
    <3>2. CASE f \in Grants /\ f # Receivable
      <4>1. DrawnBefore(y, f)
        BY <2>1, <3>2, ZenonT(30) DEF Drained
      <4>2. ~ DrawnBefore(f, y) /\ ~ DrawnBefore(y, y)
        BY <1>0, <2>1, <3>2, <4>1, DrawnOrder, ZenonT(30)
      <4> QED
        BY <2>1, <4>1, <4>2, ZenonT(30) DEF Drained
    <3> QED
      BY <1>0, <3>1, <3>2, ZenonT(30) DEF OneSku!Sources
  <2>3. ASSUME NEW j \in DOMAIN legs, legs[j].sku = s, legs[j].source = y PROVE FALSE
    <3>1. j # i /\ ~ (i < j)
      BY <2>2, <2>3, ZenonT(30) DEF LegsOrdered
    <3>2. j \in S
      BY <1>2, <1>3, <2>3, <3>1, ZenonT(30)
    <3> QED
      BY <1>7, <2>3, <3>2, ZenonT(30)
  <2>4. LegsOf({s}, y) = {}
    BY <2>3, Zenon DEF LegsOf
  <2>5. OneSku!SumOf({}, LegAmounts) = 0
    BY SumZero, Zenon
  <2> QED
    BY <2>1, <2>4, <2>5, ZenonT(30) DEF Taken
<1>12. PICK a : a = LegAmounts
  BY Zenon
<1>13. \A x \in S : a[x] = taken[m[x]]
  BY <1>10, <1>12, ZenonT(20)
<1>14. OneSku!SumOf(B, taken) = OneSku!SumOf(S, a)
  BY ONLY <1>4, <1>8, <1>9, <1>11, <1>13, SumRenamed, SMTT(15)
<1> QED
  BY <1>1, <1>12, <1>14, ZenonT(20)

\* A settlement posts the waterfall of the bill over the reserved legs.
LEMMA PostedInOrder ==
  ASSUME TypeOK, Absent, LegsOrdered, Trimmed
  PROVE  TrimmedInOrder
<1> SUFFICES ASSUME window.state = "settled", NEW s \in Skus, NEW taken, taken = [h \in OneSku!Sources |-> Taken({s}, h)]
             PROVE  [f \in OneSku!Sources |-> PostedFrom(s, f)] = OneSku!Waterfall(taken, Billed[s])
  BY Zenon DEF TrimmedInOrder, Absent, Billed
<1>1. /\ window.actual - window.writeoff \in 0..request.quantity /\ Len(posted) = Len(legs)
      /\ \A i \in DOMAIN posted :
           posted[i] = Clip(Billed[legs[i].sku] - OneSku!SumOf(LegsUpTo(legs[i].sku, i - 1), LegAmounts), legs[i].amount)
  BY Zenon DEF Trimmed
<1>2. Billed[s] \in Nat
  BY <1>1, BillType, ZenonT(20)
<1>3. DOMAIN posted = DOMAIN legs /\ \A i \in DOMAIN posted : posted[i] \in OneSku!Amounts
  BY <1>1 DEF TypeOK
<1>4. ASSUME NEW f \in OneSku!Sources
      PROVE  PostedFrom(s, f) = Clip(Billed[s] - OneSku!SumOf(OneSku!Before(f), taken), taken[f])
  <2>0. taken[f] = Taken({s}, f)
    BY Zenon
  <2>1. CASE LegsOf({s}, f) = {}
    <3>1. OneSku!SumOf({}, LegAmounts) = 0 /\ OneSku!SumOf({}, posted) = 0
      BY SumZero, Zenon
    <3>2. taken[f] = 0 /\ PostedFrom(s, f) = 0
      BY <2>0, <2>1, <3>1, ZenonT(40) DEF Taken, PostedFrom
    <3>3. OneSku!SumOf(OneSku!Before(f), taken) \in Nat
      <4>1. OneSku!Before(f) \in SUBSET Grants
        BY Zenon DEF OneSku!Before
      <4>2. IsFiniteSet(OneSku!Before(f))
        BY <4>1, FS_Subset, WindowFundingAssumption, ZenonT(30)
      <4> QED
        BY <4>2, SumType, Zenon
    <3>4. PICK x : x = OneSku!SumOf(OneSku!Before(f), taken)
      BY Zenon
    <3>5. Clip(Billed[s] - x, 0) = 0
      BY <1>2, <3>3, <3>4, SMTT(15) DEF Clip
    <3> QED
      BY <3>2, <3>4, <3>5, ZenonT(30)
  <2>2. CASE LegsOf({s}, f) # {}
    <3>1. PICK i \in DOMAIN legs : legs[i].sku = s /\ legs[i].source = f
      BY <2>2, Zenon DEF LegsOf
    <3>2. LegsOf({s}, f) = {i}
      BY <3>1, OneLeg, Zenon
    <3>3. posted[i] \in OneSku!Amounts /\ LegAmounts[i] \in OneSku!Amounts /\ LegAmounts[i] = legs[i].amount
      BY <1>3, LegsType, Zenon
    <3>4. PostedFrom(s, f) = posted[i]
      BY <3>2, <3>3, SumSingleton, ZenonT(40) DEF PostedFrom
    <3>5. taken[f] = legs[i].amount
      BY <2>0, <3>2, <3>3, SumSingleton, ZenonT(30) DEF Taken
    <3>6. OneSku!SumOf(OneSku!Before(f), taken) = OneSku!SumOf(LegsUpTo(s, i - 1), LegAmounts)
      BY <3>1, EarlierLegs, Zenon
    <3> QED
      BY <1>1, <1>3, <3>1, <3>4, <3>5, <3>6, ZenonT(40)
  <2> QED
    BY <2>1, <2>2, ZenonT(30)
<1>5. \A f \in OneSku!Sources : PostedFrom(s, f) = OneSku!Waterfall(taken, Billed[s])[f]
  BY <1>4, WaterfallAt, Zenon
<1>6. OneSku!Waterfall(taken, Billed[s]) = [f \in OneSku!Sources |-> OneSku!Waterfall(taken, Billed[s])[f]]
  BY Zenon DEF OneSku!Waterfall
<1> QED
  BY <1>5, <1>6, ZenonT(30)

-----------------------------------------------------------------------------
(* The invariant is inductive.                                             *)

LEMMA InitInvariant == ASSUME Init PROVE IInv
<1>1. TypeOK
  BY InitTypes, Zenon
<1>2. window.state = "requested" /\ legs = <<>> /\ posted = <<>>
  BY Zenon DEF Init
<1>3. DOMAIN legs = {}
  BY <1>2
<1>4. ~ Reserved
  BY <1>2, Zenon DEF Reserved
<1>5. NeverOverdrawn
  <2> SUFFICES ASSUME NEW g \in Grants PROVE Taken(Skus, g) <= grants[g].available
    BY Zenon DEF NeverOverdrawn
  <2>1. grants[g].available \in 0..MaxAvailable
    BY <1>1, SMTT(30) DEF TypeOK, GrantTypes
  <2>2. 0 <= grants[g].available
    BY <2>1, WindowFundingAssumption, SMTT(30)
  <2> QED
    BY <1>2, <2>2, NoLegs, ZenonT(30)
<1>6. Absent /\ Funding /\ Overage /\ Trimmed
  BY <1>2, Zenon DEF Absent, Funding, Overage, Trimmed
<1> QED
  BY <1>1, <1>3, <1>4, <1>5, <1>6, ZenonT(30) DEF IInv, Complete, LegsOrdered, FundingIsWaterfall, Solvent

\* Steps that stay in the funding loop.
LEMMA FundingState ==
  ASSUME TypeOK', window'.state = "funding", posted' = <<>>, InOrder', Balanced', Shared', LegsOrdered'
  PROVE  IInv'
<1>1. ~ Reserved'
  BY Zenon DEF Reserved
<1>2. Absent' /\ Funding' /\ Overage' /\ Trimmed' /\ Solvent'
  BY Zenon DEF Absent, Funding, Overage, Trimmed, Solvent
<1> QED
  BY <1>1, <1>2, ZenonT(30) DEF IInv, Complete, FundingIsWaterfall

LEMMA FundingSteps ==
  ASSUME IInv, TypeOK', UNCHANGED given,
         ReserveWindow \/ \E s \in Skus : FinishSku(s) \/ \E g \in Grants : Draw(s, g)
  PROVE  IInv'
<1>0. TypeOK /\ Absent /\ Funding /\ LegsOrdered
  BY Zenon DEF IInv
<1>1. CASE ReserveWindow
  <2>1. window.state = "requested" /\ window' = [window EXCEPT !.state = "funding"] /\ posted' = posted
    BY <1>1, Zenon DEF ReserveWindow
  <2>2. "funding" \in States
    BY Zenon DEF States
  <2>3. window'.state = "funding"
    BY <1>0, <2>1, <2>2, WindowType, ZenonT(30)
  <2>4. posted' = <<>>
    BY <1>0, <2>1, Zenon DEF Absent
  <2>5. InOrder' /\ Balanced' /\ Shared' /\ LegsOrdered'
    BY <1>0, <1>1, ReserveStep, ZenonT(30)
  <2> QED
    BY <2>3, <2>4, <2>5, FundingState, ZenonT(30)
<1>2. ASSUME NEW s \in Skus, FinishSku(s) PROVE IInv'
  <2>1. window.state = "funding" /\ window' = window /\ posted' = posted /\ legs' = legs
    BY <1>2, Zenon DEF FinishSku
  <2>2. InOrder /\ Balanced /\ Shared /\ posted = <<>>
    BY <1>0, <2>1, ZenonT(40) DEF Funding, Absent
  <2>3. InOrder' /\ Balanced' /\ Shared'
    BY <1>0, <1>2, <2>2, FinishStep, ZenonT(30)
  <2>4. LegsOrdered'
    BY <1>0, <2>1, SameOrder, ZenonT(30)
  <2> QED
    BY <2>1, <2>2, <2>3, <2>4, FundingState, ZenonT(30)
<1>3. ASSUME NEW s \in Skus, NEW g \in Grants, Draw(s, g) PROVE IInv'
  <2>1. window.state = "funding" /\ window' = window /\ posted' = posted
    BY <1>3, Zenon DEF Draw
  <2>2. InOrder /\ Balanced /\ Shared /\ posted = <<>>
    BY <1>0, <2>1, ZenonT(30) DEF Funding, Absent
  <2>3. InOrder' /\ LegsOrdered'
    BY <1>0, <1>3, <2>2, DrawOrder, ZenonT(30)
  <2>4. Balanced' /\ Shared'
    BY <1>0, <1>3, <2>2, DrawBalance, DrawShare, ZenonT(30)
  <2> QED
    BY <2>1, <2>2, <2>3, <2>4, FundingState, ZenonT(20)
<1> QED
  BY <1>1, <1>2, <1>3, ZenonT(20)

LEMMA ReservationSteps ==
  ASSUME IInv, TypeOK', UNCHANGED given, Authorize \/ InsertWindow \/ \E s \in Skus : ReceivableLeg(s)
  PROVE  IInv'
<1>0. TypeOK /\ Absent /\ Funding /\ Overage /\ LegsOrdered /\ Solvent
  BY Zenon DEF IInv
<1>1. posted' = posted /\ window.state \in {"funding", "overage"}
  BY Zenon DEF Authorize, InsertWindow, ReceivableLeg
<1>2. posted' = <<>>
  BY <1>0, <1>1, ZenonT(40) DEF Absent
<1>3. CASE Authorize
  <2>1. InOrder /\ Balanced /\ Shared
    BY <1>0, <1>3, ZenonT(30) DEF Authorize, Funding
  <2>2. /\ window'.state \in {"reserved", "overage", "denied"} /\ (window'.state = "denied" => legs' = <<>>)
        /\ Overage' /\ Complete' /\ FundingIsWaterfall' /\ NeverOverdrawn' /\ LegsOrdered'
    BY <1>0, <1>3, <2>1, AuthorizeStep, ZenonT(30)
  <2>3. Absent' /\ Funding' /\ Trimmed' /\ Solvent'
    BY <1>2, <2>2, Zenon DEF Absent, Funding, Trimmed, Solvent
  <2> QED
    BY <2>2, <2>3, ZenonT(30) DEF IInv
<1>4. CASE InsertWindow
  <2>1. NeverOverdrawn
    BY <1>0, <1>4, Zenon DEF InsertWindow, Solvent
  <2>2. window'.state = "reserved" /\ Complete' /\ FundingIsWaterfall' /\ NeverOverdrawn' /\ LegsOrdered'
    BY <1>0, <1>4, <2>1, InsertStep, ZenonT(30)
  <2>3. Absent' /\ Funding' /\ Overage' /\ Trimmed' /\ Solvent'
    BY <1>2, <2>2, ZenonT(30) DEF Absent, Funding, Overage, Trimmed, Solvent
  <2> QED
    BY <2>2, <2>3, Zenon DEF IInv
<1>5. ASSUME NEW s \in Skus, ReceivableLeg(s) PROVE IInv'
  <2>1. NeverOverdrawn /\ window.state = "overage"
    BY <1>0, <1>5, ZenonT(20) DEF ReceivableLeg, Solvent
  <2>2. window' = window /\ Overage' /\ NeverOverdrawn' /\ LegsOrdered'
    BY <1>0, <1>5, <2>1, ReceivableStep, ZenonT(30)
  <2>3. ~ Reserved'
    BY <2>1, <2>2, Zenon DEF Reserved
  <2>4. Absent' /\ Funding' /\ Trimmed' /\ Solvent'
    BY <1>2, <2>1, <2>2, ZenonT(40) DEF Absent, Funding, Trimmed, Solvent
  <2> QED
    BY <2>2, <2>3, <2>4, ZenonT(30) DEF IInv, Complete, FundingIsWaterfall
<1> QED
  BY <1>3, <1>4, <1>5, ZenonT(30)

LEMMA SettlementSteps ==
  ASSUME IInv, TypeOK', UNCHANGED given,
         Trim \/ PrepareSettlement \/ \E actual \in 0..(MaxQuantity + 1) : SettleWindow(actual)
  PROVE  IInv'
<1>0. TypeOK /\ Absent /\ Complete /\ LegsOrdered /\ Trimmed /\ FundingIsWaterfall /\ Solvent
  BY Zenon DEF IInv
<1>1. window.state \in {"reserved", "trimming"}
  BY Zenon DEF Trim, PrepareSettlement, SettleWindow
<1>2. Reserved /\ NeverOverdrawn
  BY <1>0, <1>1, Zenon DEF Reserved, Solvent
<1>3. Trimmed' /\ window'.state \in {"trimming", "settled"} /\ legs' = legs
  <2>1. CASE Trim
    <3>1. Trimmed' /\ window' = window /\ legs' = legs /\ window.state = "trimming"
      BY <1>0, <2>1, TrimStep, Zenon DEF Trim
    <3> QED
      BY <3>1, Zenon
  <2>2. CASE PrepareSettlement
    BY <1>0, <2>2, PrepareStep, ZenonT(30)
  <2>3. ASSUME NEW actual \in 0..(MaxQuantity + 1), SettleWindow(actual)
        PROVE  Trimmed' /\ window'.state = "trimming" /\ legs' = legs
    BY <1>0, <2>3, SettleStep, ZenonT(30)
  <2> QED
    BY <2>1, <2>2, <2>3, Zenon
<1>4. Complete' /\ FundingIsWaterfall' /\ NeverOverdrawn' /\ LegsOrdered'
  BY <1>0, <1>2, <1>3, SettlingKeeps, ZenonT(30)
<1>5. Absent' /\ Funding' /\ Overage' /\ Solvent'
  BY <1>3, <1>4, ZenonT(30) DEF Absent, Funding, Overage, Solvent
<1> QED
  BY <1>3, <1>4, <1>5, Zenon DEF IInv

LEMMA Stuttering ==
  ASSUME IInv, TypeOK', UNCHANGED vars
  PROVE  IInv'
<1>0. /\ TypeOK /\ Absent /\ Funding /\ Overage /\ Complete /\ LegsOrdered /\ Trimmed
      /\ FundingIsWaterfall /\ Solvent
  BY Zenon DEF IInv
<1>1. /\ UNCHANGED given /\ legs' = legs /\ posted' = posted /\ window' = window
      /\ balance' = balance /\ owed' = owed /\ skusLeft' = skusLeft /\ grantsLeft' = grantsLeft
      /\ grants' = grants /\ request' = request
  BY Zenon DEF vars, loops, given
<1>2. /\ Charges' = Charges /\ SumFundingLegs' = SumFundingLegs
      /\ \A S, h : Taken(S, h)' = Taken(S, h) /\ LegsOf(S, h)' = LegsOf(S, h)
      /\ \A t : FundingLegsForComponent(t)' = FundingLegsForComponent(t)
  BY <1>1, SameLegs, Zenon DEF Charges, ComputeWindowCharges
<1>3. ASSUME NEW s \in Skus, NEW S, Served(s, S) PROVE Served(s, S)'
  BY <1>1, <1>3, SameServed, ZenonT(30)
<1>4. Absent' /\ LegsOrdered'
  BY <1>0, <1>1, SameOrder, ZenonT(30) DEF Absent
<1>5. Solvent'
  BY <1>0, <1>1, SameDebts, Zenon DEF Solvent
<1>6. Complete' /\ FundingIsWaterfall'
  <2>1. CASE Reserved
    <3>1. NeverOverdrawn
      BY <1>0, <2>1, Zenon DEF Reserved, Solvent
    <3> QED
      BY <1>0, <1>1, <2>1, <3>1, SettlingKeeps, ZenonT(30)
  <2>2. CASE ~ Reserved
    <3>1. ~ Reserved'
      BY <1>1, <2>2, Zenon DEF Reserved
    <3> QED
      BY <3>1, Zenon DEF Complete, FundingIsWaterfall
  <2> QED
    BY <2>1, <2>2, ZenonT(30)
<1>7. Trimmed'
  <2>0. SUFFICES ASSUME window.state \in {"trimming", "settled"} PROVE Trimmed'
    BY <1>1, Zenon DEF Trimmed
  <2>1. Billed' = Billed /\ LegAmounts' = LegAmounts
    BY <1>1, SameBill, Zenon
  <2>2. /\ \A s : LegsUpTo(s, Len(posted))' = LegsUpTo(s, Len(posted))
        /\ \A i : LegsUpTo(legs[i].sku, i - 1)' = LegsUpTo(legs[i].sku, i - 1)
    BY <1>1, Zenon DEF LegsUpTo
  <2> QED
    BY <1>0, <1>1, <2>0, <2>1, <2>2, ZenonT(30) DEF Trimmed
<1>8. Overage'
  <2>0. SUFFICES ASSUME window.state = "overage" PROVE Overage'
    BY <1>1, Zenon DEF Overage
  <2>1. \A s \in Skus : Served(s, Grants)'
    BY <1>0, <1>3, <2>0, Zenon DEF Overage
  <2>2. \A s : LegsOf({s}, Receivable)' = LegsOf({s}, Receivable) /\ Taken({s}, Receivable)' = Taken({s}, Receivable)
    BY <1>2, Zenon DEF Receivable
  <2> QED
    BY <1>0, <1>1, <1>2, <2>0, <2>1, <2>2, ZenonT(30) DEF Overage
<1>9. Funding'
  <2>0. SUFFICES ASSUME window.state = "funding" PROVE Funding'
    BY <1>1, Zenon DEF Funding
  <2>1. InOrder /\ Balanced /\ Shared
    BY <1>0, <2>0, Zenon DEF Funding
  <2>2. Balanced'
    BY <1>1, <1>2, <2>1, ZenonT(40) DEF Balanced
  <2>3. InOrder'
    <3>1. \A x, y : (DrawnBefore(x, y)' <=> DrawnBefore(x, y)) /\ (ChargedBefore(x, y)' <=> ChargedBefore(x, y))
      BY <1>1, ZenonT(40) DEF DrawnBefore, SourceRank, ScopeRank, ChargedBefore
    <3>2. /\ \A t \in Skus \ skusLeft', u \in skusLeft' : ChargedBefore(t, u)'
          /\ \A g \in Grants \ grantsLeft', h \in grantsLeft' : DrawnBefore(g, h)'
      BY <1>1, <2>1, <3>1, ZenonT(30) DEF InOrder
    <3>3. \A i \in DOMAIN legs' :
            /\ legs'[i].source \in Grants
            /\ legs'[i].sku \in skusLeft' => NextSku(legs'[i].sku) /\ legs'[i].source \notin grantsLeft'
      BY <1>1, <2>1, Zenon DEF InOrder
    <3> QED
      BY <1>1, <3>1, <3>2, <3>3, ZenonT(30) DEF InOrder, NextSku
  <2>4. Shared'
    <3>1. \A s : NextSku(s)' <=> NextSku(s)
      BY <1>1, Zenon DEF NextSku, ChargedBefore
    <3>2. \A s \in Skus \ skusLeft : Served(s, Grants)'
      BY <1>3, <2>1, ZenonT(30) DEF Shared
    <3>3. ASSUME NEW s \in skusLeft
          PROVE  IF NextSku(s)' THEN Served(s, Grants \ grantsLeft)' ELSE owed[s] = Charges[s]
      <4>1. CASE NextSku(s)
        <5>1. PICK S : S = Grants \ grantsLeft
          BY Zenon
        <5>2. s \in Skus /\ Served(s, S)
          BY <1>0, <2>1, <4>1, <5>1, ZenonT(30) DEF Shared, TypeOK
        <5>3. Served(s, S)'
          BY <1>3, <5>2, Zenon
        <5>4. Served(s, Grants \ grantsLeft)'
          BY <1>1, <5>1, <5>3, ZenonT(30) DEF Served, Uncovered
        <5> QED
          BY <3>1, <4>1, <5>4, ZenonT(30)
      <4>2. CASE ~ NextSku(s)
        BY <2>1, <3>1, <4>2, ZenonT(30) DEF Shared
      <4> QED
        BY <4>1, <4>2, Zenon
    <3> QED
      BY <1>1, <1>2, <3>2, <3>3, ZenonT(30) DEF Shared
  <2> QED
    BY <2>2, <2>3, <2>4, ZenonT(30) DEF Funding
<1> QED
  BY <1>4, <1>5, <1>6, <1>7, <1>8, <1>9, ZenonT(30) DEF IInv

LEMMA StepInvariant == ASSUME IInv, [Next]_vars PROVE IInv'
<1>1. TypeOK' /\ UNCHANGED given
  BY TypeStep, Given, Zenon DEF IInv
<1>2. CASE ReserveWindow \/ \E s \in Skus : FinishSku(s) \/ \E g \in Grants : Draw(s, g)
  BY <1>1, <1>2, FundingSteps, ZenonT(30)
<1>3. CASE Authorize \/ InsertWindow \/ \E s \in Skus : ReceivableLeg(s)
  BY <1>1, <1>3, ReservationSteps, ZenonT(30)
<1>4. CASE Trim \/ PrepareSettlement \/ \E actual \in 0..(MaxQuantity + 1) : SettleWindow(actual)
  BY <1>1, <1>4, SettlementSteps, ZenonT(30)
<1>5. CASE Done \/ UNCHANGED vars
  BY <1>1, <1>5, Stuttering, Zenon DEF Done
<1> QED
  BY <1>2, <1>3, <1>4, <1>5, ZenonT(30) DEF Next

-----------------------------------------------------------------------------
(* The theorems.                                                           *)

\* The inductive invariant holds in every state of the window: the funding loop of
\* fundReservationTx has given each SKU that it has passed its share of the grants it
\* has reached, its balances are the available ones less the legs, the receivable legs
\* complete the charges, and the settlement's loop owes the bill less the legs passed.
THEOREM WindowInvariant == Spec => []IInv
<1>1. Init => IInv
  BY InitInvariant, Zenon
<1>2. IInv /\ [Next]_vars => IInv'
  BY StepInvariant, Zenon
<1> QED
  BY <1>1, <1>2, PTL DEF Spec

\* fundReservationTx and the receivable legs of ReserveWindow give every SKU of a
\* reservation, in every order and scope of the grants, the strict waterfall that the
\* ledger's model uses: each source gives what the earlier ones left uncovered, up to
\* what the earlier SKUs left of it.
THEOREM FundingIsWaterfallTheorem == Spec => []FundingIsWaterfall
<1>1. IInv => FundingIsWaterfall
  BY ZenonT(30) DEF IInv
<1> QED
  BY <1>1, WindowInvariant, PTL

\* The legs of a window never draw more from a grant than it has available, at any
\* step of the loops over SKUs and grants in fundReservationTx.
THEOREM NeverOverdrawnTheorem == Spec => []NeverOverdrawn
<1>1. IInv => NeverOverdrawn
  BY NotOverdrawn, ZenonT(30) DEF IInv, Funding, Solvent
<1> QED
  BY <1>1, WindowInvariant, PTL

\* settleWindowLedgerPayloadTx never finds a bill that exceeds the reserved legs, and
\* posts the waterfall of each SKU's bill over its legs, whatever the usage reported.
THEOREM TrimmedInOrderTheorem == Spec => []TrimmedInOrder
<1>1. IInv => TrimmedInOrder
  BY PostedInOrder, Zenon DEF IInv
<1> QED
  BY <1>1, WindowInvariant, PTL

-----------------------------------------------------------------------------
(* What a settlement posts in all.                                         *)

\* The legs that are trimmed post what is no longer owed.
Paid ==
  window.state \in {"trimming", "settled"} =>
    \A s \in Skus : OneSku!SumOf(LegsUpTo(s, Len(posted)), posted) + owed[s] = Billed[s]

SettledInFull ==
  window.state = "settled" =>
    \A s \in Skus : OneSku!SumOf({i \in DOMAIN legs : legs[i].sku = s}, posted) = Billed[s]

LEMMA PaidStep == ASSUME IInv, Paid, [Next]_vars PROVE Paid'
<1>0. TypeOK /\ Absent /\ Trimmed /\ UNCHANGED given
  BY Given, Zenon DEF IInv
<1>1. CASE Trim
  <2>1. PICK n, k, s : n = Len(posted) /\ k = n + 1 /\ s = legs[k].sku
    BY Zenon
  <2>2. PICK a : a = MinUint64(owed[s], legs[k].amount)
    BY Zenon
  <2>3. /\ window.state = "trimming" /\ window' = window /\ legs' = legs /\ n < Len(legs)
        /\ posted' = Append(posted, a) /\ owed' = [owed EXCEPT ![s] = @ - a]
    BY <1>1, <2>1, <2>2, ZenonT(20) DEF Trim
  <2>4. n \in Nat /\ DOMAIN posted = 1..n /\ posted \in Seq(OneSku!Amounts)
    BY <1>0, <2>1, SMTT(15) DEF TypeOK
  <2>5. Len(posted') = k /\ posted'[k] = a /\ \A i \in 1..n : posted'[i] = posted[i]
    BY <2>1, <2>3, <2>4, SMTT(15)
  <2>6. k \in DOMAIN legs /\ \A i \in DOMAIN legs : (i <= k <=> i <= n \/ i = k) /\ ~ (k <= n) /\ (i <= n => i \in 1..n)
    BY <1>0, <2>1, <2>3, <2>4, LegsType, SMTT(15)
  <2>7. s \in Skus /\ owed[s] \in OneSku!Amounts /\ a \in OneSku!Amounts /\ owed \in [Skus -> OneSku!Amounts]
    <3>1. s \in Skus /\ legs[k].amount \in OneSku!Amounts
      BY <1>0, <2>1, <2>6, LegsType, ZenonT(30)
    <3>2. owed[s] \in OneSku!Amounts /\ owed \in [Skus -> OneSku!Amounts]
      BY <1>0, <3>1, ZenonT(30) DEF TypeOK
    <3> QED
      BY <2>2, <3>1, <3>2, MinType, ZenonT(30)
  <2>8. Billed' = Billed /\ \A t : LegsUpTo(t, Len(posted))' = LegsUpTo(t, k)
    <3>1. Billed' = Billed
      BY <1>0, <2>3, SameBill, ZenonT(30)
    <3> QED
      BY <2>3, <2>5, <3>1, ZenonT(30) DEF LegsUpTo
  <2>9. ASSUME NEW t \in Skus PROVE OneSku!SumOf(LegsUpTo(t, k), posted') + owed'[t] = Billed[t]
    <3>1. PICK A, x : A = LegsUpTo(t, n) /\ x = OneSku!SumOf(A, posted)
      BY Zenon
    <3>2. x + owed[t] = Billed[t]
      BY <2>1, <2>3, <3>1, ZenonT(30) DEF Paid
    <3>3. OneSku!SumOf(A, posted') = x
      <4>1. \A i \in A : posted'[i] = posted[i]
        BY <2>5, <2>6, <3>1, ZenonT(30) DEF LegsUpTo
      <4> QED
        BY <3>1, <4>1, SumCongruence, ZenonT(30)
    <3>4. IsFiniteSet(A)
      <4>1. A \in SUBSET DOMAIN legs
        BY <3>1, Zenon DEF LegsUpTo
      <4> QED
        BY <1>0, <4>1, LegsType, ZenonT(40)
    <3>5. CASE t = s
      <4>1. LegsUpTo(t, k) = A \cup {k} /\ k \notin A
        BY <2>1, <2>6, <3>1, <3>5, ZenonT(30) DEF LegsUpTo
      <4>2. OneSku!SumOf(LegsUpTo(t, k), posted') = x + a
        <5>1. PICK p : p = posted'
          BY Zenon
        <5>2. p[k] = a /\ p[k] \in OneSku!Amounts
          BY <2>5, <2>7, <5>1, ZenonT(30)
        <5>3. OneSku!SumOf(A \cup {k}, p) = OneSku!SumOf(A, p) + p[k]
          BY ONLY <3>4, <4>1, <5>2, SumAdd, SMTT(15)
        <5> QED
          BY <3>3, <4>1, <5>1, <5>2, <5>3, ZenonT(30)
      <4>3. owed'[t] = owed[t] - a
        BY <2>3, <2>7, <3>5, ZenonT(30)
      <4>4. x \in Nat
        BY <3>1, <3>4, SumType, ZenonT(30)
      <4>5. x + a + (owed[t] - a) = x + owed[t]
        BY <2>7, <3>5, <4>4, AmountsType, SMTT(15)
      <4> QED
        BY <3>2, <4>2, <4>3, <4>5, ZenonT(40)
    <3>6. CASE t # s
      <4>1. LegsUpTo(t, k) = A
        BY <2>1, <2>6, <3>1, <3>6, ZenonT(30) DEF LegsUpTo
      <4>2. owed'[t] = owed[t]
        BY <2>3, <2>7, <3>6, ZenonT(30)
      <4> QED
        BY <3>2, <3>3, <4>1, <4>2, ZenonT(30)
    <3> QED
      BY <3>5, <3>6, Zenon
  <2> QED
    BY <2>8, <2>9, Zenon DEF Paid
<1>2. ASSUME NEW actual \in 0..(MaxQuantity + 1), SettleWindow(actual) PROVE Paid'
  <2>1. Trimmed' /\ window'.state = "trimming" /\ legs' = legs /\ posted' = <<>>
    BY <1>0, <1>2, SettleStep, ZenonT(40) DEF SettleWindow, Absent
  <2>2. Len(posted') = 0 /\ \A i \in DOMAIN legs' : ~ (i <= 0)
    BY <1>0, <2>1, LegsType, SMTT(30)
  <2>3. \A s : LegsUpTo(s, Len(posted))' = {}
    BY <2>2, Zenon DEF LegsUpTo
  <2>4. OneSku!SumOf({}, posted') = 0 /\ OneSku!SumOf({}, LegAmounts') = 0
    BY SumZero, Zenon
  <2>5. ASSUME NEW s \in Skus PROVE 0 + owed'[s] = Billed'[s]
    <3>1. owed'[s] = Rest(Billed'[s], 0)
      BY <2>1, <2>3, <2>4, ZenonT(30) DEF Trimmed
    <3>2. TypeOK'
      BY <1>0, TypeStep, Zenon
    <3>3. Billed' = owed'
      <4>1. PICK b : b = MinUint64(actual, request.quantity)
        BY Zenon
      <4>2. /\ window' = [state |-> "trimming", actual |-> actual, writeoff |-> actual - b]
            /\ owed' = ComputeWindowCharges(b)
        BY <1>2, <4>1, Zenon DEF SettleWindow
      <4>3. actual - (actual - b) = b
        BY <1>0, <4>1, QuantityType, SMTT(30) DEF MinUint64
      <4>4. window'.actual - window'.writeoff = b
        BY <4>2, <4>3, Zenon
      <4> QED
        BY <1>0, <4>2, <4>4, ZenonT(30) DEF Billed, ComputeWindowCharges, given
    <3>4. owed'[s] \in OneSku!Amounts
      BY <3>2, Zenon DEF TypeOK
    <3> QED
      BY <3>3, <3>4, AmountsType, SMTT(30)
  <2> QED
    BY <2>3, <2>4, <2>5, ZenonT(30) DEF Paid
<1>3. CASE PrepareSettlement \/ Done \/ UNCHANGED vars
  <2>1. /\ legs' = legs /\ posted' = posted /\ owed' = owed
        /\ window.state = "trimming" \/ window' = window
    BY <1>3, Zenon DEF PrepareSettlement, Done, vars, loops
  <2>2. window'.actual = window.actual /\ window'.writeoff = window.writeoff
    <3>1. CASE PrepareSettlement
      <4>1. PICK st : st = IF \E s \in Skus : owed[s] > 0 THEN "refused" ELSE "settled"
        BY Zenon
      <4>2. st \in States /\ window' = [window EXCEPT !.state = st]
        BY <3>1, <4>1, Zenon DEF PrepareSettlement, States
      <4> QED
        BY <1>0, <4>2, WindowType, ZenonT(30)
    <3>2. CASE Done \/ UNCHANGED vars
      BY <3>2, Zenon DEF Done, vars
    <3> QED
      BY <1>3, <3>1, <3>2, ZenonT(30)
  <2>3. Billed' = Billed /\ \A t : LegsUpTo(t, Len(posted))' = LegsUpTo(t, Len(posted))
    <3>1. Billed' = Billed
      BY <1>0, <2>1, <2>2, SameBill, ZenonT(30)
    <3> QED
      BY <2>1, <3>1, Zenon DEF LegsUpTo
  <2> QED
    BY <2>1, <2>3, Zenon DEF Paid
<1>4. CASE ReserveWindow \/ Authorize \/ InsertWindow
           \/ \E s \in Skus : FinishSku(s) \/ ReceivableLeg(s) \/ \E g \in Grants : Draw(s, g)
  <2>1. window'.state \in {"funding", "reserved", "overage", "denied"}
    <3>1. CASE ReserveWindow \/ InsertWindow
      <4>1. PICK st \in {"funding", "reserved"} : window' = [window EXCEPT !.state = st]
        BY <3>1, Zenon DEF ReserveWindow, InsertWindow
      <4>2. st \in States
        BY <4>1, Zenon DEF States
      <4> QED
        BY <1>0, <4>1, <4>2, WindowType, ZenonT(30)
    <3>2. CASE Authorize
      <4>1. InOrder /\ Balanced /\ Shared /\ LegsOrdered
        BY <3>2, Zenon DEF Authorize, IInv, Funding
      <4> QED
        BY <1>0, <3>2, <4>1, AuthorizeStep, ZenonT(30)
    <3>3. CASE \E s \in Skus : FinishSku(s) \/ ReceivableLeg(s) \/ \E g \in Grants : Draw(s, g)
      BY <3>3, Zenon DEF FinishSku, ReceivableLeg, Draw
    <3> QED
      BY <1>4, <3>1, <3>2, <3>3, ZenonT(30)
  <2> QED
    BY <2>1, Zenon DEF Paid
<1> QED
  BY <1>1, <1>2, <1>3, <1>4, ZenonT(30) DEF Next

\* The legs of a reservation add up to the price of its allocation, and what its
\* settlement posts from them to the price of the billable usage, SKU by SKU: no
\* charge unit is lost or posted twice between the loops of ReserveWindow and
\* settleWindowLedgerPayloadTx.
THEOREM ReservedAndSettledInFull == Spec => [](Complete /\ SettledInFull)
<1>1. Init => Paid
  <2> SUFFICES ASSUME Init PROVE Paid
    BY Zenon
  <2>1. window.state = "requested"
    BY Zenon DEF Init
  <2> QED
    BY <2>1, Zenon DEF Paid
<1>2. IInv /\ Paid /\ [Next]_vars => Paid'
  BY PaidStep, Zenon
<1>3. IInv /\ Paid => Complete /\ SettledInFull
  <2> SUFFICES ASSUME IInv, Paid, window.state = "settled", NEW s \in Skus
               PROVE  OneSku!SumOf({i \in DOMAIN legs : legs[i].sku = s}, posted) = Billed[s]
    BY Zenon DEF IInv, SettledInFull
  <2>1. TypeOK /\ Complete /\ Trimmed /\ Len(posted) = Len(legs)
    BY Zenon DEF IInv, Trimmed
  <2>2. owed[s] = 0 /\ LegsUpTo(s, Len(posted)) = {i \in DOMAIN legs : legs[i].sku = s}
    BY <2>1, NothingOwed, Zenon
  <2>3. PICK x : x = OneSku!SumOf(LegsUpTo(s, Len(posted)), posted)
    BY Zenon
  <2>4. x \in Nat
    <3>1. LegsUpTo(s, Len(posted)) \in SUBSET DOMAIN legs
      BY Zenon DEF LegsUpTo
    <3>2. IsFiniteSet(LegsUpTo(s, Len(posted)))
      BY <2>1, <3>1, LegsType, ZenonT(30)
    <3> QED
      BY <2>3, <3>2, SumType, ZenonT(40)
  <2>5. x + 0 = Billed[s]
    BY <2>2, <2>3, Zenon DEF Paid
  <2>6. x = Billed[s]
    BY <2>4, <2>5
  <2> QED
    BY <2>2, <2>3, <2>6, ZenonT(30)
<1> QED
  BY <1>1, <1>2, <1>3, WindowInvariant, PTL DEF Spec
=============================================================================
