---------------------- MODULE WindowReservationProofs ----------------------
(***************************************************************************)
(* The loops that fund a billing window: sums, prices and orders, the      *)
(* inductive invariant of WindowFunding, and the steps that draw grants.   *)
(*                                                                         *)
(* The invariant says what each loop has done when it has gone part of the *)
(* way: the sources it passed have given their share of the waterfall, and *)
(* what is still owed is what they could not cover.                        *)
(***************************************************************************)
EXTENDS WindowFunding, FunctionTheorems, FiniteSetTheorems, TLAPS

(* Sums of charge units over any finite set of owners.                     *)

\* A sum is the number of its units.
LEMMA SumIs ==
    ASSUME NEW S, NEW f
    PROVE  OneSku!SumOf(S, f) = Cardinality(OneSku!UnitsOf(S, f))
<1>1. OneSku!Cardinality(OneSku!UnitsOf(S, f)) = Cardinality(OneSku!UnitsOf(S, f))
  BY Zenon DEF OneSku!Cardinality, Cardinality
<1> QED
  BY <1>1, Zenon DEF OneSku!SumOf

\* A quotient rounded up is a natural number and grows with the dividend.
LEMMA Ceiling ==
    ASSUME NEW D \in Nat \ {0}, NEW a \in Nat, NEW b \in Nat, a <= b
    PROVE  /\ (a + D - 1) \div D \in Nat
           /\ (a + D - 1) \div D <= (b + D - 1) \div D
<1> DEFINE p == (a + D - 1) \div D
           q == (b + D - 1) \div D
<1>1. p \in Int /\ q \in Int /\ D \in Int /\ D > 0
  OBVIOUS
<1>2. D * p <= a + D - 1 /\ a + D - 1 < D * p + D
  OBVIOUS
<1>3. D * q <= b + D - 1 /\ b + D - 1 < D * q + D
  OBVIOUS
<1> HIDE DEF p, q
<1>4. p >= 0
  <2> SUFFICES ASSUME p <= 0 - 1 PROVE FALSE
    BY <1>1
  <2>1. D * p <= D * (0 - 1)
    BY <1>1
  <2> QED
    BY <1>1, <1>2, <2>1
<1>5. p <= q
  <2> SUFFICES ASSUME p >= q + 1 PROVE FALSE
    BY <1>1
  <2>1. D * p >= D * (q + 1)
    BY <1>1
  <2>2. D * (q + 1) = D * q + D
    BY <1>1
  <2> QED
    BY <1>1, <1>2, <1>3, <2>1, <2>2
<1> QED
  BY <1>1, <1>4, <1>5 DEF p, q

LEMMA Products ==
    ASSUME NEW r \in Nat, NEW R \in Nat, r <= R, NEW m \in Nat, NEW n \in Nat, m <= n
    PROVE  r * m \in Nat /\ r * m <= r * n /\ r * n <= R * n
OBVIOUS

LEMMA LargestAmount ==
    /\ MaxAmount \in Nat /\ MaxAvailable <= MaxAmount
    /\ ChargeUnitsForQuantity(MaxRate, MaxQuantity) <= MaxAmount
<1> DEFINE x == MaxRate * MaxQuantity
           charge == (x + Denominator - 1) \div Denominator
<1>1. x \in Nat /\ x <= x /\ Denominator \in Nat \ {0} /\ MaxAvailable \in Nat
  BY WindowFundingAssumption
<1>2. charge \in Nat
  <2> HIDE DEF x
  <2> QED
    BY <1>1, Ceiling
<1>3. ChargeUnitsForQuantity(MaxRate, MaxQuantity) = charge
  BY Zenon DEF ChargeUnitsForQuantity
<1>4. MaxAmount = IF charge < MaxAvailable THEN MaxAvailable ELSE charge
  BY <1>3, Zenon DEF MaxAmount
<1> HIDE DEF charge
<1> QED
  BY <1>1, <1>2, <1>3, <1>4

LEMMA AmountsType ==
    /\ MaxAmount \in Nat /\ OneSku!Amounts = 0..MaxAmount
    /\ OneSku!Sources = Grants \cup {0} /\ Receivable = 0 /\ 0 \notin Grants
<1>1. MaxAmount \in Nat
  BY LargestAmount, Zenon
<1>2. OneSku!Amounts = 0..MaxAmount
  BY Zenon DEF OneSku!Amounts
<1>3. /\ OneSku!Sources = Grants \cup {0} /\ Receivable = 0
  BY Zenon DEF OneSku!Sources, Receivable
<1>4. 0 \notin Grants
  BY WindowFundingAssumption
<1> QED
  BY <1>1, <1>2, <1>3, <1>4, Zenon

LEMMA SumType ==
    ASSUME NEW S, IsFiniteSet(S), NEW f
    PROVE  IsFiniteSet(OneSku!UnitsOf(S, f)) /\ OneSku!SumOf(S, f) \in Nat
<1>1. IsFiniteSet(1..MaxAmount)
  BY FS_Interval, AmountsType
<1>2. IsFiniteSet(S \X (1..MaxAmount))
  BY <1>1, FS_Product, Zenon
<1>3. OneSku!UnitsOf(S, f) \in SUBSET (S \X (1..MaxAmount))
  BY Zenon DEF OneSku!UnitsOf
<1>4. IsFiniteSet(OneSku!UnitsOf(S, f))
  BY <1>2, <1>3, FS_Subset, Zenon
<1> QED
  BY <1>4, SumIs, FS_CardinalityType, Zenon

\* Owners with nothing sum to zero.
LEMMA SumZero ==
    ASSUME NEW S, NEW f, \A x \in S : f[x] = 0
    PROVE  OneSku!SumOf(S, f) = 0
<1>1. ASSUME NEW u \in OneSku!UnitsOf(S, f) PROVE FALSE
  <2>1. u[1] \in S /\ u[2] \in 1..MaxAmount /\ u[2] <= f[u[1]]
    BY <1>1 DEF OneSku!UnitsOf
  <2>2. u[2] <= 0
    BY <2>1, Zenon
  <2> QED
    BY <2>1, <2>2, AmountsType
<1>2. OneSku!UnitsOf(S, f) = {}
  BY <1>1, Zenon
<1> QED
  BY <1>2, SumIs, FS_EmptySet, Zenon

\* The sum over one owner is that owner's amount.
LEMMA SumSingleton ==
    ASSUME NEW x, NEW f, f[x] \in OneSku!Amounts
    PROVE  OneSku!SumOf({x}, f) = f[x]
<1> DEFINE n == f[x]
           b == [i \in 1..n |-> <<x, i>>]
<1>1. n \in Nat /\ n <= MaxAmount /\ MaxAmount \in Nat
  BY AmountsType
<1>2. OneSku!UnitsOf({x}, f) = {<<x, i>> : i \in 1..n}
  BY <1>1 DEF OneSku!UnitsOf
<1>3. b \in Bijection(1..n, OneSku!UnitsOf({x}, f))
  BY <1>1, <1>2, Zenon DEF Bijection, Injection, Surjection, IsInjective
<1>4. IsFiniteSet(1..n) /\ Cardinality(1..n) = n
  <2> HIDE DEF n
  <2>1. 1 \in Int /\ n \in Int
    BY <1>1
  <2>2. Cardinality(1..n) = IF 1 > n THEN 0 ELSE n - 1 + 1
    BY <2>1, FS_Interval, Zenon
  <2> QED
    BY <1>1, <2>1, <2>2, FS_Interval
<1>5. ExistsBijection(1..n, OneSku!UnitsOf({x}, f))
  BY <1>3, Zenon DEF ExistsBijection
<1> QED
  BY <1>4, <1>5, SumIs, FS_Bijection, Zenon

\* Sums over disjoint sets add up.
LEMMA SumUnion ==
    ASSUME NEW S, NEW T, IsFiniteSet(S), IsFiniteSet(T), S \cap T = {}, NEW f
    PROVE  OneSku!SumOf(S \cup T, f) = OneSku!SumOf(S, f) + OneSku!SumOf(T, f)
<1> DEFINE A == OneSku!UnitsOf(S, f)
           B == OneSku!UnitsOf(T, f)
<1>1. OneSku!UnitsOf(S \cup T, f) = A \cup B
  BY Zenon DEF OneSku!UnitsOf
<1>2. A \cap B = {}
  BY Zenon DEF OneSku!UnitsOf
<1>3. IsFiniteSet(A) /\ IsFiniteSet(B)
  BY SumType, Zenon
<1>4. OneSku!SumOf(S, f) \in Nat /\ OneSku!SumOf(T, f) \in Nat
  BY SumType, Zenon
<1>5. Cardinality(A \cup B) = Cardinality(A) + Cardinality(B) - Cardinality(A \cap B)
  BY <1>3, FS_Union, Zenon
<1>6. Cardinality(A \cap B) = 0
  BY <1>2, FS_EmptySet, Zenon
<1>7. /\ OneSku!SumOf(S \cup T, f) = Cardinality(A \cup B)
      /\ OneSku!SumOf(S, f) = Cardinality(A)
      /\ OneSku!SumOf(T, f) = Cardinality(B)
  BY <1>1, SumIs, Zenon
<1> HIDE DEF A, B
<1> QED
  BY <1>4, <1>5, <1>6, <1>7

\* One more owner adds its own amount.
LEMMA SumAdd ==
    ASSUME NEW S, IsFiniteSet(S), NEW x, x \notin S, NEW f, f[x] \in OneSku!Amounts
    PROVE  OneSku!SumOf(S \cup {x}, f) = OneSku!SumOf(S, f) + f[x]
<1>1. IsFiniteSet({x}) /\ S \cap {x} = {}
  BY FS_Singleton, Zenon
<1>2. OneSku!SumOf(S \cup {x}, f) = OneSku!SumOf(S, f) + OneSku!SumOf({x}, f)
  BY <1>1, SumUnion
<1> QED
  BY <1>2, SumSingleton, Zenon

\* The sum over a set depends on the amounts of its members only.
LEMMA SumCongruence ==
    ASSUME NEW S, NEW f, NEW h, \A x \in S : f[x] = h[x]
    PROVE  OneSku!SumOf(S, f) = OneSku!SumOf(S, h)
<1>1. OneSku!UnitsOf(S, f) = OneSku!UnitsOf(S, h)
  BY Zenon DEF OneSku!UnitsOf
<1> QED
  BY <1>1, SumIs, Zenon

\* A part sums to no more than the whole.
LEMMA SumPart ==
    ASSUME NEW T, IsFiniteSet(T), NEW S \in SUBSET T, NEW f
    PROVE  /\ OneSku!SumOf(S, f) \in Nat /\ OneSku!SumOf(T, f) \in Nat
           /\ OneSku!SumOf(T, f) = OneSku!SumOf(S, f) + OneSku!SumOf(T \ S, f)
           /\ OneSku!SumOf(S, f) <= OneSku!SumOf(T, f)
<1>1. IsFiniteSet(S) /\ IsFiniteSet(T \ S)
  BY FS_Subset, Zenon
<1>2. S \cup (T \ S) = T /\ S \cap (T \ S) = {}
  BY Zenon
<1>3. OneSku!SumOf(T, f) = OneSku!SumOf(S, f) + OneSku!SumOf(T \ S, f)
  <2>1. OneSku!SumOf(S \cup (T \ S), f) = OneSku!SumOf(S, f) + OneSku!SumOf(T \ S, f)
    BY <1>1, <1>2, SumUnion, SMTT(30)
  <2> QED
    BY <1>2, <2>1, Zenon
<1>4. OneSku!SumOf(S, f) \in Nat /\ OneSku!SumOf(T \ S, f) \in Nat
  BY <1>1, SumType, Zenon
<1> QED
  BY <1>3, <1>4

\* A sum whose owners are renamed, among others that have nothing.
LEMMA SumRenamed ==
    ASSUME NEW S, IsFiniteSet(S), NEW T, NEW f, NEW h, NEW m \in [S -> T],
           \A x, y \in S : m[x] = m[y] => x = y,
           \A x \in S : f[x] = h[m[x]],
           \A y \in T : (\A x \in S : m[x] # y) => h[y] = 0
    PROVE  OneSku!SumOf(T, h) = OneSku!SumOf(S, f)
<1> DEFINE A == OneSku!UnitsOf(S, f)
           B == OneSku!UnitsOf(T, h)
           b == [u \in A |-> <<m[u[1]], u[2]>>]
<1>1. ASSUME NEW u \in A PROVE u[1] \in S /\ u[2] \in 1..MaxAmount /\ u = <<u[1], u[2]>> /\ u[2] <= f[u[1]]
  BY <1>1 DEF OneSku!UnitsOf
<1>2. ASSUME NEW u \in A PROVE b[u] \in B
  <2>1. m[u[1]] \in T /\ u[2] <= h[m[u[1]]] /\ u[2] \in 1..MaxAmount
    BY <1>1, <1>2, Zenon
  <2>2. <<m[u[1]], u[2]>> \in T \X (1..MaxAmount)
    BY <2>1, Zenon
  <2> QED
    BY <2>1, <2>2 DEF OneSku!UnitsOf
<1>3. ASSUME NEW u \in A, NEW v \in A, b[u] = b[v] PROVE u = v
  <2>1. <<m[u[1]], u[2]>> = <<m[v[1]], v[2]>>
    BY <1>3, Zenon
  <2>2. m[u[1]] = m[v[1]] /\ u[2] = v[2]
    BY ONLY <2>1
  <2>3. u[1] \in S /\ v[1] \in S /\ u = <<u[1], u[2]>> /\ v = <<v[1], v[2]>>
    BY <1>1, Zenon
  <2>4. u[1] = v[1]
    BY <2>2, <2>3, Zenon
  <2> QED
    BY <2>2, <2>3, <2>4
<1>4. ASSUME NEW v \in B PROVE \E u \in A : b[u] = v
  <2>1. v[1] \in T /\ v[2] \in 1..MaxAmount /\ v = <<v[1], v[2]>> /\ v[2] <= h[v[1]]
    BY <1>4 DEF OneSku!UnitsOf
  <2>2. h[v[1]] # 0
    <3> SUFFICES ASSUME h[v[1]] = 0 PROVE FALSE
      OBVIOUS
    <3>1. v[2] <= 0
      BY <2>1, Zenon
    <3> QED
      BY <2>1, <3>1, AmountsType, SMTT(30)
  <2>3. PICK x \in S : m[x] = v[1]
    BY <2>1, <2>2, Zenon
  <2>4. <<x, v[2]>> \in A
    BY <2>1, <2>3, SMTT(30) DEF OneSku!UnitsOf
  <2>5. b[<<x, v[2]>>] = <<m[x], v[2]>>
    BY <2>4
  <2> QED
    BY <2>1, <2>3, <2>4, <2>5, Zenon
<1>5. b \in Bijection(A, B)
  <2>1. b \in [A -> B]
    BY <1>2, Zenon
  <2> HIDE DEF b, A, B
  <2> QED
    BY <1>3, <1>4, <2>1, Zenon DEF Bijection, Injection, Surjection, IsInjective
<1>6. IsFiniteSet(A)
  BY SumType, Zenon
<1>7. Cardinality(A) = Cardinality(B)
  <2> HIDE DEF b, A, B
  <2> QED
    BY <1>5, <1>6, FS_Bijection, Zenon DEF ExistsBijection
<1> QED
  BY <1>7, SumIs, Zenon

-----------------------------------------------------------------------------
(* Prices.                                                                 *)

\* chargeUnitsForQuantity gives an amount, and more usage never costs less.
LEMMA ChargeType ==
    ASSUME NEW r \in 0..MaxRate, NEW m \in 0..MaxQuantity, NEW n \in 0..MaxQuantity, m <= n
    PROVE  /\ ChargeUnitsForQuantity(r, m) \in OneSku!Amounts
           /\ ChargeUnitsForQuantity(r, n) \in OneSku!Amounts
           /\ ChargeUnitsForQuantity(r, m) <= ChargeUnitsForQuantity(r, n)
<1>1. /\ r \in Nat /\ r <= MaxRate /\ MaxRate \in Nat /\ MaxQuantity \in Nat /\ MaxAvailable \in Nat
      /\ m \in Nat /\ n \in Nat /\ n <= MaxQuantity /\ m <= MaxQuantity /\ Denominator \in Nat \ {0}
  BY WindowFundingAssumption
<1>2. r * m \in Nat /\ r * n \in Nat /\ r * m <= r * n
  BY <1>1, Products
<1>3. r * n <= MaxRate * MaxQuantity
  <2>1. r * n <= r * MaxQuantity /\ r * MaxQuantity <= MaxRate * MaxQuantity
    BY <1>1, Products
  <2> QED
    BY <1>1, <2>1
<1> DEFINE a == r * m
           b == r * n
           c == MaxRate * MaxQuantity
<1>4. c \in Nat
  BY <1>1
<1>5. /\ (a + Denominator - 1) \div Denominator \in Nat
      /\ (a + Denominator - 1) \div Denominator <= (b + Denominator - 1) \div Denominator
  <2> HIDE DEF a, b
  <2> QED
    BY <1>1, <1>2, Ceiling DEF a, b
<1>6. /\ (b + Denominator - 1) \div Denominator \in Nat
      /\ (b + Denominator - 1) \div Denominator <= (c + Denominator - 1) \div Denominator
  <2>1. b \in Nat /\ b <= c
    BY <1>2, <1>3, Zenon
  <2> HIDE DEF b, c
  <2> QED
    BY <1>1, <1>4, <2>1, Ceiling, SMTT(30)
<1>7. /\ ChargeUnitsForQuantity(r, m) = (a + Denominator - 1) \div Denominator
      /\ ChargeUnitsForQuantity(r, n) = (b + Denominator - 1) \div Denominator
      /\ ChargeUnitsForQuantity(MaxRate, MaxQuantity) = (c + Denominator - 1) \div Denominator
  BY Zenon DEF ChargeUnitsForQuantity
<1>8. ChargeUnitsForQuantity(MaxRate, MaxQuantity) \in Int
  <2>1. c <= c
    BY <1>4
  <2> HIDE DEF c
  <2> QED
    BY <1>1, <1>4, <1>7, <2>1, Ceiling, SMTT(30)
<1>9. ChargeUnitsForQuantity(r, n) <= ChargeUnitsForQuantity(MaxRate, MaxQuantity)
  BY <1>6, <1>7, Zenon
<1>10. /\ ChargeUnitsForQuantity(r, m) \in Nat /\ ChargeUnitsForQuantity(r, n) \in Nat
       /\ ChargeUnitsForQuantity(r, m) <= ChargeUnitsForQuantity(r, n)
  BY <1>5, <1>6, <1>7, Zenon
<1> QED
  BY <1>8, <1>9, <1>10, AmountsType, LargestAmount, SMTT(30)

-----------------------------------------------------------------------------
(* The order in which the grants are drained.                              *)

GrantTypes == grants \in [Grants -> [source : GrantSources, scope : Scopes, available : 0..MaxAvailable]]

LEMMA Ranks ==
    ASSUME GrantTypes, NEW g \in Grants
    PROVE  SourceRank(g) \in Nat /\ ScopeRank(g) \in Nat /\ g \in Nat
<1>1. /\ grants[g].source \in {"free_tier", "contract", "promo", "refund", "purchase"}
      /\ grants[g].scope \in Scopes
  <2>1. grants[g] \in [source : GrantSources, scope : Scopes, available : 0..MaxAvailable]
    BY Zenon DEF GrantTypes
  <2>2. grants[g].source \in GrantSources /\ grants[g].scope \in Scopes
    BY <2>1
  <2> QED
    BY <2>2, WindowFundingAssumption, Zenon
<1>2. grants[g].scope.type \in {"sku", "bucket", "product", "account"}
  BY <1>1 DEF Scopes
<1>3. SourceRank(g) \in Nat
  BY <1>1 DEF SourceRank, SourcePriority
<1>4. ScopeRank(g) \in Nat
  BY <1>2 DEF ScopeRank, ScopePriority
<1> QED
  BY <1>3, <1>4, WindowFundingAssumption

\* grantsByFundingPriority sorts by a strict total order.
LEMMA DrawnOrder ==
    ASSUME GrantTypes, NEW g \in Grants, NEW h \in Grants
    PROVE  /\ ~ (DrawnBefore(g, h) /\ DrawnBefore(h, g))
           /\ ~ DrawnBefore(g, g)
           /\ g # h => DrawnBefore(g, h) \/ DrawnBefore(h, g)
           /\ \A k \in Grants : DrawnBefore(g, h) /\ DrawnBefore(h, k) => DrawnBefore(g, k)
<1>1. \A x \in Grants : SourceRank(x) \in Nat /\ ScopeRank(x) \in Nat /\ x \in Nat
  BY Ranks, Zenon
<1>2. ASSUME NEW k \in Grants, DrawnBefore(g, h), DrawnBefore(h, k) PROVE DrawnBefore(g, k)
  BY <1>1, <1>2 DEF DrawnBefore
<1>3. ~ (DrawnBefore(g, h) /\ DrawnBefore(h, g))
  BY <1>1 DEF DrawnBefore
<1>4. g # h => DrawnBefore(g, h) \/ DrawnBefore(h, g)
  BY <1>1 DEF DrawnBefore
<1>5. ~ DrawnBefore(g, g)
  BY <1>1 DEF DrawnBefore
<1> QED
  BY <1>2, <1>3, <1>4, <1>5, Zenon

\* The position of a grant tells which grants are drained before it.
LEMMA PositionOrder ==
    ASSUME GrantTypes, NEW g \in Grants, NEW h \in Grants
    PROVE  Position[g] < Position[h] <=> DrawnBefore(g, h)
<1> DEFINE P(x) == {k \in Grants : DrawnBefore(k, x)}
<1>1. \A x \in Grants : IsFiniteSet(P(x)) /\ Cardinality(P(x)) \in Nat /\ Position[x] = Cardinality(P(x))
  <2>1. ASSUME NEW x \in Grants PROVE IsFiniteSet(P(x))
    <3>1. P(x) \in SUBSET Grants
      BY Zenon
    <3> QED
      BY <3>1, FS_Subset, WindowFundingAssumption, Zenon
  <2> QED
    BY <2>1, FS_CardinalityType, Zenon DEF Position
<1>2. ASSUME NEW x \in Grants, NEW y \in Grants, DrawnBefore(x, y)
      PROVE  Cardinality(P(x)) < Cardinality(P(y))
  <2>1. P(x) \in SUBSET P(y)
    BY <1>2, DrawnOrder, Zenon
  <2>2. x \in P(y) /\ x \notin P(x)
    BY <1>2, DrawnOrder, Zenon
  <2>3. P(x) # P(y)
    BY <2>2, Zenon
  <2> HIDE DEF P
  <2> QED
    BY <1>1, <2>1, <2>3, FS_Subset
<1>3. CASE DrawnBefore(g, h)
  BY <1>1, <1>2, <1>3, Zenon
<1>4. CASE DrawnBefore(h, g)
  <2>1. ~ DrawnBefore(g, h)
    BY <1>4, DrawnOrder, Zenon
  <2>2. Position[h] < Position[g] /\ Position[h] \in Nat /\ Position[g] \in Nat
    BY <1>1, <1>2, <1>4, Zenon
  <2>3. ~ (Position[g] < Position[h])
    BY ONLY <2>2
  <2> QED
    BY <2>1, <2>3, Zenon
<1>5. CASE g = h
  <2>1. ~ DrawnBefore(g, h)
    BY <1>5, DrawnOrder, Zenon
  <2>2. Position[g] = Position[h] /\ Position[g] \in Nat
    BY <1>1, <1>5, Zenon
  <2> QED
    BY <2>1, <2>2
<1> QED
  BY <1>3, <1>4, <1>5, DrawnOrder, Zenon

\* The sources that the waterfall drains before a grant, or before the receivable.
LEMMA BeforeIs ==
    ASSUME GrantTypes
    PROVE  /\ \A g \in Grants : OneSku!Before(g) = {h \in Grants : DrawnBefore(h, g)}
           /\ OneSku!Before(Receivable) = Grants
<1>1. ASSUME NEW g \in Grants PROVE OneSku!Before(g) = {h \in Grants : DrawnBefore(h, g)}
  <2>1. g # Receivable
    BY AmountsType, Zenon
  <2>2. OneSku!Before(g) = {h \in Grants : Position[h] < Position[g]}
    BY <2>1, Zenon DEF OneSku!Before
  <2> QED
    BY <2>2, PositionOrder, Zenon
<1> QED
  BY <1>1, Zenon DEF OneSku!Before

\* componentChargeOrder is a strict total order too, so one SKU at most has its turn.
LEMMA ChargedOrder ==
    ASSUME NEW s \in Skus, NEW t \in Skus
    PROVE  /\ ~ (ChargedBefore(s, t) /\ ChargedBefore(t, s))
           /\ ~ ChargedBefore(s, s)
           /\ s # t => ChargedBefore(s, t) \/ ChargedBefore(t, s)
<1>1. s \in Nat /\ t \in Nat /\ BucketOf[s] \in Nat /\ BucketOf[t] \in Nat
  BY WindowFundingAssumption
<1> QED
  BY <1>1 DEF ChargedBefore

LEMMA OneTurn ==
    ASSUME skusLeft \in SUBSET Skus, NEW s, NEW t, NextSku(s), NextSku(t)
    PROVE  s = t
BY ChargedOrder, Zenon DEF NextSku

-----------------------------------------------------------------------------
(* Types.                                                                  *)

States == {"requested", "funding", "overage", "denied", "reserved", "trimming", "refused", "settled"}

Legs == [sku : Skus, source : OneSku!Sources, amount : OneSku!Amounts]

TypeOK ==
  /\ GrantTypes
  /\ request \in [rate : [Skus -> 0..MaxRate], quantity : 1..MaxQuantity, overage : BOOLEAN]
  /\ window \in [state : States, actual : 0..(MaxQuantity + 1), writeoff : 0..(MaxQuantity + 1)]
  /\ legs \in Seq(Legs) /\ posted \in Seq(OneSku!Amounts)
  /\ balance \in [Grants -> OneSku!Amounts] /\ owed \in [Skus -> OneSku!Amounts]
  /\ skusLeft \in SUBSET Skus /\ grantsLeft \in SUBSET Grants

LEMMA ChargesType ==
  ASSUME TypeOK, NEW m \in 0..MaxQuantity, NEW n \in 0..MaxQuantity, m <= n
  PROVE  /\ ComputeWindowCharges(m) \in [Skus -> OneSku!Amounts]
         /\ ComputeWindowCharges(n) \in [Skus -> OneSku!Amounts]
         /\ \A s \in Skus : ComputeWindowCharges(m)[s] <= ComputeWindowCharges(n)[s]
<1>1. ASSUME NEW s \in Skus PROVE request.rate[s] \in 0..MaxRate
  BY DEF TypeOK
<1>2. ASSUME NEW s \in Skus
      PROVE  /\ ChargeUnitsForQuantity(request.rate[s], m) \in OneSku!Amounts
             /\ ChargeUnitsForQuantity(request.rate[s], n) \in OneSku!Amounts
             /\ ChargeUnitsForQuantity(request.rate[s], m) <= ChargeUnitsForQuantity(request.rate[s], n)
  BY <1>1, ChargeType, Zenon
<1> QED
  BY <1>2, Zenon DEF ComputeWindowCharges

LEMMA QuantityType ==
  ASSUME TypeOK
  PROVE  /\ request.quantity \in 1..MaxQuantity /\ request.quantity \in 0..MaxQuantity
         /\ request.quantity \in Nat /\ request.quantity <= MaxQuantity /\ MaxQuantity \in Nat
         /\ Charges \in [Skus -> OneSku!Amounts]
         /\ \A s \in Skus : Charges[s] \in Nat
<1>1. request.quantity \in 1..MaxQuantity /\ MaxQuantity \in Nat
  BY WindowFundingAssumption DEF TypeOK
<1>2. /\ request.quantity \in 0..MaxQuantity /\ request.quantity \in Nat /\ request.quantity <= MaxQuantity
      /\ request.quantity <= request.quantity
  BY <1>1
<1>3. Charges \in [Skus -> OneSku!Amounts]
  BY <1>2, ChargesType, Zenon DEF Charges
<1>4. \A n \in OneSku!Amounts : n \in Nat
  BY AmountsType
<1> QED
  BY <1>1, <1>2, <1>3, <1>4, Zenon

LEMMA LegsType ==
  ASSUME TypeOK
  PROVE  /\ DOMAIN legs = 1..Len(legs) /\ Len(legs) \in Nat /\ IsFiniteSet(DOMAIN legs)
         /\ \A S \in SUBSET DOMAIN legs : IsFiniteSet(S)
         /\ \A i \in DOMAIN legs : /\ legs[i].sku \in Skus /\ legs[i].source \in OneSku!Sources
                                   /\ legs[i].amount \in OneSku!Amounts
                                   /\ LegAmounts[i] = legs[i].amount
<1>1. DOMAIN legs = 1..Len(legs) /\ Len(legs) \in Nat /\ \A i \in DOMAIN legs : legs[i] \in Legs
  BY DEF TypeOK
<1>2. IsFiniteSet(1..Len(legs))
  BY <1>1, FS_Interval
<1>3. \A S \in SUBSET DOMAIN legs : IsFiniteSet(S)
  BY <1>1, <1>2, FS_Subset, Zenon
<1>4. \A l \in Legs : l.sku \in Skus /\ l.source \in OneSku!Sources /\ l.amount \in OneSku!Amounts
  BY DEF Legs
<1>5. \A i \in DOMAIN legs : LegAmounts[i] = legs[i].amount
  BY Zenon DEF LegAmounts
<1> QED
  BY <1>1, <1>2, <1>3, <1>4, <1>5, Zenon

\* The sums over legs are natural numbers.
LEMMA LegSums ==
  ASSUME TypeOK
  PROVE  /\ \A s : FundingLegsForComponent(s) \in Nat
         /\ \A S, f : Taken(S, f) \in Nat
         /\ SumFundingLegs \in Nat
<1>1. ASSUME NEW S \in SUBSET DOMAIN legs PROVE OneSku!SumOf(S, LegAmounts) \in Nat
  BY LegsType, SumType, Zenon
<1>2. ASSUME NEW s PROVE FundingLegsForComponent(s) \in Nat
  <2>1. {i \in DOMAIN legs : legs[i].sku = s} \in SUBSET DOMAIN legs
    BY Zenon
  <2> QED
    BY <1>1, <2>1, Zenon DEF FundingLegsForComponent
<1>3. ASSUME NEW S, NEW f PROVE Taken(S, f) \in Nat
  <2>1. LegsOf(S, f) \in SUBSET DOMAIN legs
    BY Zenon DEF LegsOf
  <2> QED
    BY <1>1, <2>1, Zenon DEF Taken
<1>4. SumFundingLegs \in Nat
  <2>1. DOMAIN legs \in SUBSET DOMAIN legs
    BY Zenon
  <2> QED
    BY <1>1, <2>1, Zenon DEF SumFundingLegs
<1> QED
  BY <1>2, <1>3, <1>4, Zenon

LEMMA LegType ==
  ASSUME NEW s \in Skus, NEW f \in OneSku!Sources, NEW n \in OneSku!Amounts, legs \in Seq(Legs)
  PROVE  Append(legs, Leg(s, f, n)) \in Seq(Legs)
<1>1. Leg(s, f, n) \in Legs
  BY Zenon DEF Leg, Legs
<1> QED
  BY <1>1

\* The smaller of two amounts can be taken from both.
LEMMA MinType ==
  ASSUME NEW a \in OneSku!Amounts, NEW b \in OneSku!Amounts
  PROVE  /\ MinUint64(a, b) \in OneSku!Amounts /\ MinUint64(a, b) <= a /\ MinUint64(a, b) <= b
         /\ a - MinUint64(a, b) \in OneSku!Amounts /\ b - MinUint64(a, b) \in OneSku!Amounts
BY AmountsType DEF MinUint64

LEMMA InitTypes == ASSUME Init PROVE TypeOK
<1>1. 0 \in OneSku!Amounts
  BY AmountsType
<1>2. window \in [state : States, actual : 0..(MaxQuantity + 1), writeoff : 0..(MaxQuantity + 1)]
  <2>1. 0 \in 0..(MaxQuantity + 1)
    BY WindowFundingAssumption
  <2> QED
    BY <2>1, Zenon DEF Init, States
<1>3. legs \in Seq(Legs) /\ posted \in Seq(OneSku!Amounts)
  BY DEF Init
<1>4. balance \in [Grants -> OneSku!Amounts] /\ owed \in [Skus -> OneSku!Amounts]
  BY <1>1, Zenon DEF Init
<1> QED
  BY <1>2, <1>3, <1>4, Zenon DEF Init, TypeOK, GrantTypes

\* Nothing changes the grants and the request of a window.
LEMMA Given == ASSUME [Next]_vars PROVE UNCHANGED given
<1> USE DEF vars
<1>1. CASE ReserveWindow \/ Authorize \/ InsertWindow
  BY <1>1, Zenon DEF ReserveWindow, Authorize, InsertWindow
<1>2. CASE \E s \in Skus : FinishSku(s) \/ ReceivableLeg(s) \/ \E g \in Grants : Draw(s, g)
  BY <1>2, Zenon DEF FinishSku, ReceivableLeg, Draw
<1>3. CASE \E actual \in 0..(MaxQuantity + 1) : SettleWindow(actual)
  BY <1>3, Zenon DEF SettleWindow
<1>4. CASE Trim \/ PrepareSettlement \/ Done
  BY <1>4, Zenon DEF Trim, PrepareSettlement, Done
<1>5. CASE UNCHANGED vars
  BY <1>5, Zenon
<1> QED
  BY <1>1, <1>2, <1>3, <1>4, <1>5, Zenon DEF Next

\* A window after a change of its state.
LEMMA WindowType ==
  ASSUME TypeOK, NEW st \in States, window' = [window EXCEPT !.state = st]
  PROVE  /\ window' \in [state : States, actual : 0..(MaxQuantity + 1), writeoff : 0..(MaxQuantity + 1)]
         /\ window'.state = st /\ window'.actual = window.actual /\ window'.writeoff = window.writeoff
BY Zenon DEF TypeOK

\* Every step keeps the types.
LEMMA TypeStep ==
  ASSUME TypeOK, [Next]_vars
  PROVE  TypeOK'
<1>0. UNCHANGED given
  BY Given, Zenon
<1>1. ASSUME /\ window' \in [state : States, actual : 0..(MaxQuantity + 1), writeoff : 0..(MaxQuantity + 1)]
             /\ legs' \in Seq(Legs) /\ posted' \in Seq(OneSku!Amounts)
             /\ balance' \in [Grants -> OneSku!Amounts] /\ owed' \in [Skus -> OneSku!Amounts]
             /\ skusLeft' \in SUBSET Skus /\ grantsLeft' \in SUBSET Grants
      PROVE  TypeOK'
  BY <1>0, <1>1, Zenon DEF TypeOK, GrantTypes, Legs, OneSku!Sources, OneSku!Amounts, given
<1>2. CASE ReserveWindow
  <2>1. balance' \in [Grants -> OneSku!Amounts]
    <3>1. ASSUME NEW g \in Grants PROVE grants[g].available \in OneSku!Amounts
      <4>1. grants[g].available \in 0..MaxAvailable
        BY DEF TypeOK, GrantTypes
      <4>2. \A n \in 0..MaxAvailable : n \in 0..MaxAmount
        BY LargestAmount, WindowFundingAssumption
      <4> QED
        BY <4>1, <4>2, AmountsType, Zenon
    <3> QED
      BY <1>2, <3>1, Zenon DEF ReserveWindow
  <2>2. owed' \in [Skus -> OneSku!Amounts]
    BY <1>2, QuantityType, Zenon DEF ReserveWindow
  <2>3. "funding" \in States
    BY Zenon DEF States
  <2>4. /\ window' = [window EXCEPT !.state = "funding"] /\ UNCHANGED <<legs, posted>>
        /\ skusLeft' = Skus /\ grantsLeft' = Grants
    BY <1>2, Zenon DEF ReserveWindow
  <2> QED
    BY <1>1, <2>1, <2>2, <2>3, <2>4, WindowType, Zenon DEF TypeOK
<1>3. CASE Authorize
  <2>1. PICK st \in States : window' = [window EXCEPT !.state = st]
    BY <1>3, Zenon DEF Authorize, States
  <2>2. legs' = legs \/ legs' = <<>>
    BY <1>3, Zenon DEF Authorize
  <2>3. <<>> \in Seq(Legs)
    OBVIOUS
  <2>4. UNCHANGED <<posted, balance, owed, grantsLeft>> /\ skusLeft' = Skus
    BY <1>3, Zenon DEF Authorize
  <2> QED
    BY <1>1, <2>1, <2>2, <2>3, <2>4, WindowType, Zenon DEF TypeOK
<1>4. CASE InsertWindow
  <2>1. "reserved" \in States
    BY Zenon DEF States
  <2>2. window' = [window EXCEPT !.state = "reserved"] /\ UNCHANGED <<legs, posted, loops>>
    BY <1>4, Zenon DEF InsertWindow
  <2> QED
    BY <1>1, <2>1, <2>2, WindowType, Zenon DEF TypeOK, loops
<1>5. ASSUME NEW s \in Skus, FinishSku(s) PROVE TypeOK'
  <2>1. /\ UNCHANGED <<window, legs, posted, balance, owed>>
        /\ skusLeft' = skusLeft \ {s} /\ grantsLeft' = Grants
    BY <1>5, Zenon DEF FinishSku
  <2> QED
    BY <1>1, <2>1, Zenon DEF TypeOK
<1>6. ASSUME NEW s \in Skus, ReceivableLeg(s) PROVE TypeOK'
  <2>1. /\ UNCHANGED <<window, posted, balance, owed, grantsLeft>> /\ skusLeft' = skusLeft \ {s}
        /\ \/ legs' = legs
           \/ /\ FundingLegsForComponent(s) < Charges[s]
              /\ legs' = Append(legs, Leg(s, Receivable, Charges[s] - FundingLegsForComponent(s)))
    BY <1>6, Zenon DEF ReceivableLeg
  <2>2. ASSUME FundingLegsForComponent(s) < Charges[s]
        PROVE  Charges[s] - FundingLegsForComponent(s) \in OneSku!Amounts
    <3>1. Charges[s] \in OneSku!Amounts /\ FundingLegsForComponent(s) \in Nat
      BY QuantityType, LegSums, Zenon
    <3> QED
      BY <2>2, <3>1, AmountsType, SMTT(30)
  <2>3. Receivable \in OneSku!Sources /\ legs \in Seq(Legs)
    BY Zenon DEF OneSku!Sources, TypeOK
  <2>4. legs' \in Seq(Legs)
    BY <2>1, <2>2, <2>3, LegType, Zenon
  <2> QED
    BY <1>1, <2>1, <2>4, Zenon DEF TypeOK
<1>7. ASSUME NEW s \in Skus, NEW g \in Grants, Draw(s, g) PROVE TypeOK'
  <2>1. /\ UNCHANGED <<window, posted, skusLeft>> /\ grantsLeft' = grantsLeft \ {g}
        /\ \/ UNCHANGED <<legs, balance, owed>>
           \/ LET amount == MinUint64(owed[s], balance[g])
              IN  /\ legs' = Append(legs, Leg(s, g, amount))
                  /\ balance' = [balance EXCEPT ![g] = @ - amount]
                  /\ owed' = [owed EXCEPT ![s] = @ - amount]
    BY <1>7, Zenon DEF Draw
  <2>2. owed[s] \in OneSku!Amounts /\ balance[g] \in OneSku!Amounts /\ g \in OneSku!Sources
    BY Zenon DEF TypeOK, OneSku!Sources
  <2> DEFINE amount == MinUint64(owed[s], balance[g])
  <2>3. /\ amount \in OneSku!Amounts
        /\ owed[s] - amount \in OneSku!Amounts /\ balance[g] - amount \in OneSku!Amounts
    BY <2>2, MinType, Zenon
  <2>4. /\ Append(legs, Leg(s, g, amount)) \in Seq(Legs)
        /\ [balance EXCEPT ![g] = @ - amount] \in [Grants -> OneSku!Amounts]
        /\ [owed EXCEPT ![s] = @ - amount] \in [Skus -> OneSku!Amounts]
    <3> HIDE DEF amount
    <3>1. legs \in Seq(Legs) /\ balance \in [Grants -> OneSku!Amounts] /\ owed \in [Skus -> OneSku!Amounts]
      BY Zenon DEF TypeOK
    <3> QED
      BY <2>2, <2>3, <3>1, LegType, Zenon
  <2>5. legs' \in Seq(Legs) /\ balance' \in [Grants -> OneSku!Amounts] /\ owed' \in [Skus -> OneSku!Amounts]
    BY <2>1, <2>4, Zenon DEF TypeOK
  <2> QED
    BY <1>1, <2>1, <2>5, Zenon DEF TypeOK
<1>8. ASSUME NEW actual \in 0..(MaxQuantity + 1), SettleWindow(actual) PROVE TypeOK'
  <2> DEFINE billable == MinUint64(actual, request.quantity)
  <2>1. /\ window' = [state |-> "trimming", actual |-> actual, writeoff |-> actual - billable]
        /\ owed' = ComputeWindowCharges(billable)
        /\ UNCHANGED <<legs, posted, balance, skusLeft, grantsLeft>>
    BY <1>8, Zenon DEF SettleWindow
  <2>2. /\ billable \in 0..MaxQuantity /\ billable <= billable
        /\ actual - billable \in 0..(MaxQuantity + 1)
    BY QuantityType DEF MinUint64
  <2>3. ComputeWindowCharges(billable) \in [Skus -> OneSku!Amounts]
    <3> HIDE DEF billable
    <3> QED
      BY <2>2, ChargesType, Zenon
  <2>4. window' \in [state : States, actual : 0..(MaxQuantity + 1), writeoff : 0..(MaxQuantity + 1)]
    BY <2>1, <2>2, Zenon DEF States
  <2> QED
    BY <1>1, <2>1, <2>3, <2>4, Zenon DEF TypeOK
<1>9. CASE Trim
  <2> DEFINE leg == legs[Len(posted) + 1]
             amount == MinUint64(owed[leg.sku], leg.amount)
  <2>1. /\ posted' = Append(posted, amount) /\ owed' = [owed EXCEPT ![leg.sku] = @ - amount]
        /\ Len(posted) < Len(legs)
        /\ UNCHANGED <<window, legs, balance, skusLeft, grantsLeft>>
    BY <1>9, Zenon DEF Trim
  <2>2. Len(posted) + 1 \in DOMAIN legs
    <3>1. Len(posted) \in Nat
      BY DEF TypeOK
    <3> QED
      BY <2>1, <3>1, LegsType, SMTT(30)
  <2>3. leg.sku \in Skus /\ leg.amount \in OneSku!Amounts
    BY <2>2, LegsType, Zenon
  <2>4. /\ owed \in [Skus -> OneSku!Amounts] /\ posted \in Seq(OneSku!Amounts)
    BY Zenon DEF TypeOK
  <2>5. amount \in OneSku!Amounts /\ owed[leg.sku] - amount \in OneSku!Amounts
    <3>1. owed[leg.sku] \in OneSku!Amounts
      BY <2>3, <2>4, Zenon
    <3> QED
      BY <2>3, <3>1, MinType, Zenon
  <2>6. posted' \in Seq(OneSku!Amounts) /\ owed' \in [Skus -> OneSku!Amounts]
    <3> HIDE DEF amount, leg
    <3>1. Append(posted, amount) \in Seq(OneSku!Amounts)
      BY <2>4, <2>5, SMTT(30)
    <3>2. [owed EXCEPT ![leg.sku] = @ - amount] \in [Skus -> OneSku!Amounts]
      BY <2>3, <2>4, <2>5, Zenon
    <3> QED
      BY <2>1, <3>1, <3>2, Zenon
  <2> QED
    BY <1>1, <2>1, <2>6, Zenon DEF TypeOK
<1>10. CASE PrepareSettlement
  <2>1. PICK st \in States : window' = [window EXCEPT !.state = st]
    BY <1>10, Zenon DEF PrepareSettlement, States
  <2>2. UNCHANGED <<legs, posted, loops>>
    BY <1>10, Zenon DEF PrepareSettlement
  <2> QED
    BY <1>1, <2>1, <2>2, WindowType, Zenon DEF TypeOK, loops
<1>11. CASE Done \/ UNCHANGED vars
  <2>1. UNCHANGED <<window, legs, posted, balance, owed, skusLeft, grantsLeft>>
    BY <1>11, Zenon DEF Done, vars, loops
  <2> QED
    BY <1>1, <2>1, Zenon DEF TypeOK
<1> QED
  BY <1>2, <1>3, <1>4, <1>5, <1>6, <1>7, <1>8, <1>9, <1>10, <1>11, ZenonT(30) DEF Next

-----------------------------------------------------------------------------
(* What a new leg changes.                                                 *)

LEMMA Appended ==
  ASSUME TypeOK, NEW s \in Skus, NEW f \in OneSku!Sources, NEW n \in OneSku!Amounts,
         legs' = Append(legs, Leg(s, f, n))
  PROVE  /\ Len(legs) + 1 \notin DOMAIN legs
         /\ DOMAIN legs' = DOMAIN legs \cup {Len(legs) + 1}
         /\ \A i \in DOMAIN legs : legs'[i] = legs[i] /\ LegAmounts'[i] = LegAmounts[i]
         /\ legs'[Len(legs) + 1].sku = s /\ legs'[Len(legs) + 1].source = f
         /\ legs'[Len(legs) + 1].amount = n /\ LegAmounts'[Len(legs) + 1] = n
<1>1. legs \in Seq(Legs) /\ Leg(s, f, n) \in Legs
  BY Zenon DEF TypeOK, Leg, Legs
<1>2. /\ Len(legs) + 1 \notin DOMAIN legs
      /\ DOMAIN legs' = DOMAIN legs \cup {Len(legs) + 1}
      /\ \A i \in DOMAIN legs : legs'[i] = legs[i]
      /\ legs'[Len(legs) + 1] = Leg(s, f, n)
  BY <1>1
<1>3. legs'[Len(legs) + 1].sku = s /\ legs'[Len(legs) + 1].source = f /\ legs'[Len(legs) + 1].amount = n
  BY <1>2 DEF Leg
<1> QED
  BY <1>2, <1>3, Zenon DEF LegAmounts

\* Which sums over legs grow by a new leg.
LEMMA SumGrows ==
  ASSUME TypeOK, NEW s \in Skus, NEW f \in OneSku!Sources, NEW n \in OneSku!Amounts,
         legs' = Append(legs, Leg(s, f, n)), NEW A \in SUBSET DOMAIN legs
  PROVE  /\ OneSku!SumOf(A, LegAmounts') = OneSku!SumOf(A, LegAmounts)
         /\ OneSku!SumOf(A \cup {Len(legs) + 1}, LegAmounts') = OneSku!SumOf(A, LegAmounts) + n
<1>1. OneSku!SumOf(A, LegAmounts') = OneSku!SumOf(A, LegAmounts)
  <2>1. \A i \in A : LegAmounts'[i] = LegAmounts[i]
    BY Appended, Zenon
  <2> QED
    BY <2>1, SumCongruence, Zenon
<1>2. OneSku!SumOf(A \cup {Len(legs) + 1}, LegAmounts') = OneSku!SumOf(A, LegAmounts') + LegAmounts'[Len(legs) + 1]
  <2>1. IsFiniteSet(A) /\ Len(legs) + 1 \notin A /\ LegAmounts'[Len(legs) + 1] \in OneSku!Amounts
    <3>1. IsFiniteSet(A)
      BY LegsType, Zenon
    <3>2. Len(legs) + 1 \notin DOMAIN legs /\ LegAmounts'[Len(legs) + 1] = n
      BY Appended, Zenon
    <3> QED
      BY <3>1, <3>2, Zenon
  <2> DEFINE k == Len(legs) + 1
             h == LegAmounts'
  <2>2. IsFiniteSet(A) /\ k \notin A /\ h[k] \in OneSku!Amounts
    BY <2>1, Zenon
  <2> HIDE DEF k, h
  <2>3. OneSku!SumOf(A \cup {k}, h) = OneSku!SumOf(A, h) + h[k]
    BY <2>2, SumAdd, Zenon
  <2> QED
    BY <2>3, Zenon DEF k, h
<1>3. LegAmounts'[Len(legs) + 1] = n
  BY Appended, ZenonT(30)
<1> QED
  BY <1>1, <1>2, <1>3, Zenon

Grown(a, p, n) == IF p THEN a + n ELSE a

LEMMA Appending ==
  ASSUME TypeOK, NEW s \in Skus, NEW f \in OneSku!Sources, NEW n \in OneSku!Amounts,
         legs' = Append(legs, Leg(s, f, n))
  PROVE  /\ \A S, h : Taken(S, h)' = Grown(Taken(S, h), s \in S /\ h = f, n)
         /\ \A t : FundingLegsForComponent(t)' = Grown(FundingLegsForComponent(t), t = s, n)
         /\ SumFundingLegs' = SumFundingLegs + n
<1> DEFINE k == Len(legs) + 1
<1>1. /\ k \notin DOMAIN legs /\ DOMAIN legs' = DOMAIN legs \cup {k}
      /\ \A i \in DOMAIN legs : legs'[i] = legs[i]
      /\ legs'[k].sku = s /\ legs'[k].source = f
  BY Appended, Zenon
<1>2. \A A \in SUBSET DOMAIN legs :
        /\ OneSku!SumOf(A, LegAmounts') = OneSku!SumOf(A, LegAmounts)
        /\ OneSku!SumOf(A \cup {k}, LegAmounts') = OneSku!SumOf(A, LegAmounts) + n
  BY SumGrows, Zenon
<1> HIDE DEF k
<1>3. ASSUME NEW S, NEW h PROVE Taken(S, h)' = Grown(Taken(S, h), s \in S /\ h = f, n)
  <2>1. LegsOf(S, h) \in SUBSET DOMAIN legs
    BY Zenon DEF LegsOf
  <2>2. Taken(S, h)' = OneSku!SumOf(LegsOf(S, h)', LegAmounts')
    BY Zenon DEF Taken
  <2>3. CASE s \in S /\ h = f
    <3>1. LegsOf(S, h)' = LegsOf(S, h) \cup {k}
      BY <1>1, <2>3, Zenon DEF LegsOf
    <3> QED
      BY <1>2, <2>1, <2>2, <2>3, <3>1, Zenon DEF Taken, Grown
  <2>4. CASE ~ (s \in S /\ h = f)
    <3>1. LegsOf(S, h)' = LegsOf(S, h)
      BY <1>1, <2>4, Zenon DEF LegsOf
    <3> QED
      BY <1>2, <2>1, <2>2, <2>4, <3>1, Zenon DEF Taken, Grown
  <2> QED
    BY <2>3, <2>4, Zenon
<1>4. ASSUME NEW t PROVE FundingLegsForComponent(t)' = Grown(FundingLegsForComponent(t), t = s, n)
  <2> DEFINE B == {i \in DOMAIN legs : legs[i].sku = t}
  <2>1. B \in SUBSET DOMAIN legs
    BY Zenon
  <2>2. /\ FundingLegsForComponent(t)' = OneSku!SumOf({i \in DOMAIN legs' : legs'[i].sku = t}, LegAmounts')
        /\ FundingLegsForComponent(t) = OneSku!SumOf(B, LegAmounts)
    BY Zenon DEF FundingLegsForComponent
  <2>3. CASE t = s
    <3>1. {i \in DOMAIN legs' : legs'[i].sku = t} = B \cup {k}
      BY <1>1, <2>3, Zenon
    <3> QED
      BY <1>2, <2>1, <2>2, <2>3, <3>1, Zenon DEF Grown
  <2>4. CASE t # s
    <3>1. {i \in DOMAIN legs' : legs'[i].sku = t} = B
      BY <1>1, <2>4, Zenon
    <3> QED
      BY <1>2, <2>1, <2>2, <2>4, <3>1, Zenon DEF Grown
  <2> QED
    BY <2>3, <2>4, Zenon
<1>5. SumFundingLegs' = SumFundingLegs + n
  <2>1. SumFundingLegs' = OneSku!SumOf(DOMAIN legs', LegAmounts')
    BY Zenon DEF SumFundingLegs
  <2> QED
    BY <1>1, <1>2, <2>1, Zenon DEF SumFundingLegs
<1> QED
  BY <1>3, <1>4, <1>5, Zenon

\* The sums over the legs stay while the legs do.
LEMMA SameLegs ==
  ASSUME UNCHANGED legs
  PROVE  /\ LegAmounts' = LegAmounts
         /\ \A S, h : Taken(S, h)' = Taken(S, h) /\ LegsOf(S, h)' = LegsOf(S, h)
         /\ \A t : FundingLegsForComponent(t)' = FundingLegsForComponent(t)
         /\ SumFundingLegs' = SumFundingLegs
BY Zenon DEF LegAmounts, Taken, LegsOf, FundingLegsForComponent, SumFundingLegs

-----------------------------------------------------------------------------
(* The waterfall of one SKU.                                               *)

\* What is left of amount a when b of it is covered, and what a source with
\* balance cap gives of it.
Rest(a, b) == IF a <= b THEN 0 ELSE a - b

Clip(left, cap) == IF left <= 0 THEN 0 ELSE IF left < cap THEN left ELSE cap

\* What the waterfall gives SKU s, and what the grants in S leave of its charge.
Share(s) == OneSku!Waterfall(Cap(s), Charges[s])

Uncovered(s, S) == Rest(Charges[s], OneSku!SumOf(S, Cap(s)))

LEMMA WaterfallAt ==
  ASSUME NEW cap, NEW a, NEW f \in OneSku!Sources
  PROVE  OneSku!Waterfall(cap, a)[f] = Clip(a - OneSku!SumOf(OneSku!Before(f), cap), cap[f])
BY Zenon DEF OneSku!Waterfall, Clip

LEMMA CapAt ==
  ASSUME NEW s \in Skus
  PROVE  /\ \A g \in Grants :
              Cap(s)[g] = IF GrantCoversSKU(g, s) THEN grants[g].available - Taken(Earlier(s), g) ELSE 0
         /\ Cap(s)[Receivable] = IF request.overage THEN Charges[s] ELSE 0
<1>1. Receivable \in OneSku!Sources /\ \A g \in Grants : g \in OneSku!Sources /\ g # Receivable
  BY AmountsType, Zenon DEF OneSku!Sources
<1> QED
  BY <1>1, Zenon DEF Cap

\* The waterfall of SKU s depends on the legs of earlier SKUs alone.
LEMMA SameShare ==
  ASSUME UNCHANGED given, NEW s \in Skus, \A g \in Grants : Taken(Earlier(s), g)' = Taken(Earlier(s), g)
  PROVE  Cap(s)' = Cap(s) /\ Charges' = Charges /\ Share(s)' = Share(s)
         /\ \A S : Uncovered(s, S)' = Uncovered(s, S)
<1>1. Charges' = Charges /\ Earlier(s)' = Earlier(s)
  BY Zenon DEF Charges, ComputeWindowCharges, given, Earlier, ChargedBefore
<1>2. \A g : GrantCoversSKU(g, s)' = GrantCoversSKU(g, s)
  BY Zenon DEF GrantCoversSKU, given
<1>3. OneSku!Sources = Grants \cup {Receivable} /\ OneSku!Sources' = OneSku!Sources
  BY Zenon DEF OneSku!Sources, Receivable
<1>4. Cap(s)' = Cap(s)
  <2>1. \A g \in Grants : Cap(s)'[g] = Cap(s)[g]
    BY <1>1, <1>2, <1>3, Zenon DEF Cap, given, Receivable
  <2>2. Cap(s)'[Receivable] = Cap(s)[Receivable]
    BY <1>1, <1>3, Zenon DEF Cap, given, Receivable
  <2>3. /\ Cap(s) = [f \in OneSku!Sources |-> Cap(s)[f]]
        /\ Cap(s)' = [f \in OneSku!Sources |-> Cap(s)'[f]]
    BY <1>3, Zenon DEF Cap
  <2> QED
    BY <1>3, <2>1, <2>2, <2>3, Zenon
<1>5. Share(s)' = Share(s)
  BY <1>1, <1>4, ZenonT(60) DEF Share, OneSku!Waterfall, OneSku!Before, Position, DrawnBefore, SourceRank, ScopeRank,
                           given
<1> QED
  BY <1>1, <1>4, <1>5, Zenon DEF Uncovered

-----------------------------------------------------------------------------
(* The inductive invariant.                                                *)

\* The grants in S have given SKU s their share, which leaves owed[s].
Served(s, S) ==
  /\ \A g \in S : Taken({s}, g) = Share(s)[g]
  /\ owed[s] = Uncovered(s, S)

\* Source f is drained before source h.
Drained(f, h) == f \in Grants /\ (h = Receivable \/ (h \in Grants /\ DrawnBefore(f, h)))

\* The loops follow their orders, and a leg belongs to a pair that they have passed.
InOrder ==
  /\ \A t \in Skus \ skusLeft, u \in skusLeft : ChargedBefore(t, u)
  /\ \A g \in Grants \ grantsLeft, h \in grantsLeft : DrawnBefore(g, h)
  /\ \A i \in DOMAIN legs :
       /\ legs[i].source \in Grants
       /\ legs[i].sku \in skusLeft => NextSku(legs[i].sku) /\ legs[i].source \notin grantsLeft

\* The balances, and the sums that ReserveWindow compares.
Balanced ==
  /\ \A g \in Grants : balance[g] = grants[g].available - Taken(Skus, g)
  /\ \A s \in Skus : FundingLegsForComponent(s) + owed[s] = Charges[s]
  /\ SumFundingLegs + OneSku!SumOf(Skus, owed) = OneSku!SumOf(Skus, Charges)

\* The finished SKUs have their share of every grant, the current one of the grants
\* it has reached.
Shared ==
  /\ \A s \in Skus \ skusLeft : Served(s, Grants)
  /\ \A s \in skusLeft : IF NextSku(s) THEN Served(s, Grants \ grantsLeft) ELSE owed[s] = Charges[s]

Funding == window.state = "funding" => InOrder /\ Balanced /\ Shared

\* The receivable takes what the grants left of the SKUs that had their turn.
Overage ==
  window.state = "overage" =>
    /\ request.overage
    /\ \A s \in Skus : Served(s, Grants)
    /\ \A s \in skusLeft : LegsOf({s}, Receivable) = {} /\ FundingLegsForComponent(s) + owed[s] = Charges[s]
    /\ \A s \in Skus \ skusLeft : Taken({s}, Receivable) = owed[s] /\ FundingLegsForComponent(s) = Charges[s]

\* The legs of a reservation add up to the charge of every SKU.
Complete == Reserved => \A s \in Skus : FundingLegsForComponent(s) = Charges[s]

\* The legs of a SKU are in the order in which the sources are drained.
LegsOrdered ==
  \A i, j \in DOMAIN legs : i < j /\ legs[i].sku = legs[j].sku => Drained(legs[i].source, legs[j].source)

Billed == ComputeWindowCharges(window.actual - window.writeoff)

\* The legs of SKU s up to the n-th.
LegsUpTo(s, n) == {i \in DOMAIN legs : i <= n /\ legs[i].sku = s}

\* Each leg posts what the earlier ones left of its SKU's bill.
Trimmed ==
  window.state \in {"trimming", "settled"} =>
    /\ window.actual - window.writeoff \in 0..request.quantity
    /\ Len(posted) <= Len(legs)
    /\ window.state = "settled" => Len(posted) = Len(legs)
    /\ \A s \in Skus : owed[s] = Rest(Billed[s], OneSku!SumOf(LegsUpTo(s, Len(posted)), LegAmounts))
    /\ \A i \in DOMAIN posted :
         posted[i] = Clip(Billed[legs[i].sku] - OneSku!SumOf(LegsUpTo(legs[i].sku, i - 1), LegAmounts), legs[i].amount)

\* What does not exist yet, or no more, in a state.
Absent ==
  /\ window.state \notin {"trimming", "settled"} => posted = <<>>
  /\ window.state \in {"requested", "denied"} => legs = <<>>
  /\ window.state # "refused"

\* While the loop runs, the balances tell what the legs take from the grants.
Solvent == window.state # "funding" => NeverOverdrawn

IInv ==
  /\ TypeOK /\ Absent /\ Funding /\ Overage /\ Complete /\ LegsOrdered /\ Trimmed
  /\ FundingIsWaterfall /\ Solvent

-----------------------------------------------------------------------------
(* One iteration of the funding loop.                                      *)

\* The grants that the current SKU has passed are those before the next grant, and
\* the SKUs that are finished are the earlier ones.
LEMMA Passed ==
  ASSUME TypeOK, InOrder, NEW s, NextSku(s)
  PROVE  /\ Earlier(s) = Skus \ skusLeft
         /\ \A g : NextGrant(g) => OneSku!Before(g) = Grants \ grantsLeft
<1>1. Earlier(s) = Skus \ skusLeft
  <2>1. s \in Skus /\ skusLeft \in SUBSET Skus
    BY Zenon DEF TypeOK, NextSku
  <2>2. ASSUME NEW t \in Skus \ skusLeft PROVE ChargedBefore(t, s)
    BY <2>2, Zenon DEF InOrder, NextSku
  <2>3. ASSUME NEW t \in skusLeft PROVE ~ ChargedBefore(t, s)
    <3>1. CASE t = s
      BY <2>1, <3>1, ChargedOrder, Zenon
    <3>2. CASE t # s
      <4>1. ChargedBefore(s, t)
        BY <3>2, Zenon DEF NextSku
      <4> QED
        BY <2>1, <4>1, ChargedOrder, Zenon
    <3> QED
      BY <3>1, <3>2, Zenon
  <2> QED
    BY <2>1, <2>2, <2>3, Zenon DEF Earlier
<1>2. ASSUME NEW g, NextGrant(g) PROVE OneSku!Before(g) = Grants \ grantsLeft
  <2>1. g \in Grants /\ g \in grantsLeft /\ grantsLeft \in SUBSET Grants /\ GrantTypes
    BY <1>2, Zenon DEF TypeOK, NextGrant
  <2>2. ASSUME NEW h \in Grants \ grantsLeft PROVE DrawnBefore(h, g)
    BY <2>1, <2>2, Zenon DEF InOrder
  <2>3. ASSUME NEW h \in grantsLeft PROVE ~ DrawnBefore(h, g)
    <3>1. CASE h = g
      BY <2>1, <3>1, DrawnOrder, Zenon
    <3>2. CASE h # g
      <4>1. DrawnBefore(g, h)
        BY <1>2, <3>2, Zenon DEF NextGrant
      <4> QED
        BY <2>1, <4>1, DrawnOrder, Zenon
    <3> QED
      BY <3>1, <3>2, Zenon
  <2>4. OneSku!Before(g) = {h \in Grants : DrawnBefore(h, g)}
    BY <2>1, BeforeIs, Zenon
  <2> QED
    BY <2>1, <2>2, <2>3, <2>4, Zenon
<1> QED
  BY <1>1, <1>2, Zenon

\* What the next grant may give the current SKU is its balance, if it covers it, and
\* it has given it nothing.
LEMMA NextCap ==
  ASSUME TypeOK, InOrder, Balanced, NEW s, NextSku(s), NEW g, NextGrant(g)
  PROVE  /\ s \in Skus /\ g \in Grants
         /\ Cap(s)[g] = IF GrantCoversSKU(g, s) THEN balance[g] ELSE 0
         /\ Taken({s}, g) = 0
<1>1. s \in Skus /\ g \in Grants /\ s \in skusLeft /\ g \in grantsLeft /\ skusLeft \in SUBSET Skus
  BY Zenon DEF TypeOK, NextSku, NextGrant
<1>2. LegsOf({s}, g) = {}
  BY <1>1, Zenon DEF InOrder, LegsOf
<1>3. LegsOf(Skus, g) = LegsOf(Earlier(s), g)
  <2>1. ASSUME NEW i \in DOMAIN legs, legs[i].source = g PROVE legs[i].sku \in Earlier(s) <=> legs[i].sku \in Skus
    <3>1. legs[i].sku \notin skusLeft /\ legs[i].sku \in Skus
      BY <1>1, <2>1, LegsType, Zenon DEF InOrder
    <3> QED
      BY <3>1, Passed, Zenon
  <2> QED
    BY <2>1, Zenon DEF LegsOf
<1>4. Taken(Skus, g) = Taken(Earlier(s), g)
  BY <1>3, Zenon DEF Taken
<1>5. Taken({s}, g) = 0
  <2>1. OneSku!SumOf({}, LegAmounts) = 0
    BY SumZero, Zenon
  <2> QED
    BY <1>2, <2>1, ZenonT(30) DEF Taken
<1>6. balance[g] = grants[g].available - Taken(Skus, g)
  BY <1>1, Zenon DEF Balanced
<1> QED
  BY <1>1, <1>4, <1>5, <1>6, CapAt, ZenonT(30)

\* One owner's amount shrinks and the sum shrinks with it.
LEMMA SumTake ==
    ASSUME NEW S, IsFiniteSet(S), NEW f \in [S -> OneSku!Amounts], NEW x \in S, NEW d \in OneSku!Amounts,
           f[x] - d \in OneSku!Amounts
    PROVE  OneSku!SumOf(S, [f EXCEPT ![x] = @ - d]) + d = OneSku!SumOf(S, f)
<1> DEFINE h == [f EXCEPT ![x] = @ - d]
           R == S \ {x}
<1>1. h[x] = f[x] - d /\ \A y \in R : h[y] = f[y]
  BY Zenon
<1>2. IsFiniteSet(R) /\ x \notin R /\ R \cup {x} = S /\ f[x] \in OneSku!Amounts
  BY FS_Subset, Zenon
<1>3. h[x] \in OneSku!Amounts
  BY <1>1, Zenon
<1> HIDE DEF h, R
<1>4. OneSku!SumOf(R \cup {x}, h) = OneSku!SumOf(R, h) + h[x] /\ OneSku!SumOf(R \cup {x}, f) = OneSku!SumOf(R, f) + f[x]
  BY <1>2, <1>3, SumAdd, Zenon
<1>5. OneSku!SumOf(R, h) = OneSku!SumOf(R, f) /\ OneSku!SumOf(R, f) \in Nat
  BY <1>1, <1>2, SumCongruence, SumType, Zenon
<1>6. OneSku!SumOf(S, h) = OneSku!SumOf(R, f) + h[x] /\ OneSku!SumOf(S, f) = OneSku!SumOf(R, f) + f[x]
  BY <1>2, <1>4, <1>5, Zenon
<1>7. f[x] \in Nat /\ d \in Nat
  BY <1>2, AmountsType, SMTT(30)
<1>8. OneSku!SumOf(S, h) + d = OneSku!SumOf(S, f)
  BY <1>1, <1>5, <1>6, <1>7, SMTT(30)
<1> QED
  BY <1>8, Zenon DEF h

\* SKU s has drawn d from grant g.
Drew(s, g, d) ==
  /\ \A S, h : Taken(S, h)' = Grown(Taken(S, h), s \in S /\ h = g, d)
  /\ \A t : FundingLegsForComponent(t)' = Grown(FundingLegsForComponent(t), t = s, d)
  /\ SumFundingLegs' = SumFundingLegs + d
  /\ balance' = [balance EXCEPT ![g] = @ - d]
  /\ owed' = [owed EXCEPT ![s] = @ - d]

LEMMA DrawEffect ==
  ASSUME TypeOK, NEW s \in Skus, NEW g \in Grants, Draw(s, g), NEW cap,
         cap = IF GrantCoversSKU(g, s) THEN balance[g] ELSE 0
  PROVE  /\ Drew(s, g, MinUint64(owed[s], cap))
         /\ cap \in OneSku!Amounts /\ owed[s] \in OneSku!Amounts /\ balance[g] \in OneSku!Amounts
<1>1. /\ owed[s] \in OneSku!Amounts /\ balance[g] \in OneSku!Amounts /\ g \in OneSku!Sources
      /\ balance \in [Grants -> OneSku!Amounts] /\ owed \in [Skus -> OneSku!Amounts]
  BY Zenon DEF TypeOK, OneSku!Sources
<1>2. cap \in OneSku!Amounts
  BY <1>1, AmountsType, SMTT(30)
<1>3. CASE balance[g] = 0 \/ ~ GrantCoversSKU(g, s)
  <2>1. UNCHANGED <<legs, balance, owed>>
    BY <1>3, Zenon DEF Draw
  <2>2. MinUint64(owed[s], cap) = 0
    <3>1. cap = 0
      BY <1>3, Zenon
    <3> QED
      BY <1>1, <3>1, AmountsType, SMTT(30) DEF MinUint64
  <2>4. \A a \in Nat : a + 0 = a /\ a - 0 = a
    OBVIOUS
  <2>5. balance[g] - 0 = balance[g] /\ owed[s] - 0 = owed[s]
    BY <1>1, AmountsType, SMTT(30)
  <2>6. balance' = [balance EXCEPT ![g] = @ - 0] /\ owed' = [owed EXCEPT ![s] = @ - 0]
    BY <1>1, <2>1, <2>5, Zenon
  <2>8. \A S, h : Taken(S, h)' = Grown(Taken(S, h), s \in S /\ h = g, 0)
    BY <2>1, <2>4, SameLegs, LegSums, ZenonT(40) DEF Grown
  <2>9. ASSUME NEW t PROVE FundingLegsForComponent(t)' = Grown(FundingLegsForComponent(t), t = s, 0)
    <3>1. FundingLegsForComponent(t)' = FundingLegsForComponent(t) /\ FundingLegsForComponent(t) \in Nat
      BY <2>1, SameLegs, LegSums, Zenon
    <3> QED
      BY ONLY <3>1 DEF Grown
  <2>10. SumFundingLegs' = SumFundingLegs + 0
    BY <2>1, <2>4, SameLegs, LegSums, ZenonT(30)
  <2> QED
    BY <1>1, <1>2, <2>2, <2>6, <2>8, <2>9, <2>10, ZenonT(30) DEF Drew
<1>4. CASE ~ (balance[g] = 0 \/ ~ GrantCoversSKU(g, s))
  <2>1. cap = balance[g]
    BY <1>4, Zenon
  <2> DEFINE d == MinUint64(owed[s], balance[g])
  <2>2. /\ legs' = Append(legs, Leg(s, g, d))
        /\ balance' = [balance EXCEPT ![g] = @ - d]
        /\ owed' = [owed EXCEPT ![s] = @ - d]
    BY <1>4, Zenon DEF Draw
  <2>3. d \in OneSku!Amounts
    BY <1>1, MinType, ZenonT(30)
  <2> HIDE DEF d
  <2>4. /\ \A S, h : Taken(S, h)' = Grown(Taken(S, h), s \in S /\ h = g, d)
        /\ \A t : FundingLegsForComponent(t)' = Grown(FundingLegsForComponent(t), t = s, d)
        /\ SumFundingLegs' = SumFundingLegs + d
    BY <1>1, <2>2, <2>3, Appending, SMTT(30)
  <2>5. Drew(s, g, d)
    BY <2>2, <2>4, Zenon DEF Drew
  <2> QED
    BY <1>1, <1>2, <2>1, <2>5, ZenonT(30) DEF d
<1> QED
  BY <1>3, <1>4, Zenon

\* The arithmetic of a draw: d is the share, and what is owed shrinks by it.
LEMMA DrawArithmetic ==
  ASSUME NEW c \in Nat, NEW x \in Nat, NEW cap \in Nat
  PROVE  /\ MinUint64(Rest(c, x), cap) = Clip(c - x, cap)
         /\ Rest(c, x) - MinUint64(Rest(c, x), cap) = Rest(c, x + cap)
BY DEF MinUint64, Rest, Clip

\* A draw gives the current SKU its share of the next grant.
LEMMA DrawShare ==
  ASSUME TypeOK, InOrder, Balanced, Shared, UNCHANGED given, NEW s \in Skus, NEW g \in Grants, Draw(s, g)
  PROVE  Shared'
<1>1. /\ NextSku(s) /\ NextGrant(g) /\ skusLeft' = skusLeft /\ grantsLeft' = grantsLeft \ {g}
      /\ s \in skusLeft /\ g \in grantsLeft /\ skusLeft \in SUBSET Skus /\ grantsLeft \in SUBSET Grants
  BY Zenon DEF Draw, NextSku, NextGrant, TypeOK
<1>2. PICK cap : cap = IF GrantCoversSKU(g, s) THEN balance[g] ELSE 0
  BY Zenon
<1>3. PICK d : d = MinUint64(owed[s], cap)
  BY Zenon
<1>4. Drew(s, g, d) /\ cap \in OneSku!Amounts
  BY <1>2, <1>3, DrawEffect, Zenon
<1>5. cap = Cap(s)[g] /\ Taken({s}, g) = 0
  BY <1>1, <1>2, NextCap, Zenon
<1>6. PICK x : x = OneSku!SumOf(Grants \ grantsLeft, Cap(s))
  BY Zenon
<1>7. x \in Nat /\ IsFiniteSet(Grants \ grantsLeft)
  <2>1. IsFiniteSet(Grants \ grantsLeft)
    BY FS_Subset, WindowFundingAssumption, ZenonT(40)
  <2> QED
    BY <1>6, <2>1, SumType, Zenon
<1>8. owed[s] = Rest(Charges[s], x) /\ \A h \in Grants \ grantsLeft : Taken({s}, h) = Share(s)[h]
  BY <1>1, <1>6, Zenon DEF Shared, Served, Uncovered
<1>9. Charges[s] \in Nat /\ cap \in Nat
  BY <1>4, QuantityType, AmountsType, SMTT(30)
<1>10. d = Clip(Charges[s] - x, cap) /\ owed[s] - d = Rest(Charges[s], x + cap)
  <2>1. PICK c : c = Charges[s]
    BY Zenon
  <2>2. /\ MinUint64(Rest(c, x), cap) = Clip(c - x, cap)
        /\ Rest(c, x) - MinUint64(Rest(c, x), cap) = Rest(c, x + cap)
    BY <1>7, <1>9, <2>1, DrawArithmetic, ZenonT(30)
  <2> QED
    BY <1>3, <1>8, <2>1, <2>2, ZenonT(30)
<1>11. Share(s)[g] = d
  <2>1. g \in OneSku!Sources
    BY Zenon DEF OneSku!Sources
  <2>2. Share(s)[g] = Clip(Charges[s] - OneSku!SumOf(OneSku!Before(g), Cap(s)), Cap(s)[g])
    BY <2>1, WaterfallAt, ZenonT(40) DEF Share
  <2>3. OneSku!Before(g) = Grants \ grantsLeft
    BY <1>1, Passed, Zenon
  <2> QED
    BY <1>5, <1>6, <1>10, <2>2, <2>3, ZenonT(30)
<1>12. Grants \ grantsLeft' = (Grants \ grantsLeft) \cup {g} /\ g \notin Grants \ grantsLeft
  BY <1>1, Zenon
<1>13. Uncovered(s, Grants \ grantsLeft') = owed[s] - d
  <2>1. OneSku!SumOf((Grants \ grantsLeft) \cup {g}, Cap(s)) = OneSku!SumOf(Grants \ grantsLeft, Cap(s)) + Cap(s)[g]
    <3>1. PICK c, S : c = Cap(s) /\ S = Grants \ grantsLeft
      BY Zenon
    <3>2. IsFiniteSet(S) /\ g \notin S /\ c[g] \in OneSku!Amounts
      BY <1>4, <1>5, <1>7, <1>12, <3>1, ZenonT(30)
    <3>3. OneSku!SumOf(S \cup {g}, c) = OneSku!SumOf(S, c) + c[g]
      BY <3>2, SumAdd, Zenon
    <3> QED
      BY <3>1, <3>3, Zenon
  <2>2. OneSku!SumOf(Grants \ grantsLeft', Cap(s)) = x + cap
    BY <1>5, <1>6, <1>12, <2>1, ZenonT(30)
  <2> QED
    BY <1>10, <2>2, Zenon DEF Uncovered
<1>14. ASSUME NEW t \in Skus, ~ ChargedBefore(s, t)
       PROVE  /\ Share(t)' = Share(t) /\ (\A S : Uncovered(t, S)' = Uncovered(t, S)) /\ Charges' = Charges
  <2>1. s \notin Earlier(t)
    BY <1>14, ZenonT(40) DEF Earlier
  <2>2. \A h \in Grants : Taken(Earlier(t), h)' = Taken(Earlier(t), h)
    <3>1. Earlier(t)' = Earlier(t)
      BY Zenon DEF Earlier, ChargedBefore
    <3> QED
      BY <1>4, <2>1, <3>1, ZenonT(30) DEF Drew, Grown
  <2> QED
    BY <2>2, SameShare, ZenonT(40)
<1>15. ~ ChargedBefore(s, s) /\ \A t \in Skus \ skusLeft : ~ ChargedBefore(s, t) /\ t # s
  BY <1>1, ChargedOrder, Zenon DEF InOrder
<1>16. owed' = [owed EXCEPT ![s] = @ - d] /\ owed \in [Skus -> OneSku!Amounts]
  BY <1>4, Zenon DEF Drew, TypeOK
<1>17. ASSUME NEW t \in Skus \ skusLeft PROVE Served(t, Grants)'
  <2>1. Share(t)' = Share(t) /\ Uncovered(t, Grants)' = Uncovered(t, Grants) /\ t # s
    BY <1>14, <1>15, ZenonT(40)
  <2>2. \A h : Taken({t}, h)' = Taken({t}, h)
    BY <1>4, <2>1, ZenonT(40) DEF Drew, Grown
  <2>3. owed'[t] = owed[t]
    BY <1>16, <2>1, ZenonT(30)
  <2>4. Served(t, Grants)
    BY Zenon DEF Shared
  <2> QED
    BY <2>1, <2>2, <2>3, <2>4, ZenonT(30) DEF Served
<1>18. Served(s, Grants \ grantsLeft)'
  <2>1. Share(s)' = Share(s) /\ \A S : Uncovered(s, S)' = Uncovered(s, S)
    BY <1>14, <1>15, ZenonT(30)
  <2>2. Taken({s}, g)' = d
    <3>1. Taken({s}, g)' = Taken({s}, g) + d
      BY <1>4, Zenon DEF Drew, Grown
    <3>2. d \in Nat
      BY <1>3, <1>7, <1>8, <1>9, SMTT(15) DEF MinUint64, Rest
    <3> QED
      BY <1>5, <3>1, <3>2, SMTT(30)
  <2>3. \A h \in Grants \ grantsLeft : Taken({s}, h)' = Taken({s}, h)
    BY <1>4, <1>12, ZenonT(30) DEF Drew, Grown
  <2>4. \A h \in Grants \ grantsLeft' : Taken({s}, h)' = Share(s)'[h]
    BY <1>8, <1>11, <1>12, <2>1, <2>2, <2>3, ZenonT(30)
  <2>5. owed'[s] = owed[s] - d
    BY <1>16, Zenon
  <2>6. Uncovered(s, Grants \ grantsLeft)' = Uncovered(s, Grants \ grantsLeft')
    <3>1. PICK S : S = Grants \ grantsLeft'
      BY Zenon
    <3>2. Uncovered(s, S)' = Uncovered(s, S)
      BY <2>1, Zenon
    <3>3. Uncovered(s, Grants \ grantsLeft)' = Uncovered(s, S)'
      BY <3>1, Zenon DEF Uncovered
    <3> QED
      BY <3>1, <3>2, <3>3, ZenonT(40)
  <2> QED
    BY <1>13, <2>4, <2>5, <2>6, ZenonT(30) DEF Served
<1>19. ASSUME NEW t \in skusLeft, ~ NextSku(t) PROVE owed'[t] = Charges'[t]
  <2>1. t # s /\ t \in Skus /\ owed[t] = Charges[t]
    BY <1>1, <1>19, ZenonT(30) DEF Shared
  <2>2. Charges' = Charges
    BY <1>14, <1>15, ZenonT(40)
  <2> QED
    BY <1>16, <2>1, <2>2, ZenonT(40)
<1>20. \A t : NextSku(t)' = NextSku(t)
  BY <1>1, Zenon DEF NextSku, ChargedBefore
<1>21. \A t \in skusLeft : NextSku(t) => t = s
  BY <1>1, OneTurn, Zenon
<1> QED
  BY <1>1, <1>17, <1>18, <1>19, <1>20, <1>21, ZenonT(30) DEF Shared

\* A draw moves units from a balance to a leg.
LEMMA DrawBalance ==
  ASSUME TypeOK, InOrder, Balanced, UNCHANGED given, NEW s \in Skus, NEW g \in Grants, Draw(s, g)
  PROVE  Balanced'
<1>1. PICK cap : cap = IF GrantCoversSKU(g, s) THEN balance[g] ELSE 0
  BY Zenon
<1>2. PICK d : d = MinUint64(owed[s], cap)
  BY Zenon
<1>3. Drew(s, g, d) /\ cap \in OneSku!Amounts /\ owed[s] \in OneSku!Amounts /\ balance[g] \in OneSku!Amounts
  BY <1>1, <1>2, DrawEffect, Zenon
<1>4. d \in OneSku!Amounts /\ owed[s] - d \in OneSku!Amounts
  BY <1>2, <1>3, MinType, Zenon
<1>5. d \in Nat /\ owed[s] \in Nat /\ balance[g] \in Nat
  BY <1>3, <1>4, AmountsType, SMTT(30)
<1>6. owed \in [Skus -> OneSku!Amounts] /\ balance \in [Grants -> OneSku!Amounts]
  BY Zenon DEF TypeOK
<1>7. Charges' = Charges /\ grants' = grants
  BY Zenon DEF Charges, ComputeWindowCharges, given
<1>8. ASSUME NEW h \in Grants PROVE balance'[h] = grants'[h].available - Taken(Skus, h)'
  <2>1. balance[h] = grants[h].available - Taken(Skus, h) /\ Taken(Skus, h) \in Nat /\ grants[h].available \in Nat
    <3>1. grants[h].available \in 0..MaxAvailable
      BY DEF TypeOK, GrantTypes
    <3> QED
      BY <3>1, LegSums, WindowFundingAssumption, SMTT(30) DEF Balanced
  <2>2. CASE h = g
    <3>1. balance'[h] = balance[h] - d /\ Taken(Skus, h)' = Taken(Skus, h) + d
      BY <1>3, <1>6, <2>2, ZenonT(40) DEF Drew, Grown
    <3> QED
      BY <1>5, <1>7, <2>1, <3>1, SMTT(30)
  <2>3. CASE h # g
    <3>1. balance'[h] = balance[h] /\ Taken(Skus, h)' = Taken(Skus, h)
      BY <1>3, <1>6, <2>3, Zenon DEF Drew, Grown
    <3> QED
      BY <1>7, <2>1, <3>1, Zenon
  <2> QED
    BY <2>2, <2>3, ZenonT(40)
<1>9. ASSUME NEW t \in Skus PROVE FundingLegsForComponent(t)' + owed'[t] = Charges'[t]
  <2>1. FundingLegsForComponent(t) + owed[t] = Charges[t] /\ FundingLegsForComponent(t) \in Nat
    BY LegSums, Zenon DEF Balanced
  <2>2. CASE t = s
    <3>1. owed'[t] = owed[s] - d
      BY <1>3, <1>6, <2>2, Zenon DEF Drew
    <3>2. FundingLegsForComponent(t)' = FundingLegsForComponent(t) + d
      BY <1>3, <2>2, Zenon DEF Drew, Grown
    <3> QED
      BY <1>5, <1>7, <2>1, <2>2, <3>1, <3>2, SMTT(15)
  <2>3. CASE t # s
    <3>1. owed'[t] = owed[t]
      BY <1>3, <1>6, <2>3, ZenonT(40) DEF Drew
    <3>2. FundingLegsForComponent(t)' = FundingLegsForComponent(t)
      BY <1>3, <2>3, Zenon DEF Drew, Grown
    <3> QED
      BY <1>7, <2>1, <3>1, <3>2, ZenonT(30)
  <2> QED
    BY <2>2, <2>3, Zenon
<1>10. SumFundingLegs' + OneSku!SumOf(Skus, owed') = OneSku!SumOf(Skus, Charges')
  <2>1. OneSku!SumOf(Skus, owed') + d = OneSku!SumOf(Skus, owed)
    <3>1. OneSku!SumOf(Skus, [owed EXCEPT ![s] = @ - d]) + d = OneSku!SumOf(Skus, owed)
      BY <1>4, <1>6, SumTake, WindowFundingAssumption, ZenonT(30)
    <3> QED
      BY <1>3, <3>1, Zenon DEF Drew
  <2>2. SumFundingLegs' = SumFundingLegs + d
    BY <1>3, Zenon DEF Drew
  <2>3. SumFundingLegs + OneSku!SumOf(Skus, owed) = OneSku!SumOf(Skus, Charges)
    BY Zenon DEF Balanced
  <2>4. SumFundingLegs \in Nat /\ OneSku!SumOf(Skus, owed') \in Nat
    BY LegSums, SumType, WindowFundingAssumption, ZenonT(40)
  <2>5. SumFundingLegs' + OneSku!SumOf(Skus, owed') = OneSku!SumOf(Skus, Charges)
    BY <1>5, <2>1, <2>2, <2>3, <2>4, SMTT(15)
  <2> QED
    BY <1>7, <2>5, Zenon
<1> QED
  BY <1>8, <1>9, <1>10, ZenonT(30) DEF Balanced

\* The order of the sources is the same in every state.
LEMMA OrderedLater ==
  ASSUME UNCHANGED given,
         \A i, j \in DOMAIN legs' : i < j /\ legs'[i].sku = legs'[j].sku => Drained(legs'[i].source, legs'[j].source)
  PROVE  LegsOrdered'
BY ZenonT(40) DEF LegsOrdered, Drained, DrawnBefore, SourceRank, ScopeRank, Receivable, given

LEMMA SameOrder == ASSUME UNCHANGED given, UNCHANGED legs, LegsOrdered PROVE LegsOrdered'
<1>1. \A i, j \in DOMAIN legs' : i < j /\ legs'[i].sku = legs'[j].sku => Drained(legs'[i].source, legs'[j].source)
  BY Zenon DEF LegsOrdered
<1> QED
  BY <1>1, OrderedLater, Zenon

\* The leg of a draw, if there is one, is the last of its SKU.
LEMMA DrawOrder ==
  ASSUME TypeOK, InOrder, LegsOrdered, UNCHANGED given, NEW s \in Skus, NEW g \in Grants, Draw(s, g)
  PROVE  InOrder' /\ LegsOrdered'
<1>1. /\ NextSku(s) /\ NextGrant(g) /\ skusLeft' = skusLeft /\ grantsLeft' = grantsLeft \ {g}
      /\ s \in skusLeft /\ g \in grantsLeft /\ skusLeft \in SUBSET Skus /\ grantsLeft \in SUBSET Grants
  BY Zenon DEF Draw, NextSku, NextGrant, TypeOK
<1>2. /\ \A x, y : (DrawnBefore(x, y)' <=> DrawnBefore(x, y)) /\ (Drained(x, y)' <=> Drained(x, y))
      /\ \A x, y : ChargedBefore(x, y)' <=> ChargedBefore(x, y)
      /\ \A x : NextSku(x)' <=> NextSku(x)
  <2>1. \A x, y : (DrawnBefore(x, y)' <=> DrawnBefore(x, y)) /\ (ChargedBefore(x, y)' <=> ChargedBefore(x, y))
    BY ZenonT(30) DEF DrawnBefore, SourceRank, ScopeRank, ChargedBefore, given
  <2>2. \A x, y : Drained(x, y)' <=> Drained(x, y)
    BY <2>1, Zenon DEF Drained, Receivable
  <2>3. \A x : NextSku(x)' <=> NextSku(x)
    BY <1>1, <2>1, Zenon DEF NextSku
  <2> QED
    BY <2>1, <2>2, <2>3, Zenon
<1>3. /\ \A t \in Skus \ skusLeft', u \in skusLeft' : ChargedBefore(t, u)'
      /\ \A x \in Grants \ grantsLeft', h \in grantsLeft' : DrawnBefore(x, h)'
  <2>1. ASSUME NEW x \in Grants \ grantsLeft', NEW h \in grantsLeft' PROVE DrawnBefore(x, h)
    <3>1. CASE x = g
      BY <1>1, <2>1, <3>1, ZenonT(40) DEF NextGrant
    <3>2. CASE x # g
      BY <1>1, <2>1, <3>2, ZenonT(30) DEF InOrder
    <3> QED
      BY <3>1, <3>2, ZenonT(30)
  <2> QED
    BY <1>1, <1>2, <2>1, Zenon DEF InOrder
<1>4. CASE legs' = legs
  <2>1. \A i \in DOMAIN legs' :
          /\ legs'[i].source \in Grants
          /\ legs'[i].sku \in skusLeft' => NextSku(legs'[i].sku) /\ legs'[i].source \notin grantsLeft'
    BY <1>1, <1>2, <1>4, ZenonT(30) DEF InOrder
  <2>2. InOrder'
    BY <1>1, <1>3, <2>1, ZenonT(30) DEF InOrder, NextSku
  <2>3. LegsOrdered'
    BY <1>4, SameOrder, ZenonT(40)
  <2> QED
    BY <2>2, <2>3, Zenon
<1>5. ASSUME NEW d \in OneSku!Amounts, legs' = Append(legs, Leg(s, g, d)) PROVE InOrder' /\ LegsOrdered'
  <2>0. PICK k : k = Len(legs) + 1
    BY Zenon
  <2>1. /\ k \notin DOMAIN legs /\ DOMAIN legs' = DOMAIN legs \cup {k}
        /\ \A i \in DOMAIN legs : legs'[i] = legs[i]
        /\ legs'[k].sku = s /\ legs'[k].source = g
    <3>1. g \in OneSku!Sources
      BY Zenon DEF OneSku!Sources
    <3> QED
      BY <1>5, <2>0, <3>1, Appended, Zenon
  <2>2. \A i \in DOMAIN legs : i < k /\ ~ (k < i)
    BY <2>0, LegsType, SMTT(30)
  <2>3. ~ (k < k)
    BY <2>0, LegsType, SMTT(30)
  <2>4. \A i \in DOMAIN legs' :
          /\ legs'[i].source \in Grants
          /\ legs'[i].sku \in skusLeft' => NextSku(legs'[i].sku) /\ legs'[i].source \notin grantsLeft'
    <3>1. ASSUME NEW i \in DOMAIN legs
          PROVE  /\ legs'[i].source \in Grants
                 /\ legs'[i].sku \in skusLeft' => NextSku(legs'[i].sku) /\ legs'[i].source \notin grantsLeft'
      BY <1>1, <1>2, <2>1, Zenon DEF InOrder
    <3>2. /\ legs'[k].source \in Grants
          /\ legs'[k].sku \in skusLeft' => NextSku(legs'[k].sku) /\ legs'[k].source \notin grantsLeft'
      BY <1>1, <1>2, <2>1, Zenon
    <3> QED
      BY <2>1, <3>1, <3>2, Zenon
  <2>5. ASSUME NEW i \in DOMAIN legs', NEW j \in DOMAIN legs', i < j, legs'[i].sku = legs'[j].sku
        PROVE  Drained(legs'[i].source, legs'[j].source)
    <3>1. CASE i \in DOMAIN legs /\ j \in DOMAIN legs
      BY <2>1, <2>5, <3>1, ZenonT(30) DEF LegsOrdered
    <3>2. CASE i \in DOMAIN legs /\ j = k
      <4>1. legs[i].sku = s /\ legs'[i] = legs[i]
        BY <2>1, <2>5, <3>2, Zenon
      <4>2. legs[i].source \in Grants \ grantsLeft
        BY <1>1, <3>2, <4>1, ZenonT(30) DEF InOrder
      <4>3. DrawnBefore(legs[i].source, g)
        BY <1>1, <4>2, ZenonT(30) DEF InOrder
      <4> QED
        BY <2>1, <3>2, <4>1, <4>2, <4>3, ZenonT(30) DEF Drained
    <3>3. CASE i = k
      BY <2>1, <2>2, <2>3, <2>5, <3>3, ZenonT(30)
    <3> QED
      BY <2>1, <3>1, <3>2, <3>3, ZenonT(30)
  <2>6. InOrder'
    BY <1>1, <1>3, <2>4, Zenon DEF InOrder, NextSku
  <2>7. LegsOrdered'
    BY <2>5, OrderedLater, ZenonT(30)
  <2> QED
    BY <2>6, <2>7, Zenon
<1>6. MinUint64(owed[s], balance[g]) \in OneSku!Amounts
  BY MinType, Zenon DEF TypeOK
<1> QED
  BY <1>4, <1>5, <1>6, ZenonT(30) DEF Draw

\* The balances are never negative.
LEMMA NotOverdrawn ==
  ASSUME TypeOK, Balanced
  PROVE  NeverOverdrawn
<1> SUFFICES ASSUME NEW g \in Grants PROVE Taken(Skus, g) <= grants[g].available
  BY Zenon DEF NeverOverdrawn
<1>1. grants[g].available \in 0..MaxAvailable
  BY DEF TypeOK, GrantTypes
<1>2. balance[g] \in Nat
  BY AmountsType DEF TypeOK
<1>3. balance[g] = grants[g].available - Taken(Skus, g) /\ Taken(Skus, g) \in Nat
  BY LegSums, Zenon DEF Balanced
<1> QED
  BY <1>1, <1>2, <1>3, SMTT(30)

-----------------------------------------------------------------------------
(* The other steps of a reservation.                                       *)

\* Without legs nothing is taken.
LEMMA NoLegs ==
  ASSUME legs = <<>>
  PROVE  /\ \A S, f : Taken(S, f) = 0
         /\ \A s : FundingLegsForComponent(s) = 0
         /\ SumFundingLegs = 0
<1>1. DOMAIN legs = {}
  OBVIOUS
<1>2. OneSku!SumOf({}, LegAmounts) = 0
  BY SumZero, Zenon
<1>3. ASSUME NEW S, NEW f PROVE Taken(S, f) = 0
  <2>1. LegsOf(S, f) = {}
    BY <1>1, Zenon DEF LegsOf
  <2> QED
    BY <1>2, <2>1, Zenon DEF Taken
<1>4. ASSUME NEW s PROVE FundingLegsForComponent(s) = 0
  <2>1. {i \in DOMAIN legs : legs[i].sku = s} = {}
    BY <1>1, Zenon
  <2> QED
    BY <1>2, <2>1, Zenon DEF FundingLegsForComponent
<1>5. SumFundingLegs = 0
  BY <1>1, <1>2, Zenon DEF SumFundingLegs
<1> QED
  BY <1>3, <1>4, <1>5, ZenonT(30)

\* Once a SKU is covered, no later grant owes it a share.
LEMMA CoveredSku ==
  ASSUME TypeOK, InOrder, Shared, NEW s, NextSku(s), owed[s] = 0 \/ grantsLeft = {}
  PROVE  Served(s, Grants)
<1>1. s \in Skus /\ s \in skusLeft /\ grantsLeft \in SUBSET Grants /\ GrantTypes
  BY Zenon DEF NextSku, TypeOK
<1>2. Served(s, Grants \ grantsLeft)
  BY <1>1, Zenon DEF Shared
<1>3. CASE grantsLeft = {}
  <2>1. Grants \ grantsLeft = Grants
    BY <1>3, Zenon
  <2> QED
    BY <1>2, <2>1, Zenon
<1>4. CASE owed[s] = 0
  <2>1. PICK c, x, R : c = Charges[s] /\ R = Grants \ grantsLeft /\ x = OneSku!SumOf(R, Cap(s))
    BY Zenon
  <2>2. c \in Nat /\ x \in Nat
    <3>1. IsFiniteSet(R)
      BY <2>1, FS_Subset, WindowFundingAssumption, Zenon
    <3> QED
      BY <1>1, <2>1, <3>1, QuantityType, SumType, ZenonT(30)
  <2>3. c <= x
    <3>1. Rest(c, x) = 0
      BY <1>2, <1>4, <2>1, Zenon DEF Served, Uncovered
    <3> QED
      BY <2>2, <3>1, SMTT(30) DEF Rest
  <2>4. ASSUME NEW T \in SUBSET Grants, R \in SUBSET T
        PROVE  OneSku!SumOf(T, Cap(s)) \in Nat /\ c <= OneSku!SumOf(T, Cap(s))
    <3>1. IsFiniteSet(T)
      BY FS_Subset, WindowFundingAssumption, ZenonT(30)
    <3>2. PICK y : y = OneSku!SumOf(T, Cap(s))
      BY Zenon
    <3>3. y \in Nat /\ x <= y
      BY <2>1, <2>4, <3>1, <3>2, SumPart, ZenonT(30)
    <3>4. c <= y
      BY <2>2, <2>3, <3>3, SMTT(30)
    <3> QED
      BY <3>2, <3>3, <3>4, ZenonT(30)
  <2>5. ASSUME NEW h \in grantsLeft PROVE Taken({s}, h) = Share(s)[h]
    <3>1. Share(s)[h] = 0
      <4>1. R \in SUBSET OneSku!Before(h) /\ OneSku!Before(h) \in SUBSET Grants
        BY <1>1, <2>1, <2>5, BeforeIs, ZenonT(30) DEF InOrder
      <4>2. PICK y : y = OneSku!SumOf(OneSku!Before(h), Cap(s))
        BY Zenon
      <4>3. y \in Nat /\ c <= y
        BY <2>4, <4>1, <4>2, ZenonT(30)
      <4>4. h \in OneSku!Sources
        BY <1>1, <2>5, Zenon DEF OneSku!Sources
      <4>5. Share(s)[h] = Clip(c - y, Cap(s)[h])
        BY <2>1, <4>2, <4>4, WaterfallAt, ZenonT(30) DEF Share
      <4>6. c - y <= 0
        BY <2>2, <4>3
      <4> QED
        BY <4>5, <4>6, Zenon DEF Clip
    <3>2. LegsOf({s}, h) = {}
      BY <1>1, <2>5, Zenon DEF LegsOf, InOrder
    <3>3. OneSku!SumOf({}, LegAmounts) = 0
      BY SumZero, Zenon
    <3> QED
      BY <3>1, <3>2, <3>3, ZenonT(30) DEF Taken
  <2>6. \A h \in Grants : Taken({s}, h) = Share(s)[h]
    BY <1>2, <2>5, Zenon DEF Served
  <2>7. Uncovered(s, Grants) = 0
    <3>1. PICK y : y = OneSku!SumOf(Grants, Cap(s))
      BY Zenon
    <3>2. c <= y
      BY <2>1, <2>4, <3>1, Zenon
    <3>3. Uncovered(s, Grants) = Rest(c, y)
      BY <2>1, <3>1, Zenon DEF Uncovered
    <3> QED
      BY <3>2, <3>3, Zenon DEF Rest
  <2> QED
    BY <1>4, <2>6, <2>7, Zenon DEF Served
<1> QED
  BY <1>3, <1>4, Zenon

\* What the waterfall of a SKU says stays, with the legs.
LEMMA SameServed ==
  ASSUME UNCHANGED given, UNCHANGED legs, UNCHANGED owed, NEW s \in Skus, NEW S, Served(s, S)
  PROVE  Served(s, S)'
<1>1. Earlier(s)' = Earlier(s) /\ \A T, h : Taken(T, h)' = Taken(T, h)
  BY SameLegs, Zenon DEF Earlier, ChargedBefore
<1>2. Share(s)' = Share(s) /\ Uncovered(s, S)' = Uncovered(s, S)
  BY <1>1, SameShare, Zenon
<1> QED
  BY <1>1, <1>2, Zenon DEF Served

\* When a SKU is finished, the next one begins with all grants.
LEMMA FinishStep ==
  ASSUME TypeOK, InOrder, Balanced, Shared, UNCHANGED given, NEW s \in Skus, FinishSku(s)
  PROVE  InOrder' /\ Balanced' /\ Shared'
<1>1. /\ NextSku(s) /\ s \in skusLeft /\ skusLeft \in SUBSET Skus
      /\ skusLeft' = skusLeft \ {s} /\ grantsLeft' = Grants /\ legs' = legs /\ owed' = owed /\ balance' = balance
      /\ owed[s] = 0 \/ grantsLeft = {}
  BY Zenon DEF FinishSku, NextSku, TypeOK
<1>2. InOrder'
  <2>1. \A t \in Skus \ skusLeft', u \in skusLeft' : ChargedBefore(t, u)
    BY <1>1, Zenon DEF InOrder, NextSku
  <2>2. \A i \in DOMAIN legs : legs[i].sku \notin skusLeft'
    <3>1. ASSUME NEW i \in DOMAIN legs, legs[i].sku \in skusLeft' PROVE FALSE
      <4>1. NextSku(legs[i].sku)
        BY <1>1, <3>1, Zenon DEF InOrder
      <4>2. legs[i].sku = s
        BY <1>1, <4>1, OneTurn, Zenon
      <4> QED
        BY <1>1, <3>1, <4>2, ZenonT(40)
    <3> QED
      BY <3>1, Zenon
  <2>3. \A t, u : ChargedBefore(t, u)' <=> ChargedBefore(t, u)
    BY Zenon DEF ChargedBefore
  <2>4. Grants \ grantsLeft' = {}
    BY <1>1, Zenon
  <2>5. \A i \in DOMAIN legs' : legs'[i].source \in Grants /\ legs'[i].sku \notin skusLeft'
    BY <1>1, <2>2, Zenon DEF InOrder
  <2> QED
    BY <2>1, <2>3, <2>4, <2>5, ZenonT(30) DEF InOrder
<1>3. Charges' = Charges
  BY Zenon DEF Charges, ComputeWindowCharges, given
<1>4. Balanced'
  <2>1. /\ \A S, h : Taken(S, h)' = Taken(S, h)
        /\ \A t : FundingLegsForComponent(t)' = FundingLegsForComponent(t)
        /\ SumFundingLegs' = SumFundingLegs
    BY <1>1, SameLegs, ZenonT(30)
  <2> QED
    BY <1>1, <1>3, <2>1, Zenon DEF Balanced, given
<1>5. \A t \in Skus \ skusLeft' : Served(t, Grants)'
  <2>1. \A t \in Skus \ skusLeft' : Served(t, Grants)
    BY <1>1, CoveredSku, Zenon DEF Shared
  <2> QED
    BY <1>1, <2>1, SameServed, Zenon
<1>6. ASSUME NEW t \in skusLeft' PROVE owed'[t] = Charges'[t] /\ Served(t, Grants \ grantsLeft)'
  <2>1. ~ NextSku(t) /\ t \in skusLeft /\ t \in Skus
    BY <1>1, <1>6, OneTurn, Zenon
  <2>2. owed'[t] = Charges'[t]
    BY <1>1, <1>3, <2>1, Zenon DEF Shared
  <2>3. Grants \ grantsLeft' = {}
    BY <1>1, Zenon
  <2>4. OneSku!SumOf({}, Cap(t)') = 0
    BY SumZero, Zenon
  <2>5. Rest(Charges'[t], 0) = Charges'[t]
    <3>1. Charges[t] \in Nat
      BY <2>1, QuantityType, ZenonT(30)
    <3> QED
      BY <1>3, <3>1, SMTT(30) DEF Rest
  <2> QED
    BY <2>2, <2>3, <2>4, <2>5, ZenonT(30) DEF Served, Uncovered
<1> QED
  BY <1>2, <1>4, <1>5, <1>6, ZenonT(30) DEF Shared

\* The loop begins with the balances and charges as they are.
LEMMA ReserveStep ==
  ASSUME TypeOK, Absent, ReserveWindow
  PROVE  InOrder' /\ Balanced' /\ Shared' /\ LegsOrdered'
<1>1. /\ legs = <<>> /\ legs' = legs /\ UNCHANGED given /\ balance' = [g \in Grants |-> grants[g].available]
      /\ owed' = Charges /\ skusLeft' = Skus /\ grantsLeft' = Grants
  BY Zenon DEF ReserveWindow, Absent
<1>2. Charges' = Charges /\ grants' = grants
  BY <1>1, Zenon DEF Charges, ComputeWindowCharges, given
<1>3. DOMAIN legs' = {}
  BY <1>1
<1>4. /\ \A S, f : Taken(S, f)' = 0
      /\ \A s : FundingLegsForComponent(s)' = 0
      /\ SumFundingLegs' = 0
  BY <1>1, NoLegs, SameLegs, Zenon
<1>5. InOrder' /\ LegsOrdered'
  BY <1>1, <1>3, Zenon DEF InOrder, LegsOrdered
<1>6. Balanced'
  <2>1. ASSUME NEW g \in Grants PROVE balance'[g] = grants'[g].available - Taken(Skus, g)'
    <3>1. grants[g].available \in 0..MaxAvailable
      BY DEF TypeOK, GrantTypes
    <3>2. grants[g].available - 0 = grants[g].available
      BY <3>1
    <3> QED
      BY <1>1, <1>2, <1>4, <3>2, ZenonT(30)
  <2>2. ASSUME NEW s \in Skus PROVE FundingLegsForComponent(s)' + owed'[s] = Charges'[s]
    <3>1. 0 + Charges[s] = Charges[s]
      BY QuantityType
    <3> QED
      BY <1>1, <1>2, <1>4, <3>1, ZenonT(30)
  <2>3. SumFundingLegs' + OneSku!SumOf(Skus, owed') = OneSku!SumOf(Skus, Charges')
    <3>1. OneSku!SumOf(Skus, Charges) \in Nat
      BY SumType, WindowFundingAssumption, ZenonT(40)
    <3>2. 0 + OneSku!SumOf(Skus, Charges) = OneSku!SumOf(Skus, Charges)
      BY <3>1
    <3> QED
      BY <1>1, <1>2, <1>4, <3>2, ZenonT(30)
  <2> QED
    BY <2>1, <2>2, <2>3, ZenonT(30) DEF Balanced
<1>7. Shared'
  <2>1. ASSUME NEW s \in Skus PROVE owed'[s] = Charges'[s] /\ Served(s, Grants \ grantsLeft)'
    <3>1. Grants \ grantsLeft' = {}
      BY <1>1, Zenon
    <3>2. OneSku!SumOf({}, Cap(s)') = 0
      BY SumZero, Zenon
    <3>3. Rest(Charges'[s], 0) = Charges'[s]
      <4>1. Charges[s] \in Nat
        BY QuantityType, Zenon
      <4> QED
        BY <1>2, <4>1, SMTT(30) DEF Rest
    <3> QED
      BY <1>1, <1>2, <3>1, <3>2, <3>3, ZenonT(30) DEF Served, Uncovered
  <2> QED
    BY <1>1, <2>1, Zenon DEF Shared
<1> QED
  BY <1>5, <1>6, <1>7, ZenonT(30)

\* A reservation is the waterfall of every SKU once the receivable has its share too.
LEMMA AllShares ==
  ASSUME TypeOK, NEW s \in Skus, Served(s, Grants), Taken({s}, Receivable) = owed[s],
         request.overage \/ owed[s] = 0
  PROVE  [f \in OneSku!Sources |-> Taken({s}, f)] = Share(s)
<1>1. PICK c, x : c = Charges[s] /\ x = OneSku!SumOf(Grants, Cap(s))
  BY Zenon
<1>2. c \in Nat /\ x \in Nat
  BY <1>1, QuantityType, SumType, WindowFundingAssumption, ZenonT(30)
<1>3. owed[s] = Rest(c, x)
  BY <1>1, Zenon DEF Served, Uncovered
<1>4. Share(s)[Receivable] = Clip(c - x, IF request.overage THEN c ELSE 0)
  <2>1. Receivable \in OneSku!Sources /\ OneSku!Before(Receivable) = Grants
    BY BeforeIs, Zenon DEF TypeOK, OneSku!Sources
  <2>2. Share(s)[Receivable] = Clip(c - x, Cap(s)[Receivable])
    BY <1>1, <2>1, WaterfallAt, Zenon DEF Share
  <2> QED
    BY <1>1, <2>2, CapAt, Zenon
<1>5. Share(s)[Receivable] = Taken({s}, Receivable)
  <2>1. CASE request.overage
    <3>1. Clip(c - x, c) = Rest(c, x)
      BY <1>2 DEF Clip, Rest
    <3> QED
      BY <1>3, <1>4, <2>1, <3>1, ZenonT(30)
  <2>2. CASE owed[s] = 0
    <3>1. c - x <= 0
      BY <1>2, <1>3, <2>2, SMTT(30) DEF Rest
    <3> QED
      BY <1>4, <2>2, <3>1, ZenonT(30) DEF Clip
  <2> QED
    BY <2>1, <2>2, Zenon
<1>6. \A f \in OneSku!Sources : Taken({s}, f) = Share(s)[f]
  BY <1>5, Zenon DEF Served, OneSku!Sources
<1>7. Share(s) = [f \in OneSku!Sources |-> Share(s)[f]]
  BY Zenon DEF Share, OneSku!Waterfall
<1> QED
  BY <1>6, <1>7, Zenon

\* The loop has served every SKU.
LEMMA LoopDone ==
  ASSUME TypeOK, InOrder, Balanced, Shared, skusLeft = {}
  PROVE  /\ \A s \in Skus : Served(s, Grants) /\ LegsOf({s}, Receivable) = {} /\ Taken({s}, Receivable) = 0
         /\ SumFundingLegs >= OneSku!SumOf(Skus, Charges) => \A s \in Skus : owed[s] = 0
<1>1. ASSUME NEW s \in Skus PROVE Served(s, Grants)
  BY Zenon DEF Shared
<1>2. ASSUME NEW s \in Skus PROVE LegsOf({s}, Receivable) = {}
  BY AmountsType, Zenon DEF LegsOf, InOrder
<1>3. ASSUME NEW s \in Skus PROVE Taken({s}, Receivable) = 0
  <2>1. OneSku!SumOf({}, LegAmounts) = 0
    BY SumZero, Zenon
  <2> QED
    BY <1>2, <2>1, Zenon DEF Taken
<1>4. ASSUME SumFundingLegs >= OneSku!SumOf(Skus, Charges), NEW s \in Skus PROVE owed[s] = 0
  <2>1. SumFundingLegs \in Nat /\ OneSku!SumOf(Skus, Charges) \in Nat /\ OneSku!SumOf(Skus, owed) \in Nat
    BY LegSums, SumType, WindowFundingAssumption, Zenon
  <2>2. SumFundingLegs + OneSku!SumOf(Skus, owed) = OneSku!SumOf(Skus, Charges)
    BY Zenon DEF Balanced
  <2>3. OneSku!SumOf(Skus, owed) = 0
    BY <1>4, <2>1, <2>2, SMTT(15)
  <2>4. owed[s] \in OneSku!Amounts
    BY Zenon DEF TypeOK
  <2>5. OneSku!SumOf({s}, owed) = owed[s]
    BY <2>4, SumSingleton, Zenon
  <2>6. OneSku!SumOf({s}, owed) <= OneSku!SumOf(Skus, owed)
    <3>1. {s} \in SUBSET Skus
      BY Zenon
    <3> QED
      BY <3>1, SumPart, WindowFundingAssumption, Zenon
  <2> QED
    BY <2>3, <2>4, <2>5, <2>6, AmountsType, SMTT(15)
<1> QED
  BY <1>1, <1>2, <1>3, <1>4, ZenonT(30)

LEMMA SameWaterfall ==
  ASSUME UNCHANGED given, UNCHANGED legs,
         \A s \in Skus : [f \in OneSku!Sources |-> Taken({s}, f)] = Share(s)
  PROVE  FundingIsWaterfall'
<1> SUFFICES ASSUME NEW s \in Skus
             PROVE  [f \in OneSku!Sources |-> Taken({s}, f)'] = Share(s)'
  BY Zenon DEF FundingIsWaterfall, Share, OneSku!Sources
<1>1. Earlier(s)' = Earlier(s) /\ \A T, h : Taken(T, h)' = Taken(T, h)
  BY SameLegs, Zenon DEF Earlier, ChargedBefore
<1>2. Share(s)' = Share(s)
  BY <1>1, SameShare, Zenon
<1> QED
  BY <1>1, <1>2, Zenon

LEMMA SameDebts ==
  ASSUME UNCHANGED given, UNCHANGED legs, NeverOverdrawn
  PROVE  NeverOverdrawn'
<1>1. \A T, h : Taken(T, h)' = Taken(T, h)
  BY SameLegs, Zenon
<1> QED
  BY <1>1, Zenon DEF NeverOverdrawn, given

\* A reservation that the grants fund is complete, one with overage continues, and
\* one that is denied has no legs.
LEMMA AuthorizeStep ==
  ASSUME TypeOK, InOrder, Balanced, Shared, LegsOrdered, UNCHANGED given, Authorize
  PROVE  /\ window'.state \in {"reserved", "overage", "denied"} /\ (window'.state = "denied" => legs' = <<>>)
         /\ Overage' /\ Complete' /\ FundingIsWaterfall' /\ NeverOverdrawn' /\ LegsOrdered'
<1> DEFINE funded == SumFundingLegs >= OneSku!SumOf(Skus, Charges)
           st == IF funded THEN "reserved" ELSE IF request.overage THEN "overage" ELSE "denied"
<1>1. /\ window' = [window EXCEPT !.state = st] /\ legs' = IF funded \/ request.overage THEN legs ELSE <<>>
      /\ skusLeft = {} /\ skusLeft' = Skus /\ owed' = owed
  BY Zenon DEF Authorize
<1>2. st \in States
  BY Zenon DEF States
<1>3. window'.state = st
  <2> HIDE DEF st
  <2> QED
    BY <1>1, <1>2, WindowType, Zenon
<1>4. Charges' = Charges /\ request' = request /\ grants' = grants
  BY Zenon DEF Charges, ComputeWindowCharges, given
<1>5. \A s \in Skus : Served(s, Grants) /\ LegsOf({s}, Receivable) = {} /\ Taken({s}, Receivable) = 0
  BY <1>1, LoopDone, Zenon
<1>6. NeverOverdrawn
  BY NotOverdrawn, Zenon
<1>7. CASE funded
  <2>1. window'.state = "reserved" /\ legs' = legs
    BY <1>1, <1>3, <1>7, Zenon
  <2>2. \A s \in Skus : owed[s] = 0
    BY <1>1, <1>7, LoopDone, Zenon
  <2>3. Complete'
    <3>1. ASSUME NEW s \in Skus PROVE FundingLegsForComponent(s)' = Charges'[s]
      <4>1. FundingLegsForComponent(s) + 0 = Charges[s] /\ FundingLegsForComponent(s) \in Nat
        BY <2>2, LegSums, Zenon DEF Balanced
      <4>2. FundingLegsForComponent(s) = Charges[s]
        BY <4>1
      <4> QED
        BY <1>4, <2>1, <4>2, SameLegs, ZenonT(30)
    <3> QED
      BY <3>1, Zenon DEF Complete
  <2>4. FundingIsWaterfall'
    <3>1. ASSUME NEW s \in Skus PROVE [f \in OneSku!Sources |-> Taken({s}, f)] = Share(s)
      BY <1>5, <2>2, AllShares, ZenonT(30)
    <3> QED
      BY <2>1, <3>1, SameWaterfall, ZenonT(30)
  <2>5. Overage'
    BY <2>1, Zenon DEF Overage
  <2> QED
    BY <1>6, <2>1, <2>3, <2>4, <2>5, SameDebts, SameOrder, ZenonT(30)
<1>8. CASE ~ funded /\ request.overage
  <2>1. window'.state = "overage" /\ legs' = legs
    BY <1>1, <1>3, <1>8, ZenonT(30)
  <2>2. ~ Reserved'
    BY <2>1, Zenon DEF Reserved
  <2>3. ASSUME NEW s \in Skus PROVE Served(s, Grants)'
    BY <1>1, <1>5, <2>1, SameServed, ZenonT(30)
  <2>4. ASSUME NEW s \in Skus
        PROVE  LegsOf({s}, Receivable)' = {} /\ FundingLegsForComponent(s)' + owed'[s] = Charges'[s]
    <3>1. LegsOf({s}, Receivable)' = LegsOf({s}, Receivable) /\ FundingLegsForComponent(s)' = FundingLegsForComponent(s)
      BY <2>1, SameLegs, Zenon DEF Receivable
    <3> QED
      BY <1>1, <1>4, <1>5, <3>1, ZenonT(30) DEF Balanced
  <2>5. Overage'
    BY <1>1, <1>4, <1>8, <2>3, <2>4, ZenonT(30) DEF Overage
  <2> QED
    BY <1>6, <2>1, <2>2, <2>5, SameDebts, SameOrder, ZenonT(30) DEF Complete, FundingIsWaterfall
<1>9. CASE ~ funded /\ ~ request.overage
  <2>1. window'.state = "denied" /\ legs' = <<>>
    BY <1>1, <1>3, <1>9, Zenon
  <2>2. ~ Reserved'
    BY <2>1, Zenon DEF Reserved
  <2>3. DOMAIN legs' = {}
    BY <2>1
  <2>4. LegsOrdered'
    BY <2>3, Zenon DEF LegsOrdered
  <2>5. NeverOverdrawn'
    <3>1. ASSUME NEW g \in Grants PROVE Taken(Skus, g)' <= grants'[g].available
      <4>1. LegsOf(Skus, g)' = {}
        BY <2>3, Zenon DEF LegsOf
      <4>2. OneSku!SumOf({}, LegAmounts') = 0
        BY SumZero, Zenon
      <4>3. Taken(Skus, g)' = 0
        BY <4>1, <4>2, Zenon DEF Taken
      <4>4. grants'[g].available \in 0..MaxAvailable
        BY <1>4, SMTT(30) DEF TypeOK, GrantTypes
      <4>5. 0 <= grants'[g].available
        BY <4>4, WindowFundingAssumption
      <4> QED
        BY <4>3, <4>5, Zenon
    <3> QED
      BY <3>1, Zenon DEF NeverOverdrawn
  <2> QED
    BY <2>1, <2>2, <2>4, <2>5, ZenonT(30) DEF Complete, FundingIsWaterfall, Overage
<1> QED
  BY <1>7, <1>8, <1>9, Zenon
=============================================================================
