------------------------- MODULE CartPlanningProofs -------------------------
(* What holds of CartPlanning for every cart, every set of threads and every *)
(* configuration: what a checkout costs is an amount, the optimizer's choice *)
(* exists and is the best, a sum of quantities counts units; then the        *)
(* invariant of the threads and of the directory, and from it the properties *)
(* of a plan's checkout, of a ready answer and of a choice.                  *)
EXTENDS CartPlanning, SequenceTheorems, FiniteSetTheorems,
        WellFoundedInduction, TLAPS

------------------------------------------------------------------------------
(* Numbers, sums and costs.                                                  *)

\* A set of naturals that is not empty has a least.
LEMMA Least ==
  ASSUME NEW T, T \subseteq Nat, T # {}
  PROVE  \E m \in T : \A k \in T : m <= k
<1> DEFINE R == OpToRel(<, Nat)
<1>1. IsWellFoundedOn(R, Nat)
  BY NatLessThanWellFounded
<1>2. \E x \in T : \A y \in T : ~(<<y, x>> \in R)
  <2> HIDE DEF R
  <2> QED BY <1>1, WFMin
<1>3. PICK x \in T : \A y \in T : ~(<<y, x>> \in R)
  BY <1>2
<1>4. \A a, b \in Nat : a < b => <<a, b>> \in R
  BY DEF OpToRel
<1> HIDE DEF R
<1>5. ASSUME NEW k \in T PROVE x <= k
  <2>1. k \in Nat /\ x \in Nat
    OBVIOUS
  <2>2. ~(k < x)
    BY <1>3, <1>4, <2>1
  <2> QED BY <2>1, <2>2
<1> QED BY <1>3, <1>5

\* Running sums of integers exist, and are integers.
LEMMA RunningSum ==
  ASSUME NEW N \in Nat, NEW d, \A n \in 1..N : d[n] \in Int
  PROVE  \E f \in [0..N -> Int] : f[0] = 0 /\ \A i \in 1..N : f[i] = f[i - 1] + d[i]
<1> DEFINE Sums(n) == \E f \in [0..n -> Int] : f[0] = 0 /\ \A i \in 1..n : f[i] = f[i - 1] + d[i]
           T == {n \in 0..N : ~Sums(n)}
<1>1. SUFFICES ASSUME T # {} PROVE FALSE
  <2>1. T = {} => Sums(N)
    <3> HIDE DEF Sums
    <3> QED OBVIOUS
  <2> QED BY <2>1
<1>2. PICK m \in T : \A k \in T : m <= k
  <2>1. T \subseteq Nat
    OBVIOUS
  <2> HIDE DEF T
  <2> QED BY <1>1, <2>1, Least
<1>3. m \in 0..N /\ ~Sums(m)
  BY <1>2
<1>4. CASE m = 0
  <2>1. [i \in 0..0 |-> 0] \in [0..0 -> Int]
    OBVIOUS
  <2>2. \A i \in 1..0 : FALSE
    OBVIOUS
  <2> DEFINE z == [i \in 0..0 |-> 0]
  <2>4. z[0] = 0
    OBVIOUS
  <2>3. Sums(0)
    <3> HIDE DEF z
    <3> QED BY <2>1, <2>2, <2>4 DEF z
  <2> QED BY <1>3, <1>4, <2>3
<1>5. CASE m # 0
  <2>1. m - 1 \in 0..N /\ m - 1 < m /\ m \in 1..N
    BY <1>3, <1>5
  <2>2. Sums(m - 1)
    <3> HIDE DEF Sums
    <3> QED BY <1>2, <2>1
  <2>3. PICK f \in [0..(m - 1) -> Int] : f[0] = 0 /\ \A i \in 1..(m - 1) : f[i] = f[i - 1] + d[i]
    BY <2>2
  <2> DEFINE g == [i \in 0..m |-> IF i = m THEN f[m - 1] + d[m] ELSE f[i]]
  <2>4. g \in [0..m -> Int]
    <3> SUFFICES ASSUME NEW i \in 0..m PROVE (IF i = m THEN f[m - 1] + d[m] ELSE f[i]) \in Int
      OBVIOUS
    <3>1. f[m - 1] \in Int /\ d[m] \in Int
      BY <2>1
    <3>2. i # m => f[i] \in Int
      BY <2>1
    <3> QED BY <3>1, <3>2
  <2>5. g[0] = 0
    BY <2>1, <2>3
  <2>6. ASSUME NEW i \in 1..m PROVE g[i] = g[i - 1] + d[i]
    <3>1. CASE i = m
      BY <2>1, <3>1
    <3>2. CASE i # m
      <4>1. i \in 1..(m - 1) /\ i - 1 \in 0..m /\ i - 1 # m /\ i \in 0..m
        BY <2>1, <3>2
      <4>2. g[i] = f[i] /\ g[i - 1] = f[i - 1]
        BY <3>2, <4>1
      <4> QED BY <2>3, <4>1, <4>2
    <3> QED BY <3>1, <3>2
  <2>7. Sums(m)
    <3> HIDE DEF g
    <3> QED BY <2>4, <2>5, <2>6
  <2> QED BY <1>3, <2>7
<1> QED BY <1>4, <1>5

LEMMA SumTyped ==
  ASSUME NEW amounts, amounts \in Seq(Amount)
  PROVE  SumOf(amounts) \in Int
<1> DEFINE N == Len(amounts)
           d == [n \in 1..N |-> IF amounts[n] = None THEN 0 ELSE amounts[n].units]
           Is(f) == f = [n \in 0..N |->
                           IF n = 0 THEN 0
                           ELSE f[n - 1] + (IF amounts[n] = None THEN 0 ELSE amounts[n].units)]
           h == CHOOSE f : Is(f)
<1>1. N \in Nat /\ \A n \in 1..N : amounts[n] \in Amount
  BY LenProperties, ElementOfSeq
<1>2. \A n \in 1..N : d[n] \in Int
  BY <1>1 DEF Amount, Money
<1>3. PICK f \in [0..N -> Int] : f[0] = 0 /\ \A i \in 1..N : f[i] = f[i - 1] + d[i]
  <2> HIDE DEF d, N
  <2> QED BY <1>1, <1>2, RunningSum
<1>4. Is(f)
  <2>1. \A n \in 0..N : f[n] = IF n = 0 THEN 0
            ELSE f[n - 1] + (IF amounts[n] = None THEN 0 ELSE amounts[n].units)
    <3> SUFFICES ASSUME NEW n \in 0..N, n # 0
                 PROVE  f[n] = f[n - 1] + (IF amounts[n] = None THEN 0 ELSE amounts[n].units)
      BY <1>3
    <3>1. n \in 1..N
      BY <1>1
    <3> QED BY <1>3, <3>1
  <2>2. f = [n \in 0..N |-> f[n]]
    OBVIOUS
  <2> HIDE DEF N
  <2> QED BY <2>1, <2>2
<1>5. Is(h)
  <2> HIDE DEF Is
  <2> QED BY <1>4
<1>6. SumOf(amounts) = h[N]
  BY DEF SumOf
<1> HIDE DEF h
<1>7. \A n \in 0..N : h[n] = IF n = 0 THEN 0
            ELSE h[n - 1] + (IF amounts[n] = None THEN 0 ELSE amounts[n].units)
  BY <1>5
<1> HIDE DEF Is
<1>8. \A n \in 1..N : h[n] = h[n - 1] + d[n]
  BY <1>1, <1>7
<1> DEFINE T == {n \in 0..N : h[n] \notin Int}
<1>9. T = {}
  <2> SUFFICES ASSUME T # {} PROVE FALSE
    OBVIOUS
  <2>1. PICK m \in T : \A k \in T : m <= k
    <3>1. T \subseteq Nat
      BY <1>1
    <3> HIDE DEF T
    <3> QED BY <3>1, Least
  <2>2. m \in 0..N /\ h[m] \notin Int
    BY <2>1
  <2>3. m # 0
    BY <1>7, <2>2
  <2>4. m - 1 \in 0..N /\ m \in 1..N /\ m - 1 < m
    BY <1>1, <2>2, <2>3
  <2>5. h[m - 1] \in Int
    BY <2>1, <2>4
  <2>6. d[m] \in Int
    BY <1>2, <2>4
  <2>7. h[m] = h[m - 1] + d[m]
    <3> HIDE DEF d
    <3> QED BY <1>8, <2>4
  <2> HIDE DEF d, T
  <2> QED BY ONLY <2>2, <2>5, <2>6, <2>7
<1>10. N \in 0..N
  BY <1>1
<1> QED BY <1>6, <1>9, <1>10

\* Whatever a checkout shows, its cost is an amount of money or is not known.
LEMMA CostTyped == ASSUME NEW o \in Observation PROVE EffectiveCost(o) \in Amount
<1> DEFINE offers == [i \in DOMAIN o.offers |-> OfferResult(o.offers[i]).immediate]
           Benefit(m) == LET r == MembershipResult(m) IN IF r.eligible = TRUE THEN r.benefit ELSE None
           members == [i \in DOMAIN o.memberships |-> Benefit(o.memberships[i])]
<1>1. /\ o.totals \in Seq(TotalLine) /\ o.fees \in Seq(FeeLine)
      /\ o.offers \in Seq(OfferLine) /\ o.memberships \in Seq(MembershipLine)
  BY DEF Observation
<1>2. Subtotal(o.totals) \in Amount
  <2>1. \A t \in ToSet(o.totals) : t.amount \in Amount
    <3> SUFFICES ASSUME NEW i \in DOMAIN o.totals PROVE o.totals[i].amount \in Amount
      BY DEF ToSet
    <3>1. o.totals[i] \in TotalLine
      BY <1>1, LenProperties, ElementOfSeq
    <3> QED BY <3>1 DEF TotalLine
  <2> QED BY <2>1 DEF Subtotal, Amount
<1>3. \A l \in OfferLine : OfferResult(l).immediate \in Amount
  <2> SUFFICES ASSUME NEW l \in OfferLine PROVE OfferResult(l).immediate \in Amount
    OBVIOUS
  <2>1. l.value # None => Rupees(l.value) \in Amount
    BY INRAssumption DEF OfferLine, Rupees, Amount, Money
  <2>2. OfferResult(l).immediate # None => l.value # None /\ OfferResult(l).immediate = Rupees(l.value)
    BY DEF OfferResult
  <2> QED BY <2>1, <2>2 DEF Amount
<1>4. \A l \in MembershipLine : Benefit(l) \in Amount
  BY DEF MembershipLine, MembershipResult, Amount
<1>5. \A l \in FeeLine : FeeResult(l).amount \in Amount
  BY DEF FeeLine, FeeResult, Amount
<1>6. offers \in Seq(Amount)
  <2>1. Len(o.offers) \in Nat /\ DOMAIN o.offers = 1..Len(o.offers)
        /\ \A i \in 1..Len(o.offers) : o.offers[i] \in OfferLine
    BY <1>1, LenProperties, ElementOfSeq
  <2>2. \A i \in 1..Len(o.offers) : OfferResult(o.offers[i]).immediate \in Amount
    BY <1>3, <2>1
  <2> QED BY <2>1, <2>2
<1>7. members \in Seq(Amount)
  <2>1. Len(o.memberships) \in Nat /\ DOMAIN o.memberships = 1..Len(o.memberships)
        /\ \A i \in 1..Len(o.memberships) : o.memberships[i] \in MembershipLine
    BY <1>1, LenProperties, ElementOfSeq
  <2>2. \A i \in 1..Len(o.memberships) : Benefit(o.memberships[i]) \in Amount
    BY <1>4, <2>1
  <2> HIDE DEF Benefit
  <2> QED BY <2>1, <2>2
<1>8. Fees(o) \in Seq(Amount)
  <2>1. Len(o.fees) \in Nat /\ DOMAIN o.fees = 1..Len(o.fees)
        /\ \A i \in 1..Len(o.fees) : o.fees[i] \in FeeLine
    BY <1>1, LenProperties, ElementOfSeq
  <2>2. \A i \in 1..Len(o.fees) : FeeResult(o.fees[i]).amount \in Amount
    BY <1>5, <2>1
  <2> QED BY <2>1, <2>2 DEF Fees
<1>9. Discounts(o) = offers \o members
  BY DEF Discounts
<1> HIDE DEF offers, members
<1>10. Discounts(o) \in Seq(Amount)
  BY <1>6, <1>7, <1>9, ConcatProperties
<1>11. SumOf(Discounts(o)) \in Int /\ SumOf(Fees(o)) \in Int
  BY <1>8, <1>10, SumTyped
<1>12. CASE Subtotal(o.totals) = None
  <2>1. <<"subtotal", 0>> \in Unknowns(o)
    BY <1>12 DEF Unknowns
  <2>2. EffectiveCost(o) = None
    BY <2>1 DEF EffectiveCost
  <2> QED BY <2>2 DEF Amount
<1>13. CASE Subtotal(o.totals) # None
  <2>1. Subtotal(o.totals) \in Money
    BY <1>2, <1>13 DEF Amount
  <2>2. /\ Subtotal(o.totals).currency \in Currency
        /\ Subtotal(o.totals).units - SumOf(Discounts(o)) + SumOf(Fees(o)) \in Int
    BY <1>11, <2>1 DEF Money
  <2> QED BY <2>2 DEF EffectiveCost, Amount, Money
<1> QED BY <1>12, <1>13

------------------------------------------------------------------------------
(* The optimizer: the order of the plans, the best of them, the units that   *)
(* they bring.                                                               *)

RankingKeys == Int \X Int \X Int \X Int \X Int
LEMMA BeforeUnfolds ==
  ASSUME NEW k \in RankingKeys, NEW l \in RankingKeys
  PROVE  Before(k, l) <=>
           \/ k[1] < l[1]
           \/ k[1] = l[1] /\ k[2] < l[2]
           \/ k[1] = l[1] /\ k[2] = l[2] /\ k[3] < l[3]
           \/ k[1] = l[1] /\ k[2] = l[2] /\ k[3] = l[3] /\ k[4] < l[4]
           \/ k[1] = l[1] /\ k[2] = l[2] /\ k[3] = l[3] /\ k[4] = l[4] /\ k[5] < l[5]
<1> DEFINE First(i) == k[i] < l[i] /\ \A j \in 1..(i - 1) : k[j] = l[j]
<1>1. DOMAIN k = 1..5
  BY DEF RankingKeys
<1>2. Before(k, l) <=> \E i \in 1..5 : First(i)
  BY <1>1 DEF Before
<1>3. (\E i \in 1..5 : First(i)) <=> First(1) \/ First(2) \/ First(3) \/ First(4) \/ First(5)
  <2> HIDE DEF First
  <2>1. \A i \in 1..5 : i = 1 \/ i = 2 \/ i = 3 \/ i = 4 \/ i = 5
    OBVIOUS
  <2> QED BY <2>1
<1>4. 1..0 = {} /\ 1..1 = {1} /\ 1..2 = {1, 2} /\ 1..3 = {1, 2, 3} /\ 1..4 = {1, 2, 3, 4}
  OBVIOUS
<1>5. /\ First(1) <=> k[1] < l[1]
      /\ First(2) <=> k[2] < l[2] /\ k[1] = l[1]
      /\ First(3) <=> k[3] < l[3] /\ k[1] = l[1] /\ k[2] = l[2]
      /\ First(4) <=> k[4] < l[4] /\ k[1] = l[1] /\ k[2] = l[2] /\ k[3] = l[3]
      /\ First(5) <=> k[5] < l[5] /\ k[1] = l[1] /\ k[2] = l[2] /\ k[3] = l[3] /\ k[4] = l[4]
  BY <1>4
<1> HIDE DEF First
<1> QED BY <1>2, <1>3, <1>5

\* The order of the plans is strict, and total where the ids differ.
LEMMA BeforeIsStrict ==
  /\ \A k \in RankingKeys : ~Before(k, k)
  /\ \A k, l, m \in RankingKeys : Before(k, l) /\ Before(l, m) => Before(k, m)
  /\ \A k, l \in RankingKeys : k[5] # l[5] => Before(k, l) \/ Before(l, k)
<1>1. ASSUME NEW k \in RankingKeys PROVE k[1] \in Int /\ k[2] \in Int /\ k[3] \in Int /\ k[4] \in Int /\ k[5] \in Int
  BY DEF RankingKeys
<1>2. ASSUME NEW k \in RankingKeys PROVE ~Before(k, k)
  BY <1>1, BeforeUnfolds
<1>3. ASSUME NEW k \in RankingKeys, NEW l \in RankingKeys, NEW m \in RankingKeys, Before(k, l), Before(l, m)
      PROVE  Before(k, m)
  <2> HIDE DEF RankingKeys
  <2> QED BY <1>1, <1>3, BeforeUnfolds
<1>4. ASSUME NEW k \in RankingKeys, NEW l \in RankingKeys, k[5] # l[5] PROVE Before(k, l) \/ Before(l, k)
  BY <1>1, <1>4, BeforeUnfolds
<1> QED BY <1>2, <1>3, <1>4

\* The elements of a sequence are finitely many.
LEMMA ElementsFinite == ASSUME NEW S, NEW s \in Seq(S) PROVE IsFiniteSet(ToSet(s))
<1>1. Len(s) \in Nat /\ DOMAIN s = 1..Len(s)
  BY LenProperties
<1>2. IsFiniteSet(DOMAIN s)
  BY <1>1, FS_Interval
<1>3. s \in Surjection(DOMAIN s, ToSet(s))
  <2>1. s \in [DOMAIN s -> ToSet(s)]
    BY <1>1 DEF ToSet
  <2> QED BY <2>1 DEF Surjection, ToSet
<1> QED BY <1>2, <1>3, FS_Surjection

\* An evaluation that a plan refers to is one of the request.
LEMMA EvaluationFound ==
  ASSUME NEW request, NEW plan, EvaluationOf(request, plan) # None
  PROVE  /\ EvaluationOf(request, plan) \in ToSet(request.evaluations)
         /\ EvaluationOf(request, plan).id = plan.evaluation
BY DEF EvaluationOf

\* A feasible plan of a request that is accepted has a key, and a cost in the
\* currency of the others.
LEMMA FeasibleHasKey ==
  ASSUME NEW request, IsRequest(request), ~Refuses(request),
         NEW plan \in PlansThatAre(request, "feasible")
  PROVE  /\ plan \in ToSet(request.plans) /\ IsPlan(plan)
         /\ EvaluationOf(request, plan) # None
         /\ EvaluationOf(request, plan).cost \in Money
         /\ EvaluationOf(request, plan).cost # None
         /\ RankingKey(request, plan) \in RankingKeys
         /\ Cardinality(plan.groups) \in Nat
<1> DEFINE e == EvaluationOf(request, plan)
<1>1. plan \in ToSet(request.plans) /\ EffectiveFeasibility(request.cart, plan) = "feasible"
  BY DEF PlansThatAre
<1>2. CostsKnown(request, plan)
  BY <1>1 DEF Refuses
<1>3. e # None /\ e.cost # None
  BY <1>2 DEF CostsKnown
<1>4. e \in ToSet(request.evaluations)
  BY <1>3, EvaluationFound
<1>5. e.cost \in Money
  BY <1>3, <1>4 DEF IsRequest, Amount
<1>6. IsPlan(plan)
  BY <1>1 DEF IsRequest
<1>7. Cardinality(plan.groups) \in Nat
  BY <1>6, FS_CardinalityType DEF IsPlan
<1>8. RankingKey(request, plan) \in RankingKeys
  <2>1. e.cost.units \in Int /\ plan.penalty \in Int /\ -plan.priority \in Int /\ plan.id \in Int
    BY <1>5, <1>6 DEF IsPlan, Money
  <2> HIDE DEF e
  <2> QED BY <1>7, <2>1 DEF RankingKey, RankingKeys, e
<1> QED BY <1>1, <1>3, <1>5, <1>6, <1>7, <1>8

\* The optimizer's ranking has a first: a feasible plan before all the others.
LEMMA BestExists ==
  ASSUME NEW request, IsRequest(request), ~Refuses(request), PlansThatAre(request, "feasible") # {}
  PROVE  /\ Best(request) \in PlansThatAre(request, "feasible")
         /\ \A other \in PlansThatAre(request, "feasible") :
               other = Best(request) \/ Before(RankingKey(request, Best(request)), RankingKey(request, other))
<1> DEFINE F == PlansThatAre(request, "feasible")
           K(p) == RankingKey(request, p)
           Earlier(p) == {q \in F : Before(K(q), K(p))}
           T == {Cardinality(Earlier(p)) : p \in F}
<1>1. \A p \in F : K(p) \in RankingKeys /\ p \in ToSet(request.plans) /\ IsPlan(p)
  BY FeasibleHasKey
<1>2. IsFiniteSet(F)
  <2>1. F \subseteq ToSet(request.plans) /\ request.plans \in Seq(ToSet(request.plans))
    BY DEF PlansThatAre, IsRequest
  <2> HIDE DEF F
  <2> QED BY <2>1, ElementsFinite, FS_Subset
<1>3. \A p, q \in F : p # q => Before(K(p), K(q)) \/ Before(K(q), K(p))
  <2> SUFFICES ASSUME NEW p \in F, NEW q \in F, p # q PROVE Before(K(p), K(q)) \/ Before(K(q), K(p))
    OBVIOUS
  <2>1. p.id # q.id
    BY <1>1 DEF Refuses, Distinct, ToSet
  <2>2. K(p)[5] = p.id /\ K(q)[5] = q.id
    BY DEF RankingKey
  <2> HIDE DEF K
  <2> QED BY <1>1, <2>1, <2>2, BeforeIsStrict
<1> HIDE DEF F, K
<1>4. \A p \in F : IsFiniteSet(Earlier(p)) /\ Cardinality(Earlier(p)) \in Nat
  <2> SUFFICES ASSUME NEW p \in F PROVE IsFiniteSet(Earlier(p)) /\ Cardinality(Earlier(p)) \in Nat
    OBVIOUS
  <2>1. Earlier(p) \subseteq F
    OBVIOUS
  <2> HIDE DEF Earlier
  <2> QED BY <1>2, <2>1, FS_Subset, FS_CardinalityType
<1>5. PICK m \in T : \A k \in T : m <= k
  <2>1. T \subseteq Nat /\ T # {}
    BY <1>4 DEF F
  <2> HIDE DEF T
  <2> QED BY <2>1, Least
<1>6. PICK p \in F : m = Cardinality(Earlier(p))
  BY <1>5
<1>7. \A q \in F : ~Before(K(q), K(p))
  <2> SUFFICES ASSUME NEW q \in F, Before(K(q), K(p)) PROVE FALSE
    OBVIOUS
  <2>1. \A x \in F : Before(K(x), K(q)) => Before(K(x), K(p))
    BY <1>1, BeforeIsStrict
  <2>2. ~Before(K(q), K(q))
    BY <1>1, BeforeIsStrict
  <2>3. Earlier(q) \subseteq Earlier(p) /\ q \in Earlier(p) /\ q \notin Earlier(q)
    BY <2>1, <2>2
  <2>4. Cardinality(Earlier(q)) < Cardinality(Earlier(p))
    <3> HIDE DEF Earlier
    <3> QED BY <1>4, <2>3, FS_Subset
  <2>5. Cardinality(Earlier(p)) <= Cardinality(Earlier(q))
    BY <1>5, <1>6
  <2> HIDE DEF Earlier
  <2> QED BY <1>4, <2>4, <2>5
<1>8. \A q \in F : q = p \/ Before(K(p), K(q))
  BY <1>3, <1>7
<1> QED BY <1>8 DEF Best, F, K

\* What "before" says of two plans: not dearer, and of no more checkouts where
\* they cost the same.
LEMMA BestIsCheapest ==
  ASSUME NEW request, IsRequest(request), ~Refuses(request),
         NEW other \in PlansThatAre(request, "feasible")
  PROVE  LET paid == EvaluationOf(request, Best(request)).cost
             cost == EvaluationOf(request, other).cost
         IN  \/ paid.units < cost.units
             \/ /\ paid.units = cost.units
                /\ Cardinality(Best(request).groups) <= Cardinality(other.groups)
<1> DEFINE best == Best(request)
           k == RankingKey(request, best)
           l == RankingKey(request, other)
<1>1. best \in PlansThatAre(request, "feasible") /\ (other = best \/ Before(k, l))
  BY BestExists
<1>2. k \in RankingKeys /\ l \in RankingKeys
  BY <1>1, FeasibleHasKey
<1>3. /\ k[1] = EvaluationOf(request, best).cost.units /\ k[2] = Cardinality(best.groups)
      /\ l[1] = EvaluationOf(request, other).cost.units /\ l[2] = Cardinality(other.groups)
  BY DEF RankingKey
<1>4. k[1] \in Int /\ k[2] \in Int /\ l[1] \in Int /\ l[2] \in Int
  BY <1>2 DEF RankingKeys
<1>5. CASE other = best
  BY <1>3, <1>4, <1>5
<1>6. CASE Before(k, l)
  <2>1. k[1] < l[1] \/ (k[1] = l[1] /\ k[2] <= l[2])
    <3> HIDE DEF k, l
    <3> QED BY <1>2, <1>4, <1>6, BeforeUnfolds
  <2> HIDE DEF k, l, best
  <2> QED BY <1>3, <2>1 DEF best
<1> QED BY <1>1, <1>5, <1>6

\* Units are finitely many, and a sum of quantities is how many they are.
LEMMA ImageFinite ==
  ASSUME NEW S, IsFiniteSet(S), NEW f, DOMAIN f = S
  PROVE  IsFiniteSet({f[i] : i \in S})
<1> DEFINE g == [i \in S |-> f[i]]
           T == {f[i] : i \in S}
<1>1. g \in Surjection(S, T)
  BY DEF Surjection
<1> HIDE DEF g, T
<1>2. IsFiniteSet(T)
  BY <1>1, FS_Surjection
<1> QED BY <1>2 DEF T

UnitsAt(as, s) == UNION {{i} \X (1..as[i].quantity) : i \in s}

LEMMA UnitsFinite ==
  ASSUME NEW as, NEW s, IsFiniteSet(s), \A i \in s : as[i].quantity \in Int
  PROVE  IsFiniteSet(UnitsAt(as, s)) /\ Cardinality(UnitsAt(as, s)) \in Nat
<1> DEFINE f == [i \in s |-> {i} \X (1..as[i].quantity)]
           F == {f[i] : i \in s}
<1>1. IsFiniteSet(F)
  <2> HIDE DEF f
  <2>1. DOMAIN f = s
    BY DEF f
  <2> QED BY <2>1, ImageFinite
<1>2. \A T \in F : IsFiniteSet(T)
  <2> SUFFICES ASSUME NEW i \in s PROVE IsFiniteSet({i} \X (1..as[i].quantity))
    OBVIOUS
  <2> DEFINE q == as[i].quantity
  <2>1. q \in Int
    OBVIOUS
  <2> HIDE DEF q
  <2>2. IsFiniteSet({i}) /\ IsFiniteSet(1..q)
    <3>1. IsFiniteSet({i})
      BY FS_Singleton
    <3>2. IsFiniteSet(1..q)
      BY ONLY <2>1, FS_Interval
    <3> QED BY <3>1, <3>2
  <2>3. IsFiniteSet({i} \X (1..q))
    BY <2>2, FS_Product
  <2> QED BY <2>3 DEF q
<1>3. UnitsAt(as, s) = UNION F
  BY DEF UnitsAt
<1> HIDE DEF F
<1> QED BY <1>1, <1>2, <1>3, FS_UNION, FS_CardinalityType

Counted(as, s) == \A i \in s : as[i].quantity \in Nat
AddsUp(as, s, x) == Cardinality(UnitsAt(as, s)) = as[x].quantity + Cardinality(UnitsAt(as, s \ {x}))

LEMMA UnitsAdd ==
  ASSUME NEW as, NEW s, IsFiniteSet(s), Counted(as, s), NEW x \in s
  PROVE  AddsUp(as, s, x)
<1> DEFINE q == as[x].quantity
           X == {x} \X (1..q)
           R == UnitsAt(as, s \ {x})
<1>1. \A r, u : u \in UnitsAt(as, r) <=> \E i \in r : u \in {i} \X (1..as[i].quantity)
  BY DEF UnitsAt
<1>2. q \in Nat
  BY DEF Counted
<1>3. UnitsAt(as, s) = X \union R
  <2>1. ASSUME NEW u PROVE u \in UnitsAt(as, s) <=> u \in X \union R
    <3>1. u \in UnitsAt(as, s) <=> \E i \in s : u \in {i} \X (1..as[i].quantity)
      BY <1>1
    <3>2. u \in R <=> \E i \in s \ {x} : u \in {i} \X (1..as[i].quantity)
      BY <1>1
    <3> HIDE DEF R
    <3> QED BY <3>1, <3>2
  <2> HIDE DEF R, X
  <2> QED BY <2>1
<1>4. X \intersect R = {}
  <2> SUFFICES ASSUME NEW u \in X, u \in R PROVE FALSE
    OBVIOUS
  <2>1. PICK i \in s \ {x} : u \in {i} \X (1..as[i].quantity)
    BY <1>1
  <2>2. u[1] = i /\ u[1] = x
    BY <2>1
  <2> QED BY <2>1, <2>2
<1>5. IsFiniteSet(R) /\ Cardinality(R) \in Nat
  <2> DEFINE r == s \ {x}
  <2>1. r \subseteq s
    OBVIOUS
  <2>2. IsFiniteSet(r) /\ \A i \in r : as[i].quantity \in Int
    <3> HIDE DEF r
    <3>1. IsFiniteSet(r)
      BY <2>1, FS_Subset
    <3>2. \A n \in Nat : n \in Int
      OBVIOUS
    <3> QED BY <2>1, <3>1, <3>2 DEF Counted
  <2> HIDE DEF r
  <2>3. IsFiniteSet(UnitsAt(as, r)) /\ Cardinality(UnitsAt(as, r)) \in Nat
    BY <2>2, UnitsFinite
  <2> QED BY <2>3 DEF r
<1> HIDE DEF q
<1>6. IsFiniteSet(X) /\ Cardinality(X) = q
  <2>1. IsFiniteSet({x}) /\ Cardinality({x}) = 1
    BY FS_Singleton
  <2>2. IsFiniteSet(1..q) /\ Cardinality(1..q) = q
    BY <1>2, FS_Interval
  <2>3. IsFiniteSet(X) /\ Cardinality(X) = 1 * q
    <3> DEFINE A == {x}
               B == 1..q
    <3>1. IsFiniteSet(A) /\ IsFiniteSet(B) /\ Cardinality(A) = 1 /\ Cardinality(B) = q
      BY <2>1, <2>2
    <3> HIDE DEF A, B
    <3>2. IsFiniteSet(A \X B) /\ Cardinality(A \X B) = 1 * q
      BY <3>1, FS_Product
    <3> QED BY <3>2 DEF A, B
  <2> QED BY <1>2, <2>3
<1> HIDE DEF X, R
<1>7. Cardinality(X \union R) = Cardinality(X) + Cardinality(R) - Cardinality({})
  BY <1>4, <1>5, <1>6, FS_Union
<1>8. Cardinality(UnitsAt(as, s)) = q + Cardinality(R)
  BY <1>2, <1>3, <1>5, <1>6, <1>7, FS_EmptySet
<1> QED BY <1>8 DEF q, R, AddsUp

LEMMA SumCountsUnits ==
  ASSUME NEW as, NEW S, IsFiniteSet(S), \A i \in S : as[i].quantity \in Nat
  PROVE  MapThenSumSet(LAMBDA i : as[i].quantity, S) = Cardinality(UnitsAt(as, S))
<1> DEFINE pick(s) == CHOOSE x \in s : TRUE
           C(s) == Cardinality(UnitsAt(as, s))
           Is(f) == f = [s \in SUBSET S |-> IF s = {} THEN 0
                                            ELSE as[pick(s)].quantity + f[s \ {pick(s)}]]
           g == [s \in SUBSET S |-> C(s)]
           h == CHOOSE f : Is(f)
<1>1. \A s \in SUBSET S : s # {} => pick(s) \in s /\ s \ {pick(s)} \in SUBSET S
  OBVIOUS
<1>2. \A s \in SUBSET S : s # {} => C(s) = as[pick(s)].quantity + C(s \ {pick(s)})
  <2> SUFFICES ASSUME NEW s \in SUBSET S, s # {}
               PROVE  C(s) = as[pick(s)].quantity + C(s \ {pick(s)})
    OBVIOUS
  <2>1. IsFiniteSet(s) /\ Counted(as, s)
    BY FS_Subset DEF Counted
  <2>2. ASSUME NEW x \in s PROVE AddsUp(as, s, x)
    BY <2>1, UnitsAdd
  <2>3. pick(s) \in s
    BY <1>1
  <2> HIDE DEF pick
  <2> QED BY <2>2, <2>3 DEF AddsUp
<1>3. C({}) = 0
  <2>1. UnitsAt(as, {}) = {}
    BY DEF UnitsAt
  <2> QED BY <2>1, FS_EmptySet
<1> HIDE DEF pick, C
<1>4. Is(g)
  BY <1>1, <1>2, <1>3
<1>5. Is(h)
  <2> HIDE DEF Is, g
  <2> QED BY <1>4
<1>6. MapThenSumSet(LAMBDA i : as[i].quantity, S) = h[S]
  BY DEF MapThenSumSet, MapThenFoldSet, pick
<1> HIDE DEF h
<1>7. \A s \in SUBSET S : h[s] = IF s = {} THEN 0 ELSE as[pick(s)].quantity + h[s \ {pick(s)}]
  BY <1>5
<1> DEFINE T == {s \in SUBSET S : h[s] # C(s)}
<1>8. T = {}
  <2> SUFFICES ASSUME T # {} PROVE FALSE
    OBVIOUS
  <2>1. T \subseteq FiniteSubsetsOf(S)
    BY FS_Subset DEF FiniteSubsetsOf
  <2>2. PICK m \in T : \A y \in T : ~(<<y, m>> \in StrictSubsetOrdering(S))
    <3>1. IsWellFoundedOn(StrictSubsetOrdering(S), FiniteSubsetsOf(S))
      BY FS_StrictSubsetOrderingWellFounded
    <3> HIDE DEF T
    <3> QED BY <2>1, <3>1, WFMin
  <2>3. m \in SUBSET S /\ h[m] # C(m)
    BY <2>2
  <2>4. m # {}
    BY <1>3, <1>7, <2>3
  <2> DEFINE n == m \ {pick(m)}
  <2>5. n \in SUBSET S /\ n # m /\ n \subseteq m
    BY <1>1, <2>3, <2>4
  <2>6. <<n, m>> \in StrictSubsetOrdering(S)
    <3> HIDE DEF n
    <3> QED BY <2>3, <2>5 DEF StrictSubsetOrdering
  <2>7. h[n] = C(n)
    BY <2>2, <2>5, <2>6
  <2> QED BY <1>2, <1>7, <2>3, <2>4, <2>7
<1> QED BY <1>6, <1>8 DEF C

\* A finite set as a sequence: every element at one place.
LEMMA SetAsSequence ==
  ASSUME NEW S, IsFiniteSet(S)
  PROVE  /\ SetToSeq(S) \in Seq(S) /\ Len(SetToSeq(S)) \in Nat
         /\ DOMAIN SetToSeq(S) = 1..Len(SetToSeq(S))
         /\ \A i, j \in DOMAIN SetToSeq(S) : SetToSeq(S)[i] = SetToSeq(S)[j] => i = j
         /\ \A i \in DOMAIN SetToSeq(S) : SetToSeq(S)[i] \in S
         /\ \A x \in S : \E i \in DOMAIN SetToSeq(S) : SetToSeq(S)[i] = x
<1> DEFINE n == Cardinality(S)
           s == SetToSeq(S)
<1>1. n \in Nat /\ ExistsBijection(1..n, S)
  BY FS_CardinalityType
<1>2. \E f \in [1..n -> S] : IsInjective(f)
  BY <1>1 DEF ExistsBijection, Bijection, Injection
<1>3. s \in [1..n -> S] /\ IsInjective(s)
  BY <1>2 DEF SetToSeq
<1>4. s \in Injection(1..n, S)
  BY <1>3 DEF Injection
<1>5. Cardinality(1..n) = Cardinality(S)
  <2>1. Cardinality(1..n) = n
    <3> HIDE DEF n
    <3> QED BY <1>1, FS_Interval
  <2> QED BY <2>1
<1> HIDE DEF n, s
<1>6. s \in Surjection(1..n, S)
  BY <1>4, <1>5, FS_Injection
<1>7. s \in Seq(S) /\ DOMAIN s = 1..n
  BY <1>1, <1>3
<1>8. Len(s) = n
  BY <1>1, <1>7, LenProperties
<1>9. \A x \in S : \E i \in DOMAIN s : s[i] = x
  BY <1>6, <1>7 DEF Surjection
<1> QED BY <1>1, <1>3, <1>7, <1>8, <1>9 DEF s, IsInjective

\* The places of the combinations: ids of automatic plans.
LEMMA Places ==
  /\ DOMAIN Automatic = DOMAIN Combinations /\ DOMAIN Combinations \subseteq Name /\ Name \subseteq Nat
  /\ \A n \in DOMAIN Combinations : Combinations[n] \in Combination
                                   /\ Automatic[n].choice = Combinations[n] /\ Automatic[n].given = None
  /\ \A c \in Combination : \E n \in DOMAIN Combinations : Combinations[n] = c
<1>1. IsFiniteSet(Combination)
  BY InputAssumption DEF FiniteAssumption
<1>2. /\ Len(Combinations) \in Nat /\ DOMAIN Combinations = 1..Len(Combinations)
      /\ \A n \in DOMAIN Combinations : Combinations[n] \in Combination
      /\ \A c \in Combination : \E n \in DOMAIN Combinations : Combinations[n] = c
  BY <1>1, SetAsSequence DEF Combinations
<1>3. DOMAIN Combinations \subseteq Name /\ Name \subseteq Nat
  <2>1. OwnId \subseteq Nat
    BY PlanningAssumption
  <2>2. DOMAIN Combinations \subseteq Nat
    BY <1>2
  <2> QED BY ONLY <2>1, <2>2 DEF Name
<1>4. /\ DOMAIN Automatic = DOMAIN Combinations
      /\ \A n \in DOMAIN Combinations : Automatic[n].choice = Combinations[n] /\ Automatic[n].given = None
  BY DEF Automatic, PlanOfChoice
<1> QED BY <1>2, <1>3, <1>4

\* The allocations of a combination bring every item once.
LEMMA CombinationFulfills ==
  ASSUME NEW c \in Combination, NEW w, NEW kind, NEW plan, plan.allocations = AllocationsOf(w, kind, c), Item # {}
  PROVE  Fulfills(Cart, plan) /\ EffectiveFeasibility(Cart, plan) = plan.feasibility
<1> DEFINE as == AllocationsOf(w, kind, c)
           Shape(a, item) == a.item = item /\ a.quantity = 1 /\ a.semantics = None
<1>1. /\ Len(Items) \in Nat /\ DOMAIN Items = 1..Len(Items)
      /\ \A i, j \in DOMAIN Items : Items[i] = Items[j] => i = j
      /\ \A i \in DOMAIN Items : Items[i] \in Item
      /\ \A x \in Item : \E i \in DOMAIN Items : Items[i] = x
  <2>1. IsFiniteSet(Item)
    BY InputAssumption DEF FiniteAssumption
  <2> QED BY <2>1, SetAsSequence DEF Items
<1>2. DOMAIN as = DOMAIN Items /\ \A i \in DOMAIN Items : Shape(as[i], Items[i])
  BY <1>1 DEF AllocationsOf, Allocation, Cart
<1>3. as # <<>>
  <2>1. PICK i \in DOMAIN Items : TRUE
    BY <1>1
  <2>2. DOMAIN <<>> = {}
    OBVIOUS
  <2> HIDE DEF as
  <2> QED BY <1>2, <2>1, <2>2
<1>4. ASSUME NEW item \in Item PROVE Allocated(as, item) = 1
  <2>1. PICK i \in DOMAIN Items : Items[i] = item
    BY <1>1
  <2>2. {j \in DOMAIN as : as[j].item = item} = {i}
    <3>1. \A j \in DOMAIN as : as[j].item = Items[j]
      BY <1>2
    <3> HIDE DEF as
    <3>2. DOMAIN as = DOMAIN Items
      BY <1>2
    <3>3. \A j \in DOMAIN as : as[j].item = item <=> j = i
      BY <1>1, <2>1, <3>1, <3>2
    <3> QED BY <2>1, <3>2, <3>3
  <2>3. as[i].quantity = 1
    BY <1>2
  <2> HIDE DEF as
  <2>4. Units(as, item) = {i} \X (1..1)
    BY <2>2, <2>3 DEF Units
  <2>5. {i} \X (1..1) = {<<i, 1>>}
    OBVIOUS
  <2> QED BY <2>4, <2>5, FS_Singleton DEF Allocated
<1>5. Fulfills(Cart, plan)
  <2>1. DOMAIN Cart = Item /\ \A item \in Item : Cart[item] = 1
    BY DEF Cart
  <2> HIDE DEF as
  <2> QED BY <1>3, <1>4, <2>1 DEF Fulfills, as
<1>6. {a.semantics : a \in ToSet(plan.allocations)} \subseteq {None}
  <2> HIDE DEF as
  <2>1. \A a \in ToSet(as) : a.semantics = None
    BY <1>2 DEF ToSet
  <2> QED BY <2>1 DEF as
<1>7. None # "unsupported" /\ None # "unresolved"
  BY NoneAssumption
<1> HIDE DEF as
<1> QED BY <1>5, <1>6, <1>7 DEF EffectiveFeasibility

\* What a plan is said to bring is what the optimizer counted.
LEMMA BroughtIsAllocated ==
  ASSUME NEW plan, IsPlan(plan), \A a \in ToSet(plan.allocations) : a.quantity > 0, NEW item
  PROVE  Brought(plan, item) = Allocated(plan.allocations, item)
<1> DEFINE as == plan.allocations
           S == {i \in DOMAIN as : as[i].item = item}
<1>1. IsFiniteSet(S)
  <2>1. as \in Seq(ToSet(as))
    BY DEF IsPlan
  <2>2. Len(as) \in Nat /\ DOMAIN as = 1..Len(as)
    <3> HIDE DEF as
    <3> QED BY <2>1, LenProperties
  <2>3. IsFiniteSet(1..Len(as)) /\ S \subseteq 1..Len(as)
    <3> DEFINE n == Len(as)
    <3>1. n \in Nat
      BY <2>2
    <3> HIDE DEF as, n
    <3>2. IsFiniteSet(1..n)
      BY <3>1, FS_Interval
    <3> QED BY <2>2, <3>2 DEF n
  <2> HIDE DEF S
  <2> QED BY <2>3, FS_Subset
<1>2. \A i \in S : as[i].quantity \in Nat
  <2> SUFFICES ASSUME NEW i \in S PROVE as[i].quantity \in Nat
    OBVIOUS
  <2>1. as[i] \in ToSet(as)
    BY DEF ToSet
  <2>2. as[i].quantity \in Int /\ as[i].quantity > 0
    BY <2>1 DEF IsPlan
  <2> QED BY <2>2
<1> HIDE DEF S
<1>3. MapThenSumSet(LAMBDA i : as[i].quantity, S) = Cardinality(UnitsAt(as, S))
  <2> HIDE DEF as
  <2> QED BY <1>1, <1>2, SumCountsUnits
<1>4. Brought(plan, item) = MapThenSumSet(LAMBDA i : as[i].quantity, S)
  BY DEF Brought, S
<1>5. Units(as, item) = UnitsAt(as, S)
  BY DEF Units, UnitsAt, S
<1> QED BY <1>3, <1>4, <1>5 DEF Allocated

\* The choice of a request that is accepted fulfills it, and no plan that was
\* given up would have been cheaper.
LEMMA ChoiceFulfills ==
  ASSUME NEW request, IsRequest(request), ~Refuses(request), Outcome(request) = "selected",
         NEW plan, plan = CHOOSE p \in ToSet(request.plans) : p.id = Best(request).id
  PROVE  /\ BringsTheCart(request, plan)
         /\ \A p \in ToSet(request.plans) : NotBetter(request, p, plan)
<1> DEFINE cart == request.cart
<1>1. PlansThatAre(request, "feasible") # {} /\ PlansThatAre(request, "unresolved") = {}
  BY DEF Outcome
<1>2. Best(request) \in PlansThatAre(request, "feasible")
  BY <1>1, BestExists
<1>3. Best(request) \in ToSet(request.plans)
  BY <1>2 DEF PlansThatAre
<1>4. plan = Best(request)
  <2>1. plan \in ToSet(request.plans) /\ plan.id = Best(request).id
    BY <1>3
  <2>2. \A p, q \in ToSet(request.plans) : p.id = q.id => p = q
    BY DEF Refuses, Distinct, ToSet
  <2> QED BY <1>3, <2>1, <2>2
<1>5. EffectiveFeasibility(cart, plan) = "feasible" /\ plan \in ToSet(request.plans)
  BY <1>2, <1>4 DEF PlansThatAre
<1>6. ASSUME NEW p \in ToSet(request.plans)
      PROVE  /\ IsPlan(p) /\ p.feasibility # "invalid"
             /\ DOMAIN cart # {} => \A a \in ToSet(p.allocations) :
                                       a.item \in DOMAIN cart /\ a.quantity > 0
  <2>1. IsPlan(p)
    BY DEF IsRequest
  <2>2. ~Malformed(cart, p) /\ p.feasibility # "invalid"
    BY DEF Refuses
  <2>3. \A a \in ToSet(p.allocations) : a.quantity \in Int
    BY <2>1 DEF IsPlan
  <2> QED BY <2>1, <2>2, <2>3 DEF Malformed, ToSet
<1>7. ASSUME NEW p \in ToSet(request.plans), NEW item \in DOMAIN cart
      PROVE  Brought(p, item) = Allocated(p.allocations, item)
  BY <1>6, BroughtIsAllocated
<1>8. BringsTheCart(request, plan)
  <2>1. /\ Fulfills(cart, plan) /\ "unsupported" \notin {a.semantics : a \in ToSet(plan.allocations)}
        /\ "unresolved" \notin {a.semantics : a \in ToSet(plan.allocations)}
        /\ plan.feasibility = "feasible"
    BY <1>5 DEF EffectiveFeasibility
  <2>2. \A a \in ToSet(plan.allocations) : a.semantics \in {None, "resolved"}
    BY <1>5, <1>6, <2>1 DEF IsPlan
  <2>3. \A item \in DOMAIN cart : Allocated(plan.allocations, item) = cart[item]
    BY <2>1 DEF Fulfills
  <2> QED BY <1>5, <1>6, <1>7, <2>2, <2>3 DEF BringsTheCart
<1>9. ASSUME NEW p \in ToSet(request.plans) PROVE NotBetter(request, p, plan)
  <2>1. CASE ~Fulfills(cart, p)
    <3>1. DOMAIN cart # {} /\ (p.allocations = <<>> \/ \E item \in DOMAIN cart : Allocated(p.allocations, item) # cart[item])
      BY <2>1 DEF Fulfills
    <3> QED BY <1>7, <3>1 DEF NotBetter
  <2>2. CASE Fulfills(cart, p) /\ "unsupported" \in {a.semantics : a \in ToSet(p.allocations)}
    BY <2>2 DEF NotBetter
  <2>3. CASE Fulfills(cart, p) /\ "unsupported" \notin {a.semantics : a \in ToSet(p.allocations)}
    <3>1. p \notin PlansThatAre(request, "unresolved")
      BY <1>1
    <3>2. EffectiveFeasibility(cart, p) = p.feasibility /\ p.feasibility # "unresolved"
      BY <2>3, <3>1 DEF PlansThatAre, EffectiveFeasibility
    <3>3. p.feasibility \in {"feasible", "infeasible"}
      BY <1>6, <3>2 DEF IsPlan, Feasibility
    <3>4. CASE p.feasibility = "infeasible"
      BY <3>4 DEF NotBetter
    <3>5. CASE p.feasibility = "feasible"
      <4>1. p \in PlansThatAre(request, "feasible")
        BY <3>2, <3>5 DEF PlansThatAre
      <4> DEFINE paid == EvaluationOf(request, plan).cost.units
                 cost == EvaluationOf(request, p).cost.units
      <4>2. paid \in Int /\ cost \in Int
        BY <1>2, <1>4, <4>1, FeasibleHasKey DEF Money
      <4>3. paid < cost \/ paid = cost
        BY <1>4, <4>1, BestIsCheapest
      <4>4. cost >= paid
        <5> HIDE DEF cost, paid
        <5> QED BY <4>2, <4>3
      <4> QED BY <4>4 DEF NotBetter
    <3> QED BY <3>3, <3>4, <3>5
  <2> QED BY <2>1, <2>2, <2>3
<1> QED BY <1>8, <1>9

------------------------------------------------------------------------------
(* The invariant.  What a thread holds fits the step it is at.               *)

\* A checkout k that was captured, or shown, for request r and plan id n.
Shows(k, r, n) == k.request = r /\ k.plan = n /\ k.of \in Observation
First(todo) == CHOOSE n \in todo : TRUE

\* An input is the plan of its id, costed on a checkout of the id or by an
\* evaluation that came with the plan.
Planned(w, input, j) ==
    LET as == AllocationsOf(w, j.kind, input.combination)
    IN  /\ input.combination = j.plans[input.plan.id].choice
        /\ input.checkout # None =>
              /\ Shows(input.checkout, j.request, input.plan.id)
              /\ input.evaluation.id = input.checkout.of
              /\ input.evaluation.cost = EffectiveCost(input.checkout.of)
        /\ j.kind = "automatic" => input.checkout # None
        /\ input.evaluation.cost \in Amount /\ input.plan.evaluation = input.evaluation.id
        /\ input.plan.penalty = j.policy.penalty /\ input.plan.priority = j.policy.priority
        /\ input.plan.feasibility = j.policy.feasibility
        /\ input.plan.allocations = as
        /\ input.plan.groups = (IF j.declared THEN GroupsOf(as) ELSE {})

Fields == {"kind", "request", "plans", "todo", "inputs", "artifact", "policy", "shown", "declared"}
PlansFit(plans) ==
    /\ DOMAIN plans \subseteq Name
    /\ \A n \in DOMAIN plans : /\ plans[n].choice \in Combination
                               /\ plans[n].given # None => plans[n].given.cost \in Amount
Described(j) ==
    /\ DOMAIN j = Fields
    /\ j.kind \in {"automatic", "supplied", "capture"} /\ j.request \in Request
    /\ j.todo \subseteq Name /\ PlansFit(j.plans)
    /\ j.kind # "capture" => j.todo \subseteq DOMAIN j.plans
    /\ j.artifact # None => j.artifact \in Artifact
    /\ \A n \in DOMAIN j.shown : Shows(j.shown[n], j.request, n)
    /\ j.inputs \in Seq(ToSet(j.inputs))

Going(w, p, j) ==
    /\ p = "discover" => j.kind = "automatic" /\ j.todo = DOMAIN Automatic
    /\ p = "optimize" => j.todo = {}
    /\ j.todo = {} => p \in {"optimize", "discover"}
    /\ j.kind = "supplied" => p \in {"evaluate", "optimize"}
    /\ j.kind = "capture" => p \in {"capture", "look", "write"}
    /\ p \in {"look", "write"} =>
          j.artifact \in Artifact /\ Shows(j.artifact, j.request, First(j.todo))
    /\ p \in {"evaluate", "optimize"} => j.policy \in PolicyType
    /\ j.kind = "automatic" =>
          /\ j.policy = w.policy /\ j.declared = TRUE /\ j.plans = Automatic
          /\ p # "discover" => Item # {}
          /\ p \in {"look", "write"} => j.policy \in PolicyType

Costed(w, j) ==
    /\ \A i \in DOMAIN j.inputs :
          j.inputs[i].plan.id \in DOMAIN j.plans \ j.todo /\ Planned(w, j.inputs[i], j)
    /\ \A i, l \in DOMAIN j.inputs : i # l => j.inputs[i].plan.id # j.inputs[l].plan.id
    /\ j.kind = "automatic" =>
          \A n \in DOMAIN j.plans : n \in j.todo \/ \E i \in DOMAIN j.inputs : j.inputs[i].plan.id = n

Fits(w, p, j) ==
    /\ p \in Step
    /\ p = "idle" => j = NoJob
    /\ p # "idle" => Described(j) /\ Going(w, p, j) /\ Costed(w, j)

Good(w, a) ==
    /\ a.whole => CheapestOfAll(w, a.inputs, a.chosen)
    /\ a.request # None /\ a.chosen # None =>
          LET plan == CHOOSE p \in ToSet(a.request.plans) : p.id = a.chosen
          IN  BringsTheCart(a.request, plan)
              /\ \A p \in ToSet(a.request.plans) : NotBetter(a.request, p, plan)

Frame ==
    /\ world \in World /\ captured \in 0..MaxCaptures
    /\ captures \in [Request \X Name -> Artifact \union {None}]
    /\ pc \in [Thread -> Step]
    /\ job = [t \in Thread |-> job[t]] /\ answer = [t \in Thread |-> answer[t]]
Directory ==
    \A r \in Request, n \in Name :
        captures[<<r, n>>] # None => Shows(captures[<<r, n>>], r, n)
Threads == \A t \in Thread : Fits(world, pc[t], job[t])
Answered == \A t \in Thread : answer[t] # None => Good(world, answer[t])
PlanInv == Frame /\ Directory /\ Threads /\ Answered

------------------------------------------------------------------------------
(* A step of one thread.                                                     *)

\* The step takes t to a step and a job that fit each other.
Steps(t) ==
    /\ UNCHANGED world
    /\ pc' = [pc EXCEPT ![t] = pc'[t]] /\ job' = [job EXCEPT ![t] = job'[t]]
    /\ Fits(world', pc'[t], job'[t])

LEMMA StepFits ==
  ASSUME PlanInv, NEW t \in Thread, Steps(t)
  PROVE  Threads' /\ pc' \in [Thread -> Step] /\ job' = [u \in Thread |-> job'[u]]
<1>1. pc \in [Thread -> Step] /\ job = [u \in Thread |-> job[u]] /\ Threads
  BY DEF PlanInv, Frame
<1>2. \A u \in Thread : Fits(world', pc'[u], job'[u])
  <2> SUFFICES ASSUME NEW u \in Thread, u # t PROVE Fits(world', pc'[u], job'[u])
    BY DEF Steps
  <2>1. pc'[u] = pc[u] /\ job'[u] = job[u] /\ world' = world
    BY <1>1 DEF Steps
  <2>2. Fits(world, pc[u], job[u])
    BY <1>1 DEF Threads
  <2> QED BY <2>1, <2>2
<1>3. Threads'
  BY <1>2 DEF Threads
<1>4. pc'[t] \in Step
  BY DEF Steps, Fits
<1>5. pc' \in [Thread -> Step]
  BY <1>1, <1>4 DEF Steps
<1>6. DOMAIN job' = Thread
  BY <1>1 DEF Steps
<1>7. job' = [u \in Thread |-> job'[u]]
  BY <1>1, <1>6 DEF Steps
<1> QED BY <1>3, <1>5, <1>7

\* An answer that is given is good, or is taken back.
Answers(t) ==
    /\ answer' = [answer EXCEPT ![t] = answer'[t]]
    /\ answer'[t] # None => Good(world', answer'[t])

LEMMA AnswerGood ==
  ASSUME PlanInv, NEW t \in Thread, UNCHANGED world, Answers(t) \/ UNCHANGED answer
  PROVE  Answered' /\ answer' = [u \in Thread |-> answer'[u]]
<1>1. answer = [u \in Thread |-> answer[u]] /\ Answered
  BY DEF PlanInv, Frame
<1>2. \A u \in Thread : answer'[u] # None => Good(world', answer'[u])
  <2> SUFFICES ASSUME NEW u \in Thread, answer'[u] # None, ~(u = t /\ Answers(t))
               PROVE  Good(world', answer'[u])
    BY DEF Answers
  <2>1. answer'[u] = answer[u] /\ world' = world
    BY <1>1 DEF Answers
  <2> QED BY <1>1, <2>1 DEF Answered
<1>3. Answered'
  BY <1>2 DEF Answered
<1>4. DOMAIN answer' = Thread
  BY <1>1 DEF Answers
<1>5. answer' = [u \in Thread |-> answer'[u]]
  BY <1>1, <1>4 DEF Answers
<1> QED BY <1>3, <1>5

LEMMA NoJobFits == ASSUME NEW w PROVE Fits(w, "idle", NoJob)
BY DEF Fits, Step

\* A failure, and any answer that is not of automatic planning or is cheapest.
LEMMA AnswersFit ==
  ASSUME PlanInv, NEW t \in Thread, NEW chosen, Answer(t, chosen), UNCHANGED world,
         chosen # None /\ job[t].kind = "automatic" => CheapestOfAll(world, job[t].inputs, chosen)
  PROVE  Steps(t) /\ Answers(t)
<1>1. /\ pc \in [Thread -> Step] /\ job = [u \in Thread |-> job[u]]
      /\ answer = [u \in Thread |-> answer[u]]
  BY DEF PlanInv, Frame
<1>2. pc'[t] = "idle" /\ job'[t] = NoJob
  BY <1>1 DEF Answer
<1>3. Steps(t)
  BY <1>1, <1>2, NoJobFits DEF Steps, Answer
<1> DEFINE a == answer'[t]
<1>4. chosen = None => a = None
  BY <1>1 DEF Answer
<1>5. chosen # None => /\ a.chosen = chosen /\ a.request = None
                       /\ a.whole = (job[t].kind = "automatic")
                       /\ a.inputs = IF job[t].kind = "automatic" THEN job[t].inputs ELSE <<>>
  BY <1>1 DEF Answer
<1>6. a # None => Good(world', a)
  <2> HIDE DEF a
  <2> QED BY <1>4, <1>5 DEF Good
<1> QED BY <1>1, <1>3, <1>6 DEF Answers, Answer

LEMMA AcceptFits ==
  ASSUME PlanInv, NEW t \in Thread, NEW j, NEW step, Accept(t, j, step), UNCHANGED world,
         Fits(world, step, j)
  PROVE  Steps(t) /\ Answers(t)
<1>1. /\ pc \in [Thread -> Step] /\ job = [u \in Thread |-> job[u]]
      /\ answer = [u \in Thread |-> answer[u]]
  BY DEF PlanInv, Frame
<1>2. pc'[t] = step /\ job'[t] = j /\ answer'[t] = None
  BY <1>1 DEF Accept
<1> QED BY <1>1, <1>2 DEF Steps, Answers, Accept

\* What the steps of a thread leave of the directory.
DirectoryStays == captured' \in 0..MaxCaptures /\ UNCHANGED captures

LEMMA InvKept ==
  ASSUME PlanInv, NEW t \in Thread, Steps(t), Answers(t) \/ UNCHANGED answer, DirectoryStays
  PROVE  PlanInv'
<1>1. UNCHANGED world
  BY DEF Steps
<1>2. Threads' /\ pc' \in [Thread -> Step] /\ job' = [u \in Thread |-> job'[u]]
  BY StepFits
<1>3. Answered' /\ answer' = [u \in Thread |-> answer'[u]]
  BY <1>1, AnswerGood
<1>4. Directory'
  BY DEF PlanInv, Directory, DirectoryStays
<1> QED BY <1>1, <1>2, <1>3, <1>4 DEF PlanInv, Frame, DirectoryStays

LEMMA SharedStays == ASSUME PlanInv, UNCHANGED Shared PROVE UNCHANGED world /\ DirectoryStays
BY DEF PlanInv, Frame, Shared, DirectoryStays

LEMMA FailKeeps ==
  ASSUME PlanInv, NEW t \in Thread, Fail(t), UNCHANGED world, DirectoryStays
  PROVE  PlanInv'
<1>1. Steps(t) /\ Answers(t)
  BY AnswersFit DEF Fail
<1> QED BY <1>1, InvKept

\* A thread that is not idle holds a job that fits.
LEMMA Holds ==
  ASSUME PlanInv, NEW t \in Thread, pc[t] # "idle"
  PROVE  Described(job[t]) /\ Going(world, pc[t], job[t]) /\ Costed(world, job[t])
BY DEF PlanInv, Threads, Fits

LEMMA MoveFits ==
  ASSUME PlanInv, NEW t \in Thread, NEW j, NEW step, UNCHANGED world,
         pc' = [pc EXCEPT ![t] = step], job' = [job EXCEPT ![t] = j], Fits(world, step, j)
  PROVE  Steps(t)
<1>1. pc \in [Thread -> Step] /\ job = [u \in Thread |-> job[u]]
  BY DEF PlanInv, Frame
<1> QED BY <1>1 DEF Steps

------------------------------------------------------------------------------
(* The requests.                                                             *)

LEMMA EmptyInputs == <<>> \in Seq(ToSet(<<>>)) /\ DOMAIN <<>> = {}
BY DEF ToSet

LEMMA PlanKeeps == ASSUME PlanInv, NEW t \in Thread, NEW r \in Request, Plan(t, r) PROVE PlanInv'
<1> DEFINE j == [NoJob EXCEPT !.kind = "automatic", !.request = r, !.plans = Automatic,
                              !.todo = DOMAIN Automatic, !.policy = world.policy]
<1>1. /\ j.kind = "automatic" /\ j.request = r /\ j.inputs = <<>>
      /\ j.plans = Automatic /\ j.todo = DOMAIN Automatic
      /\ j.artifact = None /\ j.policy = world.policy /\ j.shown = <<>> /\ j.declared = TRUE
      /\ DOMAIN j = Fields
  BY DEF NoJob, Fields
<1> HIDE DEF j
<1>2. Described(j)
  BY <1>1, EmptyInputs, Places DEF Described, PlansFit
<1>3. Going(world, "discover", j) /\ Costed(world, j)
  BY <1>1, EmptyInputs DEF Going, Costed
<1>4. Fits(world, "discover", j)
  BY <1>2, <1>3 DEF Fits, Step
<1>5. Steps(t) /\ Answers(t) /\ DirectoryStays
  BY <1>4, AcceptFits, SharedStays DEF Plan, j
<1> QED BY <1>5, InvKept

LEMMA SuppliedKeeps ==
  ASSUME PlanInv, NEW t \in Thread, NEW r \in Request, PlanSupplied(t, r) PROVE PlanInv'
<1>1. PICK s \in Supplied :
          Accept(t, [NoJob EXCEPT
              !.kind = "supplied", !.request = r, !.plans = s.plans, !.todo = DOMAIN s.plans,
              !.declared = s.declared,
              !.shown = [n \in DOMAIN s.shown |-> [request |-> r, plan |-> n, of |-> s.shown[n]]],
              !.policy = [penalty |-> 0, priority |-> 0, feasibility |-> s.feasibility]],
              "evaluate")
  BY DEF PlanSupplied
<1> DEFINE shown == [n \in DOMAIN s.shown |-> [request |-> r, plan |-> n, of |-> s.shown[n]]]
           policy == [penalty |-> 0, priority |-> 0, feasibility |-> s.feasibility]
           j == [NoJob EXCEPT !.kind = "supplied", !.request = r, !.plans = s.plans,
                              !.todo = DOMAIN s.plans, !.declared = s.declared, !.shown = shown, !.policy = policy]
<1>2. IsSupplied(s)
  BY InputAssumption
<1> HIDE DEF shown, policy
<1>3. /\ j.kind = "supplied" /\ j.request = r /\ j.inputs = <<>>
      /\ j.plans = s.plans /\ j.todo = DOMAIN s.plans
      /\ j.artifact = None /\ j.policy = policy /\ j.shown = shown
      /\ DOMAIN j = Fields
  BY DEF NoJob, Fields
<1>4. policy \in PolicyType
  BY <1>2 DEF IsSupplied, PolicyType, policy
<1>5. \A n \in DOMAIN shown : Shows(shown[n], r, n)
  BY <1>2 DEF IsSupplied, Shows, shown
<1>6. PlansFit(s.plans) /\ DOMAIN s.plans \subseteq Name /\ DOMAIN s.plans # {}
  BY <1>2 DEF IsSupplied, PlansFit
<1>7. Accept(t, j, "evaluate")
  BY <1>1 DEF shown, policy
<1> HIDE DEF j
<1>8. Described(j)
  BY <1>3, <1>5, <1>6, EmptyInputs DEF Described
<1>9. Going(world, "evaluate", j) /\ Costed(world, j)
  BY <1>3, <1>4, <1>6, EmptyInputs DEF Going, Costed
<1>10. Fits(world, "evaluate", j)
  BY <1>8, <1>9 DEF Fits, Step
<1>11. UNCHANGED world /\ DirectoryStays
  BY SharedStays DEF PlanSupplied
<1>12. Steps(t) /\ Answers(t)
  BY <1>7, <1>10, <1>11, AcceptFits
<1> QED BY <1>11, <1>12, InvKept

LEMMA CaptureOnlyKeeps ==
  ASSUME PlanInv, NEW t \in Thread, NEW r \in Request, CaptureOnly(t, r) PROVE PlanInv'
<1>1. PICK n \in Name :
          Accept(t, [NoJob EXCEPT !.kind = "capture", !.request = r, !.todo = {n}], "capture")
  BY DEF CaptureOnly
<1> DEFINE j == [NoJob EXCEPT !.kind = "capture", !.request = r, !.todo = {n}]
<1>2. /\ j.kind = "capture" /\ j.request = r /\ j.plans = <<>> /\ j.todo = {n} /\ j.inputs = <<>>
      /\ j.artifact = None /\ j.shown = <<>> /\ DOMAIN j = Fields
  BY DEF NoJob, Fields
<1>3. Accept(t, j, "capture")
  BY <1>1
<1> HIDE DEF j
<1>4. Described(j)
  BY <1>2, EmptyInputs DEF Described, PlansFit
<1>5. Going(world, "capture", j) /\ Costed(world, j)
  BY <1>2, EmptyInputs DEF Going, Costed
<1>6. Fits(world, "capture", j)
  BY <1>4, <1>5 DEF Fits, Step
<1>7. UNCHANGED world /\ DirectoryStays
  BY SharedStays DEF CaptureOnly
<1>8. Steps(t) /\ Answers(t)
  BY <1>3, <1>6, <1>7, AcceptFits
<1> QED BY <1>7, <1>8, InvKept

------------------------------------------------------------------------------
(* The steps of planning and of a capture.                                   *)

\* Where every item is offered there is a combination.
LEMMA CombinationExists ==
  ASSUME \A item \in Item : \E l \in Listing : ItemOf[l] = item
  PROVE  Combination # {}
<1> DEFINE c == [item \in Item |-> CHOOSE l \in Listing : ItemOf[l] = item]
<1>1. c \in Combination
  BY DEF Combination
<1> QED BY <1>1

LEMMA DiscoverKeeps == ASSUME PlanInv, NEW t \in Thread, Discover(t) PROVE PlanInv'
<1> DEFINE j == job[t]
<1>1. pc[t] = "discover" /\ UNCHANGED world /\ DirectoryStays
  BY SharedStays DEF Discover
<1>2. CASE Fail(t)
  BY <1>1, <1>2, FailKeeps
<1>3. CASE ~Fail(t)
  <2>1. /\ UNCHANGED job /\ GoTo(t, "capture") /\ Item # {}
        /\ \A item \in Item : \E l \in Listing : ItemOf[l] = item
    BY <1>3 DEF Discover
  <2>2. Described(j) /\ Going(world, "discover", j) /\ Costed(world, j)
    BY <1>1, Holds
  <2>3. j.todo # {}
    BY <2>1, <2>2, CombinationExists, Places DEF Going
  <2>4. Fits(world, "capture", j)
    <3>1. Going(world, "capture", j)
      <4> HIDE DEF j
      <4> QED BY <2>1, <2>2, <2>3 DEF Going
    <3> QED BY <2>2, <3>1 DEF Fits, Step
  <2>5. job' = [job EXCEPT ![t] = j]
    BY <2>1 DEF PlanInv, Frame
  <2>6. Steps(t)
    <3> HIDE DEF j
    <3> QED BY <1>1, <2>1, <2>4, <2>5, MoveFits DEF GoTo
  <2> QED BY <1>1, <2>1, <2>6, InvKept DEF GoTo
<1> QED BY <1>2, <1>3

LEMMA CaptureKeeps == ASSUME PlanInv, NEW t \in Thread, Capture(t) PROVE PlanInv'
<1>1. /\ pc[t] = "capture" /\ UNCHANGED world /\ DirectoryStays
      /\ job[t].kind = "automatic" => world.policy # None
  <2>1. /\ pc[t] = "capture" /\ UNCHANGED <<world, captures>>
        /\ captured < MaxCaptures /\ captured' = captured + 1
        /\ job[t].kind = "automatic" => world.policy # None
    BY DEF Capture, Configured
  <2>2. captured \in 0..MaxCaptures /\ MaxCaptures \in Nat
    BY PlanningAssumption DEF PlanInv, Frame
  <2>3. captured' \in 0..MaxCaptures
    BY <2>1, <2>2
  <2> QED BY <2>1, <2>3 DEF DirectoryStays
<1>2. CASE Fail(t)
  BY <1>1, <1>2, FailKeeps
<1>3. CASE ~Fail(t)
  <2>1. PICK r \in Request, n \in Name, o \in Checkout :
            /\ n = Current(t) /\ r = job[t].request /\ GoTo(t, "look")
            /\ job' = [job EXCEPT ![t].artifact = [request |-> r, plan |-> n, of |-> o]]
    BY <1>3 DEF Capture
  <2> DEFINE a == [request |-> r, plan |-> n, of |-> o]
             h == job[t]
             j == [h EXCEPT !.artifact = a]
  <2>2. Described(h) /\ Going(world, "capture", h) /\ Costed(world, h)
    BY <1>1, Holds
  <2>3. a \in Artifact
    BY <1>1 DEF Artifact
  <2>4. Shows(a, h.request, First(h.todo))
    BY <2>1, InputAssumption DEF Shows, Current, First
  <2>5. job' = [job EXCEPT ![t] = j]
    BY <2>1 DEF PlanInv, Frame
  <2>6. world.policy # None => world.policy \in PolicyType
    BY InputAssumption DEF PlanInv, Frame
  <2>7. h.kind = "automatic" => world.policy # None
    BY <1>1
  <2> HIDE DEF a, h
  <2>8. /\ DOMAIN j = Fields /\ j.artifact = a
        /\ j.kind = h.kind /\ j.request = h.request /\ j.todo = h.todo /\ j.inputs = h.inputs
        /\ j.plans = h.plans /\ j.shown = h.shown /\ j.policy = h.policy /\ j.declared = h.declared
    BY <2>2 DEF Described, Fields
  <2> HIDE DEF j
  <2>9. Described(j)
    BY <2>2, <2>3, <2>8 DEF Described
  <2>10. Going(world, "look", j)
    BY <2>2, <2>3, <2>4, <2>6, <2>7, <2>8 DEF Going
  <2>11. Costed(world, j)
    BY <2>2, <2>8 DEF Costed, Planned
  <2>12. Steps(t)
    <3>1. Fits(world, "look", j)
      BY <2>9, <2>10, <2>11 DEF Fits, Step
    <3> QED BY <1>1, <2>1, <2>5, <3>1, MoveFits DEF GoTo
  <2> QED BY <1>1, <2>1, <2>12, InvKept DEF GoTo
<1> QED BY <1>2, <1>3

LEMMA CaptureFailsKeeps == ASSUME PlanInv, NEW t \in Thread, CaptureFails(t) PROVE PlanInv'
BY SharedStays, FailKeeps DEF CaptureFails

LEMMA LookKeeps == ASSUME PlanInv, NEW t \in Thread, Look(t) PROVE PlanInv'
<1> DEFINE h == job[t]
<1>1. pc[t] = "look" /\ UNCHANGED world /\ DirectoryStays
  BY SharedStays DEF Look
<1>2. CASE Fail(t)
  BY <1>1, <1>2, FailKeeps
<1>3. CASE ~Fail(t)
  <2>1. GoTo(t, "write") /\ job' = [job EXCEPT ![t] = h]
    BY <1>3 DEF Look, PlanInv, Frame
  <2>2. Described(h) /\ Going(world, "look", h) /\ Costed(world, h)
    BY <1>1, Holds
  <2> HIDE DEF h
  <2>3. Going(world, "write", h)
    BY <2>2 DEF Going
  <2>4. Fits(world, "write", h)
    BY <2>2, <2>3 DEF Fits, Step
  <2>5. Steps(t)
    BY <1>1, <2>1, <2>4, MoveFits DEF GoTo
  <2> QED BY <1>1, <2>1, <2>5, InvKept DEF GoTo
<1> QED BY <1>2, <1>3

LEMMA WriteKeeps == ASSUME PlanInv, NEW t \in Thread, Write(t) PROVE PlanInv'
<1> DEFINE h == job[t]
<1>1. pc[t] = "write" /\ UNCHANGED <<world, captured>>
  BY DEF Write
<1>2. Described(h) /\ Going(world, "write", h) /\ Costed(world, h)
  BY <1>1, Holds
<1>3. h.request \in Request /\ Current(t) \in Name /\ Current(t) = First(h.todo)
  BY <1>2 DEF Described, Going, Current, First
<1>4. h.artifact \in Artifact /\ Shows(h.artifact, h.request, Current(t))
  BY <1>2, <1>3 DEF Going
<1>5. captures' = [captures EXCEPT ![<<h.request, Current(t)>>] = h.artifact]
  BY DEF Write, Key
<1>6. captures \in [Request \X Name -> Artifact \union {None}] /\ Directory
  BY DEF PlanInv, Frame
<1> DEFINE request == h.request
           now == Current(t)
           artifact == h.artifact
<1>7. /\ captures' = [captures EXCEPT ![<<request, now>>] = artifact]
      /\ request \in Request /\ now \in Name
      /\ artifact \in Artifact /\ Shows(artifact, request, now)
  BY <1>3, <1>4, <1>5
<1>8. captures' \in [Request \X Name -> Artifact \union {None}]
  <2> HIDE DEF request, now, artifact
  <2> QED BY <1>6, <1>7
<1>9. Directory'
  <2> HIDE DEF request, now, artifact
  <2> SUFFICES ASSUME NEW r \in Request, NEW c \in Name, captures'[<<r, c>>] # None
               PROVE  Shows(captures'[<<r, c>>], r, c)
    BY DEF Directory
  <2>1. CASE r = request /\ c = now
    BY <1>6, <1>7, <2>1
  <2>2. CASE ~(r = request /\ c = now)
    <3>1. <<r, c>> # <<request, now>>
      BY <2>2
    <3>2. captures'[<<r, c>>] = captures[<<r, c>>]
      BY <1>6, <1>7, <3>1
    <3> QED BY <1>6, <3>2 DEF Directory
  <2> QED BY <2>1, <2>2
<1>10. Steps(t) /\ (Answers(t) \/ UNCHANGED answer)
  <2>1. CASE h.kind = "capture"
    <3>1. Answer(t, None)
      BY <2>1 DEF Write
    <3> QED BY <1>1, <3>1, AnswersFit
  <2>2. CASE h.kind # "capture"
    <3>1. UNCHANGED job /\ GoTo(t, "evaluate")
      BY <2>2 DEF Write
    <3>2. Going(world, "evaluate", h)
      <4>1. h.kind = "automatic"
        BY <1>2, <2>2 DEF Described, Going
      <4> HIDE DEF h
      <4> QED BY <1>2, <4>1 DEF Going
    <3>3. Fits(world, "evaluate", h)
      BY <1>2, <3>2 DEF Fits, Step
    <3>4. job' = [job EXCEPT ![t] = h]
      BY <3>1 DEF PlanInv, Frame
    <3>5. Steps(t)
      <4> HIDE DEF h
      <4> QED BY <1>1, <3>1, <3>3, <3>4, MoveFits DEF GoTo
    <3> QED BY <3>1, <3>5 DEF GoTo
  <2> QED BY <2>1, <2>2
<1>11. Threads' /\ pc' \in [Thread -> Step] /\ job' = [u \in Thread |-> job'[u]]
  BY <1>10, StepFits
<1>12. Answered' /\ answer' = [u \in Thread |-> answer'[u]]
  BY <1>1, <1>10, AnswerGood
<1> QED BY <1>1, <1>8, <1>9, <1>11, <1>12 DEF PlanInv, Frame

\* A costed plan joins the inputs of its thread.
LEMMA InputAdded ==
  ASSUME NEW w, NEW h, Described(h), Costed(w, h), h.policy \in PolicyType,
         NEW n \in h.todo, n \in DOMAIN h.plans,
         NEW input, input.plan.id = n, Planned(w, input, h),
         NEW j, DOMAIN j = Fields, j.inputs = Append(h.inputs, input), j.todo = h.todo \ {n},
         j.artifact = None, j.kind = h.kind, j.request = h.request, j.plans = h.plans, j.shown = h.shown,
         j.policy = h.policy, j.declared = h.declared
  PROVE  Described(j) /\ Costed(w, j)
<1> DEFINE s == h.inputs
           S == ToSet(s) \union {input}
           u == Append(s, input)
<1>1. s \in Seq(ToSet(s))
  BY DEF Described
<1>2. Len(s) \in Nat /\ DOMAIN s = 1..Len(s)
  <2> HIDE DEF s
  <2> QED BY <1>1, LenProperties
<1>3. s \in Seq(S)
  <2>1. \A i \in 1..Len(s) : s[i] \in S
    BY <1>2 DEF ToSet
  <2>2. s = [i \in 1..Len(s) |-> s[i]]
    <3> HIDE DEF s
    <3> QED BY <1>1, <1>2
  <2> HIDE DEF S, s
  <2> QED BY <1>2, <2>1, <2>2
<1>4. /\ u \in Seq(S) /\ Len(u) = Len(s) + 1
      /\ \A i \in 1..Len(s) : u[i] = s[i]
      /\ u[Len(s) + 1] = input
  <2>1. input \in S
    OBVIOUS
  <2> HIDE DEF S, s
  <2> QED BY <1>3, <2>1, AppendProperties
<1>5. DOMAIN u = 1..Len(s) + 1
  <2> HIDE DEF S, s, u
  <2> QED BY <1>4, LenProperties
<1>6. \A i \in DOMAIN u : (i \in DOMAIN s /\ u[i] = s[i]) \/ (i = Len(s) + 1 /\ u[i] = input)
  <2> HIDE DEF s, u
  <2>1. \A i \in 1..Len(s) + 1 : i \in 1..Len(s) \/ i = Len(s) + 1
    BY <1>2
  <2> QED BY <1>2, <1>4, <1>5, <2>1
<1>7. DOMAIN s \subseteq DOMAIN u /\ Len(s) + 1 \in DOMAIN u /\ \A i \in DOMAIN s : u[i] = s[i]
  <2> HIDE DEF s, u
  <2> QED BY <1>2, <1>4, <1>5
<1>8. u \in Seq(ToSet(u))
  <2>1. \A i \in 1..Len(s) + 1 : u[i] \in ToSet(u)
    BY <1>5 DEF ToSet
  <2>2. u = [i \in 1..Len(s) + 1 |-> u[i]]
    <3> HIDE DEF s, u
    <3> QED BY <1>4, <1>5
  <2> HIDE DEF s, u
  <2> QED BY <1>2, <2>1, <2>2
<1>9. j.inputs = u
  OBVIOUS
<1>10. Described(j)
  <2> HIDE DEF s, u
  <2> QED BY <1>8, <1>9 DEF Described
<1>11. \A x : Planned(w, x, h) => Planned(w, x, j)
  BY DEF Planned
<1>12. \A i \in DOMAIN s : s[i].plan.id \in DOMAIN h.plans \ h.todo /\ Planned(w, s[i], h)
  BY DEF Costed
<1>13. \A i \in DOMAIN u : u[i].plan.id \in DOMAIN j.plans \ j.todo /\ Planned(w, u[i], j)
  <2> SUFFICES ASSUME NEW i \in DOMAIN u
               PROVE  u[i].plan.id \in DOMAIN j.plans \ j.todo /\ Planned(w, u[i], j)
    OBVIOUS
  <2> HIDE DEF s, u
  <2>1. CASE i \in DOMAIN s /\ u[i] = s[i]
    BY <1>11, <1>12, <2>1
  <2>2. CASE u[i] = input
    BY <1>11, <2>2
  <2> QED BY <1>6, <2>1, <2>2
<1>14. ASSUME NEW i \in DOMAIN u, NEW l \in DOMAIN u, i # l
       PROVE  u[i].plan.id # u[l].plan.id
  <2>1. \A a, b \in DOMAIN s : a # b => s[a].plan.id # s[b].plan.id
    BY DEF Costed
  <2>2. \A a \in DOMAIN s : s[a].plan.id # n
    BY <1>12
  <2> HIDE DEF s, u
  <2> QED BY <1>6, <1>14, <2>1, <2>2
<1>15. ASSUME j.kind = "automatic", NEW d \in DOMAIN j.plans
       PROVE  d \in j.todo \/ \E i \in DOMAIN u : u[i].plan.id = d
  <2>1. d \in h.todo \/ \E i \in DOMAIN s : s[i].plan.id = d
    BY <1>15 DEF Costed
  <2>2. CASE d = n
    BY <1>4, <1>7, <2>2
  <2>3. CASE d # n /\ d \in h.todo
    BY <2>3
  <2>4. CASE \E i \in DOMAIN s : s[i].plan.id = d
    <3> HIDE DEF s, u
    <3> QED BY <1>7, <2>4
  <2> QED BY <2>1, <2>2, <2>3, <2>4
<1>16. Costed(w, j)
  <2> HIDE DEF s, u
  <2> QED BY <1>9, <1>13, <1>14, <1>15 DEF Costed
<1> QED BY <1>10, <1>16

\* The checkout of a plan belongs to its id.
LEMMA CheckoutShows ==
  ASSUME PlanInv, NEW t \in Thread, Described(job[t]), Current(t) \in Name, CheckoutOf(t) # None
  PROVE  Shows(CheckoutOf(t), job[t].request, Current(t))
<1> DEFINE n == Current(t)
           h == job[t]
<1>1. CASE n \in DOMAIN h.shown
  BY <1>1 DEF CheckoutOf, Described
<1>2. CASE n \notin DOMAIN h.shown
  <2>1. CheckoutOf(t) = captures[<<h.request, n>>]
    BY <1>2 DEF CheckoutOf, Key
  <2>2. h.request \in Request
    BY DEF Described
  <2> QED BY <2>1, <2>2 DEF PlanInv, Directory
<1> QED BY <1>1, <1>2

LEMMA EvaluateKeeps == ASSUME PlanInv, NEW t \in Thread, EvaluateCheckout(t) PROVE PlanInv'
<1> DEFINE h == job[t]
           n == Current(t)
           k == CheckoutOf(t)
           plan == h.plans[n]
           e == IF k # None THEN Evaluated(k) ELSE plan.given
<1>1. pc[t] = "evaluate" /\ UNCHANGED world /\ DirectoryStays
  BY SharedStays DEF EvaluateCheckout
<1>2. CASE Fail(t)
  BY <1>1, <1>2, FailKeeps
<1>3. CASE ~Fail(t)
  <2> DEFINE as == AllocationsOf(world, h.kind, plan.choice)
             input == Input(t, n, k, e, as)
             j == [h EXCEPT !.inputs = Append(@, input), !.todo = @ \ {n}, !.artifact = None]
             step == IF h.todo = {n} THEN "optimize"
                     ELSE IF h.kind = "automatic" THEN "capture" ELSE "evaluate"
  <2>1. /\ ~Unusable(plan, k, e) /\ GoTo(t, step)
        /\ job' = [job EXCEPT ![t].inputs = Append(@, input), ![t].todo = @ \ {n},
                              ![t].artifact = None]
    <3> DEFINE To(n1, k1, plan1, e1, as1) ==
                 IF Unusable(plan1, k1, e1) THEN Fail(t)
                 ELSE /\ job' = [job EXCEPT ![t].inputs = Append(@, Input(t, n1, k1, e1, as1)),
                                            ![t].todo = @ \ {n1}, ![t].artifact = None]
                      /\ GoTo(t, IF job[t].todo = {n1} THEN "optimize"
                                 ELSE IF job[t].kind = "automatic" THEN "capture" ELSE "evaluate")
    <3>1. \E n1 \in {n}, k1 \in {k} : \E plan1 \in {job[t].plans[n1]} :
          \E e1 \in {IF k1 # None THEN Evaluated(k1) ELSE plan1.given},
             as1 \in {AllocationsOf(world, job[t].kind, plan1.choice)} : To(n1, k1, plan1, e1, as1)
      BY DEF EvaluateCheckout
    <3>2. To(n, k, plan, e, as)
      <4> HIDE DEF n, k, To
      <4> QED BY ONLY <3>1 DEF h
    <3> QED BY <1>3, <3>2
  <2>2. Described(h) /\ Going(world, "evaluate", h) /\ Costed(world, h)
    BY <1>1, Holds
  <2>3. job' = [job EXCEPT ![t] = j]
    <3> HIDE DEF input, n
    <3> QED BY <2>1 DEF PlanInv, Frame
  <2>4. n \in h.todo /\ n \in DOMAIN h.plans /\ n \in Name /\ h.policy \in PolicyType
    BY <2>2 DEF Going, Described, Current
  <2>5. k # None => Shows(k, h.request, n)
    BY <2>2, <2>4, CheckoutShows
  <2>6. k = None => plan.given # None
    BY <2>1 DEF Unusable
  <2>7. h.kind = "automatic" => k # None
    <3>1. h.kind = "automatic" => h.plans = Automatic
      BY <2>2 DEF Going
    <3> HIDE DEF h, n, k
    <3> QED BY <2>4, <2>6, <3>1, Places DEF plan
  <2>8. /\ k # None => e.id = k.of /\ e.cost = EffectiveCost(k.of)
        /\ e.cost \in Amount
    <3>1. k # None => e.id = k.of /\ e.cost = EffectiveCost(k.of)
      BY DEF Evaluated, Evaluate
    <3>2. k # None => EffectiveCost(k.of) \in Amount
      BY <2>5, CostTyped DEF Shows
    <3>3. k = None => e.cost \in Amount
      <4>1. PlansFit(h.plans)
        BY <2>2 DEF Described
      <4>2. plan.given # None => plan.given.cost \in Amount
        <5> HIDE DEF h, n
        <5> QED BY <2>4, <4>1 DEF PlansFit
      <4>3. k = None => e = plan.given
        OBVIOUS
      <4> HIDE DEF plan, k, e
      <4> QED BY <2>6, <4>2, <4>3
    <3> HIDE DEF e, k
    <3> QED BY <3>1, <3>2, <3>3
  <2> HIDE DEF e, k
  <2>9. input.plan.id = n /\ Planned(world, input, h)
    <3> HIDE DEF n
    <3> QED BY <2>5, <2>7, <2>8 DEF Input, Planned, n
  <2> HIDE DEF h, n, input
  <2>10. /\ DOMAIN j = Fields /\ j.inputs = Append(h.inputs, input) /\ j.todo = h.todo \ {n}
         /\ j.artifact = None /\ j.kind = h.kind /\ j.request = h.request
         /\ j.plans = h.plans /\ j.shown = h.shown /\ j.policy = h.policy /\ j.declared = h.declared
    BY <2>2 DEF Described, Fields
  <2> HIDE DEF j
  <2>11. Described(j) /\ Costed(world, j)
    BY <2>2, <2>4, <2>9, <2>10, InputAdded
  <2>12. Going(world, step, j)
    <3>1. step = "optimize" <=> j.todo = {}
      BY <2>4, <2>10
    <3>2. h.kind \in {"automatic", "supplied"} /\ j.kind = h.kind
      BY <2>2, <2>10 DEF Going, Described
    <3>3. step \in {"optimize", "capture", "evaluate"} /\ (step = "capture" => h.kind = "automatic")
          /\ (step = "evaluate" => h.kind = "supplied")
      BY <3>2
    <3> HIDE DEF step
    <3> QED BY <2>2, <2>4, <2>10, <3>1, <3>2, <3>3 DEF Going
  <2>13. step \in Step /\ step # "idle"
    BY DEF Step
  <2> HIDE DEF step
  <2>14. Steps(t)
    <3>1. Fits(world, step, j)
      BY <2>11, <2>12, <2>13 DEF Fits
    <3> QED BY <1>1, <2>1, <2>3, <3>1, MoveFits DEF GoTo
  <2> QED BY <1>1, <2>1, <2>14, InvKept DEF GoTo
<1> QED BY <1>2, <1>3

LEMMA CrashKeeps == ASSUME PlanInv, Crash PROVE PlanInv'
<1>1. Threads'
  BY NoJobFits DEF Crash, Threads
<1>2. Directory' /\ Answered'
  BY DEF PlanInv, Crash, Directory, Answered
<1>3. Frame'
  BY DEF PlanInv, Frame, Crash, Step
<1> QED BY <1>1, <1>2, <1>3 DEF PlanInv

------------------------------------------------------------------------------
(* The optimizer's answer.                                                   *)

LEMMA AllocationsTyped ==
  ASSUME NEW c \in Combination, NEW w, NEW kind, NEW as, as = AllocationsOf(w, kind, c)
  PROVE  /\ as \in Seq(ToSet(as)) /\ IsFiniteSet(GroupsOf(as))
         /\ \A a \in ToSet(as) : a.quantity \in Int /\ a.semantics = None
<1> DEFINE N == Len(Items)
<1>1. N \in Nat /\ DOMAIN Items = 1..N /\ \A i \in DOMAIN Items : Items[i] \in Item
  <2>1. IsFiniteSet(Item)
    BY InputAssumption DEF FiniteAssumption
  <2> QED BY <2>1, SetAsSequence DEF Items
<1>2. as = [i \in 1..N |-> as[i]] /\ \A i \in 1..N : as[i].quantity = 1 /\ as[i].semantics = None
  <2>1. as = [i \in DOMAIN Items |-> as[i]]
    BY DEF AllocationsOf
  <2>2. \A i \in DOMAIN Items : as[i].quantity = 1 /\ as[i].semantics = None
    BY <1>1 DEF AllocationsOf, Allocation, Cart
  <2> HIDE DEF N
  <2> QED BY <1>1, <2>1, <2>2
<1> HIDE DEF N
<1>3. DOMAIN as = 1..N
  BY <1>2
<1>4. as \in Seq(ToSet(as))
  <2>1. \A i \in 1..N : as[i] \in ToSet(as)
    BY <1>3 DEF ToSet
  <2> QED BY <1>1, <1>2, <2>1
<1>5. \A a \in ToSet(as) : a.quantity \in Int /\ a.semantics = None
  BY <1>2, <1>3 DEF ToSet
<1>6. IsFiniteSet(GroupsOf(as))
  <2> DEFINE S == ToSet(as)
             f == [a \in S |-> <<a.retailer, a.group>>]
  <2>1. IsFiniteSet(S)
    BY <1>4, ElementsFinite
  <2>2. GroupsOf(as) = {f[a] : a \in S}
    BY DEF GroupsOf
  <2>3. DOMAIN f = S
    OBVIOUS
  <2> HIDE DEF S, f
  <2> QED BY <2>1, <2>2, <2>3, ImageFinite
<1> QED BY <1>4, <1>5, <1>6

\* The evaluations that are handed over are those of the inputs.
LEMMA EvaluationsAttached ==
  ASSUME NEW inputs, inputs \in Seq(ToSet(inputs))
  PROVE  LET evaluations == Attached(Cart, inputs).evaluations IN
         /\ evaluations \in Seq(ToSet(evaluations))
         /\ \A e \in ToSet(evaluations) : \E i \in DOMAIN inputs : e = inputs[i].evaluation
<1> DEFINE S == ToSet(inputs)
           f == [input \in S |-> input.evaluation]
           E == {f[input] : input \in S}
           s == SetToSeq(E)
<1>1. IsFiniteSet(E)
  <2>1. IsFiniteSet(S) /\ DOMAIN f = S
    BY ElementsFinite
  <2> HIDE DEF S, f
  <2> QED BY <2>1, ImageFinite
<1>2. E = {input.evaluation : input \in ToSet(inputs)}
  OBVIOUS
<1>3. Attached(Cart, inputs).evaluations = s
  <2> HIDE DEF E
  <2> QED BY <1>2 DEF Attached, E
<1>4. \A e \in E : \E i \in DOMAIN inputs : e = inputs[i].evaluation
  BY DEF ToSet
<1> HIDE DEF E
<1>5. s \in Seq(E) /\ Len(s) \in Nat /\ DOMAIN s = 1..Len(s) /\ \A i \in DOMAIN s : s[i] \in E
  BY <1>1, SetAsSequence
<1> HIDE DEF s
<1>6. \A e \in ToSet(s) : e \in E
  BY <1>5 DEF ToSet
<1>7. s \in Seq(ToSet(s))
  <2>1. \A i \in 1..Len(s) : s[i] \in ToSet(s)
    BY <1>5 DEF ToSet
  <2>2. s = [i \in 1..Len(s) |-> s[i]]
    BY <1>5
  <2> QED BY <1>5, <2>1, <2>2
<1> QED BY <1>3, <1>4, <1>6, <1>7

LEMMA AttachedIsRequest ==
  ASSUME NEW w, NEW j, Described(j), Costed(w, j), j.policy \in PolicyType
  PROVE  IsRequest(Attached(Cart, j.inputs))
<1> DEFINE s == j.inputs
           R == Attached(Cart, s)
<1>1. s \in Seq(ToSet(s))
  BY DEF Described
<1>2. Len(s) \in Nat /\ DOMAIN s = 1..Len(s)
  <2> HIDE DEF s
  <2> QED BY <1>1, LenProperties
<1>3. R.plans = [i \in 1..Len(s) |-> s[i].plan]
  BY <1>2 DEF Attached
<1>4. ASSUME NEW i \in DOMAIN s PROVE IsPlan(s[i].plan)
  <2> DEFINE input == s[i]
             as == AllocationsOf(w, j.kind, input.combination)
  <2>1. /\ input.plan.id \in DOMAIN j.plans /\ Planned(w, input, j)
        /\ input.combination \in Combination
    <3>1. input.plan.id \in DOMAIN j.plans /\ Planned(w, input, j)
      BY DEF Costed
    <3>2. PlansFit(j.plans)
      BY DEF Described
    <3> HIDE DEF input
    <3> QED BY <3>1, <3>2 DEF Planned, PlansFit
  <2>2. input.plan.id \in Nat
    BY <2>1, Places DEF Described, PlansFit
  <2>3. /\ as \in Seq(ToSet(as)) /\ IsFiniteSet(GroupsOf(as))
        /\ \A a \in ToSet(as) : a.quantity \in Int /\ a.semantics = None
    BY <2>1, AllocationsTyped
  <2>4. j.policy.penalty \in Int /\ j.policy.priority \in Int /\ j.policy.feasibility \in Feasibility
    BY DEF PolicyType
  <2>5. /\ input.plan.penalty = j.policy.penalty /\ input.plan.priority = j.policy.priority
        /\ input.plan.feasibility = j.policy.feasibility
        /\ input.plan.allocations = as
        /\ input.plan.groups = (IF j.declared THEN GroupsOf(as) ELSE {})
    BY <2>1 DEF Planned
  <2> HIDE DEF input, as
  <2>6. IsFiniteSet(input.plan.groups)
    BY <2>3, <2>5, FS_EmptySet
  <2>7. IsPlan(input.plan)
    BY <2>2, <2>3, <2>4, <2>5, <2>6 DEF IsPlan
  <2> QED BY <2>7 DEF input
<1>5. \A plan \in ToSet(R.plans) : IsPlan(plan)
  <2> HIDE DEF s, R
  <2> QED BY <1>2, <1>3, <1>4 DEF ToSet
<1>6. R.plans \in Seq(ToSet(R.plans))
  <2> DEFINE plans == R.plans
  <2>1. plans = [i \in 1..Len(s) |-> plans[i]] /\ \A i \in 1..Len(s) : plans[i] \in ToSet(plans)
    <3> HIDE DEF s, R
    <3> QED BY <1>3 DEF ToSet
  <2> HIDE DEF plans, s
  <2>2. plans \in Seq(ToSet(plans))
    BY <1>2, <2>1
  <2> QED BY <2>2 DEF plans
<1>7. /\ R.evaluations \in Seq(ToSet(R.evaluations))
      /\ \A e \in ToSet(R.evaluations) : \E i \in DOMAIN s : e = s[i].evaluation
  <2> HIDE DEF s
  <2> QED BY <1>1, EvaluationsAttached
<1>8. ASSUME NEW i \in DOMAIN s PROVE s[i].evaluation.cost \in Amount
  <2> DEFINE input == s[i]
  <2>1. Planned(w, input, j)
    BY DEF Costed
  <2> HIDE DEF input
  <2>2. input.evaluation.cost \in Amount
    BY <2>1 DEF Planned
  <2> QED BY <2>2 DEF input
<1>9. DOMAIN R = {"cart", "coverage", "plans", "evaluations"}
  BY DEF Attached
<1> HIDE DEF s, R
<1>10. IsRequest(R)
  BY <1>5, <1>6, <1>7, <1>8, <1>9 DEF IsRequest
<1> QED BY <1>10 DEF R, s

LEMMA OneAtMost ==
  ASSUME NEW S, IsFiniteSet(S), ~(Cardinality(S) > 1), NEW x \in S, NEW y \in S
  PROVE  x = y
<1> SUFFICES ASSUME x # y PROVE FALSE
  OBVIOUS
<1>1. /\ IsFiniteSet(S \ {x}) /\ Cardinality(S \ {x}) = Cardinality(S) - 1
      /\ Cardinality(S) \in Nat
  BY FS_RemoveElement, FS_CardinalityType
<1>2. Cardinality(S \ {x}) = 0
  <2>1. Cardinality(S \ {x}) \in Nat
    BY <1>1, FS_CardinalityType
  <2> QED BY <1>1, <2>1
<1>3. S \ {x} = {}
  BY <1>1, <1>2, FS_EmptySet
<1> QED BY <1>3

\* The costs of the plans of a request that is accepted are in one currency.
LEMMA SameCurrency ==
  ASSUME NEW request, IsRequest(request), ~Refuses(request),
         NEW p \in PlansThatAre(request, "feasible"), NEW q \in PlansThatAre(request, "feasible")
  PROVE  EvaluationOf(request, p).cost.currency = EvaluationOf(request, q).cost.currency
<1> DEFINE P == ToSet(request.plans)
           f == [plan \in P |-> EvaluationOf(request, plan)]
           linked == {f[plan] : plan \in P}
           costed == {e \in linked : e.cost # None}
           g == [e \in costed |-> e.cost.currency]
           C == {g[e] : e \in costed}
<1>1. IsFiniteSet(P)
  BY ElementsFinite DEF IsRequest
<1>2. IsFiniteSet(linked)
  <2>1. DOMAIN f = P
    OBVIOUS
  <2> HIDE DEF P, f
  <2> QED BY <1>1, <2>1, ImageFinite
<1>3. IsFiniteSet(C)
  <2>1. costed \subseteq linked /\ DOMAIN g = costed
    OBVIOUS
  <2>2. IsFiniteSet(costed)
    <3> HIDE DEF linked, costed
    <3> QED BY <1>2, <2>1, FS_Subset
  <2> HIDE DEF costed, g
  <2> QED BY <2>1, <2>2, ImageFinite
<1>4. ~(Cardinality(C) > 1)
  <2>1. linked = {EvaluationOf(request, plan) : plan \in ToSet(request.plans)}
    OBVIOUS
  <2>2. C = {e.cost.currency : e \in {h \in linked : h.cost # None}}
    <3> HIDE DEF linked
    <3> QED OBVIOUS
  <2> HIDE DEF linked, C
  <2> QED BY <2>1, <2>2 DEF Refuses
<1>5. ASSUME NEW plan \in PlansThatAre(request, "feasible")
      PROVE  EvaluationOf(request, plan).cost.currency \in C
  <2>1. plan \in P /\ EvaluationOf(request, plan).cost # None
    BY FeasibleHasKey
  <2>2. EvaluationOf(request, plan) \in linked
    <3> HIDE DEF P
    <3> QED BY <2>1
  <2>3. EvaluationOf(request, plan) \in costed
    <3> HIDE DEF linked
    <3> QED BY <2>1, <2>2
  <2> HIDE DEF costed
  <2> QED BY <2>3
<1>6. EvaluationOf(request, p).cost.currency \in C /\ EvaluationOf(request, q).cost.currency \in C
  BY <1>5
<1> HIDE DEF C
<1> QED BY <1>3, <1>4, <1>6, OneAtMost


\* The choice of automatic planning is the cheapest of everything.
LEMMA ReadyChoosesCheapest ==
  ASSUME NEW w, NEW j, Described(j), Going(w, "optimize", j), Costed(w, j), j.kind = "automatic",
         NEW request, request = Attached(Cart, j.inputs), ~Refuses(request), Outcome(request) = "selected"
  PROVE  CheapestOfAll(w, j.inputs, Best(request).id)
<1> DEFINE s == j.inputs
           F == PlansThatAre(request, "feasible")
           best == Best(request)
           Cost(plan) == EvaluationOf(request, plan).cost
<1>1. IsRequest(request)
  BY AttachedIsRequest DEF Going
<1>2. best \in F
  BY <1>1, BestExists DEF Outcome
<1>3. /\ j.policy \in PolicyType /\ j.declared = TRUE /\ Item # {} /\ j.todo = {}
      /\ j.plans = Automatic
      /\ s \in Seq(ToSet(s))
  BY DEF Going, Described
<1>4. DOMAIN request.plans = DOMAIN s /\ \A i \in DOMAIN s : request.plans[i] = s[i].plan
  BY DEF Attached
<1>5. /\ request.cart = Cart
      /\ \A e \in ToSet(request.evaluations) : \E i \in DOMAIN s : e = s[i].evaluation
  <2>1. request.cart = Cart
    BY DEF Attached
  <2> HIDE DEF s
  <2> QED BY <1>3, <2>1, EvaluationsAttached DEF s
<1> DEFINE Of(input) ==
              LET as == AllocationsOf(w, "automatic", input.combination)
                  id == input.checkout.of
              IN  /\ input.plan.id \in DOMAIN Combinations /\ input.combination \in Combination
                  /\ input.combination = Combinations[input.plan.id]
                  /\ input.plan.evaluation = id /\ input.plan.feasibility = j.policy.feasibility
                  /\ input.plan.allocations = as /\ input.plan.groups = GroupsOf(as)
                  /\ input.evaluation.id = id
                  /\ input.evaluation.cost = EffectiveCost(input.checkout.of)
<1>6. ASSUME NEW i \in DOMAIN s PROVE Of(s[i])
  <2> DEFINE input == s[i]
  <2>1. input.plan.id \in DOMAIN j.plans /\ Planned(w, input, j)
    BY DEF Costed
  <2> HIDE DEF input
  <2>2. Of(input)
    BY <1>3, <2>1, Places DEF Planned
  <2> QED BY <2>2 DEF input
<1>7. ASSUME NEW i \in DOMAIN s
      PROVE  /\ EffectiveFeasibility(request.cart, s[i].plan) = j.policy.feasibility
             /\ s[i].plan \in ToSet(request.plans)
  <2>1. /\ s[i].combination \in Combination
        /\ s[i].plan.allocations = AllocationsOf(w, "automatic", s[i].combination)
        /\ s[i].plan.feasibility = j.policy.feasibility
    <3> HIDE DEF s
    <3> QED BY <1>6
  <2>2. EffectiveFeasibility(Cart, s[i].plan) = s[i].plan.feasibility
    <3> HIDE DEF s
    <3> QED BY <1>3, <2>1, CombinationFulfills
  <2> HIDE DEF s
  <2> QED BY <1>4, <1>5, <2>1, <2>2 DEF ToSet
<1>8. PICK b \in DOMAIN s : best = s[b].plan
  <2>1. best \in ToSet(request.plans)
    BY <1>2 DEF PlansThatAre
  <2> HIDE DEF s, best
  <2> QED BY <1>4, <2>1 DEF ToSet
<1>9. j.policy.feasibility = "feasible"
  <2>1. EffectiveFeasibility(request.cart, best) = "feasible"
    BY <1>2 DEF PlansThatAre
  <2> HIDE DEF s, best
  <2> QED BY <1>7, <1>8, <2>1
<1>10. ASSUME NEW i \in DOMAIN s
       PROVE  s[i].plan \in F /\ Cost(s[i].plan) = EffectiveCost(s[i].checkout.of)
              /\ Cost(s[i].plan) \in Money /\ Cost(s[i].plan) # None
  <2>1. s[i].plan \in F
    <3> HIDE DEF s
    <3> QED BY <1>7, <1>9 DEF PlansThatAre
  <2> DEFINE plan == s[i].plan
             e == EvaluationOf(request, plan)
  <2>2. e # None /\ e.cost \in Money /\ e.cost # None
    <3> HIDE DEF plan, F
    <3> QED BY <1>1, <2>1, FeasibleHasKey DEF plan, F
  <2>3. e \in ToSet(request.evaluations) /\ e.id = plan.evaluation
    <3> HIDE DEF plan
    <3> QED BY <2>2, EvaluationFound
  <2> HIDE DEF e
  <2>4. PICK l \in DOMAIN s : e = s[l].evaluation
    BY <1>5, <2>3
  <2>5. Of(s[i]) /\ Of(s[l])
    <3> HIDE DEF s, Of
    <3> QED BY <1>6, <2>4
  <2>6. s[i].checkout.of = s[l].checkout.of
    <3> HIDE DEF s
    <3> QED BY <2>3, <2>4, <2>5
  <2>7. e.cost = EffectiveCost(s[i].checkout.of)
    <3> HIDE DEF s
    <3> QED BY <2>4, <2>5, <2>6
  <2> QED BY <2>1, <2>2, <2>7 DEF e
<1>11. ASSUME NEW c \in EveryChoice
       PROVE  \E this, cheapest \in ToSet(s) :
                LET cost == EffectiveCost(this.checkout.of)
                    paid == EffectiveCost(cheapest.checkout.of)
                IN  /\ this.combination = c
                    /\ cheapest.plan.id = best.id
                    /\ cost # None /\ paid # None /\ paid.currency = cost.currency
                    /\ \/ paid.units < cost.units
                       \/ /\ paid.units = cost.units
                          /\ Checkouts(w, cheapest.combination) <= Checkouts(w, c)
  <2>1. c \in Combination
    BY DEF EveryChoice, Combination
  <2>2. PICK i \in DOMAIN s : s[i].combination = c
    <3>1. PICK n \in DOMAIN Combinations : Combinations[n] = c
      BY <2>1, Places
    <3>2. PICK i \in DOMAIN s : s[i].plan.id = n
      BY <1>3, <3>1, Places DEF Costed
    <3> HIDE DEF s
    <3> QED BY <1>6, <3>1, <3>2
  <2> DEFINE this == s[i]
             cheapest == s[b]
             cost == EffectiveCost(this.checkout.of)
             paid == EffectiveCost(cheapest.checkout.of)
  <2>3. this \in ToSet(s) /\ cheapest \in ToSet(s)
    BY <1>8, <2>2 DEF ToSet
  <2>4. Of(this) /\ Of(cheapest)
    BY <1>6, <1>8, <2>2
  <2>5. /\ this.plan \in F /\ Cost(this.plan) = cost /\ cost # None
        /\ best \in F /\ Cost(best) = paid /\ paid # None
    BY <1>8, <1>10, <2>2
  <2>6. paid.currency = cost.currency
    <3> HIDE DEF this, cheapest, F, best, paid, cost
    <3> QED BY <1>1, <2>5, SameCurrency DEF F
  <2>7. \/ paid.units < cost.units
        \/ /\ paid.units = cost.units
           /\ Cardinality(best.groups) <= Cardinality(this.plan.groups)
    <3> HIDE DEF this, cheapest, F, paid, cost
    <3> QED BY <1>1, <2>5, BestIsCheapest DEF F
  <2>8. /\ best.groups = GroupsOf(AllocationsOf(w, "automatic", cheapest.combination))
        /\ best.id = cheapest.plan.id
        /\ this.plan.groups = GroupsOf(AllocationsOf(w, "automatic", c))
    <3> HIDE DEF s, best
    <3> QED BY <1>8, <2>2, <2>4
  <2> HIDE DEF s, best, F, Of, Cost, this, cheapest
  <2> USE <2>3
  <2> WITNESS this \in ToSet(s), cheapest \in ToSet(s)
  <2> QED BY <2>2, <2>5, <2>6, <2>7, <2>8 DEF Checkouts, this
<1> HIDE DEF best, s
<1> QED BY <1>11 DEF CheapestOfAll, best, s

LEMMA OptimizeKeeps == ASSUME PlanInv, NEW t \in Thread, Optimize(t) PROVE PlanInv'
<1>1. pc[t] = "optimize" /\ UNCHANGED world /\ DirectoryStays
  BY SharedStays DEF Optimize
<1>2. CASE Fail(t)
  BY <1>1, <1>2, FailKeeps
<1>3. CASE ~Fail(t)
  <2> DEFINE j == job[t]
             request == Attached(Cart, j.inputs)
             chosen == Chosen(request)
  <2>1. ~Refuses(request) /\ Answer(t, chosen)
    BY <1>3 DEF Optimize
  <2>2. Described(j) /\ Going(world, "optimize", j) /\ Costed(world, j)
    BY <1>1, Holds
  <2>3. chosen # None => Outcome(request) = "selected" /\ chosen = Best(request).id
    BY DEF Chosen
  <2> HIDE DEF chosen
  <2>4. chosen # None /\ j.kind = "automatic" => CheapestOfAll(world, j.inputs, chosen)
    <3> HIDE DEF j
    <3> QED BY <2>1, <2>2, <2>3, ReadyChoosesCheapest
  <2>5. Steps(t) /\ Answers(t)
    BY <1>1, <2>1, <2>4, AnswersFit
  <2> QED BY <1>1, <2>5, InvKept
<1> QED BY <1>2, <1>3

\* What a caller submits is a request still when the observation is added to it.
LEMMA SubmittedIsRequest ==
  ASSUME NEW s \in Submitted
  PROVE  IsRequest(WithEffectiveCost(s))
<1> DEFINE e == Evaluate(s.observation)
           found == [id |-> "observed", cost |-> e.cost, unknowns |-> e.unknowns]
           given == s.request
           R == [given EXCEPT !.evaluations = Append(@, found)]
<1>1. IsRequest(given) /\ s.observation \in Observation
  BY InputAssumption
<1>2. found.cost \in Amount
  BY <1>1, CostTyped DEF Evaluate
<1>3. R = WithEffectiveCost(s)
  BY DEF WithEffectiveCost
<1> HIDE DEF found, given
<1>4. /\ R.plans = given.plans /\ R.evaluations = Append(given.evaluations, found)
      /\ DOMAIN R = {"cart", "coverage", "plans", "evaluations"}
  BY <1>1 DEF IsRequest
<1> DEFINE v == given.evaluations
           u == Append(v, found)
           S == ToSet(v) \union {found}
<1>5. v \in Seq(ToSet(v)) /\ \A x \in ToSet(v) : x.cost \in Amount
  BY <1>1 DEF IsRequest
<1>6. Len(v) \in Nat /\ DOMAIN v = 1..Len(v)
  <2> HIDE DEF v
  <2> QED BY <1>5, LenProperties
<1>7. v \in Seq(S)
  <2>1. \A i \in 1..Len(v) : v[i] \in S
    BY <1>6 DEF ToSet
  <2>2. v = [i \in 1..Len(v) |-> v[i]]
    <3> HIDE DEF v
    <3> QED BY <1>5, <1>6
  <2> HIDE DEF S, v
  <2> QED BY <1>6, <2>1, <2>2
<1>8. u \in Seq(S) /\ Len(u) \in Nat /\ DOMAIN u = 1..Len(u)
  <2>1. found \in S
    OBVIOUS
  <2> HIDE DEF S, v
  <2>2. u \in Seq(S)
    BY <1>7, <2>1, AppendProperties
  <2> HIDE DEF u
  <2> QED BY <2>2, LenProperties
<1>9. \A x \in ToSet(u) : x.cost \in Amount
  <2>1. \A x \in S : x.cost \in Amount
    BY <1>2, <1>5
  <2>2. \A i \in 1..Len(u) : u[i] \in S
    <3> HIDE DEF S, u
    <3> QED BY <1>8, ElementOfSeq
  <2> HIDE DEF S, u
  <2> QED BY <1>8, <2>1, <2>2 DEF ToSet
<1>10. u \in Seq(ToSet(u))
  <2>1. u = [i \in 1..Len(u) |-> u[i]]
    <3> HIDE DEF u
    <3> QED BY <1>8
  <2>2. \A i \in 1..Len(u) : u[i] \in ToSet(u)
    <3> HIDE DEF u
    <3> QED BY <1>8 DEF ToSet
  <2> HIDE DEF u
  <2> QED BY <1>8, <2>1, <2>2
<1> HIDE DEF R, u
<1>11. IsRequest(R)
  BY <1>1, <1>4, <1>9, <1>10 DEF IsRequest, u
<1> QED BY <1>3, <1>11

LEMMA SubmittedKeeps == ASSUME PlanInv, NEW t \in Thread, EvaluateSubmitted(t) PROVE PlanInv'
<1>1. PICK s \in Submitted :
          LET request == WithEffectiveCost(s)
              refused == ~s.observation.evidenced \/ Refuses(request)
              chosen == IF refused THEN None ELSE Chosen(request)
          IN  answer' = [answer EXCEPT ![t] =
                 IF chosen = None THEN None
                 ELSE [chosen |-> chosen, request |-> request, whole |-> FALSE, inputs |-> <<>>]]
  BY DEF EvaluateSubmitted
<1>2. UNCHANGED <<world, captures, captured, pc, job>>
  BY DEF EvaluateSubmitted
<1> DEFINE request == WithEffectiveCost(s)
           refused == ~s.observation.evidenced \/ Refuses(request)
           chosen == IF refused THEN None ELSE Chosen(request)
           a == answer'[t]
<1>3. /\ answer' = [answer EXCEPT ![t] = answer'[t]]
      /\ a # None => chosen # None /\ a.chosen = chosen /\ a.whole = FALSE /\ a.request = request
  BY <1>1 DEF PlanInv, Frame
<1>4. chosen # None => ~Refuses(request) /\ Outcome(request) = "selected" /\ chosen = Best(request).id
  BY DEF Chosen
<1>5. IsRequest(request)
  BY SubmittedIsRequest
<1> HIDE DEF request, chosen, a
<1>6. a # None => Good(world', a)
  <2> SUFFICES ASSUME a # None, a.request # None, a.chosen # None,
                      NEW plan, plan = CHOOSE p \in ToSet(a.request.plans) : p.id = a.chosen
               PROVE  BringsTheCart(a.request, plan)
                      /\ \A p \in ToSet(a.request.plans) : NotBetter(a.request, p, plan)
    BY <1>3 DEF Good
  <2>1. a.request = request /\ a.chosen = Best(request).id
    BY <1>3, <1>4
  <2>2. plan = CHOOSE p \in ToSet(request.plans) : p.id = Best(request).id
    BY <2>1
  <2>3. BringsTheCart(request, plan) /\ \A p \in ToSet(request.plans) : NotBetter(request, p, plan)
    BY <1>3, <1>4, <1>5, <2>2, ChoiceFulfills
  <2> QED BY <2>1, <2>3
<1>7. Answered' /\ answer' = [u \in Thread |-> answer'[u]]
  BY <1>2, <1>3, <1>6, AnswerGood DEF Answers, a
<1>8. Threads' /\ Directory'
  BY <1>2 DEF PlanInv, Threads, Directory
<1>9. Frame'
  BY <1>2, <1>7 DEF PlanInv, Frame
<1> QED BY <1>7, <1>8, <1>9 DEF PlanInv

------------------------------------------------------------------------------
(* The invariant of the specification, and the properties.                   *)

LEMMA InitInv == ASSUME Init PROVE PlanInv
<1>1. Threads
  BY NoJobFits DEF Init, Threads
<1>2. Directory /\ Answered
  BY DEF Init, Directory, Answered
<1>3. Frame
  BY PlanningAssumption DEF Init, Frame, Step
<1> QED BY <1>1, <1>2, <1>3 DEF PlanInv

LEMMA NextKeeps == ASSUME PlanInv, [Next]_vars PROVE PlanInv'
<1>1. ASSUME NEW t \in Thread, Serve(t) PROVE PlanInv'
  BY <1>1, DiscoverKeeps, CaptureKeeps, CaptureFailsKeeps, LookKeeps, WriteKeeps, EvaluateKeeps,
     OptimizeKeeps DEF Serve
<1>2. ASSUME NEW t \in Thread, NEW r \in Request, Plan(t, r) \/ PlanSupplied(t, r) \/ CaptureOnly(t, r)
      PROVE  PlanInv'
  BY <1>2, PlanKeeps, SuppliedKeeps, CaptureOnlyKeeps
<1>3. CASE UNCHANGED vars
  BY <1>3 DEF vars, PlanInv, Frame, Directory, Threads, Answered
<1> QED BY <1>1, <1>2, <1>3, SubmittedKeeps, CrashKeeps DEF Next

\* Every behavior keeps the invariant of the directory, the threads and the
\* answers.
THEOREM PlanningInductive == Spec => []PlanInv
BY InitInv, NextKeeps, PTL DEF Spec

\* The types of the threads' requests, of the directory and of the time hold
\* for every cart, however many threads share the directory.
THEOREM PlanningTypeCorrect == Spec => []TypeOK
<1>1. PlanInv => TypeOK
  <2> SUFFICES ASSUME PlanInv PROVE TypeOK
    OBVIOUS
  <2>1. ASSUME NEW t \in Thread
        PROVE  /\ pc[t] # "idle" => /\ job[t].kind \in {"automatic", "supplied", "capture"}
                                    /\ job[t].todo \subseteq Name
                                    /\ pc[t] = "optimize" => job[t].todo = {}
                                    /\ job[t].todo = {} => pc[t] \in {"optimize", "discover"}
               /\ job[t].artifact # None => job[t].artifact \in Artifact
    <3>1. CASE pc[t] = "idle"
      BY <3>1 DEF PlanInv, Threads, Fits, NoJob
    <3>2. CASE pc[t] # "idle"
      <4> DEFINE j == job[t]
      <4>1. Described(j) /\ Going(world, pc[t], j)
        BY <3>2, Holds
      <4> HIDE DEF j
      <4>2. /\ j.kind \in {"automatic", "supplied", "capture"} /\ j.todo \subseteq Name
            /\ pc[t] = "optimize" => j.todo = {}
            /\ j.todo = {} => pc[t] \in {"optimize", "discover"}
            /\ j.artifact # None => j.artifact \in Artifact
        BY <4>1 DEF Described, Going
      <4> QED BY <4>2 DEF j
    <3> QED BY <3>1, <3>2
  <2> QED BY <2>1 DEF PlanInv, Frame, TypeOK
<1> QED BY <1>1, PlanningInductive, PTL

\* A plan is costed on a checkout of its own request and plan id, or by the
\* evaluation that came with it, whatever ids callers use, whatever the adapter
\* returns and whoever plans the same cart at the same time; and in automatic
\* planning the id is that of the plan's listings.
THEOREM OwnCaptures == Spec => []EvaluatedOnOwnCapture
<1>1. PlanInv => EvaluatedOnOwnCapture
  <2> SUFFICES ASSUME PlanInv, NEW t \in Thread, NEW i \in DOMAIN job[t].inputs, NEW l \in DOMAIN job[t].inputs
               PROVE  LET input == job[t].inputs[i] IN
                      /\ input.checkout # None => /\ input.checkout.request = job[t].request
                                                  /\ input.checkout.plan = input.plan.id
                      /\ job[t].kind = "automatic" =>
                            /\ input.checkout # None
                            /\ input.checkout.plan \in DOMAIN Combinations
                            /\ Combinations[input.checkout.plan] = input.combination
                      /\ i # l => input.plan.id # job[t].inputs[l].plan.id
    BY DEF EvaluatedOnOwnCapture
  <2>1. CASE pc[t] = "idle"
    <3>1. job[t].inputs = <<>>
      BY <2>1 DEF PlanInv, Threads, Fits, NoJob
    <3> QED BY <3>1, EmptyInputs
  <2>2. CASE pc[t] # "idle"
    <3> DEFINE j == job[t]
               input == j.inputs[i]
    <3>1. Described(j) /\ Going(world, pc[t], j) /\ Costed(world, j)
      BY <2>2, Holds
    <3>2. /\ Planned(world, input, j) /\ input.plan.id \in DOMAIN j.plans
          /\ i # l => input.plan.id # j.inputs[l].plan.id
      BY <3>1 DEF Costed
    <3>3. j.kind = "automatic" => j.plans = Automatic
      BY <3>1 DEF Going
    <3> HIDE DEF j, input
    <3>4. /\ input.checkout # None => input.checkout.request = j.request /\ input.checkout.plan = input.plan.id
          /\ j.kind = "automatic" => /\ input.checkout # None
                                     /\ input.checkout.plan \in DOMAIN Combinations
                                     /\ Combinations[input.checkout.plan] = input.combination
      BY <3>2, <3>3, Places DEF Planned, Shows
    <3> QED BY <3>2, <3>4 DEF j, input
  <2> QED BY <2>1, <2>2
<1> QED BY <1>1, PlanningInductive, PTL

\* A ready answer of automatic planning is the cheapest of every choice of
\* listings, for every cart and whatever the checkouts show.
THEOREM ReadyCheapest == Spec => []ReadyIsCheapest
<1>1. PlanInv => ReadyIsCheapest
  BY DEF PlanInv, Answered, Good, ReadyIsCheapest
<1> QED BY <1>1, PlanningInductive, PTL

\* A plan chosen among submitted ones brings the cart exactly, and none that was
\* given up would have been cheaper, whatever plans and costs are submitted.
THEOREM ChoicesFulfill == Spec => []ChosenFulfills
<1>1. PlanInv => ChosenFulfills
  BY DEF PlanInv, Answered, Good, ChosenFulfills
<1> QED BY <1>1, PlanningInductive, PTL

=============================================================================
