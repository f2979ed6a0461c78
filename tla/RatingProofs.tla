---------------------------- MODULE RatingProofs ----------------------------
(***************************************************************************)
(* What the pure functions of Rating and Invoices return, for any prices,  *)
(* meters and events.                                                      *)
(***************************************************************************)
EXTENDS Invoices, Sums

-----------------------------------------------------------------------------
(* Rounding.  Every denominator in the code is 1, 100 or the scale.        *)

Denominators == {1, 100, Scale}

\* The minor units of the three exponents, in mills.
LEMMA UnitType == \A c : Unit(c) \in {1, 10, 1000}
BY DEF Unit

\* Rounding cuts to a multiple of the minor unit.
LEMMA RoundDownIsWhole ==
    ASSUME NEW n \in Int, NEW d \in Denominators, NEW c
    PROVE  \E k \in Int : RoundDown(n, d, c) = k * Unit(c)
<1>1. CASE n >= 0
  <2>1. n \div (d * Unit(c)) \in Int
    BY UnitType DEF Denominators, Scale
  <2>2. QED  BY <1>1, <2>1 DEF RoundDown
<1>2. CASE n < 0
  <2>1. (-n) \div (d * Unit(c)) \in Int /\ Unit(c) \in Int
    BY UnitType DEF Denominators, Scale
  <2>2. RoundDown(n, d, c) = -(((-n) \div (d * Unit(c))) * Unit(c))
    BY <1>2 DEF RoundDown
  <2>3. RoundDown(n, d, c) = (-((-n) \div (d * Unit(c)))) * Unit(c)
    BY <2>1, <2>2
  <2>4. QED  BY <2>1, <2>3
<1>3. QED  BY <1>1, <1>2

\* Of an amount that is not negative it takes less than a unit, and no more
\* than the amount.
LEMMA RoundDownBounds ==
    ASSUME NEW n \in Nat, NEW d \in Denominators, NEW c
    PROVE  /\ RoundDown(n, d, c) \in Nat
           /\ RoundDown(n, d, c) * d <= n
           /\ n < (RoundDown(n, d, c) + Unit(c)) * d
BY UnitType DEF RoundDown, Denominators, Scale

\* A larger amount is not cut to less.
LEMMA RoundDownGrows ==
    ASSUME NEW n \in Int, NEW m \in Int, n <= m, NEW d \in Denominators, NEW c
    PROVE  RoundDown(n, d, c) <= RoundDown(m, d, c)
BY UnitType DEF RoundDown, Denominators, Scale

\* Whole units are left alone, as parts of the scale too.
LEMMA RoundDownKeeps ==
    ASSUME NEW c, NEW k \in Int, NEW d \in Denominators
    PROVE  RoundDown((k * Unit(c)) * d, d, c) = k * Unit(c)
BY UnitType DEF RoundDown, Denominators, Scale

-----------------------------------------------------------------------------
(* Sums over the lines of a bill.                                          *)

IsBilled(lines) == lines \in Seq(Range(lines)) /\ \A i \in DOMAIN lines : lines[i].amount \in Int
AmountAt(lines) == [i \in DOMAIN lines |-> lines[i].amount]

\* The indices of a sequence are a finite set of integers.
LEMMA Indices ==
    ASSUME NEW lines, lines \in Seq(Range(lines))
    PROVE  /\ DOMAIN lines \in SUBSET Int /\ IsFiniteSet(DOMAIN lines)
           /\ DOMAIN lines = 1..Len(lines) /\ Len(lines) \in Nat
           /\ Cardinality(DOMAIN lines) = Len(lines)
<1>1. Len(lines) \in Nat /\ DOMAIN lines = 1..Len(lines)
  OBVIOUS
<1>2. IsFiniteSet(1..Len(lines)) /\ Cardinality(1..Len(lines)) = Len(lines)
  BY <1>1, FS_Interval
<1>3. QED  BY <1>1, <1>2

\* The total is the sum of the amounts.
LEMMA TotalIsSum ==
    ASSUME NEW lines, IsBilled(lines)
    PROVE  /\ Summable(AmountAt(lines), DOMAIN lines)
           /\ Total(lines) = SumOf(AmountAt(lines), DOMAIN lines)
<1> DEFINE D == DOMAIN lines
           f == AmountAt(lines)
           P(it) == it = [s \in SUBSET D |->
                            IF s = {} THEN 0 ELSE it[s \ {Max(s)}] + lines[Max(s)].amount]
           Q(it) == it = [s \in SUBSET D |->
                            IF s = {} THEN 0 ELSE it[s \ {Max(s)}] + f[Max(s)]]
           it == CHOOSE it : P(it)
<1>1. Summable(f, D) /\ D \in SUBSET Int
  BY Indices DEF IsBilled, Summable, AmountAt
<1>2. \A s \in SUBSET D : s # {} => lines[Max(s)].amount = f[Max(s)]
  <2>1. \A s \in SUBSET D : s # {} => Max(s) \in s
    BY <1>1, FS_Subset, MaxIsGreatest DEF Summable
  <2>2. QED  BY <2>1 DEF AmountAt
<1>3. \A i : P(i) <=> Q(i)
  BY <1>2
<1>4. (\E i : Q(i)) /\ \A i : Q(i) => i[D] = SumOf(f, D)
  BY <1>1, FoldAdds
<1>5. Total(lines) = it[D]
  BY DEF Total, FoldLeft, MapThenFoldSet
<1> HIDE DEF P, Q
<1>6. P(it)
  BY <1>3, <1>4, Zenon
<1>7. QED  BY <1>1, <1>3, <1>4, <1>5, <1>6

-----------------------------------------------------------------------------
(* The order of the lines.                                                 *)

Modelled(lines) ==
    lines \in Seq(Range(lines)) /\ \A i \in DOMAIN lines : lines[i].model \in ToSet(Models)

\* Every price model has a rank.
LEMMA RankIsNumber ==
    ASSUME NEW m \in ToSet(Models)
    PROVE  Rank(m) \in Int
BY DEF Rank, ToSet, Models

\* The order of a bill's lines is strict and total.
LEMMA BeforeIsOrder ==
    ASSUME NEW lines, Modelled(lines)
    PROVE  \A i, j, k \in DOMAIN lines :
             /\ ~Before(lines, i, i)
             /\ i # j => Before(lines, i, j) \/ Before(lines, j, i)
             /\ Before(lines, i, j) /\ Before(lines, j, k) => Before(lines, i, k)
<1>1. \A i \in DOMAIN lines : Rank(lines[i].model) \in Int /\ i \in Int
  BY RankIsNumber DEF Modelled
<1>2. QED  BY <1>1 DEF Before

\* The places of the lines are the indices, each taken once.
LEMMA PlacesAreTaken ==
    ASSUME NEW lines, Modelled(lines)
    PROVE  /\ \A i \in DOMAIN lines : Place(lines, i) \in DOMAIN lines
           /\ \A i, j \in DOMAIN lines : Place(lines, i) = Place(lines, j) => i = j
           /\ \A k \in DOMAIN lines : \E i \in DOMAIN lines : Place(lines, i) = k
<1> DEFINE D == DOMAIN lines
           Ahead(i) == {j \in D : Before(lines, j, i)}
           place == [i \in D |-> Place(lines, i)]
<1>1. D = 1..Len(lines) /\ Len(lines) \in Nat /\ IsFiniteSet(D) /\ Cardinality(D) = Len(lines)
  BY Indices DEF Modelled
<1>2. \A i, j, k \in D :
             /\ ~Before(lines, i, i)
             /\ i # j => Before(lines, i, j) \/ Before(lines, j, i)
             /\ Before(lines, i, j) /\ Before(lines, j, k) => Before(lines, i, k)
  BY BeforeIsOrder
<1>3. \A i \in D : Place(lines, i) = 1 + Cardinality(Ahead(i))
  BY DEF Place
<1>4. ASSUME NEW i \in D
      PROVE  /\ Ahead(i) \in SUBSET (D \ {i}) /\ IsFiniteSet(Ahead(i))
             /\ Cardinality(Ahead(i)) \in Nat /\ Cardinality(Ahead(i)) <= Len(lines) - 1
  <2>1. Ahead(i) \in SUBSET (D \ {i})
    BY <1>2
  <2>2. IsFiniteSet(D \ {i}) /\ Cardinality(D \ {i}) = Len(lines) - 1
    BY <1>1, FS_RemoveElement
  <2> HIDE DEF Ahead, D
  <2>3. QED  BY <2>1, <2>2, FS_Subset, FS_CardinalityType
<1>5. ASSUME NEW i \in D, NEW j \in D, Before(lines, j, i)
      PROVE  Cardinality(Ahead(j)) < Cardinality(Ahead(i))
  <2>1. Ahead(j) \cup {j} \in SUBSET Ahead(i) /\ j \notin Ahead(j)
    BY <1>2, <1>5
  <2>2. IsFiniteSet(Ahead(i)) /\ IsFiniteSet(Ahead(j)) /\ Cardinality(Ahead(i)) \in Nat
        /\ Cardinality(Ahead(j)) \in Nat
    BY <1>4
  <2> HIDE DEF Ahead, D
  <2>3. Cardinality(Ahead(j) \cup {j}) = Cardinality(Ahead(j)) + 1
    BY <2>1, <2>2, FS_AddElement
  <2>4. Cardinality(Ahead(j) \cup {j}) <= Cardinality(Ahead(i))
    BY <2>1, <2>2, FS_Subset
  <2>5. QED  BY <2>2, <2>3, <2>4
<1> HIDE DEF Ahead
<1>6. \A i \in D : Place(lines, i) \in D
  BY <1>1, <1>3, <1>4
<1>7. ASSUME NEW i \in D, NEW j \in D, Place(lines, i) = Place(lines, j)
      PROVE  i = j
  <2>1. SUFFICES ASSUME i # j PROVE FALSE
    OBVIOUS
  <2>2. Before(lines, i, j) \/ Before(lines, j, i)
    BY <1>2, <2>1
  <2>3. Cardinality(Ahead(i)) # Cardinality(Ahead(j))
    BY <1>4, <1>5, <2>2
  <2>4. QED  BY <1>3, <1>4, <1>7, <2>3
<1>8. place \in Injection(D, D)
  BY <1>6, <1>7 DEF Injection, IsInjective
<1> HIDE DEF place
<1>9. place \in Surjection(D, D)
  BY <1>1, <1>8, FS_Injection
<1>10. \A k \in D : \E i \in D : Place(lines, i) = k
  BY <1>9 DEF Surjection, place
<1>11. QED  BY <1>6, <1>7, <1>10

\* The same elements in another order.
Reordered(s, t) ==
    \E o \in Bijection(DOMAIN s, DOMAIN s) : t = [k \in DOMAIN s |-> s[o[k]]]

\* Sorting the lines of a bill changes their order only.
LEMMA InOrderReorders ==
    ASSUME NEW lines, Modelled(lines)
    PROVE  Reordered(lines, InOrder(lines))
<1> DEFINE D == DOMAIN lines
           o == [k \in D |-> CHOOSE i \in D : Place(lines, i) = k]
<1>1. \A k \in D : o[k] \in D /\ Place(lines, o[k]) = k
  BY PlacesAreTaken
<1>2. o \in Injection(D, D)
  BY <1>1 DEF Injection, IsInjective
<1>3. IsFiniteSet(D)
  BY Indices DEF Modelled
<1>4. InOrder(lines) = [k \in D |-> lines[o[k]]]
  BY DEF InOrder
<1> HIDE DEF o
<1>5. o \in Surjection(D, D)
  BY <1>2, <1>3, FS_Injection
<1>6. QED  BY <1>2, <1>4, <1>5 DEF Reordered, Bijection

-----------------------------------------------------------------------------
(* Meters.                                                                 *)

ValueOf(es) == [e \in es |-> e.value]
Numbered(es) == IsFiniteSet(es) /\ \A e \in es : e.value \in Int

\* The sum of a meter is a sum.
LEMMA ValuesIsSum ==
    ASSUME NEW es, Numbered(es)
    PROVE  /\ Summable(ValueOf(es), es)
           /\ Aggregate("sum", es) = SumOf(ValueOf(es), es)
<1> DEFINE f == ValueOf(es)
           P(it) == it = [s \in SUBSET es |->
                            IF s = {} THEN 0
                            ELSE (CHOOSE x \in s : TRUE).value + it[s \ {CHOOSE x \in s : TRUE}]]
           Q(it) == it = [s \in SUBSET es |->
                            IF s = {} THEN 0
                            ELSE f[CHOOSE x \in s : TRUE] + it[s \ {CHOOSE x \in s : TRUE}]]
           it == CHOOSE it : P(it)
<1>1. Summable(f, es) /\ \A e \in es : f[e] = e.value
  BY DEF Summable, Numbered, ValueOf
<1>2. \A i : P(i) <=> Q(i)
  <2>1. \A s \in SUBSET es : s # {} => f[CHOOSE x \in s : TRUE] = (CHOOSE x \in s : TRUE).value
    BY <1>1
  <2> HIDE DEF f
  <2>2. QED  BY <2>1
<1>3. (\E i : Q(i)) /\ \A i : Q(i) => i[es] = SumOf(f, es)
  BY <1>1, ChoiceAdds
<1>4. Aggregate("sum", es) = it[es]
  BY DEF Aggregate, MapThenSumSet, MapThenFoldSet
<1> HIDE DEF P, Q
<1>5. P(it)
  BY <1>2, <1>3, Zenon
<1>6. QED  BY <1>1, <1>2, <1>3, <1>4, <1>5

\* Finitely many events have finitely many values.
LEMMA ValuesFinite ==
    ASSUME NEW es, IsFiniteSet(es)
    PROVE  IsFiniteSet(Values(es)) /\ Cardinality(Values(es)) \in Nat
           /\ (es # {} => Values(es) # {})
<1> DEFINE v == [e \in es |-> e.value]
<1>1. v \in Surjection(es, Values(es))
  BY DEF Surjection, Values
<1>2. IsFiniteSet(Values(es))
  BY <1>1, FS_Surjection
<1>3. QED  BY <1>2, FS_CardinalityType DEF Values

\* What a meter reads is a number.
LEMMA AggregateType ==
    ASSUME NEW agg \in Aggregations, NEW es, IsFiniteSet(es), \A e \in es : EventOK(e),
           Readable(agg, es)
    PROVE  Aggregate(agg, es) \in Int
<1>1. CASE agg = "count"
  BY <1>1, FS_CardinalityType DEF Aggregate
<1>2. CASE agg = "sum"
  <2>1. Numbered(es)
    BY <1>2 DEF Readable, EventOK, Numbered
  <2>2. QED  BY <1>2, <2>1, ValuesIsSum, SumType
<1>3. CASE agg = "max"
  <2>1. CASE es = {}
    BY <1>3, <2>1 DEF Aggregate
  <2>2. CASE es # {}
    <3>1. Values(es) \in SUBSET Int /\ IsFiniteSet(Values(es)) /\ Values(es) # {}
      BY <1>3, <2>2, ValuesFinite DEF Readable, EventOK, Values
    <3>2. Max(Values(es)) \in Int
      BY <3>1, MaxIsGreatest
    <3>3. QED  BY <1>3, <2>2, <3>2 DEF Aggregate
  <2>3. QED  BY <2>1, <2>2
<1>4. CASE agg = "unique"
  BY <1>4, ValuesFinite DEF Aggregate
<1>5. QED  BY <1>1, <1>2, <1>3, <1>4 DEF Aggregations

\* A window cut in two counts every event once.
LEMMA WindowSplits ==
    ASSUME NEW log, IsFiniteSet(log), \A e \in log : EventOK(e), NEW code,
           NEW from \in Int, NEW to \in Int, NEW cut \in from..to,
           NEW agg \in {"sum", "count"}, Readable(agg, InWindow(log, code, from, to))
    PROVE  Aggregate(agg, InWindow(log, code, from, to))
             = Aggregate(agg, InWindow(log, code, from, cut))
                 + Aggregate(agg, InWindow(log, code, cut, to))
<1> DEFINE A == InWindow(log, code, from, cut)
           B == InWindow(log, code, cut, to)
           C == InWindow(log, code, from, to)
<1>1. C = A \cup B /\ A \cap B = {} /\ C \in SUBSET log
  BY DEF InWindow, EventOK
<1>2. A \in SUBSET C /\ B \in SUBSET C /\ A \in SUBSET log /\ B \in SUBSET log
  BY <1>1
<1> HIDE DEF A, B, C
<1>3. IsFiniteSet(A) /\ IsFiniteSet(B) /\ IsFiniteSet(C)
  BY <1>1, <1>2, FS_Subset
<1>4. CASE agg = "count"
  <2>1. Cardinality(A \cap B) = 0 /\ Cardinality(A) \in Nat /\ Cardinality(B) \in Nat
    BY <1>1, <1>3, FS_EmptySet, FS_CardinalityType
  <2>2. Cardinality(A \cup B) = Cardinality(A) + Cardinality(B) - Cardinality(A \cap B)
    BY <1>3, FS_Union
  <2>3. Cardinality(C) = Cardinality(A) + Cardinality(B)
    BY <1>1, <2>1, <2>2
  <2>4. QED  BY <1>4, <2>3 DEF Aggregate, A, B, C
<1>5. CASE agg = "sum"
  <2>1. Numbered(C) /\ Numbered(A) /\ Numbered(B)
    <3>1. \A e \in C : e.value \in Int
      BY <1>1, <1>5 DEF Readable, EventOK, C
    <3>2. QED  BY <1>2, <1>3, <3>1 DEF Numbered
  <2> DEFINE f == ValueOf(C)
             inA == [e \in C |-> IF e \in A THEN f[e] ELSE 0]
             inB == [e \in C |-> IF e \in B THEN f[e] ELSE 0]
  <2>2. Summable(f, C) /\ \A e \in C : f[e] = e.value
    BY <2>1, ValuesIsSum DEF ValueOf
  <2>3. /\ Summable(inA, C) /\ Summable(inB, C)
        /\ \A e \in C : f[e] = inA[e] + inB[e]
    <3>1. \A e \in C : f[e] \in Int /\ (e \in A \/ e \in B) /\ ~(e \in A /\ e \in B)
      BY <1>1, <2>2 DEF Summable
    <3> HIDE DEF f
    <3>2. \A e \in C : inA[e] \in Int /\ inB[e] \in Int
      BY <3>1
    <3>3. \A e \in C : f[e] = inA[e] + inB[e]
      BY <3>1
    <3>4. QED  BY <1>3, <3>2, <3>3 DEF Summable
  <2>4. /\ \A e \in C \ A : inA[e] = 0
        /\ \A e \in C \ B : inB[e] = 0
        /\ \A e \in A : inA[e] = ValueOf(A)[e]
        /\ \A e \in B : inB[e] = ValueOf(B)[e]
    BY <1>2, <2>2 DEF ValueOf
  <2> HIDE DEF f, inA, inB
  <2>5. SumOf(f, C) = SumOf(inA, C) + SumOf(inB, C)
    BY <2>2, <2>3, SumPlus
  <2>6. SumOf(inA, C) = SumOf(inA, A) /\ SumOf(inB, C) = SumOf(inB, B)
    BY <1>2, <2>3, <2>4, SumWithoutZeros
  <2>7. SumOf(inA, A) = SumOf(ValueOf(A), A)
    <3>1. Summable(inA, A) /\ Summable(ValueOf(A), A)
      BY <1>2, <2>1, <2>3, SumPart, ValuesIsSum
    <3>2. QED  BY <2>4, <3>1, SumSame
  <2>8. SumOf(inB, B) = SumOf(ValueOf(B), B)
    <3>1. Summable(inB, B) /\ Summable(ValueOf(B), B)
      BY <1>2, <2>1, <2>3, SumPart, ValuesIsSum
    <3>2. QED  BY <2>4, <3>1, SumSame
  <2>9. QED  BY <1>5, <2>1, <2>5, <2>6, <2>7, <2>8, ValuesIsSum DEF f, A, B, C
<1>6. QED  BY <1>4, <1>5

-----------------------------------------------------------------------------
(* The smaller and the greater of two; the least of many.                  *)

\* The less and the greater of two numbers.
LEMMA TwoNumbers ==
    ASSUME NEW a \in Int, NEW b \in Int
    PROVE  /\ Min({a, b}) = IF a <= b THEN a ELSE b
           /\ Max({a, b}) = IF a >= b THEN a ELSE b
<1>1. \E x \in {a, b} : \A y \in {a, b} : x =< y
  OBVIOUS
<1>2. Min({a, b}) \in {a, b} /\ \A y \in {a, b} : Min({a, b}) =< y
  BY <1>1 DEF Min
<1>3. \E x \in {a, b} : \A y \in {a, b} : x >= y
  OBVIOUS
<1>4. Max({a, b}) \in {a, b} /\ \A y \in {a, b} : Max({a, b}) >= y
  BY <1>3 DEF Max
<1>5. QED  BY <1>2, <1>4

\* A finite set of numbers has a least one.
LEMMA MinIsLeast ==
    ASSUME NEW S \in SUBSET Int, IsFiniteSet(S), S # {}
    PROVE  Min(S) \in S /\ \A y \in S : Min(S) =< y
<1> DEFINE neg == [x \in S |-> -x]
           T == {-x : x \in S}
<1>1. neg \in Surjection(S, T)
  BY DEF Surjection
<1>2. IsFiniteSet(T) /\ T \in SUBSET Int /\ T # {}
  <2>1. T \in SUBSET Int /\ T # {}
    <3>1. \A y \in T : y \in Int
      <4>1. \A x \in S : -x \in Int
        OBVIOUS
      <4>2. SUFFICES ASSUME NEW y \in T PROVE y \in Int
        OBVIOUS
      <4>3. PICK x \in S : y = -x
        OBVIOUS
      <4>4. QED  BY <4>1, <4>3
    <3>2. PICK x \in S : TRUE
      OBVIOUS
    <3>3. -x \in T
      OBVIOUS
    <3> HIDE DEF T
    <3>4. QED  BY <3>1, <3>3
  <2> HIDE DEF neg, T
  <2>2. IsFiniteSet(T)
    BY <1>1, FS_Surjection
  <2>3. QED  BY <2>1, <2>2
<1>3. Max(T) \in T /\ \A y \in T : Max(T) >= y
  BY <1>2, MaxIsGreatest
<1>4. PICK x \in S : Max(T) = -x
  BY <1>3
<1>5. \A y \in S : x =< y
  <2>1. \A y \in S : -y \in T
    OBVIOUS
  <2> HIDE DEF T
  <2>2. QED  BY <1>3, <1>4, <2>1
<1>6. QED  BY <1>5 DEF Min

-----------------------------------------------------------------------------
(* Fractions of a period.                                                  *)

\* Division as multiplication says it.
LEMMA Quotient ==
    ASSUME NEW n \in Nat, NEW d \in Nat \ {0}
    PROVE  n \div d \in Nat /\ d * (n \div d) <= n /\ n < d * (n \div d) + d
OBVIOUS

\* A fraction is within half a part of the scale of what it stands for.
LEMMA FractionBounds ==
    ASSUME NEW part \in Nat, NEW whole \in Nat \ {0}, part <= whole
    PROVE  /\ Fraction(part, whole) \in 0..Scale
           /\ 2 * (whole * Fraction(part, whole)) <= 2 * (part * Scale) + whole
           /\ 2 * (part * Scale) < 2 * (whole * Fraction(part, whole)) + whole
<1> DEFINE n == 2 * part * Scale + whole
           d == 2 * whole
           f == Fraction(part, whole)
<1>1. n \in Nat /\ d \in Nat \ {0} /\ f = n \div d
  BY DEF Fraction, Scale
<1> HIDE DEF n, d, f
<1>2. f \in Nat /\ d * f <= n /\ n < d * f + d
  BY <1>1, Quotient
<1>3. n = 2 * (part * Scale) + whole /\ d * f = 2 * (whole * f)
  BY <1>2 DEF n, d, Scale
<1>4. 2 * (whole * f) <= 2 * (part * Scale) + whole /\ 2 * (part * Scale) < 2 * (whole * f) + whole
  BY <1>2, <1>3 DEF d, Scale
<1>5. f <= Scale
  <2>1. SUFFICES ASSUME f >= Scale + 1 PROVE FALSE
    BY <1>2 DEF Scale
  <2>2. whole * f >= whole * (Scale + 1) /\ part * Scale <= whole * Scale
    BY <1>2, <2>1 DEF Scale
  <2>3. whole * (Scale + 1) = whole * Scale + whole
    BY DEF Scale
  <2>4. QED  BY <1>2, <1>4, <2>2, <2>3 DEF Scale
<1>6. f \in Nat
  BY <1>2
<1>7. f \in 0..Scale
  BY <1>5, <1>6
<1>8. QED  BY <1>4, <1>7 DEF f

\* A greater part has no smaller fraction.
LEMMA FractionGrows ==
    ASSUME NEW part \in Nat, NEW more \in Nat, NEW whole \in Nat \ {0},
           part <= more, more <= whole
    PROVE  Fraction(part, whole) <= Fraction(more, whole)
<1> DEFINE f == Fraction(part, whole)
           g == Fraction(more, whole)
           n == 2 * part * Scale + whole
           m == 2 * more * Scale + whole
           d == 2 * whole
<1>1. n \in Nat /\ m \in Nat /\ d \in Nat \ {0} /\ n <= m /\ f = n \div d /\ g = m \div d
  BY DEF Fraction, Scale
<1> HIDE DEF n, m, d, f, g
<1>2. f \in Nat /\ g \in Nat /\ d * f <= n /\ m < d * g + d
  BY <1>1, Quotient
<1>3. SUFFICES ASSUME f >= g + 1 PROVE FALSE
  BY <1>2 DEF f, g
<1>4. d * f >= d * (g + 1) /\ d * (g + 1) = d * g + d
  BY <1>1, <1>2, <1>3
<1>5. QED  BY <1>1, <1>2, <1>4

-----------------------------------------------------------------------------
(* Tiers.                                                                  *)

Purses == [total : Int, left : Int, lower : Int]
FullPurse(q) == [total |-> 0, left |-> q, lower |-> 0]

\* A tier's step of the graduated price leaves integers.
LEMMA TierTakesType ==
    ASSUME NEW acc \in Purses, NEW t \in Tiers
    PROVE  TierTakes(acc, t) \in Purses
<1> DEFINE n == IF t.upTo = Unbounded THEN acc.left ELSE Min({acc.left, t.upTo - acc.lower})
<1>1. acc.left \in Int /\ acc.lower \in Int /\ acc.total \in Int /\ t.upTo \in Int
      /\ t.unit \in Int /\ t.flat \in Int
  BY DEF Purses, Tiers
<1>2. n \in Int
  BY <1>1, TwoNumbers
<1>3. TierTakes(acc, t) = IF n <= 0 THEN acc
        ELSE [total |-> acc.total + n * t.unit + t.flat, left |-> acc.left - n, lower |-> t.upTo]
  BY DEF TierTakes
<1> HIDE DEF n
<1>4. acc.total + n * t.unit + t.flat \in Int /\ acc.left - n \in Int
  BY <1>1, <1>2
<1>5. QED  BY <1>1, <1>3, <1>4 DEF Purses

\* The graduated price takes the tiers one by one, from the first.
LEMMA GraduatedRuns ==
    ASSUME NEW tiers \in Seq(Tiers), NEW q \in Int
    PROVE  \E g \in [0..Len(tiers) -> Purses] :
              /\ g[0] = FullPurse(q)
              /\ \A k \in 1..Len(tiers) : g[k] = TierTakes(g[k - 1], tiers[k])
              /\ Graduated(tiers, q) = g[Len(tiers)].total
<1> DEFINE D == DOMAIN tiers
           step == [x \in Purses \X D |-> TierTakes(x[1], tiers[x[2]])]
           P(j) == j = [s \in SUBSET D |->
                          IF s = {} THEN FullPurse(q)
                          ELSE TierTakes(j[s \ {Max(s)}], tiers[Max(s)])]
           it == CHOOSE j : P(j)
<1>1. D = 1..Len(tiers) /\ Len(tiers) \in Nat /\ D \in SUBSET Int /\ IsFiniteSet(D)
  BY FS_Interval
<1>2. \A k \in D : tiers[k] \in Tiers
  OBVIOUS
<1>3. \A s \in SUBSET D : s # {} => Max(s) \in s /\ s \ {Max(s)} \in SUBSET D
  BY <1>1, FS_Subset, MaxIsGreatest
<1>4. step \in [Purses \X D -> Purses]
  <2>1. ASSUME NEW x \in Purses \X D
        PROVE  TierTakes(x[1], tiers[x[2]]) \in Purses
    BY <1>2, TierTakesType
  <2> HIDE DEF D
  <2>2. QED  BY <2>1
<1>5. FullPurse(q) \in Purses
  BY DEF FullPurse, Purses
<1>6. PICK h \in [SUBSET D -> Purses] : Runs(h, step, FullPurse(q), D)
  <2> HIDE DEF D, step
  <2>1. QED  BY <1>1, <1>4, <1>5, FoldExists
<1>7. ASSUME NEW s \in SUBSET D, s # {}
      PROVE  h[s] = TierTakes(h[s \ {Max(s)}], tiers[Max(s)])
  <2>1. Max(s) \in s /\ s \ {Max(s)} \in SUBSET D
    BY <1>3, <1>7
  <2>2. <<h[s \ {Max(s)}], Max(s)>> \in Purses \X D
    BY <1>6, <1>7, <2>1
  <2>3. h[s] = step[<<h[s \ {Max(s)}], Max(s)>>]
    BY <1>6, <1>7 DEF Runs
  <2>4. QED  BY <2>2, <2>3
<1>8. h[{}] = FullPurse(q)
  BY <1>6 DEF Runs
<1>9. P(h)
  <2> HIDE DEF D
  <2>1. QED  BY <1>6, <1>7, <1>8
<1>10. ASSUME NEW j, P(j)
       PROVE  j[D] = h[D]
  <2> DEFINE Q == {s \in SUBSET D : j[s] # h[s]}
  <2>1. SUFFICES ASSUME Q # {} PROVE FALSE
    OBVIOUS
  <2>2. PICK s \in Q : Smallest(s, Q)
    <3>1. Family(Q, D)
      BY <1>1, <2>1 DEF Family
    <3> HIDE DEF Q
    <3>2. QED  BY <3>1, SmallestSubset
  <2>3. s # {}
    BY <1>8, <1>10, <2>2
  <2>4. j[s] = TierTakes(j[s \ {Max(s)}], tiers[Max(s)])
    BY <1>10, <2>2, <2>3
  <2> HIDE <1>10
  <2>5. Max(s) \in s /\ s \ {Max(s)} \in SUBSET D
    BY <1>3, <2>2, <2>3
  <2>6. j[s \ {Max(s)}] = h[s \ {Max(s)}]
    BY <2>2, <2>5 DEF Smallest
  <2>7. QED  BY <1>7, <2>2, <2>3, <2>4, <2>6
<1>11. Graduated(tiers, q) = it[D].total
  BY DEF Graduated, FoldLeft, MapThenFoldSet, FullPurse
<1>12. P(it)
  <2> HIDE DEF P
  <2>1. QED  BY <1>9, Zenon
<1>13. Graduated(tiers, q) = h[D].total
  <2> HIDE DEF P, it
  <2>1. QED  BY <1>10, <1>11, <1>12
<1> DEFINE g == [k \in 0..Len(tiers) |-> h[1..k]]
<1>14. \A k \in 0..Len(tiers) : 1..k \in SUBSET D
  BY <1>1
<1>15. g \in [0..Len(tiers) -> Purses]
  BY <1>6, <1>14
<1>16. g[0] = FullPurse(q)
  <2>1. 1..0 = {} /\ 0 \in 0..Len(tiers)
    BY <1>1
  <2>2. QED  BY <1>8, <2>1
<1>17. ASSUME NEW k \in 1..Len(tiers)
       PROVE  g[k] = TierTakes(g[k - 1], tiers[k])
  <2>1. k \in Int /\ k - 1 \in 0..Len(tiers) /\ k \in 0..Len(tiers) /\ k \in 1..k
    BY <1>1
  <2>2. IsFiniteSet(1..k) /\ 1..k \in SUBSET Int /\ 1..k # {}
    <3>1. IsFiniteSet(1..k)
      BY <2>1, FS_Interval
    <3>2. \A x \in 1..k : x \in Int
      OBVIOUS
    <3>3. 1..k # {}
      BY <2>1, Zenon
    <3>4. QED  BY <3>1, <3>2, <3>3
  <2>3. Max(1..k) \in 1..k /\ \A y \in 1..k : Max(1..k) >= y
    BY <2>2, MaxIsGreatest
  <2>4. Max(1..k) = k
    BY <2>1, <2>3
  <2>5. (1..k) \ {k} = 1..(k - 1)
    BY <2>1
  <2>6. h[1..k] = TierTakes(h[1..(k - 1)], tiers[k])
    BY <1>7, <1>14, <2>1, <2>2, <2>4, <2>5
  <2>7. QED  BY <2>1, <2>6
<1>18. g[Len(tiers)] = h[D]
  BY <1>1
<1> HIDE DEF g, D
<1>19. QED  BY <1>13, <1>15, <1>16, <1>17, <1>18

\* The volume price is that of the first tier that holds the quantity.
LEMMA VolumeTier ==
    ASSUME NEW tiers \in Seq(Tiers), NEW q \in Int, LadderOK(tiers)
    PROVE  \E i \in DOMAIN tiers :
              /\ Volume(tiers, q) = q * tiers[i].unit + tiers[i].flat
              /\ tiers[i].upTo = Unbounded \/ q <= tiers[i].upTo
              /\ \A j \in DOMAIN tiers :
                    j < i => ~(tiers[j].upTo = Unbounded \/ q <= tiers[j].upTo)
<1> DEFINE I == {i \in 1..Len(tiers) : tiers[i].upTo = Unbounded \/ q <= tiers[i].upTo}
<1>1. DOMAIN tiers = 1..Len(tiers) /\ Len(tiers) \in Nat
  OBVIOUS
<1>2. Len(tiers) \in I
  <2>1. tiers # <<>> /\ tiers[Len(tiers)].upTo = Unbounded
    BY DEF LadderOK, Last
  <2>2. QED  BY <1>1, <2>1
<1>3. I \in SUBSET (1..Len(tiers)) /\ I \in SUBSET Int
  OBVIOUS
<1>4. IsFiniteSet(I)
  <2> HIDE DEF I
  <2>1. IsFiniteSet(1..Len(tiers))
    BY <1>1, FS_Interval
  <2>2. QED  BY <1>3, <2>1, FS_Subset
<1>5. Volume(tiers, q) = q * tiers[Min(I)].unit + tiers[Min(I)].flat
  BY <1>2 DEF Volume, SelectInSeq
<1>6. Min(I) \in I /\ \A y \in I : Min(I) =< y
  <2> HIDE DEF I
  <2>1. QED  BY <1>2, <1>3, <1>4, MinIsLeast
<1> DEFINE i == Min(I)
<1>7. i \in DOMAIN tiers /\ (tiers[i].upTo = Unbounded \/ q <= tiers[i].upTo)
  BY <1>1, <1>6
<1>8. ASSUME NEW j \in DOMAIN tiers, j < i, tiers[j].upTo = Unbounded \/ q <= tiers[j].upTo
      PROVE  FALSE
  <2>1. j \in I /\ j \in Int
    BY <1>1, <1>8
  <2>2. i =< j /\ i \in Int
    BY <1>1, <1>6, <1>7, <2>1
  <2> HIDE DEF i, I
  <2>3. QED  BY <1>8, <2>1, <2>2
<1>9. QED  BY <1>5, <1>7, <1>8

-----------------------------------------------------------------------------
(* Charges.                                                                *)

ModelNames == {"flat", "package", "per_unit", "percentage", "tiered_graduated", "tiered_volume"}
\* The models by name.
LEMMA ModelsNamed == ToSet(Models) = ModelNames
BY DEF ToSet, Models, ModelNames

\* The fields of a price.
LEMMA PriceFields ==
    ASSUME NEW codes, NEW p \in PricesOn(codes)
    PROVE  /\ p.code \in codes /\ p.model \in ModelNames /\ p.tiers \in Seq(Tiers)
           /\ p.unit \in Int /\ p.flat \in Int /\ p.size \in Int /\ p.percent \in Int
           /\ p.minimum \in Int /\ p.maximum \in Int
BY ModelsNamed DEF PricesOn

\* The price before floor and cap is an integer, for every model.
LEMMA BaseType ==
    ASSUME NEW codes, NEW p \in PricesOn(codes), NEW q \in Nat, Priceable(p)
    PROVE  Base(p, q) \in Int
<1>0. /\ p.model \in ModelNames /\ p.tiers \in Seq(Tiers)
      /\ p.unit \in Int /\ p.flat \in Int /\ p.size \in Int /\ p.percent \in Int
      /\ q \in Int
  BY PriceFields
<1>1. CASE p.model \in {"flat", "per_unit", "percentage"}
  BY <1>0, <1>1 DEF Base, Percentage
<1>2. CASE p.model = "package"
  <2>1. p.size \in Nat \ {0} /\ q + p.size - 1 \in Nat
    BY <1>0, <1>2 DEF Priceable
  <2>2. (q + p.size - 1) \div p.size \in Nat
    BY <2>1, Quotient
  <2>3. Base(p, q) = p.unit * ((q + p.size - 1) \div p.size)
    BY <1>2 DEF Base, Package
  <2>4. QED  BY <1>0, <2>2, <2>3
<1>3. CASE p.model = "tiered_graduated"
  <2>1. PICK g \in [0..Len(p.tiers) -> Purses] : Graduated(p.tiers, q) = g[Len(p.tiers)].total
    BY <1>0, GraduatedRuns
  <2>2. g[Len(p.tiers)] \in Purses
    BY <1>0, <2>1
  <2>3. QED  BY <1>3, <2>1, <2>2 DEF Base, Purses
<1>4. CASE p.model = "tiered_volume"
  <2>1. LadderOK(p.tiers)
    BY <1>4 DEF Priceable
  <2>2. PICK i \in DOMAIN p.tiers :
           Volume(p.tiers, q) = q * p.tiers[i].unit + p.tiers[i].flat
    BY <1>0, <2>1, VolumeTier
  <2>3. p.tiers[i] \in Tiers
    BY <1>0
  <2>4. QED  BY <1>4, <2>2, <2>3 DEF Base, Tiers
<1>5. QED  BY <1>0, <1>1, <1>2, <1>3, <1>4 DEF ModelNames

\* And so it is after them.
LEMMA ChargeType ==
    ASSUME NEW codes, NEW p \in PricesOn(codes), NEW q \in Nat, Priceable(p)
    PROVE  Charge(p, q) \in Int
BY BaseType, PriceFields DEF Charge, Bounded

\* A proration factor is between nothing and the whole.
LEMMA ProrationType ==
    ASSUME NEW start \in Int, NEW end \in Int, NEW started \in Int, start < end
    PROVE  ProrationFactor(start, end, started) \in 0..Scale
<1> DEFINE m == Max({start, started})
           overlap == end - m
<1>1. m \in Int /\ m >= start
  BY TwoNumbers
<1>2. CASE overlap <= 0
  <2>1. ~(overlap >= end - start)
    BY <1>1, <1>2
  <2>2. ProrationFactor(start, end, started) = 0
    BY <1>2, <2>1 DEF ProrationFactor
  <2>3. QED  BY <2>2 DEF Scale
<1>3. CASE overlap >= end - start
  <2>1. ~(overlap <= 0)
    BY <1>1, <1>3
  <2>2. ProrationFactor(start, end, started) = Scale
    BY <1>3, <2>1 DEF ProrationFactor
  <2>3. QED  BY <2>2 DEF Scale
<1>4. CASE overlap > 0 /\ overlap < end - start
  <2>1. overlap \in Nat /\ end - start \in Nat \ {0} /\ overlap <= end - start
    BY <1>1, <1>4
  <2>2. Fraction(overlap, end - start) \in 0..Scale
    BY <2>1, FractionBounds
  <2>3. ProrationFactor(start, end, started) = Fraction(overlap, end - start)
    <3>1. ~(overlap <= 0) /\ ~(overlap >= end - start)
      BY <1>1, <1>4
    <3>2. QED  BY <3>1 DEF ProrationFactor
  <2>4. QED  BY <2>2, <2>3
<1>5. QED  BY <1>1, <1>2, <1>3, <1>4

-----------------------------------------------------------------------------
(* Bills.                                                                  *)

\* What a bill that can be computed is computed from.
Books(codes, sub, prices, meters, log) ==
    /\ sub.start \in Int /\ sub.end \in Int /\ sub.started \in Int
    /\ prices \in Seq(PricesOn(codes)) /\ prices # <<>>
    /\ meters \in [codes -> Aggregations \cup {NoMeter}]
    /\ IsFiniteSet(log) /\ \A e \in log : EventOK(e)
    /\ Computable(sub, prices, meters, log)

Whole(a, c) == \E k \in Int : a = k * Unit(c)

\* An amount in whole minor units is left alone by rounding.
LEMMA WholeType ==
    ASSUME NEW a, NEW c, Whole(a, c)
    PROVE  /\ a \in Int
           /\ RoundDown(a, 1, c) = a
           /\ MinorUnits(a, c) \in Int /\ MinorUnits(a, c) * Unit(c) = a
<1>1. PICK k \in Int : a = k * Unit(c)
  BY DEF Whole
<1>2. a \in Int /\ a = (k * Unit(c)) * 1
  BY <1>1, UnitType
<1>3. RoundDown(a, 1, c) = a
  BY <1>1, <1>2, RoundDownKeeps DEF Denominators
<1>4. (k * Unit(c)) \div Unit(c) = k
  BY UnitType
<1>5. MinorUnits(a, c) = k
  BY <1>1, <1>3, <1>4 DEF MinorUnits
<1>6. QED  BY <1>1, <1>2, <1>3, <1>5

\* The events and the quantity that a price of a computable bill reads.
LEMMA MetersRead ==
    ASSUME NEW codes, NEW sub, NEW prices, NEW meters, NEW log,
           Books(codes, sub, prices, meters, log), NEW i \in DOMAIN prices
    PROVE  LET p  == prices[i]
               es == Events(p, sub, log)
           IN /\ p \in PricesOn(codes) /\ p.currency = prices[1].currency /\ Priceable(p)
              /\ es \in SUBSET log /\ IsFiniteSet(es) /\ Cardinality(es) \in Nat
              /\ p.model # "flat" => /\ meters[p.code] \in Aggregations
                                     /\ Readable(meters[p.code], es)
                                     /\ Aggregate(meters[p.code], es) \in Nat
<1> DEFINE p  == prices[i]
           es == Events(p, sub, log)
<1>1. p \in PricesOn(codes) /\ p.code \in codes
  BY PriceFields DEF Books
<1>2. p.currency = prices[1].currency /\ Priceable(p)
  BY DEF Books, Computable
<1>3. es \in SUBSET log
  BY DEF Events, InWindow
<1>4. IsFiniteSet(es) /\ Cardinality(es) \in Nat /\ \A e \in es : EventOK(e)
  BY <1>3, FS_Subset, FS_CardinalityType DEF Books
<1>5. ASSUME p.model # "flat"
      PROVE  /\ meters[p.code] \in Aggregations
             /\ Readable(meters[p.code], es)
             /\ Aggregate(meters[p.code], es) \in Nat
  <2>1. /\ meters[p.code] # NoMeter /\ Readable(meters[p.code], es)
        /\ Aggregate(meters[p.code], es) >= 0
    BY <1>5 DEF Books, Computable
  <2>2. meters[p.code] \in Aggregations
    BY <1>1, <2>1 DEF Books
  <2>3. Aggregate(meters[p.code], es) \in Int
    BY <1>4, <2>1, <2>2, AggregateType
  <2>4. QED  BY <2>1, <2>2, <2>3
<1>6. QED  BY <1>1, <1>2, <1>3, <1>4, <1>5

\* The line of a price: its code and model, and a whole amount.
LEMMA PricedLineType ==
    ASSUME NEW codes, NEW sub, NEW prices, NEW meters, NEW log,
           Books(codes, sub, prices, meters, log), NEW i \in DOMAIN prices
    PROVE  LET p == prices[i]
               l == PricedLine(p, sub, meters, log)
           IN /\ l.code = p.code /\ l.model = p.model
              /\ Whole(l.amount, prices[1].currency)
<1> DEFINE p == prices[i]
           es == Events(p, sub, log)
           q == Aggregate(meters[p.code], es)
           f == ProrationFactor(sub.start, sub.end, sub.started)
           c == prices[1].currency
<1>1. p \in PricesOn(codes) /\ p.currency = c /\ Priceable(p)
      /\ (p.model # "flat" => q \in Nat)
  BY MetersRead
<1>2. CASE p.model = "flat"
  <2>1. f \in Int
    BY ProrationType DEF Books, Computable
  <2>2. Charge(p, 1) \in Int
    BY <1>1, ChargeType
  <2>3. Charge(p, 1) * f \in Int
    BY <2>1, <2>2
  <2>4. Whole(RoundDown(Charge(p, 1) * f, Scale, c), c)
    BY <2>3, RoundDownIsWhole DEF Denominators, Whole
  <2>5. PricedLine(p, sub, meters, log) =
          [code |-> p.code, model |-> p.model, count |-> 0, qty |-> 1, price |-> UnitPrice(p),
           amount |-> RoundDown(Charge(p, 1) * f, Scale, p.currency)]
    BY <1>2 DEF PricedLine, FlatLine
  <2> HIDE DEF f
  <2>6. QED  BY <1>1, <2>4, <2>5
<1>3. CASE p.model # "flat"
  <2>1. Charge(p, q) \in Int
    BY <1>1, <1>3, ChargeType
  <2>2. Whole(RoundDown(Charge(p, q), 1, c), c)
    BY <2>1, RoundDownIsWhole DEF Denominators, Whole
  <2>3. PricedLine(p, sub, meters, log) =
          [code |-> p.code, model |-> p.model, count |-> Cardinality(es), qty |-> q,
           price |-> UnitPrice(p), amount |-> RoundDown(Charge(p, q), 1, p.currency)]
    BY <1>3 DEF PricedLine, UsageLine
  <2> HIDE DEF q, es
  <2>4. QED  BY <1>1, <2>2, <2>3
<1>4. QED  BY <1>2, <1>3

WholeLines(lines, c) ==
    lines \in Seq(Range(lines)) /\ \A i \in DOMAIN lines : Whole(lines[i].amount, c)

\* A function on 1..n is a sequence.
LEMMA SequenceOf ==
    ASSUME NEW n \in Nat, NEW f, f = [i \in DOMAIN f |-> f[i]], DOMAIN f = 1..n
    PROVE  f \in Seq(Range(f)) /\ Len(f) = n
BY DEF Range

\* Lines in whole minor units have integer amounts.
LEMMA WholeLinesBilled ==
    ASSUME NEW lines, NEW c, WholeLines(lines, c)
    PROVE  IsBilled(lines)
BY WholeType DEF WholeLines, IsBilled

\* Whole amounts have a whole total.
LEMMA TotalIsWhole ==
    ASSUME NEW lines, NEW c, WholeLines(lines, c)
    PROVE  Whole(Total(lines), c)
<1> DEFINE D == DOMAIN lines
           f == AmountAt(lines)
           g == [i \in D |-> CHOOSE k \in Int : f[i] = k * Unit(c)]
<1>1. Summable(f, D) /\ Total(lines) = SumOf(f, D)
  BY WholeLinesBilled, TotalIsSum
<1>2. \A i \in D : g[i] \in Int /\ f[i] = g[i] * Unit(c)
  BY DEF WholeLines, Whole, AmountAt
<1>3. Unit(c) \in Int
  BY UnitType
<1>4. Summable(g, D) /\ \A i \in D : f[i] = Unit(c) * g[i]
  <2>1. \A i \in D : f[i] = Unit(c) * g[i]
    <3> HIDE DEF g, f
    <3>1. QED  BY <1>2, <1>3
  <2>2. DOMAIN g = D
    OBVIOUS
  <2> HIDE DEF g
  <2>3. QED  BY <1>1, <1>2, <2>1, <2>2 DEF Summable
<1> HIDE DEF f, g
<1>5. SumOf(f, D) = Unit(c) * SumOf(g, D) /\ SumOf(g, D) \in Int
  BY <1>1, <1>3, <1>4, SumTimes, SumType
<1>6. Total(lines) = SumOf(g, D) * Unit(c)
  BY <1>1, <1>3, <1>5
<1>7. QED  BY <1>5, <1>6 DEF Whole

\* One line more at the end.
LEMMA TotalAppends ==
    ASSUME NEW lines, NEW c, WholeLines(lines, c), NEW x, Whole(x.amount, c)
    PROVE  /\ WholeLines(Append(lines, x), c)
           /\ Total(Append(lines, x)) = Total(lines) + x.amount
<1> DEFINE n == Len(lines)
           more == Append(lines, x)
           f == AmountAt(lines)
           g == AmountAt(more)
           D == DOMAIN lines
           E == DOMAIN more
<1>1. n \in Nat /\ D = 1..n /\ lines \in Seq(Range(lines))
  BY DEF WholeLines
<1> DEFINE S == Range(lines) \cup {x}
<1>2. lines \in Seq(S) /\ x \in S
  BY <1>1 DEF Range
<1>3. E = 1..(n + 1) /\ more[n + 1] = x /\ (\A i \in D : more[i] = lines[i]) /\ more \in Seq(S)
  <2> HIDE DEF S
  <2>1. QED  BY <1>2
<1>4. more \in Seq(Range(more))
  <2>1. more = [i \in DOMAIN more |-> more[i]] /\ n + 1 \in Nat
    <3> HIDE DEF more, S
    <3>1. QED  BY <1>1, <1>3
  <2> HIDE DEF more, n
  <2>2. QED  BY <1>3, <2>1, SequenceOf
<1>5. \A i \in E : i \in D \/ i = n + 1
  BY <1>1, <1>3
<1> HIDE DEF more, n
<1>6. WholeLines(more, c)
  BY <1>3, <1>4, <1>5 DEF WholeLines
<1>7. Summable(f, D) /\ Total(lines) = SumOf(f, D) /\ Summable(g, E) /\ Total(more) = SumOf(g, E)
  BY <1>6, WholeLinesBilled, TotalIsSum
<1>8. n + 1 \in E /\ E \ {n + 1} = D /\ D \in SUBSET E
  BY <1>1, <1>3
<1>9. SumOf(g, E) = x.amount + SumOf(g, D)
  <2>1. g[n + 1] = x.amount
    BY <1>3, <1>8 DEF AmountAt
  <2> HIDE DEF g, D, E
  <2>2. QED  BY <1>7, <1>8, <2>1, SumSplit
<1>10. SumOf(g, D) = SumOf(f, D)
  <2>1. \A i \in D : g[i] = f[i]
    BY <1>3, <1>8 DEF AmountAt
  <2>2. Summable(g, D)
    BY <1>7, <1>8, SumPart
  <2> HIDE DEF g, f, D
  <2>3. QED  BY <1>7, <2>1, <2>2, SumSame
<1>11. x.amount \in Int /\ SumOf(f, D) \in Int
  BY <1>7, WholeType, SumType
<1>12. Total(more) = Total(lines) + x.amount
  <2> HIDE DEF f, g, D, E
  <2>1. QED  BY <1>7, <1>9, <1>10, <1>11
<1>13. QED  BY <1>6, <1>12 DEF more

\* A bill whose amounts are whole, with its total.
WholeBill(b) ==
    /\ b.start \in Int /\ b.end \in Int /\ b.start < b.end
    /\ WholeLines(b.lines, b.currency) /\ b.lines # <<>>
    /\ b.total = Total(b.lines)

PricedLines(sub, prices, meters, log) ==
    [i \in DOMAIN prices |-> PricedLine(prices[i], sub, meters, log)]

\* The lines of the prices, in another order.
LEMMA PlainLines ==
    ASSUME NEW codes, NEW sub, NEW prices, NEW meters, NEW log,
           Books(codes, sub, prices, meters, log)
    PROVE  LET priced == PricedLines(sub, prices, meters, log)
               lines  == InOrder(priced)
           IN /\ Reordered(priced, lines)
              /\ DOMAIN lines = DOMAIN prices /\ DOMAIN priced = DOMAIN prices
              /\ Len(lines) = Len(prices) /\ Len(lines) \in Nat \ {0}
              /\ WholeLines(lines, prices[1].currency)
<1> DEFINE priced == PricedLines(sub, prices, meters, log)
           lines == InOrder(priced)
           n == Len(prices)
           c == prices[1].currency
<1>1. n \in Nat \ {0} /\ DOMAIN prices = 1..n
  BY DEF Books
<1>2. DOMAIN priced = DOMAIN prices /\ priced = [i \in DOMAIN priced |-> priced[i]]
  BY DEF PricedLines
<1>3. priced \in Seq(Range(priced)) /\ Len(priced) = n
  <2> HIDE DEF priced
  <2>1. QED  BY <1>1, <1>2, SequenceOf
<1>4. \A i \in DOMAIN prices : /\ priced[i].model = prices[i].model
                               /\ prices[i].model \in ToSet(Models)
                               /\ Whole(priced[i].amount, c)
  BY PricedLineType, MetersRead, PriceFields, ModelsNamed DEF PricedLines
<1>5. Reordered(priced, lines)
  BY <1>2, <1>3, <1>4, InOrderReorders DEF Modelled
<1>6. PICK o \in Bijection(DOMAIN priced, DOMAIN priced) :
         lines = [k \in DOMAIN priced |-> priced[o[k]]]
  BY <1>5 DEF Reordered
<1> HIDE DEF lines, priced
<1>7. DOMAIN lines = DOMAIN prices /\ lines = [k \in DOMAIN lines |-> lines[k]]
  BY <1>2, <1>6
<1>8. lines \in Seq(Range(lines)) /\ Len(lines) = n
  BY <1>1, <1>7, SequenceOf
<1>9. \A k \in DOMAIN lines : o[k] \in DOMAIN prices /\ lines[k] = priced[o[k]]
  BY <1>2, <1>6, <1>7 DEF Bijection, Injection
<1>10. WholeLines(lines, c)
  BY <1>4, <1>8, <1>9 DEF WholeLines
<1>11. QED  BY <1>1, <1>2, <1>5, <1>7, <1>8, <1>10 DEF lines, priced

\* Tax is in whole minor units.
LEMMA TaxIsWhole ==
    ASSUME NEW subtotal \in Int, NEW rate \in Int, NEW c
    PROVE  Whole(TaxLine(subtotal, rate, c).amount, c)
BY RoundDownIsWhole DEF TaxLine, Denominators, Whole

\* A bill is the lines of its prices, sorted, with the tax line last if the
\* customer is taxed; its amounts are whole and its total is theirs.
LEMMA BillShape ==
    ASSUME NEW codes, NEW sub, NEW prices, NEW meters, NEW log, NEW rate \in Int,
           Books(codes, sub, prices, meters, log)
    PROVE  LET b == Calculate(sub, prices, meters, log, rate)
               lines == InOrder(PricedLines(sub, prices, meters, log))
               tax == TaxLine(Total(lines), rate, b.currency)
           IN /\ b.currency = prices[1].currency /\ b.start = sub.start /\ b.end = sub.end
              /\ Whole(tax.amount, b.currency)
              /\ b.lines = IF rate > 0 THEN Append(lines, tax) ELSE lines
              /\ b.total = IF rate > 0 THEN Total(lines) + tax.amount ELSE Total(lines)
              /\ WholeBill(b)
<1> DEFINE b == Calculate(sub, prices, meters, log, rate)
           lines == InOrder(PricedLines(sub, prices, meters, log))
           c == prices[1].currency
           tax == TaxLine(Total(lines), rate, c)
           all == IF rate > 0 THEN Append(lines, tax) ELSE lines
<1>1. b = [currency |-> c, start |-> sub.start, end |-> sub.end, lines |-> all,
           total |-> Total(all)]
  BY DEF Calculate, PricedLines
<1>2. WholeLines(lines, c) /\ lines \in Seq(Range(lines)) /\ lines # <<>>
  <2>1. WholeLines(lines, c) /\ Len(lines) \in Nat \ {0}
    BY PlainLines
  <2> HIDE DEF lines
  <2>2. QED  BY <2>1 DEF WholeLines
<1>3. Whole(Total(lines), c) /\ Total(lines) \in Int
  BY <1>2, TotalIsWhole, WholeType
<1>4. Whole(tax.amount, c)
  BY <1>3, TaxIsWhole
<1> HIDE DEF lines, tax
<1>5. /\ WholeLines(Append(lines, tax), c)
      /\ Total(Append(lines, tax)) = Total(lines) + tax.amount
  BY <1>2, <1>4, TotalAppends
<1>6. Append(lines, tax) # <<>>
  <2> DEFINE S == Range(lines) \cup {tax}
  <2>1. lines \in Seq(S) /\ tax \in S
    BY <1>2 DEF Range
  <2> HIDE DEF S
  <2>2. Len(Append(lines, tax)) = Len(lines) + 1 /\ Len(lines) \in Nat
    BY <2>1
  <2>3. Len(Append(lines, tax)) # 0
    BY <2>2
  <2>4. QED  BY <2>3
<1>7. WholeLines(all, c) /\ all # <<>>
      /\ Total(all) = IF rate > 0 THEN Total(lines) + tax.amount ELSE Total(lines)
  BY <1>2, <1>5, <1>6
<1>8. sub.start \in Int /\ sub.end \in Int /\ sub.start < sub.end
  BY DEF Books, Computable
<1>9. WholeBill(b)
  <2> HIDE DEF all
  <2>1. b.start = sub.start /\ b.end = sub.end /\ b.lines = all /\ b.currency = c
        /\ b.total = Total(all)
    BY <1>1
  <2>2. QED  BY <1>7, <1>8, <2>1 DEF WholeBill
<1>10. b.currency = c /\ b.start = sub.start /\ b.end = sub.end /\ b.lines = all
       /\ b.total = Total(all)
  BY <1>1
<1> HIDE DEF b, c
<1>11. QED  BY <1>4, <1>7, <1>9, <1>10 DEF b, lines, tax, c

\* The total of a bill is whole.
LEMMA BillTotal ==
    ASSUME NEW b, WholeBill(b)
    PROVE  Whole(b.total, b.currency) /\ b.total \in Int
BY TotalIsWhole, WholeType DEF WholeBill

-----------------------------------------------------------------------------
(* Revenue recognised.                                                     *)

\* Recognition begins at nothing, ends at all and never goes back.
LEMMA RecognizedParts ==
    ASSUME NEW b, WholeBill(b), NEW t \in Int
    PROVE  /\ RecognizedFraction(b, t) \in 0..Scale
           /\ t <= b.start => RecognizedFraction(b, t) = 0
           /\ t >= b.end => RecognizedFraction(b, t) = Scale
           /\ RecognizedFraction(b, t) <= RecognizedFraction(b, t + 1)
<1> DEFINE Early(s) == s <= b.start
           Late(s) == s >= b.end
           F(s) == RecognizedFraction(b, s)
           whole == b.end - b.start
<1>0. b.start \in Int /\ b.end \in Int /\ b.start < b.end /\ whole \in Nat \ {0}
  BY DEF WholeBill
<1>1. ASSUME NEW s \in Int, Early(s)
      PROVE  F(s) = 0
  <2>1. ~Late(s)
    BY <1>0, <1>1
  <2>2. QED  BY <1>1, <2>1 DEF RecognizedFraction
<1>2. ASSUME NEW s \in Int, Late(s)
      PROVE  F(s) = Scale
  <2>1. ~Early(s)
    BY <1>0, <1>2
  <2>2. QED  BY <1>2, <2>1 DEF RecognizedFraction
<1>3. ASSUME NEW s \in Int, ~Early(s), ~Late(s)
      PROVE  /\ F(s) = Fraction(s - b.start, whole)
             /\ s - b.start \in Nat /\ s - b.start <= whole
  BY <1>0, <1>3 DEF RecognizedFraction
<1>4. 0 \in 0..Scale /\ Scale \in 0..Scale
  BY DEF Scale
<1>5. ASSUME NEW s \in Int
      PROVE  F(s) \in 0..Scale
  <2>1. CASE Early(s)
    BY <1>1, <1>4, <2>1
  <2>2. CASE Late(s)
    BY <1>2, <1>4, <2>2
  <2>3. CASE ~Early(s) /\ ~Late(s)
    BY <1>0, <1>3, <2>3, FractionBounds
  <2>4. QED  BY <2>1, <2>2, <2>3
<1>6. F(t) <= F(t + 1)
  <2>0. t + 1 \in Int
    OBVIOUS
  <2>1. CASE Early(t)
    <3>1. F(t) = 0
      BY <1>1, <2>1
    <3>2. F(t + 1) \in 0..Scale
      BY <1>5, <2>0
    <3> HIDE DEF F
    <3>3. QED  BY <3>1, <3>2
  <2>2. CASE Late(t + 1)
    <3>1. F(t + 1) = Scale
      BY <1>2, <2>0, <2>2
    <3>2. F(t) \in 0..Scale
      BY <1>5
    <3> HIDE DEF F
    <3>3. QED  BY <3>1, <3>2
  <2>3. CASE ~Early(t) /\ ~Late(t + 1)
    <3>1. ~Late(t) /\ ~Early(t + 1)
      BY <1>0, <2>3
    <3> HIDE DEF Early, Late, F, whole
    <3>2. F(t) = Fraction(t - b.start, whole) /\ t - b.start \in Nat
      BY <1>3, <2>3, <3>1
    <3>3. /\ F(t + 1) = Fraction((t + 1) - b.start, whole) /\ (t + 1) - b.start \in Nat
          /\ (t + 1) - b.start <= whole
      BY <1>3, <2>0, <2>3, <3>1
    <3>4. t - b.start <= (t + 1) - b.start
      BY <1>0
    <3>5. QED  BY <1>0, <3>2, <3>3, <3>4, FractionGrows
  <2>4. QED  BY <2>1, <2>2, <2>3
<1>7. QED  BY <1>1, <1>2, <1>5, <1>6

\* What is recognised of a line.
LEMMA LineRecognized ==
    ASSUME NEW b, WholeBill(b), NEW t \in Int, NEW i \in DOMAIN b.lines
    PROVE  LET l == b.lines[i] IN
           /\ l.amount \in Int /\ RoundDown(l.amount, 1, b.currency) = l.amount
           /\ RecognizedLine(l, b, t) \in Int
           /\ l.amount >= 0 => /\ RecognizedLine(l, b, t) \in 0..l.amount
                               /\ RecognizedLine(l, b, t) <= RecognizedLine(l, b, t + 1)
           /\ t <= b.start => RecognizedLine(l, b, t) = 0
           /\ t >= b.end => RecognizedLine(l, b, t) = l.amount
<1> DEFINE a == b.lines[i].amount
           c == b.currency
           f == RecognizedFraction(b, t)
           g == RecognizedFraction(b, t + 1)
<1>1. Whole(a, c)
  BY DEF WholeBill, WholeLines
<1>2. a \in Int /\ RoundDown(a, 1, c) = a
  BY <1>1, WholeType
<1>3. f \in 0..Scale /\ g \in 0..Scale /\ f <= g
      /\ (t <= b.start => f = 0) /\ (t >= b.end => f = Scale)
  BY RecognizedParts
<1>4. PICK k \in Int : a = k * Unit(c)
  BY <1>1 DEF Whole
<1>5. Scale \in Int /\ Scale > 0 /\ Scale \in Denominators
  BY DEF Scale, Denominators
<1>6. /\ RecognizedLine(b.lines[i], b, t) = RoundDown(a * f, Scale, c)
      /\ RecognizedLine(b.lines[i], b, t + 1) = RoundDown(a * g, Scale, c)
  BY DEF RecognizedLine
<1> HIDE DEF a, c, f, g
<1>7. f \in Int /\ g \in Int /\ a * f \in Int /\ a * g \in Int
  BY <1>2, <1>3, <1>5
<1>8. \A n \in Int : RoundDown(n, Scale, c) \in Int
  <2>1. \A n \in Int : Whole(RoundDown(n, Scale, c), c)
    BY <1>5, RoundDownIsWhole DEF Whole
  <2>2. QED  BY <2>1, WholeType
<1>9. ASSUME a >= 0
      PROVE  /\ RoundDown(a * f, Scale, c) \in 0..a
             /\ RoundDown(a * f, Scale, c) <= RoundDown(a * g, Scale, c)
  <2>1. a * f \in Nat /\ a * f <= a * Scale /\ a * f <= a * g
    BY <1>2, <1>3, <1>5, <1>7, <1>9
  <2> DEFINE r == RoundDown(a * f, Scale, c)
  <2>2. r \in Nat /\ r * Scale <= a * f
    BY <1>5, <2>1, RoundDownBounds
  <2>3. r <= a
    <3> HIDE DEF r
    <3>1. r * Scale <= a * Scale
      BY <1>2, <1>5, <1>7, <2>1, <2>2
    <3>2. QED  BY <1>2, <2>2, <3>1 DEF Scale
  <2>4. r <= RoundDown(a * g, Scale, c)
    BY <1>5, <1>7, <2>1, RoundDownGrows
  <2>5. r \in 0..a
    <3> HIDE DEF r
    <3>1. QED  BY <1>2, <2>2, <2>3
  <2>6. QED  BY <2>4, <2>5
<1>10. ASSUME t <= b.start
       PROVE  RoundDown(a * f, Scale, c) = 0
  <2>1. a * f = (0 * Unit(c)) * Scale
    <3>1. f = 0 /\ Unit(c) \in Int
      BY <1>3, <1>10, UnitType
    <3>2. a * f = 0
      BY <1>2, <3>1
    <3>3. (0 * Unit(c)) * Scale = 0
      BY <1>5, <3>1
    <3>4. QED  BY <3>2, <3>3
  <2>2. RoundDown((0 * Unit(c)) * Scale, Scale, c) = 0 * Unit(c)
    BY <1>5, RoundDownKeeps
  <2>3. QED  BY <2>1, <2>2, UnitType
<1>11. ASSUME t >= b.end
       PROVE  RoundDown(a * f, Scale, c) = a
  <2>1. a * f = (k * Unit(c)) * Scale
    BY <1>3, <1>4, <1>11
  <2>2. RoundDown((k * Unit(c)) * Scale, Scale, c) = k * Unit(c)
    BY <1>5, RoundDownKeeps
  <2>3. QED  BY <1>4, <2>1, <2>2
<1>12. QED
  BY <1>2, <1>6, <1>7, <1>8, <1>9, <1>10, <1>11 DEF a, c

\* What is recognised and what is deferred of a line make the line.
LEMMA LineDeferred ==
    ASSUME NEW b, WholeBill(b), NEW t \in Int, NEW i \in DOMAIN b.lines
    PROVE  LET l == b.lines[i] IN
           /\ DeferredLine(l, b, t) \in Int
           /\ l.amount = DeferredLine(l, b, t) + RecognizedLine(l, b, t)
<1> DEFINE l == b.lines[i]
<1>1. l.amount \in Int /\ RoundDown(l.amount, 1, b.currency) = l.amount
      /\ RecognizedLine(l, b, t) \in Int
  BY LineRecognized
<1>2. DeferredLine(l, b, t) = l.amount - RecognizedLine(l, b, t)
  BY <1>1 DEF DeferredLine
<1> HIDE DEF l
<1>3. QED  BY <1>1, <1>2 DEF l

RecognizedAt(b, t) == [i \in DOMAIN b.lines |-> RecognizedLine(b.lines[i], b, t)]
DeferredAt(b, t) == [i \in DOMAIN b.lines |-> DeferredLine(b.lines[i], b, t)]
DeferredOf(b, t) == FoldLeft(LAMBDA a, l : a + DeferredLine(l, b, t), 0, b.lines)

\* Total recognised is a sum over the lines.
LEMMA RecognizedIsSum ==
    ASSUME NEW b, WholeBill(b), NEW t \in Int
    PROVE  /\ Summable(RecognizedAt(b, t), DOMAIN b.lines)
           /\ TotalRecognized(b, t) = SumOf(RecognizedAt(b, t), DOMAIN b.lines)
<1> DEFINE D == DOMAIN b.lines
           f == RecognizedAt(b, t)
           P(it) == it = [s \in SUBSET D |->
                            IF s = {} THEN 0
                            ELSE it[s \ {Max(s)}] + RecognizedLine(b.lines[Max(s)], b, t)]
           Q(it) == it = [s \in SUBSET D |->
                            IF s = {} THEN 0 ELSE it[s \ {Max(s)}] + f[Max(s)]]
           it == CHOOSE it : P(it)
<1>1. Summable(f, D) /\ D \in SUBSET Int
  BY Indices, LineRecognized DEF WholeBill, WholeLines, Summable, RecognizedAt
<1>2. \A s \in SUBSET D : s # {} => RecognizedLine(b.lines[Max(s)], b, t) = f[Max(s)]
  <2>1. \A s \in SUBSET D : s # {} => Max(s) \in s
    BY <1>1, FS_Subset, MaxIsGreatest DEF Summable
  <2>2. QED  BY <2>1 DEF RecognizedAt
<1>3. \A i : P(i) <=> Q(i)
  BY <1>2
<1>4. (\E i : Q(i)) /\ \A i : Q(i) => i[D] = SumOf(f, D)
  BY <1>1, FoldAdds
<1>5. TotalRecognized(b, t) = it[D]
  BY DEF TotalRecognized, FoldLeft, MapThenFoldSet
<1> HIDE DEF P, Q
<1>6. P(it)
  BY <1>3, <1>4, Zenon
<1>7. QED  BY <1>1, <1>3, <1>4, <1>5, <1>6

\* And so is the total deferred.
LEMMA DeferredIsSum ==
    ASSUME NEW b, WholeBill(b), NEW t \in Int
    PROVE  /\ Summable(DeferredAt(b, t), DOMAIN b.lines)
           /\ DeferredOf(b, t) = SumOf(DeferredAt(b, t), DOMAIN b.lines)
<1> DEFINE D == DOMAIN b.lines
           f == DeferredAt(b, t)
           P(it) == it = [s \in SUBSET D |->
                            IF s = {} THEN 0
                            ELSE it[s \ {Max(s)}] + DeferredLine(b.lines[Max(s)], b, t)]
           Q(it) == it = [s \in SUBSET D |->
                            IF s = {} THEN 0 ELSE it[s \ {Max(s)}] + f[Max(s)]]
           it == CHOOSE it : P(it)
<1>1. Summable(f, D) /\ D \in SUBSET Int
  <2>1. \A i \in D : DeferredLine(b.lines[i], b, t) \in Int
    BY LineDeferred
  <2>2. QED  BY <2>1, Indices DEF WholeBill, WholeLines, Summable, DeferredAt
<1>2. \A s \in SUBSET D : s # {} => DeferredLine(b.lines[Max(s)], b, t) = f[Max(s)]
  <2>1. \A s \in SUBSET D : s # {} => Max(s) \in s
    BY <1>1, FS_Subset, MaxIsGreatest DEF Summable
  <2>2. QED  BY <2>1 DEF DeferredAt
<1>3. \A i : P(i) <=> Q(i)
  BY <1>2
<1>4. (\E i : Q(i)) /\ \A i : Q(i) => i[D] = SumOf(f, D)
  BY <1>1, FoldAdds
<1>5. DeferredOf(b, t) = it[D]
  BY DEF DeferredOf, FoldLeft, MapThenFoldSet
<1> HIDE DEF P, Q
<1>6. P(it)
  BY <1>3, <1>4, Zenon
<1>7. QED  BY <1>1, <1>3, <1>4, <1>5, <1>6

\* Recognised and deferred revenue of a bill add up to it, recognition only
\* grows, from nothing to all of it.
LEMMA RevenueAddsUp ==
    ASSUME NEW b, WholeBill(b), NEW t \in Int
    PROVE  LET D == DOMAIN b.lines
               positive == \A i \in D : b.lines[i].amount >= 0
           IN /\ TotalDeferred(b, t) = DeferredOf(b, t)
              /\ positive => TotalRecognized(b, t) <= TotalRecognized(b, t + 1)
              /\ t <= b.start => TotalRecognized(b, t) = 0
              /\ t >= b.end => TotalDeferred(b, t) = 0
<1> DEFINE D == DOMAIN b.lines
           amounts == AmountAt(b.lines)
           rec == RecognizedAt(b, t)
           next == RecognizedAt(b, t + 1)
           def == DeferredAt(b, t)
           none == [i \in D |-> 0]
<1>1. /\ Summable(amounts, D) /\ b.total = SumOf(amounts, D)
  BY WholeLinesBilled, TotalIsSum DEF WholeBill
<1>2. RoundDown(b.total, 1, b.currency) = b.total
  BY BillTotal, WholeType
<1>3. TotalDeferred(b, t) = SumOf(amounts, D) - TotalRecognized(b, t)
  BY <1>1, <1>2 DEF TotalDeferred
<1>4. Summable(rec, D) /\ TotalRecognized(b, t) = SumOf(rec, D)
  BY RecognizedIsSum
<1>5. Summable(next, D) /\ TotalRecognized(b, t + 1) = SumOf(next, D)
  BY RecognizedIsSum
<1>6. Summable(def, D) /\ DeferredOf(b, t) = SumOf(def, D)
  BY DeferredIsSum
<1>7. Summable(none, D)
  BY <1>1 DEF Summable
<1>8. \A i \in D : amounts[i] = def[i] + rec[i]
  BY LineDeferred DEF AmountAt, RecognizedAt, DeferredAt
<1>9. SumOf(amounts, D) = SumOf(def, D) + SumOf(rec, D)
  <2> HIDE DEF amounts, def, rec, D
  <2>1. QED  BY <1>1, <1>4, <1>6, <1>8, SumPlus
<1>10. SumOf(def, D) \in Int /\ SumOf(rec, D) \in Int
  <2> HIDE DEF amounts, def, rec, D
  <2>1. QED  BY <1>4, <1>6, SumType
<1>11. TotalDeferred(b, t) = DeferredOf(b, t)
  BY <1>3, <1>4, <1>6, <1>9, <1>10
<1>12. ASSUME \A i \in D : b.lines[i].amount >= 0
       PROVE  TotalRecognized(b, t) <= TotalRecognized(b, t + 1)
  <2>1. \A i \in D : rec[i] <= next[i]
    BY <1>12, LineRecognized DEF RecognizedAt
  <2> HIDE DEF rec, next, D
  <2>2. QED  BY <1>4, <1>5, <2>1, SumMonotone
<1>13. SumOf(none, D) = 0
  <2>1. SumOf(none, D) = 0 * SumOf(none, D)
    <3>1. \A i \in D : none[i] = 0 * none[i]
      OBVIOUS
    <3> HIDE DEF none, D
    <3>2. QED  BY <1>7, <3>1, SumTimes
  <2>2. SumOf(none, D) \in Int
    <3> HIDE DEF none, D
    <3>1. QED  BY <1>7, SumType
  <2> HIDE DEF none, D
  <2>3. QED  BY <2>1, <2>2
<1>14. ASSUME t <= b.start
       PROVE  TotalRecognized(b, t) = 0
  <2>1. \A i \in D : rec[i] = none[i]
    BY <1>14, LineRecognized DEF RecognizedAt
  <2> HIDE DEF rec, none, D
  <2>2. QED  BY <1>4, <1>7, <1>13, <2>1, SumSame
<1>15. ASSUME t >= b.end
       PROVE  TotalDeferred(b, t) = 0
  <2>1. \A i \in D : rec[i] = amounts[i]
    BY <1>15, LineRecognized DEF RecognizedAt, AmountAt
  <2>2. SumOf(rec, D) = SumOf(amounts, D)
    <3> HIDE DEF rec, amounts, D
    <3>1. QED  BY <1>1, <1>4, <2>1, SumSame
  <2>3. QED  BY <1>3, <1>4, <1>10, <2>2
<1>16. QED  BY <1>11, <1>12, <1>14, <1>15

-----------------------------------------------------------------------------
(* Bills by code: the comparison of two bills.                             *)

CodeAt(b) == [i \in DOMAIN b.lines |-> b.lines[i].code]
AmountOn(b, code) ==
    IF code \in Codes(b) THEN b.lines[CHOOSE i \in DOMAIN b.lines : b.lines[i].code = code].amount
    ELSE 0

\* Codes are finitely many; where no two lines share one they name the lines.
LEMMA CodesNameLines ==
    ASSUME NEW b, WholeBill(b)
    PROVE  /\ DOMAIN b.lines \in SUBSET Int /\ IsFiniteSet(DOMAIN b.lines)
           /\ Cardinality(DOMAIN b.lines) = Len(b.lines)
           /\ Codes(b) = {b.lines[i].code : i \in DOMAIN b.lines}
           /\ IsFiniteSet(Codes(b))
           /\ DistinctCodes(b) => /\ CodeAt(b) \in Bijection(DOMAIN b.lines, Codes(b))
                                  /\ \A i, j \in DOMAIN b.lines :
                                        b.lines[i].code = b.lines[j].code => i = j
<1> DEFINE D == DOMAIN b.lines
           f == CodeAt(b)
<1>1. /\ D \in SUBSET Int /\ IsFiniteSet(D) /\ Cardinality(D) = Len(b.lines)
  BY Indices DEF WholeBill, WholeLines
<1>2. Codes(b) = {b.lines[i].code : i \in D}
  BY DEF Codes, ToSet
<1>3. f \in Surjection(D, Codes(b)) /\ \A i \in D : f[i] = b.lines[i].code
  BY <1>2 DEF Surjection, CodeAt
<1> HIDE DEF f
<1>4. IsFiniteSet(Codes(b))
  BY <1>1, <1>3, FS_Surjection
<1>5. ASSUME DistinctCodes(b)
      PROVE  f \in Injection(D, Codes(b))
  <2>1. Cardinality(D) = Cardinality(Codes(b))
    BY <1>1, <1>5 DEF DistinctCodes
  <2>2. QED  BY <1>1, <1>3, <2>1, FS_SurjSameCardinalityImpliesInj
<1>6. ASSUME DistinctCodes(b)
      PROVE  /\ f \in Bijection(D, Codes(b))
             /\ \A i, j \in D : b.lines[i].code = b.lines[j].code => i = j
  <2>1. f \in Bijection(D, Codes(b))
    BY <1>3, <1>5, <1>6 DEF Bijection
  <2>2. QED  BY <1>3, <1>5, <1>6, <2>1 DEF Injection, IsInjective
<1>7. QED  BY <1>1, <1>2, <1>4, <1>6 DEF f

\* Where no two lines share a code, a code has one amount.
LEMMA OneAmount ==
    ASSUME NEW b, WholeBill(b), DistinctCodes(b), NEW code
    PROVE  /\ AmountOn(b, code) \in Int
           /\ AmountsOf(b, code) = {AmountOn(b, code)}
           /\ \A i \in DOMAIN b.lines : b.lines[i].code = code => AmountOn(b, code) = b.lines[i].amount
<1>1. CASE code \notin Codes(b)
  BY <1>1, CodesNameLines DEF AmountOn, AmountsOf
<1>2. CASE code \in Codes(b)
  <2>1. PICK i \in DOMAIN b.lines : b.lines[i].code = code
    BY <1>2, CodesNameLines
  <2>2. \A j \in DOMAIN b.lines : b.lines[j].code = code => j = i
    BY <2>1, CodesNameLines
  <2>3. (CHOOSE j \in DOMAIN b.lines : b.lines[j].code = code) = i
    BY <2>1, <2>2
  <2>4. AmountOn(b, code) = b.lines[i].amount
    BY <1>2, <2>3 DEF AmountOn
  <2>5. b.lines[i].amount \in Int
    BY WholeLinesBilled DEF WholeBill, IsBilled
  <2>6. {k \in ToSet(b.lines) : k.code = code} = {b.lines[i]}
    <3>1. ToSet(b.lines) = {b.lines[j] : j \in DOMAIN b.lines}
      BY DEF ToSet
    <3>2. QED  BY <2>1, <2>2, <3>1
  <2>7. AmountsOf(b, code) = {b.lines[i].amount}
    BY <1>2, <2>6 DEF AmountsOf
  <2>8. QED  BY <2>2, <2>4, <2>5, <2>7
<1>3. QED  BY <1>1, <1>2

\* The amounts of the codes, of other bills' codes too, add up to the total.
LEMMA AmountsByCode ==
    ASSUME NEW b, WholeBill(b), DistinctCodes(b), NEW S, IsFiniteSet(S), Codes(b) \subseteq S,
           NEW f, S \subseteq DOMAIN f, \A k \in S : f[k] = AmountOn(b, k)
    PROVE  Summable(f, S) /\ SumOf(f, S) = b.total
<1> DEFINE D == DOMAIN b.lines
           g == AmountAt(b.lines)
           r == CodeAt(b)
           T == Codes(b)
<1>1. Summable(f, S)
  BY OneAmount DEF Summable
<1>2. \A k \in S \ T : f[k] = 0
  BY DEF AmountOn
<1>3. T \in SUBSET S
  OBVIOUS
<1>4. Summable(f, T) /\ SumOf(f, S) = SumOf(f, T)
  <2> HIDE DEF T
  <2>1. QED  BY <1>1, <1>2, <1>3, SumPart, SumWithoutZeros
<1>5. Summable(g, D) /\ b.total = SumOf(g, D)
  BY WholeLinesBilled, TotalIsSum DEF WholeBill
<1>6. r \in Bijection(D, T) /\ IsFiniteSet(D)
  BY CodesNameLines
<1>7. \A i \in D : g[i] = f[r[i]]
  <2>1. ASSUME NEW i \in D PROVE g[i] = f[r[i]]
    <3>1. r[i] = b.lines[i].code /\ r[i] \in T
      BY CodesNameLines DEF CodeAt
    <3>2. AmountOn(b, r[i]) = b.lines[i].amount
      BY <3>1, OneAmount
    <3>3. QED  BY <1>3, <3>1, <3>2 DEF AmountAt
  <2>2. QED  BY <2>1
<1> HIDE DEF D, g, r, T
<1>8. SumOf(g, D) = SumOf(f, T)
  BY <1>4, <1>5, <1>6, <1>7, SumRenamed
<1>9. QED  BY <1>1, <1>4, <1>5, <1>8

DeltasOf(c, p) == MapThenSumSet(LAMBDA k : Max(Deltas(c, p, k)), Codes(c) \cup Codes(p))

\* The differences of two bills by code add up to that of their totals.
LEMMA DeltasAddUp ==
    ASSUME NEW c, WholeBill(c), DistinctCodes(c), NEW p, WholeBill(p), DistinctCodes(p)
    PROVE  DeltasOf(c, p) = TotalDelta(c, p)
<1> DEFINE S == Codes(c) \cup Codes(p)
           before == [k \in S |-> AmountOn(c, k)]
           after  == [k \in S |-> AmountOn(p, k)]
           f == [k \in S |-> AmountOn(p, k) - AmountOn(c, k)]
           P(it) == it = [s \in SUBSET S |->
                            IF s = {} THEN 0
                            ELSE Max(Deltas(c, p, CHOOSE x \in s : TRUE))
                                   + it[s \ {CHOOSE x \in s : TRUE}]]
           Q(it) == it = [s \in SUBSET S |->
                            IF s = {} THEN 0
                            ELSE f[CHOOSE x \in s : TRUE] + it[s \ {CHOOSE x \in s : TRUE}]]
           it == CHOOSE it : P(it)
<1>1. IsFiniteSet(S)
  BY CodesNameLines, FS_Union
<1>2. Summable(before, S) /\ SumOf(before, S) = c.total
  <2>1. DOMAIN before = S /\ \A k \in S : before[k] = AmountOn(c, k)
    OBVIOUS
  <2> HIDE DEF before
  <2>2. QED  BY <1>1, <2>1, AmountsByCode
<1>3. Summable(after, S) /\ SumOf(after, S) = p.total
  <2>1. DOMAIN after = S /\ \A k \in S : after[k] = AmountOn(p, k)
    OBVIOUS
  <2> HIDE DEF after
  <2>2. QED  BY <1>1, <2>1, AmountsByCode
<1>4. /\ \A k \in S : before[k] \in Int /\ after[k] \in Int
      /\ \A k \in S : after[k] = before[k] + f[k] /\ f[k] \in Int
      /\ DOMAIN f = S
  BY OneAmount
<1>5. Summable(f, S)
  <2> HIDE DEF f, S
  <2>1. QED  BY <1>1, <1>4 DEF Summable
<1>6. p.total = c.total + SumOf(f, S)
  <2> HIDE DEF f, before, after, S
  <2>1. SumOf(after, S) = SumOf(before, S) + SumOf(f, S)
    BY <1>2, <1>3, <1>4, <1>5, SumPlus
  <2>2. QED  BY <1>2, <1>3, <2>1
<1>7. \A k \in S : Max(Deltas(c, p, k)) = f[k]
  <2>1. ASSUME NEW k \in S PROVE Max(Deltas(c, p, k)) = f[k]
    <3>1. AmountsOf(c, k) = {AmountOn(c, k)} /\ AmountsOf(p, k) = {AmountOn(p, k)}
      BY OneAmount
    <3>2. Deltas(c, p, k) = {f[k]}
      BY <3>1 DEF Deltas
    <3>3. f[k] \in Int
      BY <1>4
    <3> HIDE DEF f
    <3>4. Max({f[k]}) = f[k]
      <4>1. PICK n \in Int : n = f[k]
        BY <3>3
      <4>2. Max({n}) = n
        <5>1. Max({n, n}) = n /\ {n, n} = {n}
          BY TwoNumbers
        <5>2. QED  BY <5>1
      <4>3. QED  BY <4>1, <4>2
    <3>5. QED  BY <3>2, <3>4
  <2>2. QED  BY <2>1
<1>8. \A i : P(i) <=> Q(i)
  <2>1. \A s \in SUBSET S : s # {} =>
          f[CHOOSE x \in s : TRUE] = Max(Deltas(c, p, CHOOSE x \in s : TRUE))
    BY <1>7
  <2> HIDE DEF f, S
  <2>2. QED  BY <2>1
<1>9. (\E i : Q(i)) /\ \A i : Q(i) => i[S] = SumOf(f, S)
  <2> HIDE DEF f, S
  <2>1. QED  BY <1>5, ChoiceAdds
<1>10. MapThenSumSet(LAMBDA k : Max(Deltas(c, p, k)), S) = it[S]
  <2> HIDE DEF S
  <2>1. QED  BY DEF MapThenSumSet, MapThenFoldSet
<1> HIDE DEF P, Q
<1>11. P(it)
  BY <1>8, <1>9, Zenon
<1>12. it[S] = SumOf(f, S)
  BY <1>8, <1>9, <1>11
<1>13. c.total \in Int /\ p.total \in Int /\ SumOf(f, S) \in Int
  <2> HIDE DEF f, S
  <2>1. QED  BY <1>5, SumType, BillTotal
<1>14. SumOf(f, S) = p.total - c.total
  <2> HIDE DEF f, S
  <2>1. QED  BY <1>6, <1>13
<1>15. DeltasOf(c, p) = it[S]
  BY <1>10, Zenon DEF DeltasOf, S
<1>16. QED  BY <1>12, <1>14, <1>15 DEF TotalDelta

-----------------------------------------------------------------------------
(* Bills and their ledgers.                                                *)

\* Sequences with the same elements as often; if one repeats nothing, nor
\* does the other.
LEMMA SameBag ==
    ASSUME NEW s, NEW t, IsFiniteSet(DOMAIN s), IsFiniteSet(DOMAIN t), ToBag(s) = ToBag(t)
    PROVE  /\ Range(s) = Range(t)
           /\ (\A i, j \in DOMAIN s : s[i] = s[j] => i = j)
                => \A i, j \in DOMAIN t : t[i] = t[j] => i = j
<1>1. Range(s) = Range(t)
  <2>1. DOMAIN ToBag(s) = Range(s) /\ DOMAIN ToBag(t) = Range(t)
    BY DEF ToBag
  <2>2. QED  BY <2>1
<1>2. ASSUME \A i, j \in DOMAIN s : s[i] = s[j] => i = j, NEW i \in DOMAIN t, NEW j \in DOMAIN t,
             t[i] = t[j]
      PROVE  i = j
  <2>1. PICK x : x = t[i] /\ x \in Range(t)
    BY DEF Range
  <2> DEFINE here  == {k \in DOMAIN s : s[k] = x}
             there == {k \in DOMAIN t : t[k] = x}
  <2>2. PICK k \in DOMAIN s : s[k] = x
    BY <1>1, <2>1 DEF Range
  <2>3. here = {k}
    BY <1>2, <2>2
  <2>4. Cardinality(here) = 1
    BY <2>3, FS_Singleton
  <2>5. Cardinality(there) = Cardinality(here)
    <3>1. ToBag(s)[x] = Cardinality(here) /\ ToBag(t)[x] = Cardinality(there)
      BY <1>1, <2>1 DEF ToBag
    <3>2. QED  BY <3>1
  <2>6. IsFiniteSet(there)
    <3>1. there \in SUBSET DOMAIN t
      OBVIOUS
    <3> HIDE DEF there
    <3>2. QED  BY <3>1, FS_Subset
  <2>7. \E y : there = {y}
    <3> HIDE DEF here, there
    <3>1. QED  BY <2>4, <2>5, <2>6, FS_Singleton
  <2>8. i \in there /\ j \in there
    BY <1>2, <2>1
  <2>9. QED  BY <2>7, <2>8
<1>3. QED  BY <1>1, <1>2

IsLine(l) == l = [code |-> l.code, model |-> l.model, count |-> l.count, qty |-> l.qty,
                  price |-> l.price, amount |-> l.amount]
IsTax(l) == l.code = TaxCode /\ l.model = ""

\* A bill has a line for every price, and the tax line if the customer is taxed.
LEMMA BillLines ==
    ASSUME NEW codes, NEW sub, NEW prices, NEW meters, NEW log, NEW rate \in Int,
           Books(codes, sub, prices, meters, log),
           NEW b, b = Calculate(sub, prices, meters, log, rate)
    PROVE  /\ \A i \in DOMAIN b.lines :
                 /\ IsLine(b.lines[i])
                 /\ \/ \E k \in DOMAIN prices : /\ b.lines[i].code = prices[k].code
                                                /\ b.lines[i].model = prices[k].model
                    \/ rate > 0 /\ IsTax(b.lines[i])
           /\ \A k \in DOMAIN prices :
                 \E i \in DOMAIN b.lines : /\ b.lines[i].code = prices[k].code
                                           /\ b.lines[i].model = prices[k].model
           /\ rate > 0 => \E i \in DOMAIN b.lines : IsTax(b.lines[i])
<1> DEFINE priced == PricedLines(sub, prices, meters, log)
           lines == InOrder(priced)
           tax == TaxLine(Total(lines), rate, b.currency)
           D == DOMAIN prices
<1>1. /\ b.lines = IF rate > 0 THEN Append(lines, tax) ELSE lines
  BY BillShape
<1>2. PICK o \in Bijection(DOMAIN priced, DOMAIN priced) : lines = [k \in DOMAIN priced |-> priced[o[k]]]
  BY PlainLines DEF Reordered
<1>3. DOMAIN lines = D /\ DOMAIN priced = D /\ WholeLines(lines, prices[1].currency)
  BY PlainLines
<1>4. \A k \in D : o[k] \in D /\ lines[k] = priced[o[k]]
  BY <1>2, <1>3 DEF Bijection, Injection
<1>5. \A k \in D : \E i \in D : o[i] = k
  BY <1>2, <1>3 DEF Bijection, Surjection
<1>6. \A k \in D : /\ IsLine(priced[k])
                   /\ priced[k].code = prices[k].code /\ priced[k].model = prices[k].model
  BY DEF PricedLines, PricedLine, FlatLine, UsageLine, IsLine
<1>7. IsLine(tax) /\ IsTax(tax)
  BY DEF IsLine, IsTax, TaxLine
<1>8. lines \in Seq(Range(lines)) /\ DOMAIN lines = 1..Len(lines) /\ Len(lines) \in Nat
  BY <1>3, Indices DEF WholeLines
<1> HIDE DEF lines, tax, priced, D
<1>9. \A k \in D : \E i \in D : lines[i].code = prices[k].code /\ lines[i].model = prices[k].model
  BY <1>4, <1>5, <1>6
<1>10. \A i \in D : /\ IsLine(lines[i])
                    /\ \E k \in D : lines[i].code = prices[k].code /\ lines[i].model = prices[k].model
  BY <1>4, <1>6
<1>11. CASE ~(rate > 0)
  <2>1. b.lines = lines
    BY <1>1, <1>11
  <2>2. QED  BY <1>3, <1>9, <1>10, <1>11, <2>1 DEF D
<1>12. CASE rate > 0
  <2> DEFINE n == Len(lines)
             S == Range(lines) \cup {tax}
  <2>1. b.lines = Append(lines, tax)
    BY <1>1, <1>12
  <2>2. lines \in Seq(S) /\ tax \in S
    BY <1>8 DEF Range
  <2> HIDE DEF S
  <2>3. /\ DOMAIN b.lines = 1..(n + 1)
        /\ \A i \in 1..n : b.lines[i] = lines[i]
        /\ b.lines[n + 1] = tax
    BY <2>1, <2>2
  <2>4. D = 1..n /\ n \in Nat
    BY <1>3, <1>8 DEF D
  <2> HIDE DEF n
  <2>5. D \subseteq DOMAIN b.lines /\ n + 1 \in DOMAIN b.lines
        /\ \A i \in DOMAIN b.lines : i \in D \/ i = n + 1
    BY <2>3, <2>4
  <2>6. \A i \in D : b.lines[i] = lines[i]
    BY <2>3, <2>4
  <2>7. \A i \in DOMAIN b.lines :
                 /\ IsLine(b.lines[i])
                 /\ \/ \E k \in D : /\ b.lines[i].code = prices[k].code
                                    /\ b.lines[i].model = prices[k].model
                    \/ rate > 0 /\ IsTax(b.lines[i])
    BY <1>7, <1>10, <1>12, <2>3, <2>5, <2>6
  <2>8. \A k \in D : \E i \in DOMAIN b.lines : /\ b.lines[i].code = prices[k].code
                                               /\ b.lines[i].model = prices[k].model
    BY <1>9, <2>5, <2>6
  <2>9. \E i \in DOMAIN b.lines : IsTax(b.lines[i])
    BY <1>7, <2>3, <2>5
  <2>10. QED  BY <2>7, <2>8, <2>9 DEF D
<1>13. QED  BY <1>11, <1>12

\* Two bills of one plan have the same models on the same codes, if the codes
\* of one are distinct.
LEMMA SameModels ==
    ASSUME NEW codes, NEW sub, NEW prices, NEW rate \in Int,
           NEW meters, NEW log, Books(codes, sub, prices, meters, log),
           NEW later, NEW more, Books(codes, sub, prices, later, more),
           NEW b, b = Calculate(sub, prices, meters, log, rate), DistinctCodes(b),
           NEW c, c = Calculate(sub, prices, later, more, rate),
           NEW i \in DOMAIN b.lines, NEW j \in DOMAIN c.lines, b.lines[i].code = c.lines[j].code
    PROVE  b.lines[i].model = c.lines[j].model
<1>1. /\ \A k \in DOMAIN prices :
            \E x \in DOMAIN b.lines : /\ b.lines[x].code = prices[k].code
                                      /\ b.lines[x].model = prices[k].model
      /\ rate > 0 => \E x \in DOMAIN b.lines : IsTax(b.lines[x])
  <2> HIDE DEF IsTax
  <2>1. QED  BY BillLines
<1>2. \/ \E k \in DOMAIN prices : /\ c.lines[j].code = prices[k].code
                                  /\ c.lines[j].model = prices[k].model
      \/ rate > 0 /\ IsTax(c.lines[j])
  BY BillLines
<1>3. WholeBill(b)
  BY BillShape
<1>4. \A x \in DOMAIN b.lines : b.lines[x].code = b.lines[i].code => x = i
  BY <1>3, CodesNameLines
<1>5. CASE \E k \in DOMAIN prices : /\ c.lines[j].code = prices[k].code
                                    /\ c.lines[j].model = prices[k].model
  <2>1. PICK k \in DOMAIN prices : /\ c.lines[j].code = prices[k].code
                                   /\ c.lines[j].model = prices[k].model
    BY <1>5
  <2>2. PICK x \in DOMAIN b.lines : /\ b.lines[x].code = prices[k].code
                                    /\ b.lines[x].model = prices[k].model
    BY <1>1
  <2>3. x = i
    BY <1>4, <2>1, <2>2
  <2>4. QED  BY <2>1, <2>2, <2>3
<1>6. CASE rate > 0 /\ IsTax(c.lines[j])
  <2>1. PICK x \in DOMAIN b.lines : IsTax(b.lines[x])
    BY <1>1, <1>6
  <2>2. x = i
    BY <1>4, <1>6, <2>1 DEF IsTax
  <2>3. QED  BY <1>6, <2>1, <2>2 DEF IsTax
<1>7. QED  BY <1>2, <1>5, <1>6

\* Of rows that share a code the one that stays is one of them.
LEMMA LastOne ==
    ASSUME NEW rows, DOMAIN rows \in SUBSET Int, IsFiniteSet(DOMAIN rows), NEW code,
           \E i \in DOMAIN rows : rows[i].code = code
    PROVE  \E i \in DOMAIN rows : rows[i].code = code /\ LastOf(rows, code) = rows[i]
<1> DEFINE S == {i \in DOMAIN rows : rows[i].code = code}
<1>1. S \in SUBSET DOMAIN rows /\ S # {} /\ S \in SUBSET Int
  OBVIOUS
<1>2. LastOf(rows, code) = rows[Max(S)]
  BY DEF LastOf
<1>3. \A i \in S : i \in DOMAIN rows /\ rows[i].code = code
  OBVIOUS
<1> HIDE DEF S
<1>4. Max(S) \in S
  BY <1>1, FS_Subset, MaxIsGreatest
<1>5. QED  BY <1>2, <1>3, <1>4

Stored(ledger) == [i \in DOMAIN ledger |-> ledger[i].row]
Fresh(b) == [i \in DOMAIN b.lines |-> Row(b.lines[i])]

\* Where the codes of a bill are distinct, the row joined to a code is that
\* code's, whatever order the rows are read in.
LEMMA RowsJoined ==
    ASSUME NEW b, WholeBill(b), NEW ledger, ledger \in [DOMAIN b.lines -> ToSet(LedgerOf(b))],
           ToBag(ledger) = ToBag(LedgerOf(b))
    PROVE  /\ ledger # <<>> /\ ledger[1].hash = Hash(b)
           /\ {r.code : r \in ToSet(Stored(ledger))} = Codes(b)
           /\ DistinctCodes(b) => \A i \in DOMAIN b.lines :
                 /\ LastOf(Stored(ledger), b.lines[i].code) = Row(b.lines[i])
                 /\ LastOf(Fresh(b), b.lines[i].code) = Row(b.lines[i])
<1> DEFINE D == DOMAIN b.lines
           rows == LedgerOf(b)
           stored == Stored(ledger)
           fresh == Fresh(b)
<1>1. D \in SUBSET Int /\ IsFiniteSet(D) /\ 1 \in D
  <2>1. D \in SUBSET Int /\ IsFiniteSet(D)
    BY CodesNameLines
  <2>2. PICK lines : lines = b.lines
    OBVIOUS
  <2>3. lines \in Seq(Range(lines)) /\ lines # <<>>
    BY <2>2 DEF WholeBill, WholeLines
  <2>4. 1 \in DOMAIN lines
    BY <2>3
  <2>5. QED  BY <2>1, <2>2, <2>4
<1>2. /\ DOMAIN rows = D /\ DOMAIN ledger = D
      /\ \A i \in D : rows[i].row = Row(b.lines[i]) /\ rows[i].hash = Hash(b)
  BY DEF LedgerOf
<1>3. \A i \in D : Row(b.lines[i]).code = b.lines[i].code
  BY DEF Row
<1>4. Range(rows) = Range(ledger)
  <2>1. ToBag(ledger) = ToBag(rows)
    OBVIOUS
  <2> HIDE DEF rows, D
  <2>2. QED  BY <1>1, <1>2, <2>1, SameBag
<1>5. \A k \in D : \E i \in D : ledger[k] = rows[i]
  BY <1>2, <1>4 DEF Range
<1>6. \A i \in D : \E k \in D : ledger[k] = rows[i]
  BY <1>2, <1>4 DEF Range
<1>7. DOMAIN stored = D /\ DOMAIN fresh = D
      /\ \A k \in D : stored[k] = ledger[k].row /\ fresh[k] = Row(b.lines[k])
  BY <1>2 DEF Stored, Fresh
<1> HIDE DEF rows, stored, fresh
<1>8. ledger # <<>> /\ ledger[1].hash = Hash(b)
  <2>1. DOMAIN ledger # {}
    BY <1>1, <1>2
  <2>2. ledger # <<>>
    BY <2>1
  <2>3. QED  BY <1>1, <1>2, <1>5, <2>2
<1>9. \A k \in D : \E i \in D : stored[k] = Row(b.lines[i])
  BY <1>2, <1>5, <1>7
<1>10. \A i \in D : \E k \in D : stored[k] = Row(b.lines[i])
  BY <1>2, <1>6, <1>7
<1>11. {r.code : r \in ToSet(stored)} = Codes(b)
  <2>1. ToSet(stored) = {stored[k] : k \in D} /\ Codes(b) = {b.lines[i].code : i \in D}
    BY <1>7, CodesNameLines DEF ToSet
  <2>2. \A r \in ToSet(stored) : \E i \in D : r = Row(b.lines[i])
    BY <1>9, <2>1
  <2>3. \A i \in D : Row(b.lines[i]) \in ToSet(stored)
    BY <1>10, <2>1
  <2>4. \A r \in ToSet(stored) : r.code \in Codes(b)
    BY <1>3, <2>1, <2>2
  <2>5. \A i \in D : \E r \in ToSet(stored) : r.code = b.lines[i].code
    BY <1>3, <2>3
  <2>6. \A code \in Codes(b) : \E r \in ToSet(stored) : code = r.code
    BY <2>1, <2>5
  <2>7. QED  BY <2>4, <2>6
<1>12. ASSUME DistinctCodes(b), NEW i \in D
       PROVE  /\ LastOf(stored, b.lines[i].code) = Row(b.lines[i])
              /\ LastOf(fresh, b.lines[i].code) = Row(b.lines[i])
  <2>1. \A j \in D : b.lines[j].code = b.lines[i].code => j = i
    BY <1>12, CodesNameLines
  <2>2. \E k \in D : stored[k].code = b.lines[i].code
    BY <1>3, <1>10
  <2>3. PICK k \in D : stored[k].code = b.lines[i].code /\ LastOf(stored, b.lines[i].code) = stored[k]
    BY <1>1, <1>7, <2>2, LastOne
  <2>4. PICK j \in D : stored[k] = Row(b.lines[j])
    BY <1>9
  <2>5. j = i
    BY <1>3, <2>1, <2>3, <2>4
  <2>6. PICK m \in D : fresh[m].code = b.lines[i].code /\ LastOf(fresh, b.lines[i].code) = fresh[m]
    BY <1>1, <1>3, <1>7, LastOne
  <2>7. m = i
    BY <1>3, <1>7, <2>1, <2>6
  <2>8. QED  BY <1>7, <2>3, <2>4, <2>5, <2>6, <2>7
<1>13. QED  BY <1>8, <1>11, <1>12 DEF stored, fresh

\* The bounds of a ladder that ends ascend.
LEMMA LadderAscends ==
    ASSUME NEW tiers \in Seq(Tiers), LadderOK(tiers)
    PROVE  LET n == Len(tiers)
           IN /\ n \in Nat \ {0} /\ DOMAIN tiers = 1..n
              /\ tiers[n].upTo = Unbounded
              /\ \A i \in 1..(n - 1) : tiers[i].upTo \in Nat \ {0}
              /\ \A i, j \in 1..(n - 1) : i < j => tiers[i].upTo < tiers[j].upTo
<1> DEFINE n == Len(tiers)
           up(i) == tiers[i].upTo
           Bad == {j \in 1..(n - 1) : up(j) <= 0 \/ \E i \in 1..(n - 1) : i < j /\ up(i) >= up(j)}
<1>1. n \in Nat /\ DOMAIN tiers = 1..n /\ n # 0
  BY DEF LadderOK
<1>2. up(n) = Unbounded
  BY <1>1 DEF LadderOK, Last
<1>3. \A i \in 1..n : up(i) \in Int
  <2>1. ASSUME NEW i \in 1..n PROVE tiers[i].upTo \in Int
    <3>1. tiers[i] \in Tiers
      BY <1>1
    <3>2. QED  BY <3>1 DEF Tiers
  <2>2. QED  BY <2>1
<1>4. \A i \in 1..(n - 1) : up(i) > (IF i = 1 THEN 0 ELSE up(i - 1))
  BY DEF LadderOK
<1> HIDE DEF n, up
<1>5. Bad = {}
  <2>1. SUFFICES ASSUME Bad # {} PROVE FALSE
    OBVIOUS
  <2>2. Bad \in SUBSET (1..(n - 1)) /\ Bad \in SUBSET Int
    BY <1>1
  <2>3. IsFiniteSet(Bad)
    <3> HIDE DEF Bad
    <3>1. 1 \in Int /\ n - 1 \in Int
      BY <1>1
    <3>2. IsFiniteSet(1..(n - 1))
      BY <3>1, FS_Interval
    <3>3. QED  BY <2>2, <3>2, FS_Subset
  <2>4. PICK j \in Bad : \A y \in Bad : j =< y
    <3> HIDE DEF Bad
    <3>1. QED  BY <2>1, <2>2, <2>3, MinIsLeast
  <2>5. j \in 1..(n - 1) /\ j \in Int
    BY <1>1, <2>4
  <2>6. up(j) \in Int /\ (j # 1 => j - 1 \in 1..(n - 1) /\ up(j - 1) \in Int)
    BY <1>1, <1>3, <2>5
  <2>7. j # 1 => /\ up(j - 1) > 0
                 /\ \A i \in 1..(n - 1) : i < j - 1 => up(i) < up(j - 1)
    <3>1. SUFFICES ASSUME j # 1
                   PROVE  up(j - 1) > 0 /\ \A i \in 1..(n - 1) : i < j - 1 => up(i) < up(j - 1)
      OBVIOUS
    <3>2. j - 1 \notin Bad
      BY <2>4, <2>5
    <3>3. \A i \in 1..(n - 1) : up(i) \in Int
      BY <1>1, <1>3
    <3>4. QED  BY <2>6, <3>1, <3>2, <3>3
  <2>8. up(j) > 0 /\ (j # 1 => up(j) > up(j - 1))
    BY <1>4, <2>5, <2>6, <2>7
  <2>9. PICK i \in 1..(n - 1) : i < j /\ up(i) >= up(j)
    BY <2>4, <2>6, <2>8
  <2>10. i \in Int /\ up(i) \in Int
    BY <1>1, <1>3
  <2>11. j # 1 /\ (i = j - 1 \/ i < j - 1)
    BY <2>5, <2>9, <2>10
  <2>12. QED  BY <2>6, <2>7, <2>8, <2>9, <2>10, <2>11
<1>6. \A i \in 1..(n - 1) : up(i) \in Int
  BY <1>1, <1>3
<1>7. \A i \in 1..(n - 1) : up(i) > 0
  BY <1>5, <1>6
<1>8. \A i, j \in 1..(n - 1) : i < j => up(i) < up(j)
  BY <1>5, <1>6
<1>9. QED  BY <1>1, <1>2, <1>6, <1>7, <1>8 DEF n, up

\* A package is the least number that holds the quantity.
LEMMA LeastPackages ==
    ASSUME NEW q \in Nat, NEW size \in Int, size > 0
    PROVE  Min({n \in 0..q : n * size >= q}) = (q + size - 1) \div size
<1> DEFINE S == {n \in 0..q : n * size >= q}
           m == (q + size - 1) \div size
<1>1. /\ m \in Nat /\ size * m <= q + size - 1 /\ q + size - 1 < size * m + size
  BY Quotient
<1> HIDE DEF m
<1>2. m * size >= q /\ m * size = size * m
  BY <1>1
<1>3. m <= q
  <2>1. SUFFICES ASSUME m >= q + 1 PROVE FALSE
    BY <1>1
  <2>2. size * m >= size * (q + 1)
    BY <1>1, <2>1
  <2>3. size * (q + 1) = size * q + size /\ size * q >= q
    OBVIOUS
  <2>4. size * m \in Int /\ size * q \in Int /\ size * (q + 1) \in Int
    BY <1>1
  <2>5. QED  BY <1>1, <2>2, <2>3, <2>4
<1>4. m \in S /\ S \in SUBSET (0..q) /\ S \in SUBSET Int
  BY <1>1, <1>2, <1>3
<1>5. \A n \in S : m <= n
  <2>1. SUFFICES ASSUME NEW n \in S, n < m PROVE FALSE
    BY <1>1
  <2>2. n \in Nat /\ n * size >= q /\ n + 1 <= m
    BY <1>1, <2>1
  <2>3. size * (n + 1) <= size * m
    BY <1>1, <2>2
  <2>4. size * (n + 1) = n * size + size
    BY <2>2
  <2>5. n * size \in Int /\ size * m \in Int
    BY <1>1, <2>2
  <2>6. QED  BY <1>1, <2>2, <2>3, <2>4, <2>5
<1>6. IsFiniteSet(S)
  <2> HIDE DEF S
  <2>1. 0 \in Int /\ q \in Int
    OBVIOUS
  <2>2. IsFiniteSet(0..q)
    BY <2>1, FS_Interval
  <2>3. QED  BY <1>4, <2>2, FS_Subset
<1>7. Min(S) \in S /\ \A y \in S : Min(S) =< y
  <2> HIDE DEF S
  <2>1. QED  BY <1>4, <1>6, MinIsLeast
<1>8. Min(S) = m
  <2>1. Min(S) \in Int
    BY <1>4, <1>7
  <2> HIDE DEF S
  <2>2. QED  BY <1>1, <1>4, <1>5, <1>7, <2>1
<1>9. QED  BY <1>8 DEF m

=============================================================================
