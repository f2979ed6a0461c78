-------------------------------- MODULE Sums --------------------------------
(***************************************************************************)
(* Sums over finite sets, as the models write them with MapThenSumSet and  *)
(* FoldLeft, and the facts about them that invariants on money need.  A    *)
(* sum is counted: a term stands for as many units as it is worth, a       *)
(* negative one for as many to take away.  What a fold computes is then    *)
(* the one function that its equation has for a solution.                  *)
(***************************************************************************)
EXTENDS Integers, FiniteSets, FiniteSetsExt, FiniteSetTheorems, TLAPS

Units(f, S) == UNION {{x} \X (1..f[x]) : x \in S}
Opposite(f) == [x \in DOMAIN f |-> -f[x]]

\* The sum of f over S.
SumOf(f, S) == Cardinality(Units(f, S)) - Cardinality(Units(Opposite(f), S))
Summable(f, S) == IsFiniteSet(S) /\ S \subseteq DOMAIN f /\ \A x \in S : f[x] \in Int

Worth(n) == IF n > 0 THEN n ELSE 0

\* A family of subsets of a finite set, and its smallest members.
Family(Q, S) == IsFiniteSet(S) /\ Q \in SUBSET SUBSET S /\ Q # {}
Smallest(s, Q) == \A t \in Q : ~(t \subseteq s /\ t # s)

\* Any set of subsets of a finite set that is not empty has a smallest one:
\* induction over finite sets, said of sets.
LEMMA SmallestSubset ==
    ASSUME NEW S, NEW Q, Family(Q, S)
    PROVE  \E s \in Q : Smallest(s, Q)
<1>0. IsFiniteSet(S) /\ Q \in SUBSET SUBSET S /\ Q # {}
  BY DEF Family
<1>1. IsWellFoundedOn(StrictSubsetOrdering(S), FiniteSubsetsOf(S))
  BY <1>0, FS_StrictSubsetOrderingWellFounded
<1>2. FiniteSubsetsOf(S) = SUBSET S
  BY <1>0, FS_FiniteSubsetsOfFinite
<1>3. PICK s \in Q : \A t \in Q : ~(<<t, s>> \in StrictSubsetOrdering(S))
  BY <1>0, <1>1, <1>2, WFMin
<1>4. QED
  BY <1>0, <1>3 DEF StrictSubsetOrdering, Smallest

\* One term's units.
LEMMA UnitsOfOne ==
    ASSUME NEW x, NEW n \in Int
    PROVE  IsFiniteSet({x} \X (1..n)) /\ Cardinality({x} \X (1..n)) = Worth(n)
<1> DEFINE one == {x}
           span == 1..n
<1>1. IsFiniteSet(one) /\ Cardinality(one) = 1
  BY FS_Singleton
<1>2. IsFiniteSet(span) /\ Cardinality(span) = Worth(n)
  <2>1. CASE n > 0
    BY <2>1, FS_Interval DEF Worth
  <2>2. CASE n <= 0
    <3>1. span = {}
      BY <2>2
    <3>2. QED  BY <2>2, <3>1, FS_EmptySet DEF Worth
  <2>3. QED  BY <2>1, <2>2
<1>3. Worth(n) \in Nat
  BY DEF Worth
<1> HIDE DEF one, span
<1>4. IsFiniteSet(one \X span) /\ Cardinality(one \X span) = 1 * Worth(n)
  BY <1>1, <1>2, FS_Product
<1>5. QED  BY <1>3, <1>4 DEF one, span

\* A finite set of terms has finitely many units.
LEMMA UnitsFinite ==
    ASSUME NEW f, NEW S, IsFiniteSet(S), \A x \in S : f[x] \in Int
    PROVE  IsFiniteSet(Units(f, S)) /\ Cardinality(Units(f, S)) \in Nat
<1> DEFINE parts == {{x} \X (1..f[x]) : x \in S}
           part == [x \in S |-> {x} \X (1..f[x])]
<1>1. part \in Surjection(S, parts)
  BY DEF Surjection
<1>2. IsFiniteSet(parts)
  BY <1>1, FS_Surjection
<1>3. ASSUME NEW x \in S
      PROVE  IsFiniteSet({x} \X (1..f[x]))
  BY UnitsOfOne
<1>4. QED
  BY <1>2, <1>3, FS_UNION, FS_CardinalityType DEF Units

\* One term more brings its own units.
LEMMA UnitsAdd ==
    ASSUME NEW f, NEW S, IsFiniteSet(S), \A x \in S : f[x] \in Int, NEW x \in S
    PROVE  Cardinality(Units(f, S)) = Worth(f[x]) + Cardinality(Units(f, S \ {x}))
<1> DEFINE own == {x} \X (1..f[x])
           rest == Units(f, S \ {x})
<1>1. IsFiniteSet(rest) /\ Cardinality(rest) \in Nat
  BY FS_RemoveElement, UnitsFinite
<1>2. IsFiniteSet(own) /\ Cardinality(own) = Worth(f[x])
  BY UnitsOfOne
<1>3. Units(f, S) = own \cup rest
  BY DEF Units
<1>4. own \cap rest = {}
  BY DEF Units
<1>5. Cardinality(own \cap rest) = 0
  BY <1>4, FS_EmptySet
<1>6. Worth(f[x]) \in Nat
  BY DEF Worth
<1> HIDE DEF own, rest
<1>7. Cardinality(Units(f, S)) = Cardinality(own) + Cardinality(rest) - 0
  BY <1>1, <1>2, <1>3, <1>5, FS_Union
<1>8. QED  BY <1>1, <1>2, <1>6, <1>7 DEF rest

-----------------------------------------------------------------------------
(* Sums of integers.                                                       *)

\* The sum of nothing.
THEOREM SumEmpty == \A f : SumOf(f, {}) = 0
<1>1. \A f : Units(f, {}) = {}
  BY DEF Units
<1>2. \A f : Cardinality(Units(f, {})) = 0
  BY <1>1, FS_EmptySet
<1>3. QED  BY <1>2 DEF SumOf

\* The opposite of a term.
LEMMA Opposites ==
    ASSUME NEW f, NEW S, Summable(f, S)
    PROVE  \A x \in S : Opposite(f)[x] = -f[x] /\ Opposite(f)[x] \in Int
BY DEF Summable, Opposite

\* A sum is an integer.
THEOREM SumType ==
    ASSUME NEW f, NEW S, Summable(f, S)
    PROVE  SumOf(f, S) \in Int
<1>1. IsFiniteSet(S) /\ \A x \in S : f[x] \in Int /\ Opposite(f)[x] \in Int
  BY Opposites DEF Summable
<1>2. Cardinality(Units(f, S)) \in Nat /\ Cardinality(Units(Opposite(f), S)) \in Nat
  BY <1>1, UnitsFinite
<1>3. QED  BY <1>2 DEF SumOf

\* A part of what can be summed can be summed.
THEOREM SumPart ==
    ASSUME NEW f, NEW S, Summable(f, S), NEW T \in SUBSET S
    PROVE  Summable(f, T)
BY FS_Subset DEF Summable

\* Any one term can be taken out.
THEOREM SumSplit ==
    ASSUME NEW f, NEW S, Summable(f, S), NEW x \in S
    PROVE  SumOf(f, S) = f[x] + SumOf(f, S \ {x})
<1>1. IsFiniteSet(S) /\ \A y \in S : f[y] \in Int /\ Opposite(f)[y] \in Int
  BY Opposites DEF Summable
<1>2. Cardinality(Units(f, S)) = Worth(f[x]) + Cardinality(Units(f, S \ {x}))
  BY <1>1, UnitsAdd
<1>3. Cardinality(Units(Opposite(f), S))
         = Worth(-f[x]) + Cardinality(Units(Opposite(f), S \ {x}))
  BY <1>1, UnitsAdd, Opposites
<1>4. /\ Cardinality(Units(f, S \ {x})) \in Nat
      /\ Cardinality(Units(Opposite(f), S \ {x})) \in Nat
  BY <1>1, FS_RemoveElement, UnitsFinite
<1>5. f[x] \in Int /\ Worth(f[x]) - Worth(-f[x]) = f[x] /\ Worth(f[x]) \in Nat
      /\ Worth(-f[x]) \in Nat
  BY <1>1 DEF Worth
<1>6. QED  BY <1>2, <1>3, <1>4, <1>5 DEF SumOf

\* A computation that takes one term out at a time, in any order.
OneByOne(it, f, S) ==
    it[{}] = 0 /\ \A s \in SUBSET S : s # {} => \E x \in s : it[s] = f[x] + it[s \ {x}]

\* Whatever takes one term out at a time, in any order, computes the sum: where
\* it goes wrong first, it was right before.
THEOREM SumUnique ==
    ASSUME NEW f, NEW S, Summable(f, S), NEW it, OneByOne(it, f, S)
    PROVE  \A s \in SUBSET S : it[s] = SumOf(f, s)
<1> DEFINE Q == {s \in SUBSET S : it[s] # SumOf(f, s)}
<1>1. SUFFICES ASSUME Q # {} PROVE FALSE
  OBVIOUS
<1>2. PICK s \in Q : Smallest(s, Q)
  <2>1. Family(Q, S)
    BY <1>1 DEF Summable, Family
  <2> HIDE DEF Q
  <2>2. QED  BY <2>1, SmallestSubset
<1>3. s # {}
  BY <1>2, SumEmpty DEF OneByOne
<1>4. PICK x \in s : it[s] = f[x] + it[s \ {x}]
  BY <1>2, <1>3 DEF OneByOne
<1>5. s \ {x} \in SUBSET S /\ s \ {x} \subseteq s /\ s \ {x} # s
  BY <1>2, <1>4
<1>6. it[s \ {x}] = SumOf(f, s \ {x})
  BY <1>2, <1>5 DEF Smallest
<1>7. SumOf(f, s) = f[x] + SumOf(f, s \ {x})
  BY <1>2, <1>4, SumPart, SumSplit
<1>8. QED  BY <1>2, <1>4, <1>6, <1>7

\* Only the terms count.
THEOREM SumSame ==
    ASSUME NEW f, NEW g, NEW S, Summable(f, S), Summable(g, S), \A x \in S : f[x] = g[x]
    PROVE  SumOf(f, S) = SumOf(g, S)
<1> DEFINE it == [s \in SUBSET S |-> SumOf(g, s)]
<1>1. it[{}] = 0
  BY SumEmpty
<1>2. ASSUME NEW s \in SUBSET S, s # {}
      PROVE  \E x \in s : it[s] = f[x] + it[s \ {x}]
  <2>1. PICK x \in s : TRUE
    BY <1>2
  <2>2. SumOf(g, s) = g[x] + SumOf(g, s \ {x})
    BY SumPart, SumSplit
  <2>3. QED  BY <2>2
<1> HIDE DEF it
<1>3. OneByOne(it, f, S)
  BY <1>1, <1>2 DEF OneByOne
<1>4. it[S] = SumOf(f, S)
  BY <1>3, SumUnique
<1>5. QED  BY <1>4 DEF it

\* Sums are added term by term.
THEOREM SumPlus ==
    ASSUME NEW f, NEW g, NEW h, NEW S, Summable(f, S), Summable(g, S), Summable(h, S),
           \A x \in S : h[x] = f[x] + g[x]
    PROVE  SumOf(h, S) = SumOf(f, S) + SumOf(g, S)
<1> DEFINE it == [s \in SUBSET S |-> SumOf(f, s) + SumOf(g, s)]
<1>1. it[{}] = 0
  BY SumEmpty
<1>2. ASSUME NEW s \in SUBSET S, s # {}
      PROVE  \E x \in s : it[s] = h[x] + it[s \ {x}]
  <2>1. PICK x \in s : TRUE
    BY <1>2
  <2>2. SumOf(f, s) = f[x] + SumOf(f, s \ {x}) /\ SumOf(g, s) = g[x] + SumOf(g, s \ {x})
    BY SumPart, SumSplit
  <2>3. SumOf(f, s \ {x}) \in Int /\ SumOf(g, s \ {x}) \in Int /\ f[x] \in Int /\ g[x] \in Int
    <3>1. s \ {x} \in SUBSET S
      OBVIOUS
    <3>2. QED  BY <3>1, SumPart, SumType DEF Summable
  <2>4. /\ it[s] = SumOf(f, s) + SumOf(g, s)
        /\ it[s \ {x}] = SumOf(f, s \ {x}) + SumOf(g, s \ {x}) /\ h[x] = f[x] + g[x]
    OBVIOUS
  <2> HIDE DEF it
  <2>5. it[s] = h[x] + it[s \ {x}]
    BY <2>2, <2>3, <2>4
  <2>6. QED  BY <2>5
<1> HIDE DEF it
<1>3. OneByOne(it, h, S)
  BY <1>1, <1>2 DEF OneByOne
<1>4. it[S] = SumOf(h, S)
  BY <1>3, SumUnique
<1>5. QED  BY <1>4 DEF it

\* A common factor can be taken out.
THEOREM SumTimes ==
    ASSUME NEW f, NEW g, NEW S, NEW u \in Int, Summable(f, S), Summable(g, S),
           \A x \in S : f[x] = u * g[x]
    PROVE  SumOf(f, S) = u * SumOf(g, S)
<1> DEFINE it == [s \in SUBSET S |-> u * SumOf(g, s)]
<1>1. it[{}] = 0
  BY SumEmpty
<1>2. ASSUME NEW s \in SUBSET S, s # {}
      PROVE  \E x \in s : it[s] = f[x] + it[s \ {x}]
  <2>1. PICK x \in s : TRUE
    BY <1>2
  <2>2. SumOf(g, s) = g[x] + SumOf(g, s \ {x})
    BY SumPart, SumSplit
  <2>3. SumOf(g, s \ {x}) \in Int /\ g[x] \in Int
    <3>1. s \ {x} \in SUBSET S
      OBVIOUS
    <3>2. QED  BY <3>1, SumPart, SumType DEF Summable
  <2>4. u * (g[x] + SumOf(g, s \ {x})) = u * g[x] + u * SumOf(g, s \ {x})
    BY <2>3
  <2>5. QED  BY <2>2, <2>4
<1> HIDE DEF it
<1>3. OneByOne(it, f, S)
  BY <1>1, <1>2 DEF OneByOne
<1>4. it[S] = SumOf(f, S)
  BY <1>3, SumUnique
<1>5. QED  BY <1>4 DEF it

\* A sum of natural numbers is one, and grows with its set.
THEOREM SumNat ==
    ASSUME NEW f, NEW S, Summable(f, S), \A x \in S : f[x] \in Nat
    PROVE  /\ SumOf(f, S) \in Nat
           /\ \A T \in SUBSET S : SumOf(f, T) <= SumOf(f, S)
<1>1. ASSUME NEW T \in SUBSET S
      PROVE  SumOf(f, T) = Cardinality(Units(f, T)) /\ IsFiniteSet(Units(f, T))
             /\ Cardinality(Units(f, T)) \in Nat
  <2>1. Summable(f, T)
    BY SumPart
  <2>2. \A x \in T : 1..Opposite(f)[x] = {}
    BY Opposites
  <2>3. Units(Opposite(f), T) = {}
    BY <2>2 DEF Units
  <2>4. Cardinality(Units(Opposite(f), T)) = 0
    BY <2>3, FS_EmptySet
  <2>5. IsFiniteSet(Units(f, T)) /\ Cardinality(Units(f, T)) \in Nat
    BY <2>1, UnitsFinite DEF Summable
  <2>6. QED  BY <2>4, <2>5 DEF SumOf
<1>2. ASSUME NEW T \in SUBSET S
      PROVE  SumOf(f, T) <= SumOf(f, S)
  <2>1. Units(f, T) \subseteq Units(f, S)
    BY DEF Units
  <2>2. S \in SUBSET S
    OBVIOUS
  <2>3. QED  BY <1>1, <2>1, <2>2, FS_Subset
<1>3. S \in SUBSET S
  OBVIOUS
<1>4. QED  BY <1>1, <1>2, <1>3

\* Smaller terms, no greater sum.
THEOREM SumMonotone ==
    ASSUME NEW f, NEW g, NEW S, Summable(f, S), Summable(g, S), \A x \in S : f[x] <= g[x]
    PROVE  SumOf(f, S) <= SumOf(g, S)
<1> DEFINE d == [x \in S |-> g[x] - f[x]]
<1>1. Summable(d, S) /\ \A x \in S : d[x] \in Nat /\ g[x] = f[x] + d[x]
  BY DEF Summable
<1> HIDE DEF d
<1>2. SumOf(g, S) = SumOf(f, S) + SumOf(d, S)
  BY <1>1, SumPlus
<1>3. SumOf(d, S) \in Nat /\ SumOf(f, S) \in Int
  BY <1>1, SumNat, SumType
<1>4. QED  BY <1>2, <1>3

\* A fold that adds in any order: its equation has a solution, and every one
\* is the sum.
THEOREM ChoiceAdds ==
    ASSUME NEW f, NEW T, Summable(f, T)
    PROVE  /\ \E it : it = [s \in SUBSET T |->
                              IF s = {} THEN 0
                              ELSE f[CHOOSE x \in s : TRUE] + it[s \ {CHOOSE x \in s : TRUE}]]
           /\ \A it : it = [s \in SUBSET T |->
                              IF s = {} THEN 0
                              ELSE f[CHOOSE x \in s : TRUE] + it[s \ {CHOOSE x \in s : TRUE}]]
                         => it[T] = SumOf(f, T)
<1> DEFINE sums == [s \in SUBSET T |-> SumOf(f, s)]
<1>1. sums = [s \in SUBSET T |->
                IF s = {} THEN 0
                ELSE f[CHOOSE x \in s : TRUE] + sums[s \ {CHOOSE x \in s : TRUE}]]
  <2>1. ASSUME NEW s \in SUBSET T, s # {}
        PROVE  sums[s] = f[CHOOSE x \in s : TRUE] + sums[s \ {CHOOSE x \in s : TRUE}]
    <3> DEFINE x == CHOOSE x \in s : TRUE
    <3>1. x \in s
      BY <2>1
    <3> HIDE DEF x
    <3>2. SumOf(f, s) = f[x] + SumOf(f, s \ {x})
      BY <3>1, SumPart, SumSplit
    <3>3. sums[s] = SumOf(f, s) /\ sums[s \ {x}] = SumOf(f, s \ {x})
      OBVIOUS
    <3>4. QED  BY <3>2, <3>3 DEF x
  <2>2. sums[{}] = 0
    BY SumEmpty
  <2>3. QED  BY <2>1, <2>2
<1>2. ASSUME NEW it,
             it = [s \in SUBSET T |->
                     IF s = {} THEN 0
                     ELSE f[CHOOSE x \in s : TRUE] + it[s \ {CHOOSE x \in s : TRUE}]]
      PROVE  it[T] = SumOf(f, T)
  <2>1. it[{}] = 0
    BY <1>2
  <2>2. ASSUME NEW s \in SUBSET T, s # {}
        PROVE  \E x \in s : it[s] = f[x] + it[s \ {x}]
    <3>1. (CHOOSE x \in s : TRUE) \in s
      BY <2>2
    <3>2. it[s] = f[CHOOSE x \in s : TRUE] + it[s \ {CHOOSE x \in s : TRUE}]
      BY <1>2, <2>2
    <3> HIDE <1>2
    <3>3. QED  BY <3>1, <3>2
  <2> HIDE <1>2
  <2>3. OneByOne(it, f, T)
    BY <2>1, <2>2 DEF OneByOne
  <2>4. QED  BY <2>3, SumUnique
<1>3. QED  BY <1>1, <1>2

-----------------------------------------------------------------------------
(* Sums of the amounts of ledger rows.                                     *)

Amounts(T) == MapThenSumSet(LAMBDA t : t.amount, T)

Amounted(T) == IsFiniteSet(T) /\ \A t \in T : t.amount \in Nat

AmountIn(T) == [t \in T |-> t.amount]

\* Rows with amounts can be summed.
LEMMA AmountedIsSummable ==
    ASSUME NEW T, Amounted(T)
    PROVE  Summable(AmountIn(T), T) /\ \A t \in T : AmountIn(T)[t] = t.amount
BY DEF Amounted, Summable, AmountIn

\* The sum of a finite set of rows is what the fold computes.
THEOREM AmountsIsSum ==
    ASSUME NEW T, Amounted(T)
    PROVE  Amounts(T) = SumOf(AmountIn(T), T)
<1> DEFINE P(it) ==
        it = [s \in SUBSET T |->
                IF s = {} THEN 0
                ELSE (CHOOSE x \in s : TRUE).amount + it[s \ {CHOOSE x \in s : TRUE}]]
           f == AmountIn(T)
           Q(it) == it = [s \in SUBSET T |->
                            IF s = {} THEN 0
                            ELSE f[CHOOSE x \in s : TRUE] + it[s \ {CHOOSE x \in s : TRUE}]]
           it == CHOOSE it : P(it)
<1>1. Summable(f, T) /\ \A t \in T : f[t] = t.amount
  BY AmountedIsSummable
<1>2. \A i : P(i) <=> Q(i)
  <2>1. \A s \in SUBSET T : s # {} => f[CHOOSE x \in s : TRUE] = (CHOOSE x \in s : TRUE).amount
    BY <1>1
  <2> HIDE DEF f
  <2>2. QED  BY <2>1
<1>3. (\E i : Q(i)) /\ \A i : Q(i) => i[T] = SumOf(f, T)
  BY <1>1, ChoiceAdds
<1>4. Amounts(T) = it[T]
  BY DEF Amounts, MapThenSumSet, MapThenFoldSet
<1> HIDE DEF P, Q
<1>5. P(it)
  BY <1>2, <1>3, Zenon
<1>6. QED  BY <1>2, <1>3, <1>4, <1>5

\* The sum of nothing.
THEOREM AmountsEmpty == Amounts({}) = 0
BY AmountsIsSum, SumEmpty, FS_EmptySet DEF Amounted

\* A sum is a natural number.
THEOREM AmountsType ==
    ASSUME NEW T, Amounted(T)
    PROVE  Amounts(T) \in Nat
BY AmountsIsSum, AmountedIsSummable, SumNat DEF Amounted

\* A row that was not there adds its amount.
THEOREM AmountsAdd ==
    ASSUME NEW T, Amounted(T), NEW x, x.amount \in Nat, x \notin T
    PROVE  Amounted(T \cup {x}) /\ Amounts(T \cup {x}) = Amounts(T) + x.amount
<1> DEFINE U == T \cup {x}
<1>1. Amounted(U) /\ x \in U /\ U \ {x} = T /\ T \in SUBSET U
  BY FS_AddElement DEF Amounted
<1> HIDE DEF U
<1>2. SumOf(AmountIn(U), U) = x.amount + SumOf(AmountIn(U), T)
  BY <1>1, AmountedIsSummable, SumSplit
<1>3. SumOf(AmountIn(U), T) = SumOf(AmountIn(T), T)
  BY <1>1, AmountedIsSummable, SumPart, SumSame
<1>4. Amounts(T) \in Nat
  BY AmountsType
<1>5. QED  BY <1>1, <1>2, <1>3, <1>4, AmountsIsSum DEF U

\* Fewer rows, no greater sum.
THEOREM AmountsMonotone ==
    ASSUME NEW T, Amounted(T), NEW S \in SUBSET T
    PROVE  Amounted(S) /\ Amounts(S) <= Amounts(T)
<1>1. Amounted(S)
  BY FS_Subset DEF Amounted
<1>2. SumOf(AmountIn(T), S) = SumOf(AmountIn(S), S)
  BY <1>1, AmountedIsSummable, SumPart, SumSame
<1>3. SumOf(AmountIn(T), S) <= SumOf(AmountIn(T), T)
  BY AmountedIsSummable, SumNat DEF Amounted
<1>4. QED  BY <1>1, <1>2, <1>3, AmountsIsSum

-----------------------------------------------------------------------------
(* Sums in another order, or with terms that add nothing.                  *)

\* The terms may be renamed, one to one.
THEOREM SumRenamed ==
    ASSUME NEW f, NEW S, NEW T, Summable(f, T), IsFiniteSet(S), NEW r \in Bijection(S, T),
           NEW g, Summable(g, S), \A x \in S : g[x] = f[r[x]]
    PROVE  SumOf(g, S) = SumOf(f, T)
<1> DEFINE Image(s) == {r[x] : x \in s}
           it == [s \in SUBSET S |-> SumOf(f, Image(s))]
<1>1. /\ \A x \in S : r[x] \in T
      /\ \A x, y \in S : r[x] = r[y] => x = y
      /\ \A y \in T : \E x \in S : r[x] = y
  BY DEF Bijection, Injection, Surjection, IsInjective
<1>2. it[{}] = 0
  <2>1. Image({}) = {}
    OBVIOUS
  <2>2. QED  BY <2>1, SumEmpty
<1>3. ASSUME NEW s \in SUBSET S, s # {}
      PROVE  \E x \in s : it[s] = g[x] + it[s \ {x}]
  <2>1. PICK x \in s : TRUE
    BY <1>3
  <2>2. Image(s) \in SUBSET T /\ r[x] \in Image(s) /\ Image(s \ {x}) = Image(s) \ {r[x]}
    BY <1>1
  <2>3. it[s] = SumOf(f, Image(s)) /\ it[s \ {x}] = SumOf(f, Image(s \ {x}))
    OBVIOUS
  <2> HIDE DEF it, Image
  <2>4. SumOf(f, Image(s)) = f[r[x]] + SumOf(f, Image(s) \ {r[x]})
    BY <2>2, SumPart, SumSplit
  <2>5. it[s] = g[x] + it[s \ {x}]
    BY <2>2, <2>3, <2>4
  <2>6. QED  BY <2>5
<1>4. it[S] = SumOf(f, Image(S)) /\ Image(S) = T
  BY <1>1
<1> HIDE DEF it, Image
<1>5. OneByOne(it, g, S)
  BY <1>2, <1>3 DEF OneByOne
<1>6. it[S] = SumOf(g, S)
  BY <1>5, SumUnique
<1>7. QED  BY <1>4, <1>6

\* Terms of nothing may be left out.
THEOREM SumWithoutZeros ==
    ASSUME NEW f, NEW S, Summable(f, S), NEW T \in SUBSET S, \A x \in S \ T : f[x] = 0
    PROVE  SumOf(f, S) = SumOf(f, T)
<1> DEFINE it == [s \in SUBSET S |-> SumOf(f, s \cap T)]
<1>1. it[{}] = 0
  <2>1. {} \cap T = {}
    OBVIOUS
  <2>2. QED  BY <2>1, SumEmpty
<1>2. ASSUME NEW s \in SUBSET S, s # {}
      PROVE  \E x \in s : it[s] = f[x] + it[s \ {x}]
  <2>1. PICK x \in s : TRUE
    BY <1>2
  <2>2. it[s] = SumOf(f, s \cap T) /\ it[s \ {x}] = SumOf(f, (s \ {x}) \cap T)
    OBVIOUS
  <2> HIDE DEF it
  <2>3. SumOf(f, s \cap T) \in Int /\ s \cap T \in SUBSET S
    BY SumPart, SumType
  <2>4. CASE x \in T
    <3>1. (s \ {x}) \cap T = (s \cap T) \ {x} /\ x \in s \cap T
      BY <2>4
    <3>2. SumOf(f, s \cap T) = f[x] + SumOf(f, (s \cap T) \ {x})
      BY <2>3, <3>1, SumPart, SumSplit
    <3>3. it[s] = f[x] + it[s \ {x}]
      BY <2>2, <3>1, <3>2
    <3>4. QED  BY <3>3
  <2>5. CASE x \notin T
    <3>1. (s \ {x}) \cap T = s \cap T /\ f[x] = 0
      BY <2>5
    <3>2. it[s] = it[s \ {x}] /\ it[s \ {x}] \in Int
      BY <2>2, <2>3, <3>1
    <3>3. it[s] = f[x] + it[s \ {x}]
      BY <3>1, <3>2
    <3>4. QED  BY <3>3
  <2>6. QED  BY <2>4, <2>5
<1>3. it[S] = SumOf(f, T)
  <2>1. S \cap T = T
    OBVIOUS
  <2>2. QED  BY <2>1
<1> HIDE DEF it
<1>4. OneByOne(it, f, S)
  BY <1>1, <1>2 DEF OneByOne
<1>5. it[S] = SumOf(f, S)
  BY <1>4, SumUnique
<1>6. QED  BY <1>3, <1>5

-----------------------------------------------------------------------------
(* Folds over sequences take the last index first.                         *)

\* A finite set of integers that is not empty has a greatest one.
LEMMA MaxIsGreatest ==
    ASSUME NEW S \in SUBSET Int, IsFiniteSet(S), S # {}
    PROVE  Max(S) \in S /\ \A y \in S : Max(S) >= y
<1> DEFINE Tops(t) == {x \in t : \A y \in t : x >= y}
           Q == {t \in SUBSET S : t # {} /\ Tops(t) = {}}
<1>1. Q = {}
  <2>1. SUFFICES ASSUME Q # {} PROVE FALSE
    OBVIOUS
  <2>2. PICK s \in Q : Smallest(s, Q)
    <3>1. Family(Q, S)
      BY <2>1 DEF Family
    <3> HIDE DEF Q
    <3>2. QED  BY <3>1, SmallestSubset
  <2>3. PICK x \in s : TRUE
    BY <2>2
  <2>4. CASE s \ {x} = {}
    <3>1. x \in Tops(s)
      BY <2>4
    <3>2. QED  BY <2>2, <3>1
  <2>5. CASE s \ {x} # {}
    <3>1. s \ {x} \notin Q /\ s \ {x} \in SUBSET S
      BY <2>2, <2>3 DEF Smallest
    <3>2. PICK m \in s \ {x} : \A y \in s \ {x} : m >= y
      BY <2>5, <3>1
    <3>3. m \in Tops(s) \/ x \in Tops(s)
      BY <3>2
    <3>4. QED  BY <2>2, <3>3
  <2>6. QED  BY <2>4, <2>5
<1>2. \E x \in S : \A y \in S : x >= y
  BY <1>1
<1>3. QED  BY <1>2 DEF Max

\* What a fold over the indices D computes: step by step, the last index last.
Runs(it, step, base, D) ==
    \A s \in SUBSET D :
        it[s] = IF s = {} THEN base ELSE step[<<it[s \ {Max(s)}], Max(s)>>]

\* Such a fold computes something, of the type of its steps.
THEOREM FoldExists ==
    ASSUME NEW D \in SUBSET Int, IsFiniteSet(D), NEW A, NEW base \in A,
           NEW step \in [A \X D -> A]
    PROVE  \E it \in [SUBSET D -> A] : Runs(it, step, base, D)
<1> DEFINE Q == {d \in SUBSET D : ~\E it \in [SUBSET d -> A] : Runs(it, step, base, d)}
<1>1. SUFFICES ASSUME Q # {} PROVE FALSE
  OBVIOUS
<1>2. PICK d \in Q : Smallest(d, Q)
  <2>1. Family(Q, D)
    BY <1>1 DEF Family
  <2> HIDE DEF Q
  <2>2. QED  BY <2>1, SmallestSubset
<1>3. IsFiniteSet(d) /\ \A s \in SUBSET d : IsFiniteSet(s) /\ s \in SUBSET Int
  BY <1>2, FS_Subset
<1>4. CASE d = {}
  <2> DEFINE it == [s \in SUBSET d |-> base]
  <2>1. Runs(it, step, base, d) /\ it \in [SUBSET d -> A]
    BY <1>4 DEF Runs
  <2>2. QED  BY <1>2, <2>1
<1>5. CASE d # {}
  <2> DEFINE m == Max(d)
             e == d \ {m}
  <2>1. m \in d /\ (\A y \in d : m >= y) /\ m \in Int
    BY <1>3, <1>5, MaxIsGreatest
  <2> HIDE DEF m
  <2>2. e \in SUBSET D /\ e \subseteq d /\ e # d
    BY <1>2, <2>1
  <2>3. e \notin Q
    BY <1>2, <2>2 DEF Smallest
  <2>4. PICK j \in [SUBSET e -> A] : Runs(j, step, base, e)
    BY <2>2, <2>3
  <2> DEFINE it == [s \in SUBSET d |-> IF m \in s THEN step[<<j[s \ {m}], m>>] ELSE j[s]]
  <2>5. it \in [SUBSET d -> A]
    <3>1. ASSUME NEW s \in SUBSET d
          PROVE  (IF m \in s THEN step[<<j[s \ {m}], m>>] ELSE j[s]) \in A
      <4>1. CASE m \in s
        <5>1. s \ {m} \in SUBSET e
          OBVIOUS
        <5>2. <<j[s \ {m}], m>> \in A \X D
          BY <1>2, <2>1, <5>1
        <5>3. QED  BY <4>1, <5>2
      <4>2. CASE m \notin s
        BY <4>2
      <4>3. QED  BY <4>1, <4>2
    <3>2. QED  BY <3>1
  <2>6. ASSUME NEW s \in SUBSET d
        PROVE  it[s] = IF s = {} THEN base ELSE step[<<it[s \ {Max(s)}], Max(s)>>]
    <3>1. CASE m \in s
      <4>1. Max(s) \in s /\ \A y \in s : Max(s) >= y
        BY <1>3, <3>1, MaxIsGreatest
      <4>2. Max(s) = m
        <5>1. Max(s) >= m /\ m >= Max(s) /\ Max(s) \in Int
          BY <1>3, <2>1, <3>1, <4>1
        <5>2. QED  BY <2>1, <5>1
      <4>3. it[s \ {m}] = j[s \ {m}]
        OBVIOUS
      <4>4. QED  BY <3>1, <4>2, <4>3
    <3>2. CASE m \notin s
      <4>1. s \in SUBSET e
        BY <3>2
      <4>2. it[s] = j[s] /\ it[s \ {Max(s)}] = j[s \ {Max(s)}]
        BY <3>2
      <4>3. QED  BY <2>4, <4>1, <4>2 DEF Runs
    <3>3. QED  BY <3>1, <3>2
  <2> HIDE DEF it
  <2>7. Runs(it, step, base, d)
    BY <2>6 DEF Runs
  <2>8. QED  BY <1>2, <2>5, <2>7
<1>6. QED  BY <1>4, <1>5

\* It computes one thing only.
THEOREM FoldUnique ==
    ASSUME NEW D \in SUBSET Int, IsFiniteSet(D), NEW base, NEW step,
           NEW i, Runs(i, step, base, D), NEW j, Runs(j, step, base, D)
    PROVE  \A s \in SUBSET D : i[s] = j[s]
<1> DEFINE Q == {s \in SUBSET D : i[s] # j[s]}
<1>1. SUFFICES ASSUME Q # {} PROVE FALSE
  OBVIOUS
<1>2. PICK s \in Q : Smallest(s, Q)
  <2>1. Family(Q, D)
    BY <1>1 DEF Family
  <2> HIDE DEF Q
  <2>2. QED  BY <2>1, SmallestSubset
<1>3. s # {}
  BY <1>2 DEF Runs
<1>4. Max(s) \in s
  BY <1>2, <1>3, FS_Subset, MaxIsGreatest
<1>5. i[s \ {Max(s)}] = j[s \ {Max(s)}]
  BY <1>2, <1>4 DEF Smallest
<1>6. QED  BY <1>2, <1>3, <1>5 DEF Runs

\* A fold that adds: its equation has a solution, and every one is the sum.
THEOREM FoldAdds ==
    ASSUME NEW f, NEW D \in SUBSET Int, Summable(f, D)
    PROVE  /\ \E it : it = [s \in SUBSET D |->
                              IF s = {} THEN 0 ELSE it[s \ {Max(s)}] + f[Max(s)]]
           /\ \A it : it = [s \in SUBSET D |->
                              IF s = {} THEN 0 ELSE it[s \ {Max(s)}] + f[Max(s)]]
                         => it[D] = SumOf(f, D)
<1>1. ASSUME NEW s \in SUBSET D, s # {}
      PROVE  Max(s) \in s /\ f[Max(s)] \in Int /\ Summable(f, s)
             /\ SumOf(f, s) = SumOf(f, s \ {Max(s)}) + f[Max(s)]
  <2>1. IsFiniteSet(s) /\ Summable(f, s)
    BY SumPart DEF Summable
  <2>2. Max(s) \in s
    BY <1>1, <2>1, MaxIsGreatest
  <2>3. SumOf(f, s) = f[Max(s)] + SumOf(f, s \ {Max(s)}) /\ f[Max(s)] \in Int
    BY <2>1, <2>2, SumSplit DEF Summable
  <2>4. SumOf(f, s \ {Max(s)}) \in Int
    BY <2>1, SumPart, SumType
  <2>5. QED  BY <2>1, <2>2, <2>3, <2>4
<1>2. \E it : it = [s \in SUBSET D |-> IF s = {} THEN 0 ELSE it[s \ {Max(s)}] + f[Max(s)]]
  <2> DEFINE it == [s \in SUBSET D |-> SumOf(f, s)]
  <2>1. \A s \in SUBSET D : it[s] = IF s = {} THEN 0 ELSE it[s \ {Max(s)}] + f[Max(s)]
    <3>1. ASSUME NEW s \in SUBSET D, s # {}
          PROVE  it[s] = it[s \ {Max(s)}] + f[Max(s)]
      <4>1. s \ {Max(s)} \in SUBSET D
        OBVIOUS
      <4>2. QED  BY <1>1, <3>1, <4>1
    <3>2. it[{}] = 0
      BY SumEmpty
    <3>3. QED  BY <3>1, <3>2
  <2>2. it = [s \in SUBSET D |-> IF s = {} THEN 0 ELSE it[s \ {Max(s)}] + f[Max(s)]]
    BY <2>1
  <2>3. QED  BY <2>2
<1>3. ASSUME NEW it,
             it = [s \in SUBSET D |-> IF s = {} THEN 0 ELSE it[s \ {Max(s)}] + f[Max(s)]]
      PROVE  it[D] = SumOf(f, D)
  <2> DEFINE Q == {s \in SUBSET D : it[s] # SumOf(f, s)}
  <2>1. SUFFICES ASSUME Q # {} PROVE FALSE
    OBVIOUS
  <2>2. PICK s \in Q : Smallest(s, Q)
    <3>1. Family(Q, D)
      BY <2>1 DEF Summable, Family
    <3> HIDE DEF Q
    <3>2. QED  BY <3>1, SmallestSubset
  <2>3. s # {}
    BY <1>3, <2>2, SumEmpty
  <2>4. it[s] = it[s \ {Max(s)}] + f[Max(s)]
    BY <1>3, <2>2, <2>3
  <2> HIDE <1>3
  <2>5. Max(s) \in s /\ SumOf(f, s) = SumOf(f, s \ {Max(s)}) + f[Max(s)]
    BY <1>1, <2>2, <2>3
  <2>6. it[s \ {Max(s)}] = SumOf(f, s \ {Max(s)})
    BY <2>2, <2>5 DEF Smallest
  <2>7. QED  BY <2>2, <2>4, <2>5, <2>6
<1>4. QED  BY <1>2, <1>3

\* A sum of equal terms.
THEOREM SumConstant ==
    ASSUME NEW S, IsFiniteSet(S), NEW u \in Int, NEW f, S \subseteq DOMAIN f, \A x \in S : f[x] = u
    PROVE  Summable(f, S) /\ SumOf(f, S) = u * Cardinality(S)
<1> DEFINE g == [x \in S |-> 1]
           it == [s \in SUBSET S |-> Cardinality(s)]
<1>1. Summable(f, S)
  BY DEF Summable
<1>2. Summable(g, S)
  BY DEF Summable
<1>3. OneByOne(it, g, S)
  <2>1. it[{}] = 0
    BY FS_EmptySet
  <2>2. ASSUME NEW s \in SUBSET S, s # {}
        PROVE  \E x \in s : it[s] = g[x] + it[s \ {x}]
    <3>1. PICK x \in s : TRUE
      BY <2>2
    <3>2. IsFiniteSet(s)
      BY FS_Subset
    <3>3. Cardinality(s \ {x}) = Cardinality(s) - 1 /\ Cardinality(s) \in Nat
      BY <3>1, <3>2, FS_RemoveElement, FS_CardinalityType
    <3>4. it[s] = Cardinality(s) /\ it[s \ {x}] = Cardinality(s \ {x}) /\ g[x] = 1
      BY <3>1
    <3> HIDE DEF it, g
    <3>5. QED  BY <3>1, <3>3, <3>4
  <2> HIDE DEF it, g
  <2>3. QED  BY <2>1, <2>2 DEF OneByOne
<1>4. SumOf(g, S) = Cardinality(S)
  <2>1. it[S] = Cardinality(S)
    OBVIOUS
  <2> HIDE DEF it, g
  <2>2. it[S] = SumOf(g, S)
    BY <1>2, <1>3, SumUnique
  <2>3. QED  BY <2>1, <2>2
<1>5. \A x \in S : f[x] = u * g[x]
  OBVIOUS
<1> HIDE DEF g
<1>6. QED  BY <1>1, <1>2, <1>4, <1>5, SumTimes

=============================================================================
