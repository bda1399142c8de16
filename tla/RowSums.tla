---- MODULE RowSums ----
(***************************************************************************)
(* Sums over the rows of a table, as the quota properties take them: what  *)
(* MapThenSumSet returns for a finite set of keys does not depend on the   *)
(* order its rows are added in.  Induction is by a smallest counterexample *)
(* among the subsets of a finite set.                                      *)
(***************************************************************************)
EXTENDS FiniteSetsExt, FiniteSetTheorems, WellFoundedInduction, TLAPS

\* The amounts of the rows ks of a table.
AmountOf(table, ks) == MapThenSumSet(LAMBDA k : table[k].amount, ks)
----
\* Of a set of subsets of a finite set, one has no proper subset in it.
LEMMA SmallestSubset ==
    ASSUME NEW S, IsFiniteSet(S), NEW B, B \subseteq SUBSET S, B # {}
    PROVE  \E s \in B : \A u \in SUBSET s : u # s => u \notin B
  <1>1. IsWellFoundedOn(StrictSubsetOrdering(S), SUBSET S)
    BY FS_StrictSubsetOrderingWellFounded, FS_FiniteSubsetsOfFinite
  <1>2. PICK s \in B : \A u \in B : <<u, s>> \notin StrictSubsetOrdering(S)
    BY <1>1, WFMin
  <1>3. ASSUME NEW u \in SUBSET s, u # s, u \in B PROVE FALSE
    BY <1>2, <1>3 DEF StrictSubsetOrdering
  <1>. QED BY <1>2, <1>3
----
(***************************************************************************)
(* The function that MapThenSumSet defines on the subsets of a set.        *)
(***************************************************************************)
First(s) == CHOOSE x \in s : TRUE
Added(table, h, s) ==
    IF s = {} THEN 0 ELSE table[First(s)].amount + h[s \ {First(s)}]
IsSum(table, h, S) == h = [s \in SUBSET S |-> Added(table, h, s)]

LEMMA FirstIn == ASSUME NEW s, s # {} PROVE First(s) \in s
  BY DEF First

LEMMA AmountIsSum ==
    ASSUME NEW table, NEW S
    PROVE  AmountOf(table, S) = (CHOOSE h : IsSum(table, h, S))[S]
  BY DEF AmountOf, MapThenSumSet, MapThenFoldSet, IsSum, Added, First

\* Two such functions agree where both are defined.
LEMMA SumsAgree ==
    ASSUME NEW table, NEW S, IsFiniteSet(S), NEW T, NEW g, NEW h,
           IsSum(table, g, S), IsSum(table, h, T)
    PROVE  \A s \in SUBSET (S \cap T) : g[s] = h[s]
  <1> DEFINE B == {s \in SUBSET (S \cap T) : g[s] # h[s]}
  <1>1. ASSUME B # {} PROVE FALSE
    <2>1. PICK s \in B : \A u \in SUBSET s : u # s => u \notin B
      <3>1. B \subseteq SUBSET S
        OBVIOUS
      <3> HIDE DEF B
      <3>. QED BY <1>1, <3>1, SmallestSubset
    <2>2. g[s] = Added(table, g, s) /\ h[s] = Added(table, h, s)
      BY DEF IsSum
    <2>3. s # {}
      BY <2>2 DEF Added
    <2>4. First(s) \in s
      BY <2>3, FirstIn
    <2>5. g[s \ {First(s)}] = h[s \ {First(s)}]
      BY <2>1, <2>4
    <2>. QED BY <2>2, <2>3, <2>5 DEF Added
  <1>. QED BY <1>1

\* A finite set has one.
LEMMA SumExists ==
    ASSUME NEW table, NEW S, IsFiniteSet(S)
    PROVE  \E h : IsSum(table, h, S)
  <1> DEFINE B == {T \in SUBSET S : ~ \E h : IsSum(table, h, T)}
  <1>1. ASSUME B # {} PROVE FALSE
    <2>1. PICK T \in B : \A u \in SUBSET T : u # T => u \notin B
      <3>1. B \subseteq SUBSET S
        OBVIOUS
      <3> HIDE DEF B
      <3>. QED BY <1>1, <3>1, SmallestSubset
    <2>2. T \subseteq S /\ IsFiniteSet(T) /\ ~ \E h : IsSum(table, h, T)
      BY FS_Subset
    <2>3. \A u \in SUBSET T : u # T => \E h : IsSum(table, h, u)
      BY <2>1, <2>2
    <2> DEFINE H(u) == CHOOSE h : IsSum(table, h, u)
    <2>4. \A u \in SUBSET T : u # T => IsSum(table, H(u), u)
      BY <2>3
    <2> HIDE DEF H
    <2> DEFINE rest == T \ {First(T)}
               h == [s \in SUBSET T |->
                        IF s # T THEN H(s)[s] ELSE Added(table, H(rest), s)]
    <2>5. \A s, u \in SUBSET T : s # T /\ u # T /\ s \subseteq u => H(u)[s] = H(s)[s]
      <3> SUFFICES ASSUME NEW s \in SUBSET T, NEW u \in SUBSET T,
                          s # T, u # T, s \subseteq u
                   PROVE  H(u)[s] = H(s)[s]
        OBVIOUS
      <3>1. IsFiniteSet(u) /\ s \in SUBSET (u \cap s)
        BY <2>2, FS_Subset
      <3>. QED BY <2>4, <3>1, SumsAgree
    <2>6. ASSUME NEW s \in SUBSET T PROVE h[s] = Added(table, h, s)
      <3>1. CASE s = {}
        <4>1. CASE T = {}
          BY <3>1, <4>1 DEF Added
        <4>2. CASE T # {}
          <5>1. H(s)[s] = Added(table, H(s), s)
            BY <2>4, <3>1, <4>2 DEF IsSum
          <5>. QED BY <3>1, <4>2, <5>1 DEF Added
        <4>. QED BY <4>1, <4>2
      <3>2. CASE s # {}
        <4> DEFINE less == s \ {First(s)}
        <4>1. less \in SUBSET T /\ less # T /\ less \subseteq s
          BY <3>2, FirstIn
        <4>2. h[less] = H(less)[less]
          BY <4>1
        <4>3. CASE s # T
          <5>1. h[s] = Added(table, H(s), s)
            BY <2>4, <4>3 DEF IsSum
          <5>2. H(s)[less] = H(less)[less]
            BY <2>5, <4>1, <4>3
          <5> HIDE DEF h
          <5>. QED BY <3>2, <4>2, <5>1, <5>2 DEF Added
        <4>4. CASE s = T
          <5>1. h[s] = Added(table, H(less), s)
            BY <4>4
          <5> HIDE DEF h
          <5>. QED BY <3>2, <4>2, <5>1 DEF Added
        <4>. QED BY <4>3, <4>4
      <3>. QED BY <3>1, <3>2
    <2>7. h = [s \in SUBSET T |-> h[s]]
      OBVIOUS
    <2> HIDE DEF h
    <2>8. IsSum(table, h, T)
      BY <2>6, <2>7 DEF IsSum
    <2>. QED BY <2>2, <2>8
  <1>. QED BY <1>1

\* Nothing sums to nothing.
LEMMA AmountOfNone == ASSUME NEW table PROVE AmountOf(table, {}) = 0
  <1> DEFINE h == CHOOSE h : IsSum(table, h, {})
  <1>1. IsSum(table, h, {})
    BY SumExists, FS_EmptySet
  <1>2. AmountOf(table, {}) = h[{}]
    BY AmountIsSum
  <1> HIDE DEF h
  <1>. QED BY <1>1, <1>2 DEF IsSum, Added

\* The sum of a finite set is that of one of its rows and the others.
LEMMA AmountStep ==
    ASSUME NEW table, NEW S, IsFiniteSet(S), S # {}
    PROVE  AmountOf(table, S) =
              table[First(S)].amount + AmountOf(table, S \ {First(S)})
  <1> DEFINE H(T) == CHOOSE h : IsSum(table, h, T)
             rest == S \ {First(S)}
  <1>1. \A T : IsFiniteSet(T) => IsSum(table, H(T), T)
    BY SumExists
  <1>2. \A T : AmountOf(table, T) = H(T)[T]
    BY AmountIsSum
  <1> HIDE DEF H
  <1>3. IsFiniteSet(rest) /\ rest \in SUBSET (S \cap rest) /\ rest \in SUBSET S
    BY FS_Subset
  <1>4. H(S)[rest] = H(rest)[rest]
    BY <1>1, <1>3, SumsAgree
  <1>5. H(S)[S] = Added(table, H(S), S)
    BY <1>1 DEF IsSum
  <1>. QED BY <1>2, <1>4, <1>5 DEF Added
----
(***************************************************************************)
(* What the quota accounting needs of a sum.                               *)
(***************************************************************************)
\* A sum of amounts is an amount.
LEMMA AmountType ==
    ASSUME NEW table, NEW S, IsFiniteSet(S), \A k \in S : table[k].amount \in Nat
    PROVE  AmountOf(table, S) \in Nat
  <1> DEFINE B == {T \in SUBSET S : AmountOf(table, T) \notin Nat}
  <1>1. ASSUME B # {} PROVE FALSE
    <2>1. PICK T \in B : \A u \in SUBSET T : u # T => u \notin B
      <3>1. B \subseteq SUBSET S
        OBVIOUS
      <3> HIDE DEF B
      <3>. QED BY <1>1, <3>1, SmallestSubset
    <2>2. T \in SUBSET S /\ IsFiniteSet(T) /\ AmountOf(table, T) \notin Nat
      BY FS_Subset
    <2>3. T # {}
      BY <2>2, AmountOfNone
    <2>4. First(T) \in T
      BY <2>3, FirstIn
    <2>5. AmountOf(table, T \ {First(T)}) \in Nat
      BY <2>1, <2>4
    <2>6. AmountOf(table, T) = table[First(T)].amount + AmountOf(table, T \ {First(T)})
      BY <2>2, <2>3, AmountStep
    <2>. QED BY <2>2, <2>4, <2>5, <2>6
  <1>. QED BY <1>1

\* Any row may be added first.
LEMMA AmountOfRow ==
    ASSUME NEW table, NEW S, IsFiniteSet(S), \A k \in S : table[k].amount \in Nat,
           NEW x \in S
    PROVE  AmountOf(table, S) = table[x].amount + AmountOf(table, S \ {x})
  <1> DEFINE Splits(T, y) ==
                 AmountOf(table, T) = table[y].amount + AmountOf(table, T \ {y})
             B == {T \in SUBSET S : \E y \in T : ~Splits(T, y)}
  <1>1. ASSUME B # {} PROVE FALSE
    <2>1. PICK T \in B : \A u \in SUBSET T : u # T => u \notin B
      <3>1. B \subseteq SUBSET S
        OBVIOUS
      <3> HIDE DEF B
      <3>. QED BY <1>1, <3>1, SmallestSubset
    <2>2. T \in SUBSET S /\ \E y \in T : ~Splits(T, y)
      OBVIOUS
    <2>3. PICK y \in T : ~Splits(T, y)
      BY <2>2
    <2> DEFINE f == First(T)
               rest == T \ {f, y}
    <2>4. f \in T /\ Splits(T, f)
      <3>1. IsFiniteSet(T) /\ T # {}
        BY <2>2, FS_Subset
      <3>. QED BY <3>1, FirstIn, AmountStep
    <2>5. f # y
      BY <2>3, <2>4
    <2> HIDE DEF f
    <2>6. Splits(T \ {f}, y) /\ Splits(T \ {y}, f)
      BY <2>1, <2>2, <2>4, <2>5
    <2>7. (T \ {f}) \ {y} = rest /\ (T \ {y}) \ {f} = rest
      OBVIOUS
    <2>8. /\ AmountOf(table, rest) \in Nat
          /\ table[f].amount \in Nat
          /\ table[y].amount \in Nat
      <3>1. IsFiniteSet(rest) /\ \A k \in rest : table[k].amount \in Nat
        BY <2>2, FS_Subset
      <3>2. table[f].amount \in Nat /\ table[y].amount \in Nat
        BY <2>2, <2>4
      <3> HIDE DEF rest
      <3>3. AmountOf(table, rest) \in Nat
        BY <3>1, AmountType
      <3>. QED BY <3>2, <3>3
    <2> HIDE DEF rest
    <2>9. /\ AmountOf(table, T \ {f}) = table[y].amount + AmountOf(table, rest)
          /\ AmountOf(table, T \ {y}) = table[f].amount + AmountOf(table, rest)
      BY <2>6, <2>7
    <2>10. AmountOf(table, T) = table[y].amount + AmountOf(table, T \ {y})
      BY <2>4, <2>8, <2>9
    <2>. QED BY <2>3, <2>10
  <1>. QED BY <1>1

\* A row added to a set adds its amount.
LEMMA AmountWithRow ==
    ASSUME NEW table, NEW S, IsFiniteSet(S), NEW x, x \notin S,
           \A k \in S \cup {x} : table[k].amount \in Nat
    PROVE  /\ IsFiniteSet(S \cup {x})
           /\ AmountOf(table, S \cup {x}) = table[x].amount + AmountOf(table, S)
  <1>1. IsFiniteSet(S \cup {x})
    BY FS_AddElement
  <1>2. (S \cup {x}) \ {x} = S
    OBVIOUS
  <1> DEFINE T == S \cup {x}
  <1>3. x \in T
    OBVIOUS
  <1> HIDE DEF T
  <1>4. AmountOf(table, T) = table[x].amount + AmountOf(table, T \ {x})
    BY <1>1, <1>3, AmountOfRow DEF T
  <1>. QED BY <1>1, <1>2, <1>4 DEF T

\* A sum depends on the amounts of its rows alone.
LEMMA AmountSame ==
    ASSUME NEW t1, NEW t2, NEW S, IsFiniteSet(S),
           \A k \in S : t1[k].amount = t2[k].amount
    PROVE  AmountOf(t1, S) = AmountOf(t2, S)
  <1> DEFINE B == {T \in SUBSET S : AmountOf(t1, T) # AmountOf(t2, T)}
  <1>1. ASSUME B # {} PROVE FALSE
    <2>1. PICK T \in B : \A u \in SUBSET T : u # T => u \notin B
      <3>1. B \subseteq SUBSET S
        OBVIOUS
      <3> HIDE DEF B
      <3>. QED BY <1>1, <3>1, SmallestSubset
    <2>2. T \in SUBSET S /\ IsFiniteSet(T) /\ AmountOf(t1, T) # AmountOf(t2, T)
      BY FS_Subset
    <2>3. T # {}
      BY <2>2, AmountOfNone
    <2>4. First(T) \in T
      BY <2>3, FirstIn
    <2>5. AmountOf(t1, T \ {First(T)}) = AmountOf(t2, T \ {First(T)})
      BY <2>1, <2>4
    <2>6. /\ AmountOf(t1, T) = t1[First(T)].amount + AmountOf(t1, T \ {First(T)})
          /\ AmountOf(t2, T) = t2[First(T)].amount + AmountOf(t2, T \ {First(T)})
      BY <2>2, <2>3, AmountStep
    <2>7. t1[First(T)].amount = t2[First(T)].amount
      BY <2>2, <2>4
    <2>. QED BY <2>2, <2>5, <2>6, <2>7
  <1>. QED BY <1>1

\* More rows sum to no less.
LEMMA AmountOfMore ==
    ASSUME NEW table, NEW S, IsFiniteSet(S), \A k \in S : table[k].amount \in Nat,
           NEW R \in SUBSET S
    PROVE  AmountOf(table, R) <= AmountOf(table, S)
  <1> DEFINE B == {T \in SUBSET S : R \subseteq T
                                    /\ ~(AmountOf(table, R) <= AmountOf(table, T))}
  <1>1. ASSUME B # {} PROVE FALSE
    <2>1. PICK T \in B : \A u \in SUBSET T : u # T => u \notin B
      <3>1. B \subseteq SUBSET S
        OBVIOUS
      <3> HIDE DEF B
      <3>. QED BY <1>1, <3>1, SmallestSubset
    <2>2. /\ T \in SUBSET S
          /\ IsFiniteSet(T)
          /\ R \subseteq T
          /\ ~(AmountOf(table, R) <= AmountOf(table, T))
      BY FS_Subset
    <2>3. \A U \in SUBSET S : AmountOf(table, U) \in Nat
      BY FS_Subset, AmountType
    <2>4. PICK x \in T : x \notin R
      BY <2>2, <2>3
    <2>5. AmountOf(table, R) <= AmountOf(table, T \ {x})
      BY <2>1, <2>2, <2>4
    <2>6. AmountOf(table, T) = table[x].amount + AmountOf(table, T \ {x})
      BY <2>2, <2>4, AmountOfRow
    <2>7. /\ table[x].amount \in Nat
          /\ AmountOf(table, R) \in Nat
          /\ AmountOf(table, T \ {x}) \in Nat
      BY <2>2, <2>3, <2>4
    <2>. QED BY <2>2, <2>5, <2>6, <2>7
  <1>. QED BY <1>1

\* Rows of two sets without a row in common.
LEMMA AmountOfBoth ==
    ASSUME NEW table, NEW R, IsFiniteSet(R), NEW S, IsFiniteSet(S), R \cap S = {},
           \A k \in R \cup S : table[k].amount \in Nat
    PROVE  AmountOf(table, R \cup S) = AmountOf(table, R) + AmountOf(table, S)
  <1> DEFINE Adds(T) ==
                 AmountOf(table, R \cup T) = AmountOf(table, R) + AmountOf(table, T)
             B == {T \in SUBSET S : ~Adds(T)}
  <1>1. \A T \in SUBSET S : IsFiniteSet(T) /\ IsFiniteSet(R \cup T)
    BY FS_Subset, FS_Union
  <1>2. \A T \in SUBSET S : AmountOf(table, T) \in Nat /\ AmountOf(table, R) \in Nat
    BY <1>1, AmountType
  <1>3. ASSUME B # {} PROVE FALSE
    <2>1. PICK T \in B : \A u \in SUBSET T : u # T => u \notin B
      <3>1. B \subseteq SUBSET S
        OBVIOUS
      <3> HIDE DEF B
      <3>. QED BY <1>3, <3>1, SmallestSubset
    <2>2. T \in SUBSET S /\ ~Adds(T)
      OBVIOUS
    <2>3. T # {}
      <3> SUFFICES ASSUME T = {} PROVE FALSE
        OBVIOUS
      <3>1. R \cup T = R /\ AmountOf(table, T) = 0
        BY AmountOfNone
      <3>2. AmountOf(table, R) \in Nat
        BY <1>2, <2>2
      <3>3. AmountOf(table, R) = AmountOf(table, R) + 0
        BY <3>2
      <3>4. Adds(T)
        BY <3>1, <3>3
      <3>. QED BY <2>2, <3>4
    <2> DEFINE x == First(T)
               rest == T \ {x}
    <2>4. x \in T /\ x \notin R
      BY <2>2, <2>3, FirstIn
    <2>5. Adds(rest)
      BY <2>1, <2>2, <2>4
    <2> HIDE DEF x
    <2>6. AmountOf(table, T) = table[x].amount + AmountOf(table, rest)
      BY <1>1, <2>2, <2>4, AmountOfRow
    <2>7. AmountOf(table, R \cup T) = table[x].amount + AmountOf(table, R \cup rest)
      <3>1. (R \cup T) \ {x} = R \cup rest /\ x \in R \cup T
        BY <2>4
      <3>2. IsFiniteSet(R \cup T) /\ \A k \in R \cup T : table[k].amount \in Nat
        BY <1>1, <2>2
      <3>. QED BY <3>1, <3>2, AmountOfRow
    <2>8. table[x].amount \in Nat /\ rest \in SUBSET S
      BY <2>2, <2>4
    <2> HIDE DEF rest
    <2>. QED BY <1>2, <2>2, <2>5, <2>6, <2>7, <2>8
  <1>4. S \notin B
    BY <1>3
  <1>. QED BY <1>4

\* The keys that g maps to x, and into S.
Group(K, g, x) == {k \in K : g[k] = x}
Groups(K, g, S) == {k \in K : g[k] \in S}

\* Rows summed group by group are summed once.
LEMMA AmountOfGroups ==
    ASSUME NEW table, NEW K, IsFiniteSet(K), \A k \in K : table[k].amount \in Nat,
           NEW g, NEW S, IsFiniteSet(S), NEW sums,
           \A x \in S : sums[x].amount = AmountOf(table, Group(K, g, x))
    PROVE  AmountOf(sums, S) = AmountOf(table, Groups(K, g, S))
  <1> DEFINE Of(T) == Groups(K, g, T)
             Once(T) == AmountOf(sums, T) = AmountOf(table, Of(T))
             B == {T \in SUBSET S : ~Once(T)}
  <1>1. \A T : /\ IsFiniteSet(Of(T))
               /\ \A k \in Of(T) : table[k].amount \in Nat
               /\ AmountOf(table, Of(T)) \in Nat
    <2> TAKE T
    <2>1. IsFiniteSet(Of(T)) /\ \A k \in Of(T) : table[k].amount \in Nat
      <3>1. Of(T) \in SUBSET K
        BY DEF Groups
      <3>. QED BY <3>1, FS_Subset
    <2> HIDE DEF Of
    <2>. QED BY <2>1, AmountType
  <1>2. \A x \in S : sums[x].amount = AmountOf(table, Of({x}))
    <2>1. \A x : Of({x}) = Group(K, g, x)
      BY DEF Group, Groups
    <2>. QED BY <2>1
  <1>3. \A x \in S : sums[x].amount \in Nat
    BY <1>1, <1>2
  <1>4. ASSUME B # {} PROVE FALSE
    <2>1. PICK T \in B : \A u \in SUBSET T : u # T => u \notin B
      <3>1. B \subseteq SUBSET S
        OBVIOUS
      <3> HIDE DEF B
      <3>. QED BY <1>4, <3>1, SmallestSubset
    <2>2. T \in SUBSET S /\ IsFiniteSet(T) /\ ~Once(T)
      BY FS_Subset
    <2>3. T # {}
      <3>1. Of({}) = {}
        BY DEF Groups
      <3>. QED BY <2>2, <3>1, AmountOfNone
    <2> DEFINE x == First(T)
               rest == T \ {x}
    <2>4. x \in T
      BY <2>3, FirstIn
    <2>5. Once(rest)
      BY <2>1, <2>2, <2>4
    <2> HIDE DEF x
    <2>6. AmountOf(sums, T) = sums[x].amount + AmountOf(sums, rest)
      BY <1>3, <2>2, <2>4, AmountOfRow
    <2>7. Of({x}) \cap Of(rest) = {} /\ Of({x}) \cup Of(rest) = Of(T)
      BY <2>4 DEF Groups
    <2> DEFINE here == Of({x})
               others == Of(rest)
    <2>8. /\ IsFiniteSet(here)
          /\ IsFiniteSet(others)
          /\ \A k \in here \cup others : table[k].amount \in Nat
      BY <1>1
    <2>9. AmountOf(table, Of(T)) = AmountOf(table, here \cup others)
      BY <2>7
    <2>10. here \cap others = {}
      BY <2>7
    <2>11. sums[x].amount = AmountOf(table, here)
      BY <1>2, <2>2, <2>4
    <2>12. AmountOf(sums, rest) = AmountOf(table, others)
      BY <2>5
    <2> HIDE DEF here, others, rest
    <2>13. AmountOf(table, here \cup others)
              = AmountOf(table, here) + AmountOf(table, others)
      BY <2>8, <2>10, AmountOfBoth
    <2>14. AmountOf(sums, T) = AmountOf(table, Of(T))
      BY <2>6, <2>9, <2>11, <2>12, <2>13
    <2>. QED BY <2>2, <2>14
  <1>5. Once(S)
    BY <1>4
  <1>. QED BY <1>5

\* The sum of a function is that of a table.
LEMMA SumOfFunction ==
    ASSUME NEW f, IsFiniteSet(DOMAIN f), NEW table,
           \A x \in DOMAIN f : table[x].amount = f[x]
    PROVE  SumFunction(f) = AmountOf(table, DOMAIN f)
  <1> DEFINE S == DOMAIN f
             Sums(h) == h = [s \in SUBSET S |->
                               IF s = {} THEN 0 ELSE f[First(s)] + h[s \ {First(s)}]]
  <1>1. \A h : Sums(h) <=> IsSum(table, h, S)
    <2>1. \A s \in SUBSET S : s # {} => table[First(s)].amount = f[First(s)]
      BY FirstIn
    <2>. QED BY <2>1 DEF IsSum, Added
  <1>2. SumFunction(f) = (CHOOSE h : Sums(h))[S]
    BY DEF SumFunction, SumFunctionOnSet, FoldFunctionOnSet, MapThenFoldSet, First
  <1>3. IsSum(table, CHOOSE h : Sums(h), S)
    <2>1. IsFiniteSet(S)
      OBVIOUS
    <2> HIDE DEF S, Sums
    <2>2. PICK h : IsSum(table, h, S)
      BY <2>1, SumExists
    <2>3. Sums(h)
      BY <1>1, <2>2
    <2>. QED BY <1>1, <2>3
  <1>4. IsSum(table, CHOOSE h : IsSum(table, h, S), S)
    BY SumExists
  <1>5. S \in SUBSET (S \cap S)
    OBVIOUS
  <1> HIDE DEF S, Sums
  <1>6. (CHOOSE h : Sums(h))[S] = (CHOOSE h : IsSum(table, h, S))[S]
    BY <1>3, <1>4, <1>5, SumsAgree DEF S
  <1>7. AmountOf(table, S) = (CHOOSE h : IsSum(table, h, S))[S]
    BY AmountIsSum
  <1>. QED BY <1>2, <1>6, <1>7 DEF S

\* A function of group sums sums to the rows of its groups.
LEMMA SumByGroup ==
    ASSUME NEW table, NEW K, IsFiniteSet(K), \A k \in K : table[k].amount \in Nat,
           NEW g, NEW S, IsFiniteSet(S), NEW f, DOMAIN f = S,
           \A x \in S : f[x] = AmountOf(table, Group(K, g, x))
    PROVE  SumFunction(f) = AmountOf(table, Groups(K, g, S))
  <1> DEFINE sums == [x \in S |-> [amount |-> f[x]]]
  <1>1. \A x \in S : sums[x].amount = f[x]
    OBVIOUS
  <1> HIDE DEF sums
  <1>2. SumFunction(f) = AmountOf(sums, S)
    BY <1>1, SumOfFunction
  <1>3. \A x \in S : sums[x].amount = AmountOf(table, Group(K, g, x))
    BY <1>1
  <1>4. AmountOf(sums, S) = AmountOf(table, Groups(K, g, S))
    BY <1>3, AmountOfGroups
  <1>. QED BY <1>2, <1>4
====
