---- MODULE StatusFeedProofs ----
(***************************************************************************)
(* Lemmas about StatusFeed, for every set of orders and every history of   *)
(* their events: what its queries return, and what a transaction leaves as *)
(* it was.                                                                 *)
(***************************************************************************)
EXTENDS StatusFeed, RowSums
----
(***************************************************************************)
(* Numbers: greatest and least elements, and the listing of a set.         *)
(***************************************************************************)
\* A bounded set of numbers has a greatest one.
LEMMA Greatest ==
    ASSUME NEW n \in Nat, NEW S, S \subseteq 0 .. n, S # {}
    PROVE  Max(S) \in S /\ \A x \in S : x <= Max(S)
  <1> DEFINE B == {u \in Nat : \A x \in S : x <= u}
             R == OpToRel(<, Nat)
  <1>1. n \in B
    OBVIOUS
  <1>2. PICK u \in B : \A v \in B : <<v, u>> \notin R
    <2> HIDE DEF R
    <2>1. IsWellFoundedOn(R, Nat)
      BY NatLessThanWellFounded DEF R
    <2>2. B \subseteq Nat /\ B # {}
      BY <1>1
    <2> HIDE DEF B
    <2>. QED BY <2>1, <2>2, WFMin
  <1>3. u \in S
    <2> SUFFICES ASSUME u \notin S PROVE FALSE
      OBVIOUS
    <2>1. PICK x \in S : TRUE
      OBVIOUS
    <2>2. u - 1 \in Nat
      BY <2>1
    <2>3. u - 1 \in B
      BY <2>2
    <2>4. <<u - 1, u>> \in R
      BY <2>2 DEF OpToRel
    <2>. QED BY <1>2, <2>3, <2>4
  <1>4. \A x \in S : u >= x
    OBVIOUS
  <1>. QED BY <1>3, <1>4 DEF Max

\* A set of numbers that is not empty has a least one.
LEMMA Least ==
    ASSUME NEW S, S \subseteq Nat, S # {}
    PROVE  Min(S) \in S /\ \A x \in S : Min(S) <= x
  <1> DEFINE R == OpToRel(<, Nat)
  <1>1. PICK u \in S : \A v \in S : <<v, u>> \notin R
    <2> HIDE DEF R
    <2>1. IsWellFoundedOn(R, Nat)
      BY NatLessThanWellFounded DEF R
    <2>. QED BY <2>1, WFMin
  <1>2. \A v \in S : u <= v
    <2> TAKE v \in S
    <2>1. v \in Nat /\ u \in Nat /\ <<v, u>> \notin R
      BY <1>1
    <2>. QED BY <2>1 DEF OpToRel
  <1>. QED BY <1>2 DEF Min

Lists(s, S) ==
    /\ s \in [1 .. Cardinality(S) -> S]
    /\ Range(s) = S
    /\ \A i, j \in DOMAIN s : i < j => s[i] < s[j]

\* Every finite set of numbers can be listed in ascending order: put the least
\* of them before the others.
LEMMA Listed ==
    ASSUME NEW S, S \subseteq Nat, IsFiniteSet(S)
    PROVE  Lists(Ascending(S), S)
  <1> DEFINE B == {T \in SUBSET S : ~ \E s : Lists(s, T)}
  <1>1. ASSUME B # {} PROVE FALSE
    <2>1. PICK T \in B : \A U \in SUBSET T : U # T => U \notin B
      <3>1. B \subseteq SUBSET S
        OBVIOUS
      <3> HIDE DEF B
      <3>. QED BY <1>1, <3>1, SmallestSubset
    <2>2. IsFiniteSet(T) /\ Cardinality(T) \in Nat
      BY FS_Subset, FS_CardinalityType
    <2>3. CASE T = {}
      <3>1. Cardinality(T) = 0
        BY <2>3, FS_EmptySet
      <3>2. Lists([i \in 1 .. 0 |-> 0], T)
        BY <2>3, <3>1 DEF Lists, Range
      <3>. QED BY <3>2
    <2>4. CASE T # {}
      <3> DEFINE m == Min(T)
                 U == T \ {m}
                 n == Cardinality(T)
      <3>1. m \in T /\ m \in Nat /\ \A x \in T : m <= x
        BY <2>4, Least
      <3>2. Cardinality(U) = n - 1
        BY <2>2, <3>1, FS_RemoveElement
      <3>3. PICK s : Lists(s, U)
        BY <2>1, <3>1
      <3> DEFINE t == [i \in 1 .. n |-> IF i = 1 THEN m ELSE s[i - 1]]
      <3>4. n \in Nat /\ n >= 1
        BY <2>2, <2>4, FS_EmptySet
      <3>5. s \in [1 .. n - 1 -> U] /\ Range(s) = U
        BY <3>2, <3>3 DEF Lists
      <3>6. \A i, j \in 1 .. n - 1 : i < j => s[i] < s[j]
        BY <3>3, <3>5 DEF Lists
      <3>7. \A i \in 2 .. n : i - 1 \in 1 .. n - 1 /\ t[i] = s[i - 1] /\ t[i] \in U
        BY <3>4, <3>5
      <3>8. t[1] = m /\ \A x \in U : m < x /\ x \in Nat
        BY <3>1, <3>4
      <3> HIDE DEF m, n, U
      <3>9. t \in [1 .. n -> T]
        <4>1. \A i \in 1 .. n : t[i] \in T
          <5> TAKE i \in 1 .. n
          <5>1. CASE i = 1
            <6>1. t[i] = m
              BY <5>1, <3>8
            <6>. QED BY <6>1, <3>1
          <5>2. CASE i # 1
            <6>1. i \in 2 .. n
              BY <5>2, <3>4
            <6>2. t[i] \in U
              BY <6>1, <3>7
            <6>. QED BY <6>2 DEF U
          <5>. QED BY <5>1, <5>2
        <4>. QED BY <4>1
      <3>10. Range(t) = T
        <4>1. ASSUME NEW x \in T PROVE \E i \in 1 .. n : t[i] = x
          <5>1. CASE x = m
            BY <5>1, <3>4, <3>8
          <5>2. CASE x # m
            <6>1. PICK i \in 1 .. n - 1 : s[i] = x
              BY <5>2, <3>5 DEF U, Range
            <6>2. i + 1 \in 2 .. n /\ (i + 1) - 1 = i
              BY <3>4
            <6>3. t[i + 1] = s[i]
              BY <3>7, <6>2
            <6>4. i + 1 \in 1 .. n
              BY <6>2, <3>4
            <6>. QED BY <6>1, <6>3, <6>4
          <5>. QED BY <5>1, <5>2
        <4>2. DOMAIN t = 1 .. n
          OBVIOUS
        <4> HIDE DEF t
        <4>. QED BY <3>9, <4>1, <4>2 DEF Range
      <3>11. ASSUME NEW i \in 1 .. n, NEW j \in 1 .. n, i < j PROVE t[i] < t[j]
        <4>1. j \in 2 .. n
          BY <3>4, <3>11
        <4>2. CASE i = 1
          BY <4>1, <4>2, <3>7, <3>8
        <4>3. CASE i # 1
          <5>1. i \in 2 .. n
            BY <4>3, <3>4
          <5>2. i - 1 < j - 1
            BY <3>4, <3>11
          <5>. QED BY <4>1, <5>1, <5>2, <3>6, <3>7
        <4>. QED BY <4>2, <4>3
      <3>12. Lists(t, T)
        BY <3>9, <3>10, <3>11 DEF Lists, n
      <3>. QED BY <2>1, <3>12
    <2>. QED BY <2>3, <2>4
  <1>2. \E s : Lists(s, S)
    BY <1>1
  <1>. QED BY <1>2 DEF Ascending, Lists
----
(***************************************************************************)
(* Rows and events.                                                        *)
(***************************************************************************)
\* Every id that was drawn, and not rolled back, is of one order, and either
\* committed or not.
Drawn(k) == open[k] \cup events[k]
FeedOK ==
    /\ lastId \in Nat
    /\ open \in [Orders -> SUBSET (1 .. lastId)]
    /\ events \in [Orders -> SUBSET (1 .. lastId)]
    /\ \A k \in Orders : open[k] \cap events[k] = {}
    /\ \A k, j \in Orders : k # j => Drawn(k) \cap Drawn(j) = {}

\* An order has one row, numbered by the last of its events.
LEMMA RowIs ==
    ASSUME FeedOK, NEW k \in Orders
    PROVE  /\ Row(k) \in 0 .. lastId
           /\ Row(k) = 0 \/ Row(k) \in events[k]
           /\ \A e \in events[k] : e \in 1 .. lastId /\ e <= Row(k)
           /\ events[k] # {} => Row(k) \in events[k] /\ Row(k) >= 1
  <1>1. events[k] \subseteq 1 .. lastId /\ lastId \in Nat
    BY DEF FeedOK
  <1>2. {0} \cup events[k] \subseteq 0 .. lastId /\ {0} \cup events[k] # {}
    BY <1>1
  <1>3. Row(k) \in {0} \cup events[k] /\ \A x \in {0} \cup events[k] : x <= Row(k)
    BY <1>1, <1>2, Greatest DEF Row
  <1>4. Row(k) \in 0 .. lastId /\ \A e \in events[k] : e \in 1 .. lastId /\ e <= Row(k)
    BY <1>1, <1>2, <1>3
  <1>5. Row(k) = 0 \/ Row(k) \in events[k]
    BY <1>3
  <1>6. ASSUME events[k] # {} PROVE Row(k) \in events[k] /\ Row(k) >= 1
    <2>1. PICK e \in events[k] : TRUE
      BY <1>6
    <2>2. Row(k) >= 1
      BY <2>1, <1>4, <1>1
    <2>. QED BY <2>2, <1>5
  <1>. QED BY <1>4, <1>5, <1>6

\* An event tells its order.
LEMMA OneOrder ==
    ASSUME FeedOK, NEW k \in Orders, NEW j \in Orders, NEW e, e \in events[k],
           e \in events[j]
    PROVE  k = j
  BY DEF FeedOK, Drawn

LEMMA MatchingIs ==
    ASSUME NEW f, f.orders \subseteq Orders
    PROVE  /\ Matching(f) \subseteq Orders
           /\ IsFiniteSet(Matching(f))
           /\ \A k \in Matching(f) : events[k] # {}
  <1>1. Matching(f) \subseteq Orders /\ \A k \in Matching(f) : events[k] # {}
    BY DEF Matching
  <1>2. IsFiniteSet(Matching(f))
    BY <1>1, FS_Subset, FeedAssumption
  <1>. QED BY <1>1, <1>2

LEMMA PlaceIs ==
    ASSUME NEW f, f.orders \subseteq Orders, NEW k \in Matching(f)
    PROVE  /\ Cardinality(Matching(f)) \in Nat
           /\ Place(f, k) \in 1 .. Cardinality(Matching(f))
  <1> DEFINE T == {j \in Matching(f) : j >= k}
  <1>1. Matching(f) \subseteq Orders /\ IsFiniteSet(Matching(f))
    BY MatchingIs
  <1>2. T \in SUBSET Matching(f) /\ k \in T
    <2>1. k \in Nat
      BY <1>1, FeedAssumption
    <2>2. k >= k
      BY <2>1
    <2>. QED BY <2>2
  <1>3. Cardinality(Matching(f)) \in Nat /\ Cardinality(T) \in Nat
        /\ Cardinality(T) <= Cardinality(Matching(f)) /\ Cardinality(T) # 0
    BY <1>1, <1>2, FS_Subset, FS_CardinalityType, FS_EmptySet
  <1>. QED BY <1>3 DEF Place
----
(***************************************************************************)
(* What the queries return.                                                *)
(***************************************************************************)
\* A row of a page that is past its offset is on it, or on a later page that
\* the page knows of.
LEMMA BlotterTells ==
    ASSUME FeedOK, NEW f, f.orders \subseteq Orders, NEW a \in Nat,
           NEW b, b = Blotter(f, a)
    PROVE  /\ b \in [rows : [Orders -> Nat], more : BOOLEAN]
           /\ \A k \in Orders : b.rows[k] <= Row(k)
           /\ \A k \in Matching(f) : Place(f, k) > a =>
                 \/ b.rows[k] = Row(k)
                 \/ b.rows[k] = 0 /\ b.more /\ Place(f, k) > a + PageSize
  <1>1. \A k \in Orders : Row(k) \in Nat
    BY RowIs DEF FeedOK
  <1>2. b.more = (Cardinality(Matching(f)) > a + PageSize)
    BY DEF Blotter
  <1>3. \A k \in Orders : b.rows[k] =
           IF k \in Matching(f) /\ Place(f, k) \in a + 1 .. a + PageSize
           THEN Row(k) ELSE 0
    BY DEF Blotter
  <1>4. b \in [rows : [Orders -> Nat], more : BOOLEAN]
    <2>1. b = [rows |-> [k \in Orders |->
                 IF k \in Matching(f) /\ Place(f, k) \in a + 1 .. a + PageSize
                 THEN Row(k) ELSE 0],
               more |-> Cardinality(Matching(f)) > a + PageSize]
      BY DEF Blotter
    <2>. QED BY <1>1, <2>1
  <1>5. ASSUME NEW k \in Matching(f), Place(f, k) > a
        PROVE  \/ b.rows[k] = Row(k)
               \/ b.rows[k] = 0 /\ b.more /\ Place(f, k) > a + PageSize
    <2>1. k \in Orders /\ PageSize \in Nat
      BY MatchingIs, FeedAssumption
    <2>2. Cardinality(Matching(f)) \in Nat /\ Place(f, k) \in Nat
          /\ Place(f, k) <= Cardinality(Matching(f))
      BY PlaceIs
    <2>3. CASE Place(f, k) <= a + PageSize
      <3>1. Place(f, k) \in a + 1 .. a + PageSize
        BY <1>5, <2>1, <2>2, <2>3
      <3>. QED BY <1>3, <2>1, <3>1
    <2>4. CASE Place(f, k) > a + PageSize
      <3>1. Place(f, k) \notin a + 1 .. a + PageSize
        BY <2>1, <2>2, <2>4
      <3>2. Cardinality(Matching(f)) > a + PageSize
        BY <2>1, <2>2, <2>4
      <3>. QED BY <1>2, <1>3, <2>1, <2>4, <3>1, <3>2
    <2>. QED BY <2>1, <2>2, <2>3, <2>4
  <1>6. \A k \in Orders : b.rows[k] <= Row(k)
    BY <1>1, <1>3
  <1>. QED BY <1>4, <1>5, <1>6

\* Events as they are sent: each with a row of its order at least as new as
\* itself, oldest first.
Notice == [id : Nat, order : Orders, row : Nat]
Notices(q) ==
    /\ q \in Seq(Notice)
    /\ \A i \in DOMAIN q :
          /\ q[i].id \in events[q[i].order]
          /\ q[i].id <= q[i].row
          /\ q[i].row <= Row(q[i].order)
    /\ \A i, j \in DOMAIN q : i < j => q[i].id < q[j].id
\* The last event of order k is among them.
Told(q, k) == \E i \in DOMAIN q : q[i].id = Row(k) /\ q[i].order = k

LEMMA NewsAre ==
    ASSUME FeedOK, NEW f, f.orders \subseteq Orders, NEW since
    PROVE  /\ News(f, since) \subseteq Nat
           /\ IsFiniteSet(News(f, since))
           /\ \A e \in News(f, since) :
                 e > since /\ \E k \in Matching(f) : e \in events[k]
           /\ \A k \in Matching(f) : \A e \in events[k] :
                 e > since => e \in News(f, since)
  <1>1. News(f, since) \subseteq 1 .. lastId
    BY MatchingIs DEF News, FeedOK
  <1>2. lastId \in Nat
    BY DEF FeedOK
  <1>3. IsFiniteSet(News(f, since))
    <2>1. IsFiniteSet(1 .. lastId)
      BY <1>2, FS_Interval
    <2>. QED BY <1>1, <2>1, FS_Subset
  <1>. QED BY <1>1, <1>2, <1>3 DEF News, IsNew

LEMMA LengthIs ==
    ASSUME NEW S, NEW n \in Nat, NEW s \in [1 .. n -> S]
    PROVE  Len(s) = n /\ s \in Seq(S)
  OBVIOUS

\* No event of a matching order is skipped on the way to a later one.
LEMMA UpdatesTell ==
    ASSUME FeedOK, NEW f, f.orders \subseteq Orders, NEW since \in Nat,
           NEW u, u = Updates(f, since)
    PROVE  /\ Notices(u)
           /\ \A i \in DOMAIN u : since < u[i].id
           /\ \A k \in Matching(f), i \in DOMAIN u :
                 since < Row(k) /\ Row(k) <= u[i].id => Told(u, k)
  <1> DEFINE N == News(f, since)
             n == Cardinality(N)
             s == Ascending(N)
             owner(e) == CHOOSE k \in Orders : e \in events[k]
             b == Min({Len(s), Limit})
  <1>1. Lists(s, N)
    BY NewsAre, Listed
  <1>2. n \in Nat
    BY NewsAre, FS_CardinalityType
  <1>3. Len(s) = n /\ s \in [1 .. n -> N] /\ Range(s) = N
        /\ \A i, j \in 1 .. n : i < j => s[i] < s[j]
    BY <1>1, <1>2, LengthIs DEF Lists
  <1>4. b \in Nat /\ b <= n
    <2>1. {n, Limit} \subseteq Nat /\ {n, Limit} # {}
      BY <1>2, FeedAssumption
    <2>2. Min({n, Limit}) \in {n, Limit} /\ \A x \in {n, Limit} : Min({n, Limit}) <= x
      BY <2>1, Least
    <2>. QED BY <1>3, <2>1, <2>2
  <1>5. u = [i \in 1 .. b |->
               [id |-> s[i], order |-> owner(s[i]), row |-> Row(owner(s[i]))]]
    BY DEF Updates
  <1>6. \A e \in N : /\ e \in Nat /\ e > since
                     /\ owner(e) \in Orders /\ e \in events[owner(e)]
    BY NewsAre, MatchingIs
  <1>7. ASSUME NEW k \in Matching(f), NEW e \in events[k], e > since
        PROVE  e \in N /\ owner(e) = k
    <2>1. k \in Orders
      BY MatchingIs
    <2>2. e \in N
      BY NewsAre, <1>7
    <2>. QED BY <1>6, <2>1, <2>2, OneOrder
  <1> HIDE DEF N, n, s, owner, b
  <1>8. \A i \in 1 .. b : s[i] \in N
    BY <1>3, <1>4, <1>2
  <1>9. DOMAIN u = 1 .. b
    BY <1>5
  <1>10. ASSUME NEW i \in 1 .. b
         PROVE  /\ u[i] \in Notice
                /\ u[i].id = s[i] /\ u[i].order = owner(s[i])
                /\ u[i].id \in events[u[i].order]
                /\ u[i].id <= u[i].row
                /\ u[i].row <= Row(u[i].order)
                /\ since < u[i].id
    <2>1. u[i] = [id |-> s[i], order |-> owner(s[i]), row |-> Row(owner(s[i]))]
      BY <1>5
    <2>2. s[i] \in Nat /\ s[i] > since /\ owner(s[i]) \in Orders
          /\ s[i] \in events[owner(s[i])]
      BY <1>6, <1>8
    <2>3. Row(owner(s[i])) \in Nat /\ s[i] <= Row(owner(s[i]))
      BY <2>2, RowIs
    <2>. QED BY <2>1, <2>2, <2>3 DEF Notice
  <1>11. \A i, j \in 1 .. b : i < j => u[i].id < u[j].id
    <2> TAKE i, j \in 1 .. b
    <2>1. i \in 1 .. n /\ j \in 1 .. n
      BY <1>2, <1>4
    <2>. QED BY <2>1, <1>3, <1>10
  <1>12. u \in Seq(Notice)
    <2>1. u \in [1 .. b -> Notice]
      BY <1>5, <1>9, <1>10
    <2>. QED BY <2>1, <1>4, LengthIs
  <1>13. ASSUME NEW k \in Matching(f), NEW i \in 1 .. b,
                since < Row(k), Row(k) <= u[i].id
         PROVE  Told(u, k)
    <2>1. k \in Orders /\ Row(k) \in events[k] /\ Row(k) \in Nat
      BY MatchingIs, RowIs
    <2>2. Row(k) \in N /\ owner(Row(k)) = k
      BY <2>1, <1>7, <1>13
    <2>3. PICK j \in 1 .. n : s[j] = Row(k)
      BY <2>2, <1>3 DEF Range
    <2>4. i \in 1 .. n /\ s[i] \in Nat /\ Row(k) <= s[i]
      BY <1>2, <1>4, <1>6, <1>8, <1>10, <1>13
    <2>5. j <= i
      BY <1>2, <1>3, <2>1, <2>3, <2>4
    <2>6. j \in 1 .. b
      BY <1>2, <1>4, <2>5
    <2>. QED BY <1>9, <1>10, <2>2, <2>3, <2>6 DEF Told
  <1>. QED BY <1>9, <1>10, <1>11, <1>12, <1>13 DEF Notices
----
(***************************************************************************)
(* Transactions.                                                           *)
(***************************************************************************)
LEMMA Draws ==
    ASSUME FeedOK, NEW k \in Orders, Draw(k)
    PROVE  FeedOK' /\ events' = events
  <1>1. /\ lastId \in Nat /\ lastId' = lastId + 1 /\ events' = events
        /\ open' = [open EXCEPT ![k] = @ \cup {lastId + 1}]
    BY DEF Draw, FeedOK
  <1>2. \A j \in Orders : open[j] \subseteq 1 .. lastId /\ events[j] \subseteq 1 .. lastId
    BY DEF FeedOK
  <1>3. lastId' \in Nat /\ 1 .. lastId \subseteq 1 .. lastId' /\ lastId' \in 1 .. lastId'
        /\ lastId' \notin 1 .. lastId
    BY <1>1
  <1>4. \A j \in Orders : /\ open'[j] \subseteq open[j] \cup {lastId'}
                          /\ j # k => open'[j] = open[j]
    BY <1>1 DEF FeedOK
  <1>5. open' \in [Orders -> SUBSET (1 .. lastId')]
        /\ events' \in [Orders -> SUBSET (1 .. lastId')]
    <2>1. events \in [Orders -> SUBSET (1 .. lastId)]
          /\ open \in [Orders -> SUBSET (1 .. lastId)]
      BY DEF FeedOK
    <2>2. DOMAIN open' = Orders /\ open' = [j \in Orders |-> open'[j]]
      BY <1>1, <2>1
    <2>3. \A j \in Orders : open'[j] \in SUBSET (1 .. lastId')
      BY <1>2, <1>3, <1>4
    <2>4. open' \in [Orders -> SUBSET (1 .. lastId')]
      BY <2>2, <2>3
    <2>5. events \in [Orders -> SUBSET (1 .. lastId')]
      BY <1>3, <2>1
    <2>. QED BY <1>1, <2>4, <2>5
  <1>6. \A j \in Orders : open'[j] \cap events'[j] = {}
    BY <1>1, <1>2, <1>3, <1>4 DEF FeedOK
  <1>7. ASSUME NEW i \in Orders, NEW j \in Orders, i # j
        PROVE  Drawn(i)' \cap Drawn(j)' = {}
    <2>1. Drawn(i) \cap Drawn(j) = {}
      BY <1>7 DEF FeedOK
    <2>. QED BY <1>1, <1>2, <1>3, <1>4, <1>7, <2>1 DEF Drawn
  <1>. QED BY <1>1, <1>3, <1>5, <1>6, <1>7 DEF FeedOK

LEMMA Rollbacks ==
    ASSUME FeedOK, NEW k \in Orders, Rollback(k)
    PROVE  FeedOK' /\ events' = events
  BY DEF Rollback, FeedOK, Drawn

\* A commit gives its order a newer row and leaves the others.
LEMMA Commits ==
    ASSUME FeedOK, NEW k \in Orders, Commit(k)
    PROVE  /\ FeedOK'
           /\ \A j \in Orders : events[j] \subseteq events'[j] /\ Row(j) <= Row(j)'
           /\ \A j \in Orders : j # k => events'[j] = events[j] /\ Row(j)' = Row(j)
           /\ \A e \in open[k] : e <= Row(k)'
           /\ open[k] # {} /\ open[k] \subseteq Nat \ {0}
           /\ events'[k] = events[k] \cup open[k]
  <1>1. /\ lastId' = lastId /\ open[k] # {}
        /\ events' = [events EXCEPT ![k] = @ \cup open[k]]
        /\ open' = [open EXCEPT ![k] = {}]
    BY DEF Commit
  <1>2. FeedOK'
    BY <1>1 DEF FeedOK, Drawn
  <1>3. \A j \in Orders : j # k => events'[j] = events[j]
    BY <1>1 DEF FeedOK
  <1>4. events'[k] = events[k] \cup open[k]
    BY <1>1 DEF FeedOK
  <1>5. \A j \in Orders : j # k => Row(j)' = Row(j)
    BY <1>3 DEF Row
  <1>6. {0} \cup events'[k] \subseteq 0 .. lastId /\ lastId \in Nat
    BY <1>4 DEF FeedOK
  <1>7. Row(k)' \in {0} \cup events'[k]
        /\ \A x \in {0} \cup events'[k] : x <= Row(k)'
    <2>1. {0} \cup events'[k] # {}
      OBVIOUS
    <2>. QED BY <1>6, <2>1, Greatest DEF Row
  <1>8. Row(k) <= Row(k)'
    BY <1>4, <1>7, RowIs
  <1>9. open[k] \subseteq Nat \ {0}
    BY DEF FeedOK
  <1>10. \A j \in Orders : Row(j) \in Nat
    BY RowIs DEF FeedOK
  <1>11. \A j \in Orders : events[j] \subseteq events'[j] /\ Row(j) <= Row(j)'
    BY <1>3, <1>4, <1>5, <1>8, <1>10
  <1>. QED BY <1>1, <1>2, <1>3, <1>4, <1>5, <1>7, <1>9, <1>11

\* Unless it overtakes, the new row is above every event that was visible.
LEMMA CommitsLast ==
    ASSUME FeedOK, NEW k \in Orders, Commit(k), ~Overtaken(k)
    PROVE  \A j \in Orders : \A e \in events[j] : e < Row(k)'
  <1> TAKE j \in Orders
  <1> TAKE e \in events[j]
  <1>1. PICK d \in open[k] : TRUE
    BY Commits
  <1>2. d <= Row(k)' /\ d \in Nat
    BY Commits
  <1>3. e \in Nat /\ e \in Visible /\ Row(k)' \in Nat
    <2>1. e \in Nat /\ e \in Visible
      BY DEF FeedOK, Visible
    <2>2. FeedOK'
      BY Commits
    <2>3. {0} \cup events'[k] \subseteq 0 .. lastId' /\ lastId' \in Nat
      BY <2>2 DEF FeedOK
    <2>4. Row(k)' \in Nat
      BY <2>3, Greatest DEF Row
    <2>. QED BY <2>1, <2>4
  <1>4. ~(d < e)
    BY <1>3 DEF Overtaken
  <1>5. d # e
    BY DEF FeedOK, Drawn
  <1>. QED BY <1>2, <1>3, <1>4, <1>5

\* As long as it does not leave a filter, it can only push others down.
LEMMA CommitsMatch ==
    ASSUME FeedOK, NEW k \in Orders, Commit(k), NEW f, f.orders \subseteq Orders,
           k \in Matching(f) => k \in Matching(f)'
    PROVE  /\ Matching(f) \subseteq Matching(f)'
           /\ Matching(f)' \subseteq Matching(f) \cup {k}
           /\ \A j \in Matching(f) : Place(f, j) <= Place(f, j)'
  <1>1. \A j \in Orders : j # k => (j \in Matching(f)' <=> j \in Matching(f))
    BY Commits DEF Matching
  <1>2. Matching(f)' \subseteq Orders /\ Matching(f) \subseteq Orders
    BY DEF Matching
  <1>3. Matching(f) \subseteq Matching(f)' /\ Matching(f)' \subseteq Matching(f) \cup {k}
    BY <1>1, <1>2
  <1>4. ASSUME NEW j \in Matching(f) PROVE Place(f, j) <= Place(f, j)'
    <2> DEFINE A == {i \in Matching(f) : i >= j}
               B == {i \in Matching(f)' : i >= j}
    <2>1. IsFiniteSet(B) /\ A \in SUBSET B
      <3>1. B \in SUBSET Orders
        BY <1>2
      <3>2. IsFiniteSet(B)
        BY <3>1, FS_Subset, FeedAssumption
      <3>. QED BY <1>3, <3>2
    <2>2. Cardinality(A) <= Cardinality(B)
      BY <2>1, FS_Subset
    <2>. QED BY <2>2 DEF Place
  <1>. QED BY <1>3, <1>4
----
(***************************************************************************)
(* Queues of notices.                                                      *)
(***************************************************************************)
LEMMA NoticesIn ==
    ASSUME NEW q, Notices(q), q # <<>>
    PROVE  /\ Len(q) \in Nat /\ Len(q) >= 1
           /\ DOMAIN q = 1 .. Len(q)
           /\ \A i \in DOMAIN q : q[i] \in Notice
  BY DEF Notices

LEMMA NoticeIs ==
    ASSUME NEW q, Notices(q), NEW i \in DOMAIN q
    PROVE  /\ q[i] \in Notice
           /\ q[i].id \in Nat /\ q[i].order \in Orders /\ q[i].row \in Nat
           /\ q[i].id \in events[q[i].order]
           /\ q[i].id <= q[i].row
           /\ q[i].row <= Row(q[i].order)
  <1>1. q[i] \in Notice
    BY DEF Notices
  <1>2. q[i].id \in Nat /\ q[i].order \in Orders /\ q[i].row \in Nat
    BY <1>1 DEF Notice
  <1>. QED BY <1>1, <1>2 DEF Notices

LEMMA NoticesJoin ==
    ASSUME NEW p, NEW q, Notices(p), Notices(q),
           \A i \in DOMAIN p, j \in DOMAIN q : p[i].id < q[j].id
    PROVE  /\ Notices(p \o q)
           /\ \A i \in DOMAIN (p \o q) : \/ \E j \in DOMAIN p : (p \o q)[i] = p[j]
                                         \/ \E j \in DOMAIN q : (p \o q)[i] = q[j]
           /\ \A k : Told(p, k) \/ Told(q, k) => Told(p \o q, k)
  <1> DEFINE m == Len(p)
             n == Len(q)
             r == p \o q
  <1>1. /\ p \in Seq(Notice) /\ q \in Seq(Notice) /\ m \in Nat /\ n \in Nat
        /\ DOMAIN p = 1 .. m /\ DOMAIN q = 1 .. n
    BY DEF Notices
  <1>2. /\ r \in Seq(Notice) /\ DOMAIN r = 1 .. m + n
        /\ \A i \in 1 .. m : r[i] = p[i]
        /\ \A i \in m + 1 .. m + n : r[i] = q[i - m]
    BY <1>1
  <1>3. \A i \in 1 .. m : i \in DOMAIN r /\ r[i] = p[i] /\ i \in DOMAIN p
    BY <1>1, <1>2
  <1>4. \A i \in 1 .. n : m + i \in DOMAIN r /\ r[m + i] = q[i] /\ i \in DOMAIN q
    <2> TAKE i \in 1 .. n
    <2>1. m + i \in m + 1 .. m + n /\ m + i \in 1 .. m + n /\ (m + i) - m = i
      BY <1>1
    <2>. QED BY <1>1, <1>2, <2>1
  <1>5. \A i \in DOMAIN r : i \in 1 .. m \/ (i - m \in 1 .. n /\ i = m + (i - m))
    BY <1>1, <1>2
  <1> HIDE DEF m, n, r
  <1>6. ASSUME NEW i \in DOMAIN r
        PROVE  \/ \E j \in DOMAIN p : r[i] = p[j]
               \/ \E j \in DOMAIN q : r[i] = q[j]
    BY <1>3, <1>4, <1>5
  <1>7. ASSUME NEW i \in DOMAIN r, NEW j \in DOMAIN r, i < j PROVE r[i].id < r[j].id
    <2>1. CASE i \in 1 .. m /\ j \in 1 .. m
      BY <1>3, <1>7, <2>1 DEF Notices
    <2>2. CASE i \in 1 .. m /\ j - m \in 1 .. n /\ j = m + (j - m)
      <3>1. r[i] = p[i] /\ r[j] = q[j - m]
        BY <1>3, <1>4, <2>2
      <3>. QED BY <1>3, <1>4, <2>2, <3>1
    <2>3. CASE i - m \in 1 .. n /\ i = m + (i - m) /\ j \in 1 .. m
      BY <1>1, <1>7, <2>3
    <2>4. CASE i - m \in 1 .. n /\ i = m + (i - m) /\ j - m \in 1 .. n /\ j = m + (j - m)
      <3>1. r[i] = q[i - m] /\ r[j] = q[j - m] /\ i - m \in DOMAIN q /\ j - m \in DOMAIN q
        BY <1>4, <2>4
      <3>2. i - m < j - m
        BY <1>1, <1>2, <1>7
      <3>. QED BY <3>1, <3>2 DEF Notices
    <2>. QED BY <1>5, <2>1, <2>2, <2>3, <2>4
  <1>8. \A i \in DOMAIN r : /\ r[i].id \in events[r[i].order]
                            /\ r[i].id <= r[i].row
                            /\ r[i].row <= Row(r[i].order)
    BY <1>6 DEF Notices
  <1>9. ASSUME NEW k, Told(p, k) \/ Told(q, k) PROVE Told(r, k)
    <2>1. CASE Told(p, k)
      BY <1>1, <1>3, <2>1 DEF Told
    <2>2. CASE Told(q, k)
      <3>1. PICK i \in 1 .. n : q[i].id = Row(k) /\ q[i].order = k
        BY <1>1, <2>2 DEF Told
      <3>. QED BY <1>4, <3>1 DEF Told
    <2>. QED BY <1>9, <2>1, <2>2
  <1>10. Notices(r)
    BY <1>2, <1>7, <1>8 DEF Notices
  <1>. QED BY <1>6, <1>9, <1>10 DEF r

\* Once its first notice is taken from a queue, the others remain.
LEMMA NoticesTaken ==
    ASSUME NEW q, Notices(q), q # <<>>
    PROVE  /\ 1 \in DOMAIN q /\ Head(q) = q[1] /\ Head(q) \in Notice
           /\ Notices(Tail(q))
           /\ \A i \in DOMAIN Tail(q) : i + 1 \in DOMAIN q /\ Tail(q)[i] = q[i + 1]
           /\ \A i \in DOMAIN Tail(q) : Head(q).id < Tail(q)[i].id
           /\ \A k : Told(q, k) =>
                 \/ Told(Tail(q), k)
                 \/ Head(q).id = Row(k) /\ Head(q).order = k
  <1> DEFINE n == Len(q)
             t == Tail(q)
  <1>1. q \in Seq(Notice) /\ n \in Nat /\ n >= 1 /\ DOMAIN q = 1 .. n
    BY DEF Notices
  <1>2. /\ t \in Seq(Notice) /\ DOMAIN t = 1 .. n - 1
        /\ \A i \in 1 .. n - 1 : t[i] = q[i + 1]
        /\ Head(q) = q[1]
    BY <1>1
  <1>3. \A i \in DOMAIN t : i \in Nat /\ i >= 1 /\ i + 1 \in DOMAIN q /\ t[i] = q[i + 1]
    BY <1>1, <1>2
  <1>4. 1 \in DOMAIN q /\ q[1] \in Notice
    BY <1>1
  <1>5. \A i \in DOMAIN q : i = 1 \/ (i - 1 \in DOMAIN t /\ t[i - 1] = q[i])
    <2> TAKE i \in DOMAIN q
    <2>1. i # 1 => i - 1 \in 1 .. n - 1 /\ (i - 1) + 1 = i
      BY <1>1
    <2>. QED BY <1>2, <2>1
  <1> HIDE DEF n, t
  <1>6. Notices(t)
    <2>1. ASSUME NEW i \in DOMAIN t, NEW j \in DOMAIN t, i < j PROVE t[i].id < t[j].id
      <3>1. i + 1 < j + 1
        BY <1>3, <2>1
      <3>. QED BY <1>3, <3>1 DEF Notices
    <2>2. \A i \in DOMAIN t : /\ t[i].id \in events[t[i].order]
                              /\ t[i].id <= t[i].row
                              /\ t[i].row <= Row(t[i].order)
      BY <1>3 DEF Notices
    <2>. QED BY <1>2, <2>1, <2>2 DEF Notices
  <1>7. \A i \in DOMAIN t : q[1].id < t[i].id
    <2> TAKE i \in DOMAIN t
    <2>1. 1 < i + 1
      BY <1>3
    <2>. QED BY <1>3, <1>4, <2>1 DEF Notices
  <1>8. ASSUME NEW k, Told(q, k)
        PROVE  Told(t, k) \/ (q[1].id = Row(k) /\ q[1].order = k)
    BY <1>5, <1>8 DEF Told
  <1>. QED BY <1>2, <1>3, <1>4, <1>6, <1>7, <1>8 DEF t
====
