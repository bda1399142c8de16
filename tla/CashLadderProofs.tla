---- MODULE CashLadderProofs ----
(***************************************************************************)
(* Proofs about CashLadder, for every calendar, market, cutoff and order:  *)
(* what the settlement date counts, that the query and the seed script's   *)
(* loop find the same one, and that the totals of the ladder count every   *)
(* confirmed order once.                                                   *)
(***************************************************************************)
EXTENDS CashLadder, RowSums
----
(***************************************************************************)
(* The least of a set of days.                                             *)
(***************************************************************************)
\* Days from some day on have a first one.
LEMMA FirstDay ==
    ASSUME NEW a \in Int, NEW S, S # {}, \A e \in S : e \in Int /\ a <= e
    PROVE  Min(S) \in S /\ \A e \in S : Min(S) <= e
  <1> DEFINE T == {n \in Nat : a + n \in S}
             R == OpToRel(<, Nat)
  <1>1. PICK e \in S : TRUE
    OBVIOUS
  <1>2. e - a \in Nat /\ a + (e - a) = e
    BY <1>1
  <1>3. T # {} /\ T \subseteq Nat
    BY <1>1, <1>2
  <1>4. PICK n \in T : \A m \in T : <<m, n>> \notin R
    <2> HIDE DEF T, R
    <2>1. IsWellFoundedOn(R, Nat)
      BY NatLessThanWellFounded DEF R
    <2>. QED BY <1>3, <2>1, WFMin
  <1>5. \A m \in T : n <= m
    <2> TAKE m \in T
    <2>1. m \in Nat /\ n \in Nat /\ <<m, n>> \notin R
      BY <1>4
    <2>. QED BY <2>1 DEF OpToRel
  <1>6. a + n \in S /\ \A x \in S : a + n <= x
    <2>1. ASSUME NEW x \in S PROVE a + n <= x
      <3>1. x - a \in Nat /\ a + (x - a) = x
        OBVIOUS
      <3>2. n <= x - a
        BY <1>5, <3>1
      <3>. QED BY <3>1, <3>2
    <2>. QED BY <1>4, <2>1
  <1>. QED BY <1>6 DEF Min

\* There is only one.
LEMMA FirstDayIs ==
    ASSUME NEW S, S \subseteq Int, NEW x \in S, \A e \in S : x <= e
    PROVE  Min(S) = x
  <1>1. Min(S) \in S /\ \A e \in S : Min(S) <= e
    BY DEF Min
  <1>2. Min(S) \in Int /\ x \in Int /\ Min(S) <= x /\ x <= Min(S)
    BY <1>1
  <1>. QED BY <1>2
----
(***************************************************************************)
(* Settlement dates.                                                       *)
(***************************************************************************)
\* The second of some days is the one up to which there are two.
LEMMA SecondDay ==
    ASSUME NEW a \in Int, NEW S, IsFiniteSet(S), \A e \in S : e \in Int /\ a <= e,
           Cardinality(S) >= 2,
           NEW first, first = Min(S), NEW second, second = Min(S \ {Min(S)})
    PROVE  /\ first \in S /\ second \in S
           /\ \A e \in S : first <= e
           /\ \A e \in S : e # first => second <= e
           /\ first < second
           /\ Cardinality({e \in S : e <= second}) = 2
  <1>1. S # {}
    BY FS_EmptySet
  <1>2. first \in S /\ \A e \in S : first <= e
    BY <1>1, FirstDay
  <1> DEFINE others == S \ {first}
  <1>3. Cardinality(others) = Cardinality(S) - 1 /\ IsFiniteSet(others)
    BY <1>2, FS_RemoveElement
  <1>4. others # {}
    <2>1. Cardinality(S) \in Nat
      BY FS_CardinalityType
    <2> HIDE DEF others
    <2>. QED BY <1>3, <2>1, FS_EmptySet
  <1>5. second \in others /\ \A e \in others : second <= e
    <2>1. \A e \in others : e \in Int /\ a <= e
      OBVIOUS
    <2>2. second = Min(others)
      OBVIOUS
    <2> HIDE DEF others
    <2>. QED BY <1>4, <2>1, <2>2, FirstDay
  <1>6. {e \in S : e <= second} = {first} \cup {second}
    BY <1>2, <1>5
  <1>7. Cardinality({first} \cup {second}) = 2
    <2> DEFINE one == {first}
    <2>1. IsFiniteSet(one) /\ Cardinality(one) = 1 /\ second \notin one
      BY <1>5, FS_Singleton
    <2> HIDE DEF one
    <2>2. Cardinality(one \cup {second}) = Cardinality(one) + 1
      BY <2>1, FS_AddElement
    <2>. QED BY <2>1, <2>2 DEF one
  <1>. QED BY <1>2, <1>5, <1>6, <1>7

\* Days of a market after day d, up to day e.
OpenDays(p, d, e) == {x \in d + 1 .. e : IsBusinessDay(p, x)}

\* What the query of derive_settlement_date_from_db_time finds.
LEMMA QueryCounts ==
    ASSUME NEW p, NEW d \in Int, SecondBusinessDay(p, d) # NoDate
    PROVE  /\ SecondBusinessDay(p, d) \in d + 1 .. d + SearchDays
           /\ IsBusinessDay(p, SecondBusinessDay(p, d))
           /\ Cardinality(OpenDays(p, d, SecondBusinessDay(p, d))) = 2
  <1> DEFINE found == NextBusinessDays(p, d)
             second == Min(found \ {Min(found)})
  <1>1. IsFiniteSet(found) /\ \A e \in found : e \in Int /\ d <= e
    <2>1. IsFiniteSet(d + 1 .. d + SearchDays)
      BY FS_Interval DEF SearchDays
    <2>. QED BY <2>1, FS_Subset DEF NextBusinessDays, SearchDays
  <1>2. Cardinality(found) \in Nat
    BY <1>1, FS_CardinalityType
  <1>3. Cardinality(found) >= 2 /\ SecondBusinessDay(p, d) = second
    BY <1>2 DEF SecondBusinessDay
  <1>4. second \in found /\ Cardinality({e \in found : e <= second}) = 2
    <2> HIDE DEF found
    <2>. QED BY <1>1, <1>3, SecondDay
  <1>5. second \in d + 1 .. d + SearchDays /\ IsBusinessDay(p, second)
    BY <1>4 DEF NextBusinessDays
  <1>6. {e \in found : e <= second} = OpenDays(p, d, second)
    <2> HIDE DEF second
    <2>. QED BY <1>5 DEF NextBusinessDays, OpenDays, SearchDays
  <1>. QED BY <1>3, <1>4, <1>5, <1>6

\* It finds a date when two of the days it looks at are business days.
LEMMA QueryFinds ==
    ASSUME NEW p, NEW d \in Int, Cardinality(NextBusinessDays(p, d)) >= 2
    PROVE  SecondBusinessDay(p, d) # NoDate
  <1> DEFINE found == NextBusinessDays(p, d)
             second == Min(found \ {Min(found)})
  <1>1. IsFiniteSet(found) /\ \A e \in found : e \in Int /\ d <= e
    <2>1. IsFiniteSet(d + 1 .. d + SearchDays)
      BY FS_Interval DEF SearchDays
    <2>. QED BY <2>1, FS_Subset DEF NextBusinessDays, SearchDays
  <1>2. Cardinality(found) \in Nat
    BY <1>1, FS_CardinalityType
  <1>3. SecondBusinessDay(p, d) = second
    BY <1>2 DEF SecondBusinessDay
  <1>4. second \in found
    <2>1. Cardinality(found) >= 2
      OBVIOUS
    <2> HIDE DEF found
    <2>. QED BY <1>1, <2>1, SecondDay
  <1>. QED BY <1>1, <1>3, <1>4, LadderAssumption DEF LadderAssumption

\* No two days have two business days since the trade.
LEMMA OneSettlementDay ==
    ASSUME NEW p, NEW d \in Int, NEW x \in Int, NEW y \in Int,
           IsBusinessDay(p, x), IsBusinessDay(p, y),
           Cardinality(OpenDays(p, d, x)) = 2, Cardinality(OpenDays(p, d, y)) = 2
    PROVE  x = y
  <1>1. ASSUME NEW s \in Int, NEW t \in Int, s < t, IsBusinessDay(p, t),
               Cardinality(OpenDays(p, d, s)) = 2, Cardinality(OpenDays(p, d, t)) = 2
        PROVE  FALSE
    <2>1. IsFiniteSet(OpenDays(p, d, t))
      <3>1. IsFiniteSet(d + 1 .. t)
        BY FS_Interval
      <3>. QED BY <3>1, FS_Subset DEF OpenDays
    <2>2. OpenDays(p, d, s) \in SUBSET OpenDays(p, d, t)
      BY <1>1 DEF OpenDays
    <2>3. OpenDays(p, d, s) = OpenDays(p, d, t)
      BY <1>1, <2>1, <2>2, FS_Subset
    <2>4. OpenDays(p, d, t) # {}
      BY <1>1, FS_EmptySet
    <2>5. t \in OpenDays(p, d, t)
      BY <1>1, <2>4 DEF OpenDays
    <2>. QED BY <1>1, <2>3, <2>5 DEF OpenDays
  <1>. QED BY <1>1

\* business_days_after of the seed script stops at the same day.
LEMMA LoopAgrees ==
    ASSUME NEW p, NEW d \in Int, Cardinality(NextBusinessDays(p, d)) >= 2
    PROVE  BusinessDaysAfter(p, d, 2) = SecondBusinessDay(p, d)
  <1> DEFINE found == NextBusinessDays(p, d)
             first == Min(found)
             second == Min(found \ {Min(found)})
             days(x) == {e \in x + 1 .. x + Far : IsBusinessDay(p, e)}
             next(x) == Min(days(x))
             step(f) == [n \in 0 .. 2 |-> IF n = 0 THEN d ELSE next(f[n - 1])]
             after == CHOOSE f : f = step(f)
  <1>1. IsFiniteSet(found) /\ \A e \in found : e \in Int /\ d <= e
    <2>1. IsFiniteSet(d + 1 .. d + SearchDays)
      BY FS_Interval DEF SearchDays
    <2>. QED BY <2>1, FS_Subset DEF NextBusinessDays, SearchDays
  <1>2. SecondBusinessDay(p, d) = second
    <2>1. Cardinality(found) \in Nat
      BY <1>1, FS_CardinalityType
    <2>. QED BY <2>1 DEF SecondBusinessDay
  <1>3. /\ first \in found /\ second \in found
        /\ \A e \in found : first <= e
        /\ \A e \in found : e # first => second <= e
        /\ first < second
    <2>1. Cardinality(found) >= 2
      OBVIOUS
    <2> HIDE DEF found
    <2>. QED BY <1>1, <2>1, SecondDay
  <1> HIDE DEF first, second
  <1>4. first \in Int /\ second \in Int
    BY <1>1, <1>3
  <1>5. next(d) = first
    <2>1. first \in days(d) /\ \A e \in days(d) : first <= e
      BY <1>3, <1>4 DEF NextBusinessDays, SearchDays, Far
    <2>2. days(d) \subseteq Int
      OBVIOUS
    <2> HIDE DEF days
    <2>. QED BY <2>1, <2>2, FirstDayIs
  <1>6. next(first) = second
    <2>1. second \in days(first) /\ \A e \in days(first) : second <= e
      BY <1>3, <1>4 DEF NextBusinessDays, SearchDays, Far
    <2>2. days(first) \subseteq Int
      BY <1>4
    <2> HIDE DEF days
    <2>. QED BY <2>1, <2>2, FirstDayIs
  <1> HIDE DEF next
  <1>7. after = step(after)
    <2> DEFINE g == [n \in 0 .. 2 |-> IF n = 0 THEN d ELSE
                                        IF n = 1 THEN next(d) ELSE next(next(d))]
    <2>1. g[0] = d /\ g[1] = next(d)
      OBVIOUS
    <2>2. \A n \in 0 .. 2 : g[n] = IF n = 0 THEN d ELSE next(g[n - 1])
      <3> TAKE n \in 0 .. 2
      <3>1. n = 0 \/ n = 1 \/ n = 2
        OBVIOUS
      <3>2. n = 2 => g[n - 1] = next(d) /\ g[n] = next(next(d))
        BY <2>1
      <3>. QED BY <2>1, <3>1, <3>2
    <2>3. g = [n \in 0 .. 2 |-> g[n]]
      OBVIOUS
    <2> HIDE DEF g
    <2>4. g = step(g)
      BY <2>2, <2>3
    <2> HIDE DEF step
    <2>. QED BY <2>4
  <1>8. BusinessDaysAfter(p, d, 2) = after[2]
    BY DEF BusinessDaysAfter, next
  <1> HIDE DEF after
  <1>9. after[0] = d /\ after[1] = next(after[0]) /\ after[2] = next(after[1])
    BY <1>7
  <1>. QED BY <1>2, <1>5, <1>6, <1>8, <1>9
----
(***************************************************************************)
(* Clocks.                                                                 *)
(***************************************************************************)
\* A market's day is a whole number.
LEMMA DaysAreNumbers ==
    ASSUME NEW p \in Products, NEW t \in Times
    PROVE  LocalDay(p, t) \in Int /\ SessionDay(t) \in Int
  <1>1. /\ t \in Int
        /\ MarketOffset[p] \in Int
        /\ DayLength \in Int
        /\ DayLength > 0
    BY LadderAssumption DEF LadderAssumption, Times
  <1>2. \A x \in Int : x \div DayLength \in Int
    BY <1>1
  <1>. QED BY <1>1, <1>2 DEF LocalDay, SessionDay

\* A market's day never goes back.
LEMMA DaysPass ==
    ASSUME NEW p \in Products, NEW t \in Times, NEW u \in Times, t <= u
    PROVE  LocalDay(p, t) <= LocalDay(p, u)
  <1> DEFINE x == t + MarketOffset[p]
             y == u + MarketOffset[p]
  <1>1. /\ x \in Int /\ y \in Int /\ x <= y
        /\ DayLength \in Int /\ DayLength > 0
    BY LadderAssumption DEF LadderAssumption, Times
  <1>2. x \div DayLength <= y \div DayLength
    <2> HIDE DEF x, y
    <2>. QED BY <1>1
  <1>. QED BY <1>2 DEF LocalDay

\* The calendars leave two business days within the query's reach.
LEMMA TwoBusinessDays ==
    ASSUME holidays \in Calendars, NEW p \in Products, NEW t \in Times
    PROVE  /\ Cardinality(NextBusinessDays(p, LocalDay(p, t))) >= 2
           /\ Cardinality(NextBusinessDays(p, SessionDay(t))) >= 2
  BY CalendarAssumption DEF CalendarAssumption, NextBusinessDays, IsBusinessDay

\* The day that settles an order is the query's, and no other.
LEMMA QuerySettles ==
    ASSUME holidays \in Calendars, NEW o, o.product \in Products, o.submitted \in Times,
           NEW date, date = SecondBusinessDay(o.product, LocalDay(o.product, o.submitted))
    PROVE  /\ date \in Int
           /\ date # NoDate
           /\ \A d \in Int : SettlesOn(o, d) <=> d = date
  <1> DEFINE p == o.product
             trade == LocalDay(o.product, o.submitted)
  <1>1. trade \in Int
    BY DaysAreNumbers
  <1>2. date # NoDate
    <2>1. Cardinality(NextBusinessDays(p, trade)) >= 2
      BY TwoBusinessDays
    <2> HIDE DEF trade
    <2>. QED BY <1>1, <2>1, QueryFinds DEF trade
  <1>3. \A d : SettlesOn(o, d) <=>
                 IsBusinessDay(p, d) /\ Cardinality(OpenDays(p, trade, d)) = 2
    BY DEF SettlesOn, SinceTrade, OpenDays
  <1>4. date = SecondBusinessDay(p, trade)
    OBVIOUS
  <1> HIDE DEF trade, p
  <1>5. date \in Int /\ SettlesOn(o, date)
    <2>1. date \in trade + 1 .. trade + SearchDays
      BY <1>1, <1>2, <1>4, QueryCounts
    <2>2. date \in Int
      BY <1>1, <2>1 DEF SearchDays
    <2>. QED BY <1>1, <1>2, <1>3, <1>4, <2>2, QueryCounts
  <1>6. ASSUME NEW d \in Int, SettlesOn(o, d) PROVE d = date
    BY <1>1, <1>3, <1>5, <1>6, OneSettlementDay
  <1>. QED BY <1>2, <1>5, <1>6
----
\* The date of an earlier day settles the order early.
LEMMA EarlierDaySettlesEarly ==
    ASSUME holidays \in Calendars, NEW o, o.product \in Products, o.submitted \in Times,
           NEW t \in Times, t <= o.submitted,
           NEW date, date = SecondBusinessDay(o.product, LocalDay(o.product, t))
    PROVE  /\ date \in Int
           /\ date # NoDate
           /\ IsBusinessDay(o.product, date)
           /\ Cardinality(SinceTrade(o, date)) <= 2
  <1> DEFINE x == [product |-> o.product, submitted |-> t]
  <1>1. x.product = o.product /\ x.submitted = t
    OBVIOUS
  <1>2. LocalDay(o.product, t) <= LocalDay(o.product, o.submitted)
    BY DaysPass
  <1>3. /\ LocalDay(o.product, t) \in Int
        /\ LocalDay(o.product, o.submitted) \in Int
    BY DaysAreNumbers
  <1> HIDE DEF x
  <1>4. date \in Int /\ date # NoDate /\ SettlesOn(x, date)
    BY <1>1, QuerySettles
  <1>5. IsBusinessDay(o.product, date) /\ Cardinality(SinceTrade(x, date)) = 2
    BY <1>1, <1>4 DEF SettlesOn
  <1>6. SinceTrade(o, date) \subseteq SinceTrade(x, date)
    BY <1>1, <1>2, <1>3, <1>4 DEF SinceTrade
  <1>7. IsFiniteSet(SinceTrade(x, date))
    <2>1. SinceTrade(x, date) \subseteq LocalDay(o.product, t) + 1 .. date
      BY <1>1 DEF SinceTrade
    <2>2. IsFiniteSet(LocalDay(o.product, t) + 1 .. date)
      BY <1>3, <1>4, FS_Interval
    <2>. QED BY <2>1, <2>2, FS_Subset
  <1>8. Cardinality(SinceTrade(o, date)) <= Cardinality(SinceTrade(x, date))
    BY <1>6, <1>7, FS_Subset
  <1>. QED BY <1>4, <1>5, <1>8
----
(***************************************************************************)
(* The invariant.  The date of a submission that goes on to the insert is  *)
(* that of its market's day, or of an earlier one if midnight overtook it; *)
(* and an order that midnight overtook has a date.                         *)
(***************************************************************************)
DatedOn(s, t) == s.date = SecondBusinessDay(s.product, LocalDay(s.product, t))

DateOfItsDay ==
    \A k \in Ids : session[k].at = "insert" =>
        \E t \in Times :
            /\ t <= now
            /\ DatedOn(session[k], t)
            /\ k \notin lapsed => LocalDay(session[k].product, t)
                                     = LocalDay(session[k].product, now)

LapsedHaveDates ==
    \A k \in lapsed : IF orders[k] = NoRow THEN session[k].at = "insert"
                      ELSE orders[k].settlement # NoDate

IInv ==
    /\ TypeOK
    /\ DateOfItsDay
    /\ LapsedHaveDates
    /\ OnlyMidnightMovesDates

\* A stored order, and a submission in progress.
LEMMA Stored ==
    ASSUME TypeOK, NEW k \in Ids, orders[k] # NoRow
    PROVE  orders[k] \in OrderRow
  BY DEF TypeOK

LEMMA InProgress ==
    ASSUME TypeOK, NEW k \in Ids, session[k].at # "idle"
    PROVE  session[k] \in Submission /\ orders[k] = NoRow
  <1>1. session[k] # Idle
    BY DEF Idle
  <1>. QED BY <1>1 DEF TypeOK

\* The row of an order as it is loaded.
LEMMA LoadedRow ==
    ASSUME holidays \in Calendars, NEW l \in Loaded, NEW o, o = LoadedOrder(l)
    PROVE  /\ o \in OrderRow
           /\ o.settlement # NoDate => SettlesOn(o, o.settlement)
  <1>1. /\ l.product \in Products /\ l.type \in Types /\ l.amount \in Nat
        /\ l.status \in Statuses /\ l.submitted \in Times
    BY LadderAssumption DEF LadderAssumption
  <1> DEFINE trade == LocalDay(l.product, l.submitted)
             date == IF l.dated
                     THEN BusinessDaysAfter(l.product, SessionDay(l.submitted), 2)
                     ELSE NoDate
  <1>2. o = [product |-> l.product, type |-> l.type, amount |-> l.amount,
             status |-> l.status, submitted |-> l.submitted, settlement |-> date]
    BY DEF LoadedOrder
  <1>3. CASE l.dated
    <2>1. date = SecondBusinessDay(l.product, trade)
      <3>1. date = BusinessDaysAfter(l.product, trade, 2)
        BY <1>3, SeedAssumption DEF SeedAssumption
      <3>2. trade \in Int /\ Cardinality(NextBusinessDays(l.product, trade)) >= 2
        BY <1>1, DaysAreNumbers, TwoBusinessDays
      <3> HIDE DEF trade, date
      <3>. QED BY <3>1, <3>2, LoopAgrees
    <2> HIDE DEF date
    <2>2. /\ o.product = l.product /\ o.submitted = l.submitted
          /\ o.settlement = date
          /\ date = SecondBusinessDay(o.product, LocalDay(o.product, o.submitted))
      BY <1>2, <2>1
    <2>3. date \in Int /\ SettlesOn(o, date)
      BY <1>1, <2>2, QuerySettles
    <2>. QED BY <1>1, <1>2, <2>2, <2>3 DEF OrderRow
  <1>4. CASE ~l.dated
    BY <1>1, <1>2, <1>4 DEF OrderRow
  <1>. QED BY <1>3, <1>4

LEMMA InitInv == Init => IInv
  <1> SUFFICES ASSUME Init PROVE IInv
    OBVIOUS
  <1>1. /\ now = Start /\ holidays \in Calendars
        /\ orders \in [Ids -> {LoadedOrder(l) : l \in Loaded} \cup {NoRow}]
        /\ session = [k \in Ids |-> Idle] /\ lapsed = {}
    BY DEF Init
  <1>2. \A k \in Ids : orders[k] # NoRow =>
            /\ orders[k] \in OrderRow
            /\ orders[k].settlement # NoDate => SettlesOn(orders[k], orders[k].settlement)
    BY <1>1, LoadedRow
  <1>3. \A k \in Ids : session[k] = Idle /\ session[k].at = "idle"
    BY <1>1 DEF Idle
  <1>4. TypeOK
    <2>1. now \in Times
      BY <1>1, LadderAssumption DEF LadderAssumption
    <2>2. orders \in [Ids -> OrderRow \cup {NoRow}]
      BY <1>1, <1>2
    <2>3. session \in [Ids -> Submission \cup {Idle}]
      BY <1>1
    <2>. QED BY <1>1, <1>3, <2>1, <2>2, <2>3 DEF TypeOK
  <1>5. OnlyMidnightMovesDates
    BY <1>2 DEF OnlyMidnightMovesDates, SettlesOn
  <1>. QED BY <1>1, <1>3, <1>4, <1>5 DEF IInv, DateOfItsDay, LapsedHaveDates
----
(***************************************************************************)
(* One step.                                                               *)
(***************************************************************************)
\* The calendars stay, and with them every settlement date.
LEMMA CalendarsStay ==
    ASSUME holidays' = holidays
    PROVE  /\ \A p, d : SecondBusinessDay(p, d)' = SecondBusinessDay(p, d)
           /\ \A p, d : IsBusinessDay(p, d)' <=> IsBusinessDay(p, d)
           /\ \A o, d : SinceTrade(o, d)' = SinceTrade(o, d)
           /\ \A o, d : SettlesOn(o, d)' <=> SettlesOn(o, d)
           /\ \A s, t : DatedOn(s, t)' <=> DatedOn(s, t)
  BY DEF SecondBusinessDay, NextBusinessDays, SettlesOn, SinceTrade, IsBusinessDay,
         DatedOn

\* A step that leaves the clock and the submissions alone but for k's keeps
\* what is known of the others.
LEMMA OthersKept ==
    ASSUME DateOfItsDay, now' = now, holidays' = holidays, NEW k \in Ids,
           \A j \in Ids : j # k => /\ session'[j] = session[j]
                                   /\ j \in lapsed' <=> j \in lapsed,
           session'[k].at = "insert" =>
               \E t \in Times :
                   /\ t <= now
                   /\ DatedOn(session'[k], t)
                   /\ LocalDay(session'[k].product, t)
                         = LocalDay(session'[k].product, now)
    PROVE  DateOfItsDay'
  <1>1. \A s, t : DatedOn(s, t)' <=> DatedOn(s, t)
    BY CalendarsStay
  <1>2. ASSUME NEW j \in Ids, NEW s, s = session'[j], s.at = "insert"
        PROVE  \E t \in Times :
                   /\ t <= now
                   /\ DatedOn(s, t)
                   /\ j \notin lapsed' => LocalDay(s.product, t) = LocalDay(s.product, now)
    <2>1. CASE j = k
      BY <1>2, <2>1
    <2>2. CASE j # k
      BY <1>2, <2>2 DEF DateOfItsDay
    <2>. QED BY <2>1, <2>2
  <1>3. ASSUME NEW j \in Ids, NEW s, s = session'[j], s.at = "insert"
        PROVE  \E t \in Times :
                   /\ t <= now'
                   /\ DatedOn(s, t)'
                   /\ j \notin lapsed' => LocalDay(s.product, t) = LocalDay(s.product, now')
    BY <1>1, <1>2, <1>3
  <1>. QED BY <1>3 DEF DateOfItsDay, DatedOn, LocalDay

\* A step that stores the row o as order k, or changes it to that.
LEMMA RowStored ==
    ASSUME OnlyMidnightMovesDates, holidays' = holidays, lapsed' = lapsed, TypeOK,
           NEW k \in Ids, NEW o, orders' = [orders EXCEPT ![k] = o],
           o.settlement # NoDate =>
               /\ IsBusinessDay(o.product, o.settlement)
               /\ Cardinality(SinceTrade(o, o.settlement)) <= 2
               /\ k \notin lapsed => SettlesOn(o, o.settlement)
    PROVE  OnlyMidnightMovesDates'
  <1>1. /\ \A p, d : IsBusinessDay(p, d)' <=> IsBusinessDay(p, d)
        /\ \A x, d : SinceTrade(x, d)' = SinceTrade(x, d)
        /\ \A x, d : SettlesOn(x, d)' <=> SettlesOn(x, d)
    BY CalendarsStay
  <1>2. ASSUME NEW j \in Ids, NEW x, x = orders'[j], x # NoRow, x.settlement # NoDate
        PROVE  /\ IsBusinessDay(x.product, x.settlement)
               /\ Cardinality(SinceTrade(x, x.settlement)) <= 2
               /\ j \notin lapsed => SettlesOn(x, x.settlement)
    <2>1. orders'[j] = IF j = k THEN o ELSE orders[j]
      BY DEF TypeOK
    <2>. QED BY <1>2, <2>1 DEF OnlyMidnightMovesDates
  <1>3. ASSUME NEW j \in Ids, NEW x, x = orders'[j], x # NoRow, x.settlement # NoDate
        PROVE  /\ IsBusinessDay(x.product, x.settlement)'
               /\ Cardinality(SinceTrade(x, x.settlement)') <= 2
               /\ j \notin lapsed' => SettlesOn(x, x.settlement)'
    BY <1>1, <1>2, <1>3
  <1>. QED BY <1>3 DEF OnlyMidnightMovesDates

\* A step that leaves the orders alone, and overtakes none that is stored.
LEMMA RowsKept ==
    ASSUME OnlyMidnightMovesDates, holidays' = holidays, orders' = orders,
           \A k \in Ids : orders[k] # NoRow => (k \in lapsed' <=> k \in lapsed)
    PROVE  OnlyMidnightMovesDates'
  <1>1. /\ \A p, d : IsBusinessDay(p, d)' <=> IsBusinessDay(p, d)
        /\ \A x, d : SinceTrade(x, d)' = SinceTrade(x, d)
        /\ \A x, d : SettlesOn(x, d)' <=> SettlesOn(x, d)
    BY CalendarsStay
  <1>2. ASSUME NEW j \in Ids, NEW x, x = orders[j], x # NoRow, x.settlement # NoDate
        PROVE  /\ IsBusinessDay(x.product, x.settlement)'
               /\ Cardinality(SinceTrade(x, x.settlement)') <= 2
               /\ j \notin lapsed' => SettlesOn(x, x.settlement)'
    BY <1>1, <1>2 DEF OnlyMidnightMovesDates
  <1>. QED BY <1>2 DEF OnlyMidnightMovesDates

LEMMA StepCheckCutoff ==
    ASSUME IInv, NEW k \in Ids, NEW p \in Products, CheckCutoff(k, p)
    PROVE  IInv'
  <1> DEFINE s == [product |-> p, date |-> NoDate, at |-> "derive"]
  <1>1. /\ orders[k] = NoRow /\ session[k].at = "idle"
        /\ session' = [session EXCEPT ![k] = s]
        /\ now' = now /\ holidays' = holidays /\ orders' = orders /\ lapsed' = lapsed
    <2>1. s = [Idle EXCEPT !.product = p, !.at = "derive"]
      <3> DEFINE f == [Idle EXCEPT !.product = p]
                 g == [f EXCEPT !.at = "derive"]
      <3>1. f = [product |-> p, date |-> NoDate, at |-> "idle"]
        BY DEF Idle
      <3> HIDE DEF f
      <3>2. g = s
        BY <3>1
      <3>. QED BY <3>2 DEF f
    <2> HIDE DEF s
    <2>. QED BY <2>1 DEF CheckCutoff
  <1>2. TypeOK
    BY DEF IInv
  <1>3. s \in Submission /\ s.at = "derive"
    BY DEF Submission
  <1>4. /\ session'[k] = s
        /\ \A j \in Ids : j # k => session'[j] = session[j]
        /\ session' \in [Ids -> Submission \cup {Idle}]
    <2> HIDE DEF s
    <2>. QED BY <1>1, <1>2, <1>3 DEF TypeOK
  <1>5. TypeOK'
    <2>1. \A j \in Ids : session'[j].at # "idle" => orders'[j] = NoRow
      BY <1>1, <1>2, <1>4 DEF TypeOK
    <2>. QED BY <1>1, <1>2, <1>4, <2>1 DEF TypeOK, Times
  <1>6. k \notin lapsed
    BY <1>1 DEF IInv, LapsedHaveDates
  <1>7. LapsedHaveDates'
    <2>1. \A j \in lapsed : j \in Ids /\ session'[j] = session[j]
      BY <1>2, <1>4, <1>6 DEF TypeOK
    <2>. QED BY <1>1, <2>1 DEF IInv, LapsedHaveDates
  <1>8. DateOfItsDay'
    <2> HIDE DEF s
    <2>. QED BY <1>1, <1>3, <1>4, OthersKept DEF IInv
  <1>9. OnlyMidnightMovesDates'
    BY <1>1, RowsKept DEF IInv
  <1>. QED BY <1>5, <1>7, <1>8, <1>9 DEF IInv

LEMMA StepRejectLate ==
    ASSUME IInv, NEW k \in Ids, NEW p \in Products, NEW type \in Types,
           RejectLate(k, p, type)
    PROVE  IInv'
  <1> DEFINE o == [product |-> p, type |-> type, amount |-> 0, status |-> "REJECTED",
                   submitted |-> now, settlement |-> NoDate]
  <1>1. /\ orders[k] = NoRow /\ session[k].at = "idle"
        /\ orders' = [orders EXCEPT ![k] = o]
        /\ now' = now /\ holidays' = holidays /\ session' = session /\ lapsed' = lapsed
    BY DEF RejectLate
  <1>2. TypeOK
    BY DEF IInv
  <1>3. o \in OrderRow /\ o.settlement = NoDate
    BY <1>2 DEF TypeOK, OrderRow, Statuses
  <1> HIDE DEF o
  <1>4. TypeOK'
    <2>1. \A j \in Ids : session'[j].at # "idle" => orders'[j] = NoRow
      BY <1>1, <1>2 DEF TypeOK
    <2>. QED BY <1>1, <1>2, <1>3, <2>1 DEF TypeOK, Times
  <1>5. LapsedHaveDates'
    <2>1. k \notin lapsed
      BY <1>1 DEF IInv, LapsedHaveDates
    <2>2. \A j \in lapsed : j \in Ids /\ orders'[j] = orders[j]
      BY <1>1, <1>2, <2>1 DEF TypeOK
    <2>. QED BY <1>1, <2>2 DEF IInv, LapsedHaveDates
  <1>6. DateOfItsDay'
    BY <1>1, OthersKept DEF IInv
  <1>7. OnlyMidnightMovesDates'
    BY <1>1, <1>2, <1>3, RowStored DEF IInv
  <1>. QED BY <1>4, <1>5, <1>6, <1>7 DEF IInv

LEMMA StepDeriveDate ==
    ASSUME IInv, NEW k \in Ids, DeriveDate(k)
    PROVE  IInv'
  <1> DEFINE p == session[k].product
             s == [session[k] EXCEPT !.date = Derived(p), !.at = "insert"]
  <1>1. /\ session[k].at = "derive"
        /\ session' = [session EXCEPT ![k] = s]
        /\ now' = now /\ holidays' = holidays /\ orders' = orders /\ lapsed' = lapsed
    BY DEF DeriveDate
  <1>2. TypeOK
    BY DEF IInv
  <1>3. session[k] \in Submission /\ orders[k] = NoRow
    BY <1>1, <1>2, InProgress
  <1>4. p \in Products /\ now \in Times /\ now \in Int
    BY <1>2, <1>3 DEF Submission, TypeOK, Times
  <1>5. Derived(p) \in Int \cup {NoDate}
    <2> HIDE DEF p
    <2>1. LocalDay(p, now) \in Int
      BY <1>4, DaysAreNumbers
    <2>. QED BY <2>1, QueryCounts DEF Derived, SearchDays
  <1>6. /\ s \in Submission /\ s.at = "insert" /\ s.product = p
        /\ s.date = Derived(p)
    BY <1>3, <1>5 DEF Submission
  <1> HIDE DEF s, p
  <1>7. /\ session'[k] = s
        /\ \A j \in Ids : j # k => session'[j] = session[j]
        /\ session' \in [Ids -> Submission \cup {Idle}]
    BY <1>1, <1>2, <1>6 DEF TypeOK
  <1>8. TypeOK'
    <2>1. \A j \in Ids : session'[j].at # "idle" => orders'[j] = NoRow
      BY <1>1, <1>2, <1>3, <1>7 DEF TypeOK
    <2>. QED BY <1>1, <1>2, <1>7, <2>1 DEF TypeOK, Times
  <1>9. LapsedHaveDates'
    <2>1. k \notin lapsed
      BY <1>1, <1>3 DEF IInv, LapsedHaveDates
    <2>2. \A j \in lapsed : j \in Ids /\ session'[j] = session[j]
      BY <1>2, <1>7, <2>1 DEF TypeOK
    <2>. QED BY <1>1, <2>2 DEF IInv, LapsedHaveDates
  <1>10. DateOfItsDay'
    <2>1. DatedOn(s, now)
      BY <1>6 DEF Derived, DatedOn
    <2>2. now <= now
      BY <1>4
    <2>. QED BY <1>1, <1>4, <1>7, <2>1, <2>2, OthersKept DEF IInv
  <1>11. OnlyMidnightMovesDates'
    BY <1>1, RowsKept DEF IInv
  <1>. QED BY <1>8, <1>9, <1>10, <1>11 DEF IInv

LEMMA StepInsertOrder ==
    ASSUME IInv, NEW k \in Ids, NEW type \in Types, NEW amount \in Amounts,
           InsertOrder(k, type, amount)
    PROVE  IInv'
  <1> DEFINE p == session[k].product
  <1>1. /\ session[k].at = "insert"
        /\ session' = [session EXCEPT ![k] = Idle]
        /\ now' = now /\ holidays' = holidays
    BY DEF InsertOrder
  <1>2. TypeOK
    BY DEF IInv
  <1>3. session[k] \in Submission /\ orders[k] = NoRow
    BY <1>1, <1>2, InProgress
  <1>4. p \in Products /\ now \in Times /\ holidays \in Calendars
    BY <1>2, <1>3 DEF Submission, TypeOK
  <1>5. /\ session'[k] = Idle /\ Idle.at = "idle"
        /\ \A j \in Ids : j # k => session'[j] = session[j]
        /\ session' \in [Ids -> Submission \cup {Idle}]
    <2>1. Idle.at = "idle"
      BY DEF Idle
    <2>. QED BY <1>1, <1>2, <2>1 DEF TypeOK
  <1>6. CASE orders' = orders /\ lapsed' = lapsed \ {k}
    <2>1. TypeOK'
      <3>1. \A j \in Ids : session'[j].at # "idle" => orders'[j] = NoRow
        BY <1>2, <1>5, <1>6 DEF TypeOK
      <3>. QED BY <1>1, <1>2, <1>5, <1>6, <3>1 DEF TypeOK, Times
    <2>2. LapsedHaveDates'
      <3>1. \A j \in lapsed' : j \in lapsed /\ j \in Ids /\ session'[j] = session[j]
        BY <1>2, <1>5, <1>6 DEF TypeOK
      <3>. QED BY <1>6, <3>1 DEF IInv, LapsedHaveDates
    <2>3. DateOfItsDay'
      BY <1>1, <1>5, <1>6, OthersKept DEF IInv
    <2>4. OnlyMidnightMovesDates'
      BY <1>1, <1>3, <1>6, RowsKept DEF IInv
    <2>. QED BY <2>1, <2>2, <2>3, <2>4 DEF IInv
  <1>7. ASSUME NEW s \in {"CONFIRMED", "REJECTED"}, NEW o,
               o = [product |-> p, type |-> type, amount |-> amount,
                    status |-> s, submitted |-> now,
                    settlement |-> session[k].date],
               orders' = [orders EXCEPT ![k] = o], lapsed' = lapsed
        PROVE  IInv'
    <2>1. /\ o.product = p /\ o.submitted = now
          /\ o.settlement = session[k].date
      BY <1>7
    <2>2. PICK t \in Times :
              /\ t <= now
              /\ DatedOn(session[k], t)
              /\ k \notin lapsed => LocalDay(p, t) = LocalDay(p, now)
      BY <1>1 DEF IInv, DateOfItsDay
    <2>3. o.settlement = SecondBusinessDay(o.product, LocalDay(o.product, t))
      BY <2>1, <2>2 DEF DatedOn
    <2>4. /\ o.settlement \in Int /\ o.settlement # NoDate
          /\ IsBusinessDay(o.product, o.settlement)
          /\ Cardinality(SinceTrade(o, o.settlement)) <= 2
      <3> HIDE DEF p
      <3>. QED BY <1>4, <2>1, <2>2, <2>3, EarlierDaySettlesEarly
    <2>5. k \notin lapsed => SettlesOn(o, o.settlement)
      <3>1. ASSUME k \notin lapsed PROVE SettlesOn(o, o.settlement)
        <4>1. o.settlement = SecondBusinessDay(o.product,
                                LocalDay(o.product, o.submitted))
          BY <2>1, <2>2, <2>3, <3>1
        <4> HIDE DEF p
        <4>. QED BY <1>4, <2>1, <2>4, <4>1, QuerySettles
      <3>. QED BY <3>1
    <2>6. o \in OrderRow
      <3>1. amount \in Nat /\ s \in Statuses
        BY LadderAssumption DEF LadderAssumption, Statuses
      <3> HIDE DEF p
      <3>. QED BY <1>4, <1>7, <2>1, <2>4, <3>1 DEF OrderRow
    <2>7. /\ orders'[k] = o /\ o # NoRow
          /\ \A j \in Ids : j # k => orders'[j] = orders[j]
          /\ orders' \in [Ids -> OrderRow \cup {NoRow}]
      BY <1>2, <1>7, <2>6, LadderAssumption DEF TypeOK, LadderAssumption
    <2>8. TypeOK'
      <3>1. \A j \in Ids : session'[j].at # "idle" => orders'[j] = NoRow
        BY <1>2, <1>5, <2>7 DEF TypeOK
      <3>. QED BY <1>1, <1>2, <1>5, <1>7, <2>7, <3>1 DEF TypeOK, Times
    <2>9. LapsedHaveDates'
      <3>1. ASSUME NEW j \in lapsed
            PROVE  IF orders'[j] = NoRow THEN session'[j].at = "insert"
                   ELSE orders'[j].settlement # NoDate
        <4>1. CASE j = k
          BY <2>4, <2>7, <4>1
        <4>2. CASE j # k
          <5>1. orders'[j] = orders[j] /\ session'[j] = session[j]
            BY <1>2, <1>5, <2>7, <4>2 DEF TypeOK
          <5>. QED BY <5>1 DEF IInv, LapsedHaveDates
        <4>. QED BY <4>1, <4>2
      <3>. QED BY <1>7, <3>1 DEF LapsedHaveDates
    <2>10. DateOfItsDay'
      BY <1>1, <1>5, <1>7, OthersKept DEF IInv
    <2>11. OnlyMidnightMovesDates'
      BY <1>1, <1>2, <1>7, <2>4, <2>5, RowStored DEF IInv
    <2>. QED BY <2>8, <2>9, <2>10, <2>11 DEF IInv
  <1>. QED BY <1>6, <1>7 DEF InsertOrder

\* confirm_order and cancel_order.
LEMMA StatusChanged ==
    ASSUME IInv, NEW k \in Ids, orders[k] # NoRow, NEW s \in Statuses,
           orders' = [orders EXCEPT ![k].status = s],
           UNCHANGED <<now, holidays, session, lapsed>>
    PROVE  IInv'
  <1> DEFINE o == [orders[k] EXCEPT !.status = s]
  <1>1. TypeOK
    BY DEF IInv
  <1>2. orders[k] \in OrderRow
    BY <1>1, Stored
  <1>3. /\ o \in OrderRow /\ o.product = orders[k].product
        /\ o.submitted = orders[k].submitted /\ o.settlement = orders[k].settlement
    BY <1>2 DEF OrderRow
  <1> HIDE DEF o
  <1>4. o.settlement # NoDate =>
            /\ IsBusinessDay(o.product, o.settlement)
            /\ Cardinality(SinceTrade(o, o.settlement)) <= 2
            /\ k \notin lapsed => SettlesOn(o, o.settlement)
    BY <1>3 DEF IInv, OnlyMidnightMovesDates, SettlesOn, SinceTrade
  <1>5. orders' = [orders EXCEPT ![k] = o]
    BY DEF o
  <1>6. /\ orders'[k] = o /\ o # NoRow
        /\ \A j \in Ids : j # k => orders'[j] = orders[j]
        /\ orders' \in [Ids -> OrderRow \cup {NoRow}]
    BY <1>1, <1>3, <1>5, LadderAssumption DEF TypeOK, LadderAssumption
  <1>7. TypeOK'
    <2>1. \A j \in Ids : session'[j].at # "idle" => orders'[j] = NoRow
      BY <1>1, <1>6 DEF TypeOK
    <2>. QED BY <1>1, <1>6, <2>1 DEF TypeOK, Times
  <1>8. LapsedHaveDates'
    <2>1. \A j \in lapsed : /\ j \in Ids
                            /\ orders'[j] = NoRow <=> orders[j] = NoRow
                            /\ orders'[j].settlement = orders[j].settlement
      BY <1>1, <1>3, <1>6 DEF TypeOK
    <2>. QED BY <2>1 DEF IInv, LapsedHaveDates
  <1>9. DateOfItsDay'
    BY DEF IInv, DateOfItsDay, DatedOn, SecondBusinessDay, NextBusinessDays,
           IsBusinessDay, LocalDay
  <1>10. OnlyMidnightMovesDates'
    BY <1>1, <1>4, <1>5, RowStored DEF IInv
  <1>. QED BY <1>7, <1>8, <1>9, <1>10 DEF IInv

LEMMA StepTick == ASSUME IInv, Tick PROVE IInv'
  <1>1. /\ now < MaxTime /\ now' = now + 1 /\ lapsed' = lapsed \cup Overtaken(now)
        /\ holidays' = holidays /\ orders' = orders /\ session' = session
    BY DEF Tick
  <1>2. TypeOK /\ now \in Int /\ MaxTime \in Int
    BY LadderAssumption DEF IInv, TypeOK, Times, LadderAssumption
  <1>3. now' \in Times
    BY <1>1, <1>2 DEF TypeOK, Times
  <1>4. \A k \in Overtaken(now) :
            k \in Ids /\ session[k].at = "insert" /\ orders[k] = NoRow
    BY <1>2, InProgress DEF Overtaken
  <1>5. TypeOK'
    BY <1>1, <1>2, <1>3, <1>4 DEF TypeOK, Times
  <1>6. LapsedHaveDates'
    BY <1>1, <1>4 DEF IInv, LapsedHaveDates
  <1>7. DateOfItsDay'
    <2>1. ASSUME NEW k \in Ids, session[k].at = "insert"
          PROVE  \E t \in Times :
                     /\ t <= now + 1
                     /\ DatedOn(session[k], t)
                     /\ k \notin lapsed' => LocalDay(session[k].product, t)
                                               = LocalDay(session[k].product, now + 1)
      <3>1. PICK t \in Times :
                /\ t <= now
                /\ DatedOn(session[k], t)
                /\ k \notin lapsed => LocalDay(session[k].product, t)
                                         = LocalDay(session[k].product, now)
        BY <2>1 DEF IInv, DateOfItsDay
      <3>2. t <= now + 1
        BY <1>2, <3>1 DEF Times
      <3>3. k \notin lapsed' => k \notin lapsed /\ k \notin Overtaken(now)
        BY <1>1
      <3>4. k \notin Overtaken(now) => LocalDay(session[k].product, now)
                                          = LocalDay(session[k].product, now + 1)
        BY <2>1 DEF Overtaken
      <3>. QED BY <3>1, <3>2, <3>3, <3>4
    <2>2. \A s, t : DatedOn(s, t)' <=> DatedOn(s, t)
      BY <1>1, CalendarsStay
    <2>3. ASSUME NEW k \in Ids, NEW s, s = session[k], s.at = "insert"
          PROVE  \E t \in Times :
                     /\ t <= now'
                     /\ DatedOn(s, t)'
                     /\ k \notin lapsed' => LocalDay(s.product, t)
                                               = LocalDay(s.product, now')
      BY <1>1, <2>1, <2>2, <2>3
    <2>. QED BY <1>1, <2>3 DEF DateOfItsDay, DatedOn, LocalDay
  <1>8. OnlyMidnightMovesDates'
    BY <1>1, <1>4, RowsKept DEF IInv
  <1>. QED BY <1>5, <1>6, <1>7, <1>8 DEF IInv

LEMMA StepInv == IInv /\ [Next]_vars => IInv'
  <1> SUFFICES ASSUME IInv, [Next]_vars PROVE IInv'
    OBVIOUS
  <1>1. ASSUME NEW k \in Ids, NEW p \in Products, CheckCutoff(k, p) PROVE IInv'
    BY <1>1, StepCheckCutoff
  <1>2. ASSUME NEW k \in Ids, NEW p \in Products, NEW type \in Types,
               RejectLate(k, p, type)
        PROVE  IInv'
    BY <1>2, StepRejectLate
  <1>3. ASSUME NEW k \in Ids, DeriveDate(k) PROVE IInv'
    BY <1>3, StepDeriveDate
  <1>4. ASSUME NEW k \in Ids, ConfirmOrder(k) PROVE IInv'
    <2>1. PICK s \in {"CONFIRMED", "REJECTED"} :
              orders' = [orders EXCEPT ![k].status = s]
      BY <1>4 DEF ConfirmOrder
    <2>2. s \in Statuses
      BY DEF Statuses
    <2>. QED BY <1>4, <2>1, <2>2, StatusChanged DEF ConfirmOrder
  <1>5. ASSUME NEW k \in Ids, CancelOrder(k) PROVE IInv'
    <2>1. "CANCELLED" \in Statuses
      BY DEF Statuses
    <2>. QED BY <1>5, <2>1, StatusChanged DEF CancelOrder
  <1>6. ASSUME NEW k \in Ids, NEW type \in Types, NEW amount \in Amounts,
               InsertOrder(k, type, amount)
        PROVE  IInv'
    BY <1>6, StepInsertOrder
  <1>7. CASE Tick
    BY <1>7, StepTick
  <1>8. CASE UNCHANGED vars
    <2>1. TypeOK' /\ LapsedHaveDates'
      BY <1>8 DEF vars, IInv, TypeOK, Times, LapsedHaveDates
    <2>2. DateOfItsDay'
      BY <1>8 DEF vars, IInv, DateOfItsDay, DatedOn, SecondBusinessDay,
                  NextBusinessDays, IsBusinessDay, LocalDay
    <2>3. OnlyMidnightMovesDates'
      BY <1>8, RowsKept DEF vars, IInv
    <2>. QED BY <2>1, <2>2, <2>3 DEF IInv
  <1>. QED BY <1>1, <1>2, <1>3, <1>4, <1>5, <1>6, <1>7, <1>8 DEF Next

LEMMA Invariance == Spec => []IInv
  BY InitInv, StepInv, PTL DEF Spec
----
\* Rows and submissions have their shape, and no order is stored twice.
THEOREM TypeCorrect == Spec => []TypeOK
  <1>1. IInv => TypeOK
    BY DEF IInv
  <1>. QED BY <1>1, Invariance, PTL

\* A stored settlement date is the second business day since the day the order
\* was stored in its market, unless the market's midnight passed between the
\* statement of submit_order that derives the date and the one that inserts the
\* row; then it is a business day, and no later.  Whatever the cutoffs, the
\* calendars and the delays between the statements.
THEOREM OnlyMidnightEverMovesDates == Spec => []OnlyMidnightMovesDates
  <1>1. IInv => OnlyMidnightMovesDates
    BY DEF IInv
  <1>. QED BY <1>1, Invariance, PTL

\* The query and the seed script's loop find the same settlement date for any
\* product and calendar, at any time.
THEOREM DerivationsAlwaysAgree == Spec => []DerivationsAgree
  <1>1. IInv => DerivationsAgree
    <2> SUFFICES ASSUME IInv, NEW p \in Products
                 PROVE  SecondBusinessDay(p, LocalDay(p, now))
                           = BusinessDaysAfter(p, LocalDay(p, now), 2)
      BY DEF DerivationsAgree
    <2>1. now \in Times /\ holidays \in Calendars
      BY DEF IInv, TypeOK
    <2>. QED BY <2>1, DaysAreNumbers, TwoBusinessDays, LoopAgrees
  <1>. QED BY <1>1, Invariance, PTL
----
(***************************************************************************)
(* The totals of the ladder.                                               *)
(***************************************************************************)
\* The day a confirmed order counts on is the one it settles on.
LEMMA CountsWhenItSettles ==
    ASSUME IInv, NEW k \in Ids, orders[k] # NoRow, NEW d \in Int
    PROVE  EffectiveDate(orders[k]) = d <=> Settles(k, d)
  <1> DEFINE o == orders[k]
             date == SecondBusinessDay(o.product, LocalDay(o.product, o.submitted))
  <1>1. /\ o.product \in Products /\ o.submitted \in Times
        /\ o.settlement \in Int \cup {NoDate} /\ holidays \in Calendars
    BY Stored DEF IInv, TypeOK, OrderRow
  <1>2. o.settlement # NoDate /\ k \notin lapsed => SettlesOn(o, o.settlement)
    BY DEF IInv, OnlyMidnightMovesDates
  <1>3. k \in lapsed => o.settlement # NoDate
    BY DEF IInv, LapsedHaveDates
  <1>4. EffectiveDate(o) = IF o.settlement # NoDate THEN o.settlement ELSE date
    BY DEF EffectiveDate
  <1>5. Settles(k, d) <=> IF k \in lapsed THEN d = o.settlement ELSE SettlesOn(o, d)
    BY DEF Settles
  <1> HIDE DEF o
  <1>6. \A e \in Int : SettlesOn(o, e) <=> e = date
    BY <1>1, QuerySettles
  <1> HIDE DEF date
  <1>7. Settles(k, d) <=> EffectiveDate(o) = d
    BY <1>1, <1>2, <1>3, <1>4, <1>5, <1>6
  <1>. QED BY <1>7 DEF o

\* The cash of some orders, as a sum over the rows of a table.
LEMMA CashIsAmount == ASSUME NEW ks PROVE Cash(ks) = AmountOf(orders, ks)
  BY DEF Cash, AmountOf

\* Open orders of one direction.
OpenOf(type) == {k \in Ids : Open(k) /\ orders[k].type = type}

\* Those of a currency that count on day d.
OnDay(type, c, d) ==
    {k \in OpenOf(type) : /\ Currency[orders[k].product] = c
                          /\ EffectiveDate(orders[k]) = d}

LEMMA OpenOfType ==
    ASSUME TypeOK, NEW type, NEW K, K \subseteq OpenOf(type)
    PROVE  IsFiniteSet(K) /\ \A k \in K : orders[k].amount \in Nat
  <1>1. \A k \in OpenOf(type) : k \in Ids /\ orders[k] \in OrderRow
    BY Stored DEF OpenOf, Open
  <1>2. IsFiniteSet(K)
    BY <1>1, FS_Subset, LadderAssumption DEF LadderAssumption
  <1>. QED BY <1>1, <1>2 DEF OrderRow

\* The flows of a day and currency, summed over its products.
DayFlows(d, c, type) ==
    [p \in {p \in Products : Currency[p] = c} |-> Flow(d, p, type)]

LEMMA DayTotal ==
    ASSUME TypeOK, NEW d, NEW c, NEW type
    PROVE  SumFunction(DayFlows(d, c, type)) = AmountOf(orders, OnDay(type, c, d))
  <1> DEFINE f == DayFlows(d, c, type)
             S == {p \in Products : Currency[p] = c}
             K == {k \in OpenOf(type) : EffectiveDate(orders[k]) = d}
             g == [k \in K |-> orders[k].product]
  <1>1. IsFiniteSet(K) /\ \A k \in K : orders[k].amount \in Nat
    <2>1. K \subseteq OpenOf(type)
      OBVIOUS
    <2> HIDE DEF K
    <2>. QED BY <2>1, OpenOfType
  <1>2. IsFiniteSet(S)
    BY FS_Subset, LadderAssumption DEF LadderAssumption
  <1>3. ASSUME NEW p \in S
        PROVE  f[p] = AmountOf(orders, Group(K, g, p))
    <2>1. Group(K, g, p) =
            {k \in Ids : /\ Open(k)
                         /\ orders[k].product = p
                         /\ orders[k].type = type
                         /\ EffectiveDate(orders[k]) = d}
      BY DEF OpenOf, Group
    <2>2. f[p] = Flow(d, p, type)
      BY <1>3 DEF DayFlows
    <2> HIDE DEF K, g
    <2>. QED BY <2>1, <2>2, CashIsAmount DEF Flow
  <1>4. Groups(K, g, S) = OnDay(type, c, d)
    <2>1. \A k \in OpenOf(type) : orders[k].product \in Products
      BY Stored DEF OpenOf, Open, OrderRow
    <2>. QED BY <2>1 DEF Groups, OnDay
  <1>5. DOMAIN f = S
    BY DEF DayFlows
  <1> HIDE DEF f, K, S, g
  <1>6. SumFunction(f) = AmountOf(orders, Groups(K, g, S))
    BY <1>1, <1>2, <1>3, <1>5, SumByGroup
  <1>. QED BY <1>4, <1>6 DEF f

\* The totals of a currency, summed over the window.
Due(asOf, horizon, type, c) ==
    {k \in Ids : /\ orders[k] # NoRow
                 /\ orders[k].status = "CONFIRMED"
                 /\ orders[k].type = type
                 /\ Currency[orders[k].product] = c
                 /\ \E d \in Window(asOf, horizon) : Settles(k, d)}

LEMMA WindowTotal ==
    ASSUME IInv, NEW asOf \in Int, NEW horizon \in Nat, NEW c, NEW type, NEW f,
           DOMAIN f = Window(asOf, horizon),
           \A d \in Window(asOf, horizon) :
               f[d] = AmountOf(orders, OnDay(type, c, d))
    PROVE  SumFunction(f) = Cash(Due(asOf, horizon, type, c))
  <1> DEFINE S == Window(asOf, horizon)
             K == {k \in OpenOf(type) : Currency[orders[k].product] = c}
             g == [k \in K |-> EffectiveDate(orders[k])]
  <1>1. IsFiniteSet(K) /\ \A k \in K : orders[k].amount \in Nat
    <2>1. K \subseteq OpenOf(type) /\ TypeOK
      BY DEF IInv
    <2> HIDE DEF K
    <2>. QED BY <2>1, OpenOfType
  <1>2. IsFiniteSet(S) /\ S \subseteq Int
    BY FS_Interval DEF Window
  <1>3. ASSUME NEW d \in S
        PROVE  f[d] = AmountOf(orders, Group(K, g, d))
    <2>1. Group(K, g, d) = OnDay(type, c, d)
      BY DEF Group, OnDay
    <2>. QED BY <2>1
  <1>4. Groups(K, g, S) = Due(asOf, horizon, type, c)
    <2>1. \A k \in OpenOf(type) :
             EffectiveDate(orders[k]) \in S <=> \E d \in S : Settles(k, d)
      BY <1>2, CountsWhenItSettles DEF OpenOf, Open
    <2>2. Groups(K, g, S) =
             {k \in OpenOf(type) : /\ Currency[orders[k].product] = c
                                   /\ EffectiveDate(orders[k]) \in S}
      BY DEF Groups
    <2>. QED BY <2>1, <2>2 DEF OpenOf, Open, Due
  <1>5. DOMAIN f = S
    OBVIOUS
  <1> HIDE DEF K, S, g
  <1>6. SumFunction(f) = AmountOf(orders, Groups(K, g, S))
    <2> DEFINE h == f
    <2>1. DOMAIN h = S /\ \A d \in S : h[d] = AmountOf(orders, Group(K, g, d))
      BY <1>3, <1>5
    <2>2. IsFiniteSet(S)
      BY <1>2
    <2> HIDE DEF h
    <2>3. SumFunction(h) = AmountOf(orders, Groups(K, g, S))
      BY <1>1, <2>1, <2>2, SumByGroup
    <2>. QED BY <2>3 DEF h
  <1>. QED BY <1>4, <1>6, CashIsAmount

\* The totals of the ladder, over any window and for each currency, count every
\* confirmed order once, on the day it settles, and nothing else: an order the
\* query dates itself counts where a stored date would have put it, and none is
\* counted twice or on two days.
THEOREM EveryOrderAlwaysCountedOnce == Spec => []EveryOrderCountedOnce
  <1>1. IInv => EveryOrderCountedOnce
    <2> SUFFICES ASSUME IInv, NEW r \in Queries, NEW c \in Currencies
                 PROVE  CountedOnce(r[1], r[2], c)
      BY DEF EveryOrderCountedOnce
    <2> DEFINE asOf == r[1]
               horizon == r[2]
               days == Window(asOf, horizon)
               totals == Totals(asOf, horizon)
               in == {p \in Products : Currency[p] = c}
    <2>1. asOf \in Int /\ horizon \in Nat
      BY LadderAssumption DEF LadderAssumption
    <2> HIDE DEF asOf, horizon
    <2>2. ASSUME NEW d \in days
          PROVE  /\ totals[d][c].inflow = SumFunction(DayFlows(d, c, "REDEMPTION"))
                 /\ totals[d][c].outflow = SumFunction(DayFlows(d, c, "CREATION"))
      <3>1. \A p \in in : /\ Ladder(asOf, horizon)[d][p].inflow = Flow(d, p, "REDEMPTION")
                          /\ Ladder(asOf, horizon)[d][p].outflow = Flow(d, p, "CREATION")
        BY <2>2 DEF Ladder
      <3>2. /\ [p \in in |-> Ladder(asOf, horizon)[d][p].inflow]
                  = DayFlows(d, c, "REDEMPTION")
            /\ [p \in in |-> Ladder(asOf, horizon)[d][p].outflow]
                  = DayFlows(d, c, "CREATION")
        BY <3>1 DEF DayFlows
      <3>3. /\ totals[d][c].inflow =
                  SumFunction([p \in in |-> Ladder(asOf, horizon)[d][p].inflow])
            /\ totals[d][c].outflow =
                  SumFunction([p \in in |-> Ladder(asOf, horizon)[d][p].outflow])
        BY <2>2 DEF Totals
      <3>. QED BY <3>2, <3>3
    <2>3. TypeOK
      BY DEF IInv
    <2> DEFINE inflows == [d \in days |-> totals[d][c].inflow]
               outflows == [d \in days |-> totals[d][c].outflow]
    <2>4. SumFunction(inflows) = Cash(Due(asOf, horizon, "REDEMPTION", c))
      <3>1. \A d \in days : inflows[d] = AmountOf(orders, OnDay("REDEMPTION", c, d))
        BY <2>2, <2>3, DayTotal
      <3>2. DOMAIN inflows = Window(asOf, horizon)
        OBVIOUS
      <3> HIDE DEF inflows
      <3>. QED BY <2>1, <3>1, <3>2, WindowTotal
    <2>5. SumFunction(outflows) = Cash(Due(asOf, horizon, "CREATION", c))
      <3>1. \A d \in days : outflows[d] = AmountOf(orders, OnDay("CREATION", c, d))
        BY <2>2, <2>3, DayTotal
      <3>2. DOMAIN outflows = Window(asOf, horizon)
        OBVIOUS
      <3> HIDE DEF outflows
      <3>. QED BY <2>1, <3>1, <3>2, WindowTotal
    <2>. QED BY <2>4, <2>5 DEF CountedOnce, Due, asOf, horizon
  <1>. QED BY <1>1, Invariance, PTL
====
