---- MODULE CashLadder ----
(***************************************************************************)
(* The settlement date of an order and the cash ladder that is read off    *)
(* the orders.  A submission derives the date by the clock of one          *)
(* statement and stores it with the clock of a later one; orders loaded    *)
(* before dates were stored have none, and the ladder derives it for them. *)
(* Dates are numbered by days; day 0 is a Monday.                          *)
(***************************************************************************)
EXTENDS Integers, FiniteSetsExt

CONSTANTS
    Products,      \* rows of table products
    Market,        \* products.market
    Currency,      \* products.currency
    Cutoff,        \* products.cutoff_time, in the market's local time
    MarketOffset,  \* what products.market_timezone adds to the session's clock
    DayLength,     \* instants in a day
    Start,         \* the database clock at first
    MaxTime,       \* bound on the database clock
    Calendars,     \* holiday_calendars that may be loaded: market -> days
    Ids,           \* orders
    Amounts,       \* cash amounts a submission may have
    Loaded,        \* orders loaded by scripts, with or without a stored date
    Queries,       \* what the desk asks for: <<asOf, horizon>>
    NoRow,
    NoDate         \* the NULL settlement date

VARIABLES
    now,           \* database clock
    holidays,      \* table holiday_calendars
    orders,        \* committed rows of table orders
    session,       \* the submission in progress of each order
    lapsed         \* history: orders dated before their market's midnight and
                   \* inserted after it

vars == <<now, holidays, orders, session, lapsed>>

Times == 0 .. MaxTime
Types == {"CREATION", "REDEMPTION"}
Statuses == {"PENDING", "CONFIRMED", "REJECTED", "CANCELLED", "SETTLED"}
Currencies == {Currency[p] : p \in Products}

OrderRow ==
    [product : Products, type : Types, amount : Nat, status : Statuses,
     submitted : Times, settlement : Int \cup {NoDate}]

SessionDay(t) == t \div DayLength
LocalDay(p, t) == (t + MarketOffset[p]) \div DayLength
BeforeCutoff(p, t) == (t + MarketOffset[p]) % DayLength < Cutoff[p]

\* The market of p is open on day d, by the calendars c.
OpenOn(c, p, d) == d % 7 < 5 /\ d \notin c[Market[p]]
IsBusinessDay(p, d) == OpenOn(holidays, p, d)

\* The query of derive_settlement_date_from_db_time and of the ladder looks at
\* so many days.
SearchDays == 20
----
\* The shape of the tables.
ASSUME LadderAssumption ==
    /\ DayLength \in Nat \ {0}
    /\ MaxTime \in Nat
    /\ Start \in Times
    /\ MarketOffset \in [Products -> Int]
    /\ Cutoff \in [Products -> 0 .. DayLength]
    /\ IsFiniteSet(Products)
    /\ IsFiniteSet(Ids)
    /\ Amounts \subseteq Nat
    /\ Loaded \subseteq [product : Products, type : Types, amount : Nat,
                         status : Statuses, submitted : Times, dated : BOOLEAN]
    /\ Queries \subseteq Int \X Nat
    /\ NoRow \notin OrderRow
    /\ NoDate \notin Int

\* No calendar closes a market for so long that fewer than two of the days the
\* query looks at are business days.
ASSUME CalendarAssumption ==
    \A c \in Calendars, p \in Products, t \in Times :
        \A d \in {SessionDay(t), LocalDay(p, t)} :
            Cardinality({e \in d + 1 .. d + SearchDays : OpenOn(c, p, e)}) >= 2

\* The seed script dates a row by the session's day.  Rows for which that is not
\* their market's day are settled from another trade date, and are left out.
ASSUME SeedAssumption ==
    \A l \in Loaded :
        l.dated => SessionDay(l.submitted) = LocalDay(l.product, l.submitted)
----
(***************************************************************************)
(* Settlement dates.                                                       *)
(***************************************************************************)
\* The second business day among the next twenty days, if there are two.
NextBusinessDays(p, d) ==
    {e \in d + 1 .. d + SearchDays : IsBusinessDay(p, e)}

\* A slip: OFFSET 1 counted from the trade day itself.
SecondFromTradeDay(p, d) ==
    LET found == {e \in d .. d + SearchDays : IsBusinessDay(p, e)}
    IN  IF Cardinality(found) < 2 THEN NoDate ELSE Min(found \ {Min(found)})

SecondBusinessDay(p, d) ==
    LET found == NextBusinessDays(p, d)
    IN  IF Cardinality(found) < 2 THEN NoDate ELSE Min(found \ {Min(found)})

\* business_days_after of the seed script: a loop that goes on until it has
\* counted the days.  Far bounds it; no calendar closes a market that long.
Far == 60
BusinessDaysAfter(p, start, days) ==
    LET next(d) ==
            Min({e \in d + 1 .. d + Far : IsBusinessDay(p, e)})
        after[n \in 0 .. days] == IF n = 0 THEN start ELSE next(after[n - 1])
    IN  after[days]

\* A loaded row, dated by the seed script or not at all.
LoadedOrder(l) ==
    [product |-> l.product, type |-> l.type, amount |-> l.amount,
     status |-> l.status, submitted |-> l.submitted,
     settlement |-> IF l.dated
                    THEN BusinessDaysAfter(l.product, SessionDay(l.submitted), 2)
                    ELSE NoDate]
----
(***************************************************************************)
(* The ladder.                                                             *)
(***************************************************************************)
\* confirmed_with_settlement, or else confirmed_needs_derive.
EffectiveDate(o) ==
    IF o.settlement # NoDate THEN o.settlement
    ELSE SecondBusinessDay(o.product, LocalDay(o.product, o.submitted))

\* A slip: cancelled orders stay in the ladder.
OpenOrCancelled(k) ==
    orders[k] # NoRow /\ orders[k].status \in {"CONFIRMED", "CANCELLED"}

\* Rows of open_confirmed.
Open(k) == orders[k] # NoRow /\ orders[k].status = "CONFIRMED"

Cash(ks) == MapThenSumSet(LAMBDA k : orders[k].amount, ks)

\* aggregated, and the CASE that makes a redemption an inflow.
Flow(d, p, type) ==
    Cash({k \in Ids : /\ Open(k)
                      /\ orders[k].product = p
                      /\ orders[k].type = type
                      /\ EffectiveDate(orders[k]) = d})

\* as_of to window_end.
Window(asOf, horizon) == asOf .. asOf + horizon - 1

\* date_spine, crossed with the products.
Ladder(asOf, horizon) ==
    [d \in Window(asOf, horizon) |-> [p \in Products |->
        [inflow |-> Flow(d, p, "REDEMPTION"), outflow |-> Flow(d, p, "CREATION")]]]

\* totalsByDateCurrency, accumulated over the rows.
Totals(asOf, horizon) ==
    LET rows == Ladder(asOf, horizon)
        in(c) == {p \in Products : Currency[p] = c}
    IN  [d \in Window(asOf, horizon) |-> [c \in Currencies |->
            [inflow |-> SumFunction([p \in in(c) |-> rows[d][p].inflow]),
             outflow |-> SumFunction([p \in in(c) |-> rows[d][p].outflow])]]]
----
(***************************************************************************)
(* Orders come and go.                                                     *)
(***************************************************************************)
Idle == [product |-> NoRow, date |-> NoDate, at |-> "idle"]
Submission ==
    [product : Products, date : Int \cup {NoDate}, at : {"derive", "insert"}]

Init ==
    /\ now = Start
    /\ holidays \in Calendars
    /\ orders \in [Ids -> {LoadedOrder(l) : l \in Loaded} \cup {NoRow}]
    /\ session = [k \in Ids |-> Idle]
    /\ lapsed = {}

\* A slip: a session that is not done checks again for an order it stored.
CheckCutoffAgain(k, p) ==
    /\ session[k].at = "idle"
    /\ BeforeCutoff(p, now)
    /\ session' = [session EXCEPT ![k] =
                      [Idle EXCEPT !.product = p, !.at = "derive"]]
    /\ UNCHANGED <<now, holidays, orders, lapsed>>

\* The steps of submit_order that read the clock: is_before_cutoff,
\* derive_settlement_date_from_db_time, insert_order.
CheckCutoff(k, p) ==
    /\ orders[k] = NoRow
    /\ session[k].at = "idle"
    /\ BeforeCutoff(p, now)
    /\ session' = [session EXCEPT ![k] =
                      [Idle EXCEPT !.product = p, !.at = "derive"]]
    /\ UNCHANGED <<now, holidays, orders, lapsed>>

\* After the cutoff the order is stored as rejected, without amount or date.
RejectLate(k, p, type) ==
    /\ orders[k] = NoRow
    /\ session[k].at = "idle"
    /\ ~BeforeCutoff(p, now)
    /\ orders' = [orders EXCEPT ![k] =
          [product |-> p, type |-> type, amount |-> 0, status |-> "REJECTED",
           submitted |-> now, settlement |-> NoDate]]
    /\ UNCHANGED <<now, holidays, session, lapsed>>

\* A slip: the trade date without AT TIME ZONE.
DerivedFromSessionDay(p) == SecondBusinessDay(p, SessionDay(now))

Derived(p) == SecondBusinessDay(p, LocalDay(p, now))

DeriveDate(k) ==
    /\ session[k].at = "derive"
    /\ session' = [session EXCEPT ![k].date = Derived(session[k].product),
                                  ![k].at = "insert"]
    /\ UNCHANGED <<now, holidays, orders, lapsed>>

\* The order commits as CONFIRMED, or as REJECTED for want of quota; the
\* cutoff trigger may refuse it instead.
InsertOrder(k, type, amount) ==
    LET p == session[k].product IN
    /\ session[k].at = "insert"
    /\ session' = [session EXCEPT ![k] = Idle]
    /\ \/ /\ ~BeforeCutoff(p, now)
          /\ lapsed' = lapsed \ {k}
          /\ UNCHANGED orders
       \/ /\ BeforeCutoff(p, now)
          /\ \E s \in {"CONFIRMED", "REJECTED"} :
                orders' = [orders EXCEPT ![k] =
                    [product |-> p, type |-> type, amount |-> amount,
                     status |-> s, submitted |-> now,
                     settlement |-> session[k].date]]
          /\ UNCHANGED lapsed
    /\ UNCHANGED <<now, holidays>>

\* confirm_order and cancel_order: the stored date stays as it is.
ConfirmOrder(k) ==
    /\ orders[k] # NoRow
    /\ orders[k].status = "PENDING"
    /\ \E s \in {"CONFIRMED", "REJECTED"} :
          orders' = [orders EXCEPT ![k].status = s]
    /\ UNCHANGED <<now, holidays, session, lapsed>>

CancelOrder(k) ==
    /\ orders[k] # NoRow
    /\ orders[k].status \in {"PENDING", "CONFIRMED"}
    /\ orders' = [orders EXCEPT ![k].status = "CANCELLED"]
    /\ UNCHANGED <<now, holidays, session, lapsed>>

\* Midnight may pass in the market of a submission that has its date.
Overtaken(t) ==
    {k \in Ids : /\ session[k].at = "insert"
                 /\ LocalDay(session[k].product, t)
                        # LocalDay(session[k].product, t + 1)}

Tick ==
    /\ now < MaxTime
    /\ now' = now + 1
    /\ lapsed' = lapsed \cup Overtaken(now)
    /\ UNCHANGED <<holidays, orders, session>>

Next ==
    \/ \E k \in Ids, p \in Products : CheckCutoff(k, p)
    \/ \E k \in Ids, p \in Products, type \in Types : RejectLate(k, p, type)
    \/ \E k \in Ids : DeriveDate(k) \/ ConfirmOrder(k) \/ CancelOrder(k)
    \/ \E k \in Ids, type \in Types, amount \in Amounts :
          InsertOrder(k, type, amount)
    \/ Tick

Spec == Init /\ [][Next]_vars
----
(***************************************************************************)
(* Properties.                                                             *)
(***************************************************************************)
\* Rows and sessions have their shape, and no order is stored twice.
TypeOK ==
    /\ now \in Times
    /\ holidays \in Calendars
    /\ orders \in [Ids -> OrderRow \cup {NoRow}]
    /\ session \in [Ids -> Submission \cup {Idle}]
    /\ \A k \in Ids : session[k].at # "idle" => orders[k] = NoRow
    /\ lapsed \subseteq Ids

\* The business days since the trade of o, up to day d.
SinceTrade(o, d) ==
    {e \in LocalDay(o.product, o.submitted) + 1 .. d : IsBusinessDay(o.product, e)}

\* What a settlement date is, by counting: a business day with exactly one
\* other business day since the trade.
SettlesOn(o, d) == IsBusinessDay(o.product, d) /\ Cardinality(SinceTrade(o, d)) = 2

\* "Settlement date must be derived from trade date using market holiday
\* calendars" (plans/api-contract.md:202): the stored date is the second
\* business day after the day of submission in the product's market.
SettlementFromTradeDate ==
    \A k \in Ids : orders[k] # NoRow =>
        LET o == orders[k] IN
        o.settlement # NoDate => SettlesOn(o, o.settlement)

\* What is true of it: the date is read off an earlier clock than the one that
\* stamps the order, and is that of the trade day unless the market's midnight
\* passed between the two.  Then the order settles early, never late: on a
\* business day with no more than one other since the trade.
OnlyMidnightMovesDates ==
    \A k \in Ids : orders[k] # NoRow =>
        LET o == orders[k] IN
        o.settlement # NoDate =>
            /\ IsBusinessDay(o.product, o.settlement)
            /\ Cardinality(SinceTrade(o, o.settlement)) <= 2
            /\ k \notin lapsed => SettlesOn(o, o.settlement)

\* The query and the loop of the seed script find the same settlement date,
\* whatever today is and whatever days the market is closed, as long as the
\* query's twenty days hold two business days.
DerivationsAgree ==
    \A p \in Products :
        SecondBusinessDay(p, LocalDay(p, now))
            = BusinessDaysAfter(p, LocalDay(p, now), 2)

\* The day order k settles on: that of its trade, or the stored date if
\* midnight overtook its submission.
Settles(k, d) ==
    IF k \in lapsed THEN d = orders[k].settlement ELSE SettlesOn(orders[k], d)

\* The totals of the ladder count every confirmed order once, on the day it
\* settles, in its currency and direction, and no other order, whether its
\* date was stored or is derived by the query.
CountedOnce(asOf, horizon, c) ==
    LET days == Window(asOf, horizon)
        due(type) ==
            {k \in Ids : /\ orders[k] # NoRow
                         /\ orders[k].status = "CONFIRMED"
                         /\ orders[k].type = type
                         /\ Currency[orders[k].product] = c
                         /\ \E d \in days : Settles(k, d)}
        totals == Totals(asOf, horizon)
    IN  /\ SumFunction([d \in days |-> totals[d][c].inflow])
              = Cash(due("REDEMPTION"))
        /\ SumFunction([d \in days |-> totals[d][c].outflow])
              = Cash(due("CREATION"))
EveryOrderCountedOnce ==
    \A r \in Queries, c \in Currencies : CountedOnce(r[1], r[2], c)
====
