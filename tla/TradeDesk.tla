---- MODULE TradeDesk ----
(***************************************************************************)
(* The vocabulary shared by the specifications of the trade desk: what the *)
(* reference tables hold (products, submission payloads, the seeded        *)
(* orders), the shape of a row of each transactional table, and the two    *)
(* readings of the database clock: the wall-clock time in a product's      *)
(* market, which the cutoff is compared with, and the calendar day of the  *)
(* database session, which the quota is kept by.                           *)
(***************************************************************************)
EXTENDS Integers, Sequences

CONSTANTS
    Products,      \* rows of table products
    QdiiProducts,  \* those with has_qdii_quota
    DailyTotal,    \* products.daily_total_quota
    Cutoff,        \* products.cutoff_time, in the market's local time
    MarketOffset,  \* what products.market_timezone adds to the session's clock
    DayLength,     \* instants in a day
    MaxTime,       \* bound on the database clock
    Keys,          \* idempotency keys: pairs (pd_id, client_order_id)
    Payloads,      \* submissions a client may send
    SeedOrders,    \* order rows that scripts/seed_data.py may have loaded
    NoRow          \* the absent row (and the NULL response)

Statuses == {"PENDING", "CONFIRMED", "REJECTED", "CANCELLED", "SETTLED"}

\* What can be wrong with a payload, in the order the code looks: the PD or
\* the product is not in the database, units or price do not parse, units are
\* not a multiple of the creation unit, the currency is not the product's.
Forms == {"ok", "unknown", "unparsable", "bad_units", "bad_currency"}

Times == 0 .. MaxTime
QuotaDay(t) == t \div DayLength
Days == {QuotaDay(t) : t \in Times}
LocalTime(p, t) == (t + MarketOffset[p]) % DayLength

\* The test of the cutoff check and of the cutoff trigger: strictly before.
BeforeCutoff(p, t) == LocalTime(p, t) < Cutoff[p]

\* cash_amount is a Nat: the code's fixed-point amounts scaled to integers.
Payload == [product : Products, form : Forms, amount : Nat]
OrderRow ==
    [product : Products, status : Statuses, received : Times, amount : Nat]
IdemRow == [payload : Payloads, response : OrderRow \cup {NoRow}]
AllocRow ==
    [product : Products, day : Days, amount : Nat, released : BOOLEAN]
Movement == [event : {"CONFIRM", "CANCEL"}, amount : Nat]

QuotaRows == Products \X Days
QuotaTotal(q) == DailyTotal[q[1]]
Active(o) == o.status \in {"PENDING", "CONFIRMED"}

\* The rows the services write.
NewOrder(p, s, t, a) ==
    [product |-> p, status |-> s, received |-> t, amount |-> a]
WithStatus(o, s) == [o EXCEPT !.status = s]
AllocationFor(o) ==
    [product |-> o.product, day |-> QuotaDay(o.received),
     amount |-> o.amount, released |-> FALSE]
QuotaRowOf(a) == <<a.product, a.day>>
Posting(e, a) == [event |-> e, amount |-> a]

\* decrement_used_quota: GREATEST(0, used_quota - amount).
Decremented(n, a) == IF a <= n THEN n - a ELSE 0

\* The steps an order's status can take.
Follows(s, t) ==
    \/ s = "PENDING" /\ t \in {"CONFIRMED", "REJECTED", "CANCELLED"}
    \/ s = "CONFIRMED" /\ t = "CANCELLED"

\* What the reference tables, the schema's constraints on them, and the cutoff
\* trigger on seeded orders guarantee.
ASSUME DeskAssumption ==
    /\ QdiiProducts \subseteq Products
    /\ DayLength \in Nat \ {0}
    /\ MaxTime \in Nat
    /\ DailyTotal \in [Products -> Nat]
    /\ Cutoff \in [Products -> Nat]
    /\ MarketOffset \in [Products -> Nat]
    /\ Payloads \subseteq Payload
    /\ SeedOrders \subseteq OrderRow
    /\ \A o \in SeedOrders : Active(o) => BeforeCutoff(o.product, o.received)
    /\ NoRow \notin OrderRow \cup IdemRow \cup AllocRow
====
