---- MODULE AtomicOrders ----
(***************************************************************************)
(* What the order API promises: every request takes effect as one          *)
(* transition on the committed tables, or not at all.  Requests that only  *)
(* report (a replay, an error, a repeated cancel) change nothing and are   *)
(* no transition here.                                                     *)
(***************************************************************************)
EXTENDS TradeDesk, FiniteSetsExt

VARIABLES
    now,       \* database clock
    orders,    \* table orders, by idempotency key
    idem,      \* table order_idempotency
    used,      \* product_daily_quota.used_quota, by product and day
    alloc,     \* table quota_allocations, by the key of the order
    ledger     \* cash_movements and their ledger_entries, by the key of the order

vars == <<now, orders, idem, used, alloc, ledger>>

Init ==
    /\ now = 0
    /\ orders \in [Keys -> SeedOrders \cup {NoRow}]
    /\ idem = [k \in Keys |-> NoRow]
    /\ used = [q \in QuotaRows |-> 0]
    /\ alloc = [k \in Keys |-> NoRow]
    /\ ledger = [k \in Keys |-> <<>>]

\* When a submission is in time, an allocation fits, an order may be confirmed
\* or cancelled.  The operators with a longer name are slips of the one below.
InTime(p, t) == BeforeCutoff(p, t)
Fits(a) == used[QuotaRowOf(a)] + a.amount <= DailyTotal[a.product]
TakenBack(n, a) == n - a.amount
Taken(n, a) == n + a.amount
ConfirmableUnlessDone(o) == o.status \notin {"CONFIRMED", "CANCELLED", "SETTLED"}
Confirmable(o) == o.status = "PENDING"
CancellableAgain(o) == o.status # "SETTLED"
Cancellable(o) == Active(o)

\* The order of k becomes o and is confirmed: its quota is taken, if its
\* product has one, and its cash is posted.
TakeEffect(k, o) ==
    /\ o.amount > 0
    /\ orders' = [orders EXCEPT ![k] = WithStatus(o, "CONFIRMED")]
    /\ ledger' = [ledger EXCEPT ![k] = <<Posting("CONFIRM", o.amount)>>]
    /\ IF o.product \in QdiiProducts
       THEN LET a == AllocationFor(o)
                q == QuotaRowOf(a)
            IN  /\ Fits(a)
                /\ used' = [used EXCEPT ![q] = Taken(@, a)]
                /\ alloc' = [alloc EXCEPT ![k] = a]
       ELSE UNCHANGED <<used, alloc>>

\* The order of k becomes o and is rejected: nothing else happens.
TurnDown(k, o) ==
    /\ orders' = [orders EXCEPT ![k] = WithStatus(o, "REJECTED")]
    /\ UNCHANGED <<used, alloc, ledger>>

\* A new key is answered once and for all.  The order is in time or late by
\* the clock at some moment of its transaction; it is turned down when late,
\* or when the quota was short at the moment it was asked for.
Submit(k, p, t) ==
    /\ orders[k] = NoRow
    /\ idem[k] = NoRow
    /\ p.form = "ok"
    /\ LET o == NewOrder(p.product, "PENDING", t, p.amount) IN
       \/ InTime(p.product, t) /\ TakeEffect(k, o)
       \/ /\ InTime(p.product, t)
          /\ p.product \in QdiiProducts
          /\ TurnDown(k, o)
       \/ /\ \E s \in 0 .. t : ~InTime(p.product, s)
          /\ TurnDown(k, [o EXCEPT !.amount = 0])
    /\ idem' = [idem EXCEPT ![k] = [payload |-> p, response |-> orders'[k]]]
    /\ UNCHANGED now

\* Operations confirm a pending order, which may find the quota short.
Confirm(k) ==
    /\ orders[k] # NoRow
    /\ Confirmable(orders[k])
    /\ \/ TakeEffect(k, orders[k])
       \/ orders[k].product \in QdiiProducts /\ TurnDown(k, orders[k])
    /\ UNCHANGED <<now, idem>>

\* A live order is cancelled.  If it holds quota, the quota is given back and
\* the posting of its confirmation is reversed.
Cancel(k) ==
    /\ orders[k] # NoRow
    /\ Cancellable(orders[k])
    /\ orders' = [orders EXCEPT ![k] = WithStatus(@, "CANCELLED")]
    /\ IF alloc[k] = NoRow
       THEN UNCHANGED <<used, alloc, ledger>>
       ELSE LET a == alloc[k]
                q == QuotaRowOf(a)
            IN  /\ used' = [used EXCEPT ![q] = Decremented(@, a.amount)]
                /\ alloc' = [alloc EXCEPT ![k].released = TRUE]
                /\ ledger' = [ledger EXCEPT
                                  ![k] = Append(@, Posting("CANCEL", a.amount))]
    /\ UNCHANGED <<now, idem>>

Tick ==
    /\ now < MaxTime
    /\ now' = now + 1
    /\ UNCHANGED <<orders, idem, used, alloc, ledger>>

Next ==
    \/ \E k \in Keys, p \in Payloads, t \in 0 .. now : Submit(k, p, t)
    \/ \E k \in Keys : Confirm(k) \/ Cancel(k)
    \/ Tick

Spec == Init /\ [][Next]_vars
----
\* Every table holds rows of its shape.
TypeOK ==
    /\ now \in Times
    /\ orders \in [Keys -> OrderRow \cup {NoRow}]
    /\ idem \in [Keys -> IdemRow \cup {NoRow}]
    /\ used \in [QuotaRows -> Nat]
    /\ alloc \in [Keys -> AllocRow \cup {NoRow}]
    /\ ledger \in [Keys -> Seq(Movement)]

\* reserve_quota and decrement_used_quota keep used_quota equal to the open
\* allocations of the day, whatever submits, confirms, cancels and crashes
\* interleave on the row.
OpenKeys(q) ==
    {k \in Keys : alloc[k] # NoRow /\ ~alloc[k].released
                    /\ QuotaRowOf(alloc[k]) = q}
QuotaMatchesAllocations ==
    \A q \in QuotaRows :
        used[q] = MapThenSumSet(LAMBDA k : alloc[k].amount, OpenKeys(q))

\* No day of a product is ever over-issued.
QuotaNeverOverIssued == \A q \in QuotaRows : used[q] <= QuotaTotal(q)

\* Order, allocation and postings tell one story: an allocation is open
\* exactly while its order is confirmed, is for that order's day and amount,
\* and is reversed in the ledger exactly when it is released; without an
\* allocation nothing is ever reversed, and nothing is posted for an order
\* that never took effect.
BookAgrees(k) ==
    LET o == orders[k]
        a == alloc[k]
        confirmed == Posting("CONFIRM", o.amount)
    IN  IF a # NoRow
        THEN /\ o # NoRow
             /\ o.product \in QdiiProducts
             /\ a.product = o.product
             /\ a.day = QuotaDay(o.received)
             /\ a.amount = o.amount
             /\ o.status = IF a.released THEN "CANCELLED" ELSE "CONFIRMED"
             /\ ledger[k] = IF a.released
                            THEN <<confirmed, Posting("CANCEL", a.amount)>>
                            ELSE <<confirmed>>
        ELSE ledger[k] # <<>> =>
             /\ o # NoRow
             /\ o.product \notin QdiiProducts
             /\ o.status \in {"CONFIRMED", "CANCELLED"}
             /\ ledger[k] = <<confirmed>>
BooksAgree == \A k \in Keys : BookAgrees(k)

\* An idempotency record is only ever visible complete, and stands: it has its
\* response and the order it answers for; a recorded rejection is never undone
\* and posts nothing; a recorded confirmation has its postings, and its order
\* can only have been cancelled since.
RecordComplete(k) ==
    LET o == orders[k]
        r == idem[k].response
    IN  /\ r # NoRow
        /\ o # NoRow
        /\ r = WithStatus(o, r.status)
        /\ r.product = idem[k].payload.product
        /\ \/ /\ r.status = "CONFIRMED"
              /\ o.status \in {"CONFIRMED", "CANCELLED"}
              /\ ledger[k] # <<>>
           \/ /\ r.status = "REJECTED"
              /\ o.status = "REJECTED"
              /\ ledger[k] = <<>>
RecordsComplete == \A k \in Keys : idem[k] # NoRow => RecordComplete(k)

\* A live order was received before the cutoff of its market, though the check
\* and the insert read the clock at different moments.
BeatCutoff(k) ==
    orders[k] # NoRow /\ Active(orders[k]) =>
        BeforeCutoff(orders[k].product, orders[k].received)
ActiveOrdersBeatCutoff == \A k \in Keys : BeatCutoff(k)

\* What was answered, and what an order is for, never changes; a rejected,
\* cancelled or settled order stays so; a submitted order is never seen
\* PENDING by anybody else.
KeyHistoryKept(k) ==
    /\ idem[k] # NoRow => idem'[k] = idem[k]
    /\ orders[k] # NoRow =>
          /\ orders'[k] = WithStatus(orders[k], orders'[k].status)
          /\ orders'[k] # orders[k] =>
                Follows(orders[k].status, orders'[k].status)
    /\ orders[k] = NoRow /\ orders'[k] # NoRow =>
          orders'[k].status \in {"CONFIRMED", "REJECTED"}
KeepHistory == \A k \in Keys : KeyHistoryKept(k)
HistoryIsKept == [][KeepHistory]_vars
====
