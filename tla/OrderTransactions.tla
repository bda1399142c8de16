---- MODULE OrderTransactions ----
(***************************************************************************)
(* The three write endpoints of the order API - submit, confirm, cancel -  *)
(* run statement by statement by concurrent workers against PostgreSQL at  *)
(* READ COMMITTED.  A request is one transaction: it takes row locks as    *)
(* its statements reach them, keeps the versions of the rows it writes to  *)
(* itself (draft), and publishes them when the endpoint commits.  A worker *)
(* may lose its transaction at any statement (process crash, connection    *)
(* loss): the database then rolls back and the client hears nothing.       *)
(***************************************************************************)
EXTENDS TradeDesk, FiniteSetsExt

CONSTANTS
    Workers,   \* threads of the API processes that run a request each
    Nobody     \* the owner of an unlocked row

ASSUME WorkerAssumption == Nobody \notin Workers

VARIABLES
    now,       \* statement_timestamp() of the next statement
    orders,    \* committed rows, by key; an order's id stands for its key
    idem,
    used,      \* product_daily_quota.used_quota; a day without a row has used 0
    alloc,     \* quota_allocations, by the key of the order
    ledger,    \* cash_movements of the order with their two equal entries
    trail,     \* statuses of the order's order_status_events
    pc,        \* the next statement of each worker's request
    req,       \* the request
    draft,     \* the uncommitted versions of the rows of its key
    owner,     \* the transaction that holds each row lock
    reply      \* the answer being sent

tables == <<orders, idem, used, alloc, ledger, trail>>
vars == <<now, tables, pc, req, draft, owner, reply>>
----
(***************************************************************************)
(* Requests, replies, row locks.                                           *)
(***************************************************************************)
Requests ==
    [op : {"submit"}, key : Keys, payload : Payloads]
        \cup [op : {"confirm", "cancel"}, key : Keys, payload : {NoRow}]
NoRequest == [op |-> "none", key |-> NoRow, payload |-> NoRow]

Replies == [code : {200, 404, 409, 422, 500}, order : OrderRow \cup {NoRow}]
NoReply == [code |-> 0, order |-> NoRow]

\* The statements that touch locks or rows, and what a worker does around them.
Statements ==
    {"product", "idem", "cutoff", "reject", "insert", "order", "reserve",
     "confirm", "cancel", "release", "commit"}
Labels == Statements \cup {"idle", "answer"}

ProductLock(p) == <<"product", p>>
IdemLock(k) == <<"idem", k>>
OrderLock(k) == <<"order", k>>
QuotaLock(q) == <<"quota", q>>
Locks ==
    ({"product"} \X Products) \cup ({"idem", "order"} \X Keys)
        \cup ({"quota"} \X QuotaRows)

Draft ==
    [order : OrderRow \cup {NoRow}, idem : IdemRow \cup {NoRow},
     alloc : AllocRow \cup {NoRow}, ledger : Seq(Movement),
     trail : Seq(Statuses), quota : Nat]
Blank ==
    [order |-> NoRow, idem |-> NoRow, alloc |-> NoRow, ledger |-> <<>>,
     trail |-> <<>>, quota |-> 0]

\* The rows of key k that a transaction reads once it holds the order's lock:
\* allocation and postings are only ever written under that lock.
RowsOf(k) ==
    [Blank EXCEPT !.order = orders[k], !.alloc = alloc[k],
                  !.ledger = ledger[k], !.trail = trail[k]]

ProductOf(w) ==
    IF req[w].op = "submit" THEN req[w].payload.product
                            ELSE draft[w].order.product
----
(***************************************************************************)
(* What single statements decide and do to the rows of a transaction.  An  *)
(* operator that stands before another and differs from it by a slip a     *)
(* programmer could make (...Without..., ...Never, ...Only...) is there to *)
(* show which property notices the slip; nothing uses it.                  *)
(***************************************************************************)
\* insert_order, with the event of its AFTER trigger.
Inserted(d, o) == [d EXCEPT !.order = o, !.trail = Append(@, o.status)]

\* update_order_status, with the event of its AFTER trigger.
UpdatedWithoutEvent(d, s) == [d EXCEPT !.order = WithStatus(@, s)]
Updated(d, s) ==
    [d EXCEPT !.order = WithStatus(@, s), !.trail = Append(@, s)]

\* finalize_idempotency: the response is the order as this transaction left it.
FinalizedWithoutAmount(d) ==
    [d EXCEPT !.idem.response =
        [product |-> d.order.product, status |-> d.order.status,
         received |-> d.order.received]]
FinalizedWhenConfirmed(d) ==
    IF d.order.status = "CONFIRMED" THEN [d EXCEPT !.idem.response = d.order]
                                    ELSE d
Finalized(d) == [d EXCEPT !.idem.response = d.order]

\* validate_order_product_consistency and validate_order_cutoff_time, BEFORE
\* INSERT.  On UPDATE the same triggers see the columns they saw on INSERT.
ConsistencyTrigger(form) == form = "ok"
CutoffTriggerDropped(o) == TRUE
CutoffTrigger(o) == Active(o) => BeforeCutoff(o.product, o.received)

\* reserve_quota's WHERE clause fails, on the committed row the statement sees.
RefusedWhenUsedUp(a) == used[QuotaRowOf(a)] + a.amount >= DailyTotal[a.product]
RefusedOnlyWhenFull(a) == used[QuotaRowOf(a)] >= DailyTotal[a.product]
Refused(a) == used[QuotaRowOf(a)] + a.amount > DailyTotal[a.product]

\* reserve_quota and create_quota_allocation.
Reserved(d) ==
    LET a == AllocationFor(d.order) IN
    [d EXCEPT !.quota = used[QuotaRowOf(a)] + a.amount, !.alloc = a]

\* post_confirm_entries.
ConfirmPosted(d) ==
    [d EXCEPT !.ledger = Append(@, Posting("CONFIRM", d.order.amount))]

\* release_quota_allocation_once finds the open allocation, if there is one.
OpenAllocation(d) == d.alloc # NoRow /\ ~d.alloc.released
ReleasedNever(d) == d
Released(d) ==
    IF OpenAllocation(d) THEN [d EXCEPT !.alloc.released = TRUE] ELSE d

\* decrement_used_quota and post_cancel_entries.
CancelPostedWithoutDecrement(d) ==
    [d EXCEPT !.quota = used[QuotaRowOf(d.alloc)],
              !.ledger = Append(@, Posting("CANCEL", d.alloc.amount))]
CancelPostedWithoutReversal(d) ==
    [d EXCEPT !.quota = Decremented(used[QuotaRowOf(d.alloc)], d.alloc.amount)]
CancelPosted(d) ==
    [d EXCEPT !.quota = Decremented(used[QuotaRowOf(d.alloc)], d.alloc.amount),
              !.ledger = Append(@, Posting("CANCEL", d.alloc.amount))]

ConfirmableUnlessDone(s) == s \notin {"CONFIRMED", "CANCELLED", "SETTLED"}
Confirmable(s) == s = "PENDING"
Cancellable(s) == s \notin {"SETTLED", "CANCELLED", "REJECTED"}
----
(***************************************************************************)
(* Row locks.  FOR UPDATE, UPDATE and a conflicting INSERT wait for the    *)
(* transaction that holds the row.  Needs(w, l): the next statement of w   *)
(* waits for l.  A unique-key check waits only for an uncommitted insert   *)
(* or update of the row, as the quota row's holder always has.             *)
(***************************************************************************)
Free(l) == owner[l] = Nobody

LockedByHolder(k) == owner[OrderLock(k)] # Nobody
RewrittenByHolder(k) ==
    \E v \in Workers :
        owner[OrderLock(k)] = v /\ draft[v].order # orders[k]

Needs(w, l) ==
    LET k == req[w].key
        p == req[w].payload
        a == AllocationFor(draft[w].order)
    IN  \/ /\ pc[w] = "product"
           /\ req[w].op = "submit" => p.form # "unknown"
           /\ l = ProductLock(ProductOf(w))
        \/ pc[w] = "idem" /\ l = IdemLock(k)
        \/ pc[w] = "order" /\ orders[k] # NoRow /\ l = OrderLock(k)
        \/ /\ pc[w] \in {"reject", "insert"}
           /\ RewrittenByHolder(k)
           /\ l = OrderLock(k)
        \/ pc[w] = "reserve" /\ l = QuotaLock(QuotaRowOf(a))
        \/ pc[w] = "release" /\ l = QuotaLock(QuotaRowOf(draft[w].alloc))

Granted(w) == \A l \in Locks : Needs(w, l) => Free(l)
----
(***************************************************************************)
(* The shapes a step of a worker can have.                                 *)
(***************************************************************************)
\* A statement succeeds: its rows are d, it now also holds the locks ls, and
\* the request goes on at label next.
Proceed(w, next, d, ls) ==
    /\ Granted(w)
    /\ pc' = [pc EXCEPT ![w] = next]
    /\ draft' = [draft EXCEPT ![w] = d]
    /\ owner' = [l \in Locks |-> IF l \in ls THEN w ELSE owner[l]]
    /\ UNCHANGED <<now, tables, req, reply>>

\* ROLLBACK or COMMIT gives back every lock and forgets the private rows.
EndTransactionKeepingLocks(w) ==
    /\ draft' = [draft EXCEPT ![w] = Blank]
    /\ UNCHANGED owner
EndTransaction(w) ==
    /\ draft' = [draft EXCEPT ![w] = Blank]
    /\ owner' = [l \in Locks |-> IF owner[l] = w THEN Nobody ELSE owner[l]]

\* A DomainError or a database error: the endpoint rolls back and answers.
Fail(w, code) ==
    /\ Granted(w)
    /\ pc' = [pc EXCEPT ![w] = "answer"]
    /\ reply' = [reply EXCEPT ![w] = [code |-> code, order |-> NoRow]]
    /\ EndTransaction(w)
    /\ UNCHANGED <<now, tables, req>>
----
(***************************************************************************)
(* The statements, one action each.                                        *)
(***************************************************************************)
\* A request arrives at an idle worker; FastAPI opens its session.
Begin(w, r) ==
    /\ pc[w] = "idle"
    /\ pc' = [pc EXCEPT ![w] = IF r.op = "submit" THEN "product" ELSE "order"]
    /\ req' = [req EXCEPT ![w] = r]
    /\ UNCHANGED <<now, tables, draft, owner, reply>>

\* Products with a QDII quota reserve it before the order is confirmed.
AfterChecks(p) == IF p \in QdiiProducts THEN "reserve" ELSE "confirm"

\* get_pd and get_product_for_update, in submit and in confirm.
LockProduct(w) ==
    /\ pc[w] = "product"
    /\ \/ /\ req[w].op = "submit"
          /\ req[w].payload.form = "unknown"
          /\ Fail(w, 404)
       \/ /\ req[w].op = "submit"
          /\ req[w].payload.form # "unknown"
          /\ Proceed(w, "idem", draft[w], {ProductLock(ProductOf(w))})
       \/ /\ req[w].op = "confirm"
          /\ Proceed(w, AfterChecks(ProductOf(w)), draft[w],
                     {ProductLock(ProductOf(w))})

\* The fingerprint of the request is the one on record.
AnyPayload(record, p) == TRUE
SamePayload(record, p) == record.payload = p

\* lock_idempotency_record, then the parsing of units and price.  A record
\* with a response is replayed; another payload under the key is a conflict.
LockIdempotency(w) ==
    LET k == req[w].key
        p == req[w].payload
        record == IF idem[k] = NoRow
                  THEN [payload |-> p, response |-> NoRow] ELSE idem[k]
        d == [draft[w] EXCEPT !.idem = record]
    IN  /\ pc[w] = "idem"
        /\ \/ ~SamePayload(record, p) /\ Fail(w, 409)
           \/ /\ SamePayload(record, p)
              /\ record.response # NoRow
              /\ Proceed(w, "commit", d, {IdemLock(k)})
           \/ /\ SamePayload(record, p)
              /\ record.response = NoRow
              /\ p.form = "unparsable"
              /\ Fail(w, 409)
           \/ /\ SamePayload(record, p)
              /\ record.response = NoRow
              /\ p.form # "unparsable"
              /\ Proceed(w, "cutoff", d, {IdemLock(k)})

\* is_before_cutoff reads the clock; units and currency are only looked at
\* when the order is in time.
CheckCutoff(w) ==
    LET p == req[w].payload
        inTime == BeforeCutoff(p.product, now)
    IN  /\ pc[w] = "cutoff"
        /\ \/ ~inTime /\ Proceed(w, "reject", draft[w], {})
           \/ inTime /\ p.form \in {"bad_units", "bad_currency"} /\ Fail(w, 409)
           \/ inTime /\ p.form = "ok" /\ Proceed(w, "insert", draft[w], {})

\* insert_order as PENDING, or as REJECTED after the cutoff with a zero amount
\* and the response recorded.  The row is stamped with the clock of this later
\* statement; the triggers and the unique key may refuse it.
InsertOrder(w) ==
    LET k == req[w].key
        p == req[w].payload
        o == IF pc[w] = "insert"
             THEN NewOrder(p.product, "PENDING", now, p.amount)
             ELSE NewOrder(p.product, "REJECTED", now, 0)
        accepted == /\ orders[k] = NoRow
                    /\ ConsistencyTrigger(p.form)
                    /\ CutoffTrigger(o)
    IN  /\ pc[w] \in {"insert", "reject"}
        /\ \/ ~accepted /\ Fail(w, 500)
           \/ /\ accepted
              /\ pc[w] = "insert"
              /\ Proceed(w, AfterChecks(p.product), Inserted(draft[w], o),
                         {OrderLock(k)})
           \/ /\ accepted
              /\ pc[w] = "reject"
              /\ Proceed(w, "commit", Finalized(Inserted(draft[w], o)),
                         {OrderLock(k)})

\* reserve_quota_for_order.  The INSERT of ensure_daily_quota_row waits for the
\* quota row, refused or not.  The refusing UPDATE after it waits for nothing,
\* and reads what it would have read before another took the row in between:
\* one step stands for both.  Refusal turns the order REJECTED: submit records
\* that as its response, confirm commits it and answers 422.  A zero amount
\* passes the UPDATE and breaks the CHECK of quota_allocations.
ReserveQuota(w) ==
    LET d == draft[w]
        a == AllocationFor(d.order)
    IN  /\ pc[w] = "reserve"
        /\ \/ /\ Refused(a)
              /\ req[w].op = "submit"
              /\ Proceed(w, "commit", Finalized(Updated(d, "REJECTED")), {})
           \/ /\ Refused(a)
              /\ req[w].op = "confirm"
              /\ Proceed(w, "commit", Updated(d, "REJECTED"), {})
           \/ ~Refused(a) /\ a.amount = 0 /\ Fail(w, 500)
           \/ /\ ~Refused(a)
              /\ a.amount > 0
              /\ Proceed(w, "confirm", Reserved(d), {QuotaLock(QuotaRowOf(a))})

\* update_order_status to CONFIRMED, post_confirm_entries, and in submit
\* finalize_idempotency.  ledger_entries takes no zero amount.
ConfirmOrder(w) ==
    LET d == ConfirmPosted(Updated(draft[w], "CONFIRMED")) IN
    /\ pc[w] = "confirm"
    /\ \/ draft[w].order.amount = 0 /\ Fail(w, 500)
       \/ /\ draft[w].order.amount > 0
          /\ req[w].op = "submit"
          /\ Proceed(w, "commit", Finalized(d), {})
       \/ /\ draft[w].order.amount > 0
          /\ req[w].op = "confirm"
          /\ Proceed(w, "commit", d, {})

\* get_order_by_client_order_id, get_order_by_id_for_update and the decision on
\* the status found: an order already where the request wants it is answered
\* as it is.
LockOrder(w) ==
    LET k == req[w].key
        s == orders[k].status
        d == RowsOf(k)
    IN  /\ pc[w] = "order"
        /\ \/ orders[k] = NoRow /\ Fail(w, 404)
           \/ /\ orders[k] # NoRow
              /\ req[w].op = "confirm"
              /\ \/ s = "CONFIRMED" /\ Proceed(w, "commit", d, {OrderLock(k)})
                 \/ Confirmable(s) /\ Proceed(w, "product", d, {OrderLock(k)})
                 \/ s # "CONFIRMED" /\ ~Confirmable(s) /\ Fail(w, 409)
           \/ /\ orders[k] # NoRow
              /\ req[w].op = "cancel"
              /\ \/ s = "SETTLED" /\ Fail(w, 409)
                 \/ Cancellable(s) /\ Proceed(w, "cancel", d, {OrderLock(k)})
                 \/ /\ s # "SETTLED"
                    /\ ~Cancellable(s)
                    /\ Proceed(w, "commit", d, {OrderLock(k)})

\* update_order_status to CANCELLED and release_quota_allocation_once.
CancelOrder(w) ==
    /\ pc[w] = "cancel"
    /\ Proceed(w, IF OpenAllocation(draft[w]) THEN "release" ELSE "commit",
               Released(Updated(draft[w], "CANCELLED")), {})

\* decrement_used_quota and post_cancel_entries, only for an order whose
\* allocation was still open.
ReleaseQuota(w) ==
    /\ pc[w] = "release"
    /\ Proceed(w, "commit", CancelPosted(draft[w]),
               {QuotaLock(QuotaRowOf(draft[w].alloc))})

\* What the endpoint sends after session.commit().
Outcome(w) ==
    IF req[w].op = "submit"
    THEN [code |-> 200, order |-> draft[w].idem.response]
    ELSE IF req[w].op = "confirm" /\ draft[w].order.status = "REJECTED"
         THEN [code |-> 422, order |-> NoRow]
         ELSE [code |-> 200, order |-> draft[w].order]

\* COMMIT: the rows whose locks the transaction holds become visible at once.
Commit(w) ==
    LET k == req[w].key
        d == draft[w]
        Publish(table, row) ==
            IF owner[OrderLock(k)] = w THEN [table EXCEPT ![k] = row] ELSE table
    IN  /\ pc[w] = "commit"
        /\ orders' = Publish(orders, d.order)
        /\ alloc' = Publish(alloc, d.alloc)
        /\ ledger' = Publish(ledger, d.ledger)
        /\ trail' = Publish(trail, d.trail)
        /\ idem' = IF owner[IdemLock(k)] = w
                   THEN [idem EXCEPT ![k] = d.idem] ELSE idem
        /\ used' = [q \in QuotaRows |->
                        IF owner[QuotaLock(q)] = w THEN d.quota ELSE used[q]]
        /\ pc' = [pc EXCEPT ![w] = "answer"]
        /\ reply' = [reply EXCEPT ![w] = Outcome(w)]
        /\ EndTransaction(w)
        /\ UNCHANGED <<now, req>>

\* The answer leaves, or is lost on the way: the worker does not know.
Answer(w) ==
    /\ pc[w] = "answer"
    /\ pc' = [pc EXCEPT ![w] = "idle"]
    /\ req' = [req EXCEPT ![w] = NoRequest]
    /\ reply' = [reply EXCEPT ![w] = NoReply]
    /\ UNCHANGED <<now, tables, draft, owner>>

\* The process or its connection dies before COMMIT.
Abort(w) ==
    /\ pc[w] \in Statements
    /\ pc' = [pc EXCEPT ![w] = "idle"]
    /\ req' = [req EXCEPT ![w] = NoRequest]
    /\ EndTransaction(w)
    /\ UNCHANGED <<now, tables, reply>>

Tick ==
    /\ now < MaxTime
    /\ now' = now + 1
    /\ UNCHANGED <<tables, pc, req, draft, owner, reply>>
----
Step(w) ==
    \/ LockProduct(w)
    \/ LockIdempotency(w)
    \/ CheckCutoff(w)
    \/ InsertOrder(w)
    \/ ReserveQuota(w)
    \/ ConfirmOrder(w)
    \/ LockOrder(w)
    \/ CancelOrder(w)
    \/ ReleaseQuota(w)
    \/ Commit(w)
    \/ Answer(w)

\* The seed script loads orders in any status and nothing else about them.
Init ==
    /\ now = 0
    /\ orders \in [Keys -> SeedOrders \cup {NoRow}]
    /\ idem = [k \in Keys |-> NoRow]
    /\ used = [q \in QuotaRows |-> 0]
    /\ alloc = [k \in Keys |-> NoRow]
    /\ ledger = [k \in Keys |-> <<>>]
    /\ trail = [k \in Keys |->
                   IF orders[k] = NoRow THEN <<>> ELSE <<orders[k].status>>]
    /\ pc = [w \in Workers |-> "idle"]
    /\ req = [w \in Workers |-> NoRequest]
    /\ draft = [w \in Workers |-> Blank]
    /\ owner = [l \in Locks |-> Nobody]
    /\ reply = [w \in Workers |-> NoReply]

Next ==
    \/ \E w \in Workers :
          \/ \E r \in Requests : Begin(w, r)
          \/ Step(w)
          \/ Abort(w)
    \/ Tick

Spec == Init /\ [][Next]_vars

\* A running worker goes on, and PostgreSQL queues the waiters of a row lock
\* in order, so that a lock released again and again reaches each of them.
FairSpec == Spec /\ \A w \in Workers : SF_vars(Step(w))
----
(***************************************************************************)
(* Properties.                                                             *)
(***************************************************************************)
\* Every table holds rows of its shape and every worker a well-formed session.
TypeOK ==
    /\ now \in Times
    /\ orders \in [Keys -> OrderRow \cup {NoRow}]
    /\ idem \in [Keys -> IdemRow \cup {NoRow}]
    /\ used \in [QuotaRows -> Nat]
    /\ alloc \in [Keys -> AllocRow \cup {NoRow}]
    /\ ledger \in [Keys -> Seq(Movement)]
    /\ trail \in [Keys -> Seq(Statuses)]
    /\ pc \in [Workers -> Labels]
    /\ req \in [Workers -> Requests \cup {NoRequest}]
    /\ draft \in [Workers -> Draft]
    /\ owner \in [Locks -> Workers \cup {Nobody}]
    /\ reply \in [Workers -> Replies \cup {NoReply}]

\* Every answer sent is true of the books: a submit answers with the response
\* on record for its payload, a 422 with an order that stays rejected, a cancel
\* with an order that is off.
AnswersMatchTheBooks ==
    \A w \in Workers : pc[w] = "answer" =>
        LET k == req[w].key
            r == reply[w]
        IN  /\ req[w].op = "submit" /\ r.code = 200 =>
                  /\ idem[k] # NoRow
                  /\ idem[k].payload = req[w].payload
                  /\ r.order = idem[k].response
            /\ r.code = 422 => orders[k].status = "REJECTED"
            /\ req[w].op = "cancel" /\ r.code = 200 =>
                  orders[k].status \in {"CANCELLED", "REJECTED"}
            /\ req[w].op = "confirm" /\ r.code = 200 =>
                  orders[k].status \in {"CONFIRMED", "CANCELLED"}

\* An order is only turned down for quota when its amount did not fit beside
\* what had been allocated that day, even if a cancel has given some back
\* between the refused UPDATE and the COMMIT of the rejection.
EverAllocated(q) ==
    LET ks == {k \in Keys : alloc[k] # NoRow /\ QuotaRowOf(alloc[k]) = q}
    IN  MapThenSumSet(LAMBDA k : alloc[k].amount, ks)
RefusalsAreJustified ==
    \A k \in Keys :
        LET o == orders[k] IN
        o # NoRow =>
            (idem[k] # NoRow /\ o.status = "REJECTED" /\ o.amount > 0 =>
                EverAllocated(QuotaRowOf(AllocationFor(o))) + o.amount
                    > DailyTotal[o.product])

\* The events of an order are the legal path to the status it has now.
TrailExplainsStatus ==
    \A k \in Keys :
        LET e == trail[k]
            n == Len(e)
        IN  IF orders[k] = NoRow THEN n = 0
            ELSE /\ n > 0
                 /\ e[n] = orders[k].status
                 /\ \A i \in 1 .. n - 1 : Follows(e[i], e[i + 1])

\* Transactions never wait for each other in a circle, although confirm locks
\* order before product and submit product before order.
WaitsFor(v, w) == v # w /\ \E l \in Locks : Needs(v, l) /\ owner[l] = w
NoWaitCycle ==
    \A ws \in (SUBSET Workers) \ {{}} :
        \E v \in ws : \A w \in ws : ~WaitsFor(v, w)

\* "Orders crossing cutoff are rejected" (DECISIONS.md:136): a well-formed
\* submission under a new key is answered by the order's outcome, never by a
\* server error.
OrdersCrossingCutoffAreRejected ==
    \A w \in Workers :
        LET p == req[w].payload IN
        (/\ pc[w] = "answer"
         /\ req[w].op = "submit"
         /\ p.form = "ok"
         /\ p.amount > 0
         /\ orders[req[w].key] = NoRow) => reply[w].code # 500

\* "Adversarial unit values are rejected" (DECISIONS.md:137): units that are
\* not a multiple of the creation unit get a domain answer, never a server
\* error.
AdversarialUnitsAreRejected ==
    \A w \in Workers :
        pc[w] = "answer" /\ req[w].op = "submit" =>
            (req[w].payload.form = "bad_units" => reply[w].code # 500)

\* Every request gets an answer, or its worker died.
EveryRequestEnds == \A w \in Workers : pc[w] # "idle" ~> pc[w] = "idle"

\* Seen through the committed tables, requests are atomic.
Atomic == INSTANCE AtomicOrders
    WITH now <- now, orders <- orders, idem <- idem, used <- used, alloc <- alloc,
         ledger <- ledger
RequestsAreAtomic == Atomic!Spec

\* What AtomicOrders says of the committed tables, whatever submits, confirms,
\* cancels and crashes interleave on their rows.
QuotaMatchesAllocations == Atomic!QuotaMatchesAllocations
QuotaNeverOverIssued == Atomic!QuotaNeverOverIssued
BooksAgree == Atomic!BooksAgree
RecordsComplete == Atomic!RecordsComplete
ActiveOrdersBeatCutoff == Atomic!ActiveOrdersBeatCutoff
HistoryIsKept == Atomic!HistoryIsKept
====
