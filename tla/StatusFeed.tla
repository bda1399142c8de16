---- MODULE StatusFeed ----
(***************************************************************************)
(* The status events of orders as readers see them.  An event draws its id *)
(* from a sequence when the trigger inserts it and becomes visible when    *)
(* its transaction commits, so ids become visible in another order than    *)
(* they were drawn.  A row of table orders is abstracted to the id of its  *)
(* last event: a newer row has a greater number, 0 is no row.              *)
(***************************************************************************)
EXTENDS Integers, FiniteSetsExt, SequencesExt

CONSTANTS
    Orders,     \* numbers, in the order of submitted_at
    MaxId,      \* bound on the event ids drawn
    PageSize,   \* rows of a blotter page
    Limit       \* events of an answer

ASSUME FeedAssumption ==
    /\ Orders \subseteq Nat \ {0}
    /\ IsFiniteSet(Orders)
    /\ MaxId \in Nat
    /\ PageSize \in Nat \ {0}
    /\ Limit \in Nat \ {0}

VARIABLES
    lastId,     \* order_status_events_event_id_seq
    open,       \* ids drawn by the uncommitted transaction on each order
    events      \* committed events of each order

feed == <<lastId, open, events>>

Row(k) == Max({0} \cup events[k])
Visible == UNION {events[k] : k \in Orders}
----
(***************************************************************************)
(* Transactions on an order: one at a time, because they hold its row.     *)
(***************************************************************************)
\* Submission emits an event at the insert and another at the update of the
\* status, confirmation and cancellation emit one.  No order has more than
\* three: created, confirmed, cancelled.
Emits(k) == Cardinality(open[k]) < (IF events[k] = {} THEN 2 ELSE 1)

Draw(k) ==
    /\ lastId < MaxId
    /\ Emits(k)
    /\ Cardinality(events[k]) < 3
    /\ lastId' = lastId + 1
    /\ open' = [open EXCEPT ![k] = @ \cup {lastId + 1}]
    /\ UNCHANGED events

Commit(k) ==
    /\ open[k] # {}
    /\ events' = [events EXCEPT ![k] = @ \cup open[k]]
    /\ open' = [open EXCEPT ![k] = {}]
    /\ UNCHANGED lastId

Rollback(k) ==
    /\ open[k] # {}
    /\ open' = [open EXCEPT ![k] = {}]
    /\ UNCHANGED <<lastId, events>>

\* A commit that makes an event visible below one that already is.
Overtaken(k) == \E e \in open[k], f \in Visible : e < f
----
(***************************************************************************)
(* Queries.  A filter selects orders by what never changes (date, product, *)
(* dealer, currency) and, when it is fresh, those still in the status they *)
(* were created in.                                                        *)
(***************************************************************************)
Matching(f) ==
    {k \in f.orders : /\ events[k] # {}
                      /\ f.fresh => Cardinality(events[k]) = 1}

\* list_orders_for_blotter: the place of an order by descending submitted_at.
Place(f, k) == Cardinality({j \in Matching(f) : j >= k})

\* get_orders_blotter: one row more than the page tells whether there is more.
Blotter(f, offset) ==
    [rows |-> [k \in Orders |->
        IF k \in Matching(f) /\ Place(f, k) \in offset + 1 .. offset + PageSize
        THEN Row(k) ELSE 0],
     more |-> Cardinality(Matching(f)) > offset + PageSize]

\* A slip: the cursor is taken for the next id.
IsNewPastNext(e, since) == e > since + 1
IsNew(e, since) == e > since

\* The numbers of a set, in their order.
Ascending(S) ==
    CHOOSE s \in [1 .. Cardinality(S) -> S] :
        /\ Range(s) = S
        /\ \A i, j \in DOMAIN s : i < j => s[i] < s[j]

\* list_order_status_events: ids above the cursor, oldest first.
News(f, since) ==
    {e \in UNION {events[k] : k \in Matching(f)} : IsNew(e, since)}

\* get_order_updates: the first of them, each with the row its order has now.
Updates(f, since) ==
    LET found == Ascending(News(f, since))
        orderOf(e) == CHOOSE k \in Orders : e \in events[k]
    IN  [i \in 1 .. Min({Len(found), Limit}) |->
            [id |-> found[i], order |-> orderOf(found[i]), row |-> Row(orderOf(found[i]))]]
====
