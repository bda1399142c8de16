---- MODULE OrderTransactionsProofs ----
(***************************************************************************)
(* Proofs about OrderTransactions for every set of workers, products,      *)
(* keys, payloads and seeded orders: the requests are atomic, so that what *)
(* AtomicOrdersProofs shows of atomic requests holds of the committed      *)
(* tables, and the row locks are waited for in one direction only.         *)
(***************************************************************************)
EXTENDS OrderTransactions, SequenceTheorems, TLAPS

\* The abstract specification, with its proved invariants.
Books == INSTANCE AtomicOrdersProofs
    WITH now <- now, orders <- orders, idem <- idem, used <- used, alloc <- alloc,
         ledger <- ledger
----
(***************************************************************************)
(* The inductive invariant: what a transaction knows about the committed   *)
(* rows, at each of its statements, because of the locks it holds.         *)
(***************************************************************************)
Holds(w, l) == owner[l] = w

\* Where a transaction can be that holds a lock, and which rows it locks.
LocksFit(w) ==
    LET d == draft[w]
        k == req[w].key
    IN  /\ \A p \in Products : Holds(w, ProductLock(p)) =>
              pc[w] \in {"idem", "cutoff", "reject", "insert", "reserve",
                         "confirm", "commit"}
        /\ \A j \in Keys : Holds(w, IdemLock(j)) =>
              /\ j = k
              /\ req[w].op = "submit"
              /\ pc[w] \in {"cutoff", "reject", "insert", "reserve", "confirm",
                            "commit"}
        /\ \A j \in Keys : Holds(w, OrderLock(j)) =>
              /\ j = k
              /\ d.order # NoRow
              /\ pc[w] \in {"product", "reserve", "confirm", "cancel",
                            "release", "commit"}
        /\ \A q \in QuotaRows : Holds(w, QuotaLock(q)) =>
              /\ d.alloc # NoRow
              /\ q = QuotaRowOf(d.alloc)
              /\ pc[w] \in {"confirm", "commit"}

\* A submission that owns a key nothing was recorded for.
Claiming(w) ==
    /\ req[w].op = "submit"
    /\ Holds(w, IdemLock(req[w].key))
    /\ idem[req[w].key] = NoRow
    /\ draft[w].idem # NoRow
    /\ draft[w].idem.payload = req[w].payload

\* A submission that has inserted its order.
Submitting(w) ==
    /\ Claiming(w)
    /\ Holds(w, OrderLock(req[w].key))
    /\ orders[req[w].key] = NoRow
    /\ draft[w].order # NoRow
    /\ req[w].payload.form = "ok"

\* A confirm or cancel that has read the rows of an order it has locked.
Reading(w) ==
    /\ req[w].op \in {"confirm", "cancel"}
    /\ Holds(w, OrderLock(req[w].key))
    /\ orders[req[w].key] # NoRow
    /\ draft[w] = RowsOf(req[w].key)

\* The pending order a submission or a confirm decides about: one inserted in
\* time by the clock of that statement, or the one on record.
Asked(w) == WithStatus(draft[w].order, "PENDING")
Deciding(w) ==
    LET p == req[w].payload IN
    \/ /\ Submitting(w)
       /\ \E t \in 0 .. now :
             /\ BeforeCutoff(p.product, t)
             /\ Asked(w) = NewOrder(p.product, "PENDING", t, p.amount)
    \/ /\ req[w].op = "confirm"
       /\ Holds(w, OrderLock(req[w].key))
       /\ orders[req[w].key] # NoRow
       /\ draft[w].order # NoRow
       /\ orders[req[w].key] = Asked(w)

\* The allocation and the new total of the quota row it is taken from.
Reserving(w) ==
    LET d == draft[w]
        q == QuotaRowOf(d.alloc)
    IN  IF d.order.product \in QdiiProducts
        THEN /\ d.alloc = AllocationFor(d.order)
             /\ d.order.amount > 0
             /\ Holds(w, QuotaLock(q))
             /\ d.quota = used[q] + d.order.amount
             /\ d.quota <= DailyTotal[d.order.product]
        ELSE d.alloc = NoRow

\* A live order being cancelled; its allocation, if any, is released.
Cancelling(w) ==
    LET k == req[w].key
        d == draft[w]
    IN  /\ req[w].op = "cancel"
        /\ Holds(w, OrderLock(k))
        /\ orders[k] # NoRow
        /\ Active(orders[k])
        /\ d.order = WithStatus(orders[k], "CANCELLED")
        /\ d.alloc = IF alloc[k] = NoRow THEN NoRow
                     ELSE [alloc[k] EXCEPT !.released = TRUE]

\* What COMMIT finds: a replay, an order turned down, an order in effect, a
\* late order, a request that changes nothing, a cancelled order.
Finalizing(w) ==
    req[w].op = "submit" => draft[w].idem.response = draft[w].order
Replaying(w) ==
    LET k == req[w].key IN
    /\ req[w].op = "submit"
    /\ Holds(w, IdemLock(k))
    /\ idem[k] # NoRow
    /\ idem[k].payload = req[w].payload
    /\ draft[w].idem = idem[k]
    /\ draft[w].order = NoRow
    /\ draft[w].alloc = NoRow
TurningDown(w) ==
    /\ Deciding(w)
    /\ draft[w].order.product \in QdiiProducts
    /\ draft[w].order.status = "REJECTED"
    /\ draft[w].alloc = NoRow
    /\ draft[w].ledger = <<>>
    /\ Finalizing(w)
TakingEffect(w) ==
    /\ Deciding(w)
    /\ draft[w].order.status = "CONFIRMED"
    /\ draft[w].order.amount > 0
    /\ draft[w].ledger = <<Posting("CONFIRM", draft[w].order.amount)>>
    /\ Reserving(w)
    /\ Finalizing(w)
BeingLate(w) ==
    LET p == req[w].payload IN
    /\ Submitting(w)
    /\ \E t \in 0 .. now :
          /\ \E s \in 0 .. t : ~BeforeCutoff(p.product, s)
          /\ draft[w].order = NewOrder(p.product, "REJECTED", t, 0)
    /\ draft[w].alloc = NoRow
    /\ draft[w].ledger = <<>>
    /\ Finalizing(w)
ChangingNothing(w) ==
    LET s == orders[req[w].key].status IN
    /\ Reading(w)
    /\ req[w].op = "confirm" => s = "CONFIRMED"
    /\ req[w].op = "cancel" => s \in {"CANCELLED", "REJECTED"}
    /\ \A q \in QuotaRows : ~Holds(w, QuotaLock(q))
CancellingDone(w) ==
    LET k == req[w].key
        d == draft[w]
        q == QuotaRowOf(d.alloc)
        n == d.alloc.amount
    IN  /\ Cancelling(w)
        /\ IF alloc[k] = NoRow
           THEN d.ledger = ledger[k]
           ELSE /\ Holds(w, QuotaLock(q))
                /\ d.quota = Decremented(used[q], n)
                /\ d.ledger = Append(ledger[k], Posting("CANCEL", n))

\* The rows of a submission that has claimed its key and written nothing else.
Claimed(p) == [Blank EXCEPT !.idem = [payload |-> p, response |-> NoRow]]

Session(w) ==
    LET k == req[w].key
        p == req[w].payload
        d == draft[w]
    IN  /\ pc[w] # "idle" => req[w] \in Requests
        /\ pc[w] \in {"idle", "answer", "order"} => d = Blank
        /\ pc[w] = "order" => req[w].op \in {"confirm", "cancel"}
        /\ pc[w] = "product" =>
              \/ req[w].op = "submit" /\ d = Blank
              \/ /\ req[w].op = "confirm"
                 /\ Reading(w)
                 /\ orders[k].status = "PENDING"
        /\ pc[w] = "idem" => req[w].op = "submit" /\ d = Blank
        /\ pc[w] \in {"cutoff", "reject", "insert"} =>
              /\ Claiming(w)
              /\ d = Claimed(p)
        /\ pc[w] = "reject" => \E s \in 0 .. now : ~BeforeCutoff(p.product, s)
        /\ pc[w] \in {"reserve", "confirm"} =>
              /\ Deciding(w)
              /\ d.order.status = "PENDING"
              /\ d.ledger = <<>>
        /\ pc[w] = "reserve" => d.order.product \in QdiiProducts /\ d.alloc = NoRow
        /\ pc[w] = "confirm" => Reserving(w)
        /\ pc[w] = "cancel" =>
              req[w].op = "cancel" /\ Reading(w) /\ Active(orders[k])
        /\ pc[w] = "release" =>
              Cancelling(w) /\ alloc[k] # NoRow /\ d.ledger = ledger[k]
        /\ pc[w] = "commit" =>
              \/ Replaying(w)
              \/ TurningDown(w)
              \/ TakingEffect(w)
              \/ BeingLate(w)
              \/ ChangingNothing(w)
              \/ CancellingDone(w)

Sessions == \A w \in Workers : LocksFit(w) /\ Session(w)

IInv ==
    /\ TypeOK
    /\ Books!IInv
    /\ Sessions
----
(***************************************************************************)
(* Rows, locks and types.                                                  *)
(***************************************************************************)
\* The assumptions of AtomicOrders hold of this desk.
LEMMA DeskHolds == Books!DeskAssumption
  BY DeskAssumption
  DEF Books!DeskAssumption, Books!Payload, Payload, Books!Forms, Forms,
      Books!OrderRow, OrderRow, Books!Statuses, Statuses, Books!Times, Times,
      Books!IdemRow, IdemRow, Books!AllocRow, AllocRow, Books!Days, Days,
      Books!QuotaDay, QuotaDay, Books!Active, Active,
      Books!BeforeCutoff, BeforeCutoff, Books!LocalTime, LocalTime

\* Changing the status leaves what the order is for.
LEMMA StatusFields ==
    ASSUME NEW o \in OrderRow, NEW s \in Statuses
    PROVE  /\ WithStatus(o, s) \in OrderRow
           /\ WithStatus(o, s) # NoRow
           /\ WithStatus(o, s).status = s
           /\ WithStatus(o, s).product = o.product
           /\ WithStatus(o, s).received = o.received
           /\ WithStatus(o, s).amount = o.amount
           /\ \A r \in Statuses : WithStatus(WithStatus(o, s), r) = WithStatus(o, r)
           /\ WithStatus(o, o.status) = o
           /\ AllocationFor(WithStatus(o, s)) = AllocationFor(o)
  BY DeskAssumption DEF OrderRow, WithStatus, AllocationFor

\* The allocation made for an order is a row of its table.
LEMMA AllocationRow ==
    ASSUME NEW o \in OrderRow
    PROVE  /\ AllocationFor(o) \in AllocRow
           /\ AllocationFor(o) # NoRow
           /\ AllocationFor(o).product = o.product
           /\ AllocationFor(o).amount = o.amount
           /\ AllocationFor(o).released = FALSE
           /\ QuotaRowOf(AllocationFor(o)) \in QuotaRows
  <1>1. /\ AllocationFor(o) \in AllocRow
        /\ QuotaRowOf(AllocationFor(o)) \in QuotaRows
    BY DEF OrderRow, AllocationFor, AllocRow, QuotaRowOf, QuotaRows, Days
  <1>2. /\ AllocationFor(o).product = o.product
        /\ AllocationFor(o).amount = o.amount
        /\ AllocationFor(o).released = FALSE
    BY DEF AllocationFor
  <1>. QED BY <1>1, <1>2, DeskAssumption

LEMMA QuotaRowType == ASSUME NEW a \in AllocRow PROVE QuotaRowOf(a) \in QuotaRows
  BY DEF AllocRow, QuotaRowOf, QuotaRows

\* The row a submission inserts.
LEMMA NewOrderFields ==
    ASSUME NEW p \in Products, NEW s \in Statuses, NEW t \in Times, NEW a \in Nat
    PROVE  /\ NewOrder(p, s, t, a) \in OrderRow
           /\ NewOrder(p, s, t, a) # NoRow
           /\ NewOrder(p, s, t, a).status = s
           /\ NewOrder(p, s, t, a).product = p
           /\ NewOrder(p, s, t, a).received = t
           /\ NewOrder(p, s, t, a).amount = a
           /\ \A r \in Statuses :
                 WithStatus(NewOrder(p, s, t, a), r) = NewOrder(p, r, t, a)
  BY DeskAssumption DEF NewOrder, OrderRow, WithStatus

\* What a request is.
LEMMA RequestFields ==
    ASSUME NEW r \in Requests
    PROVE  /\ r.key \in Keys
           /\ r.op \in {"submit", "confirm", "cancel"}
           /\ r.op = "submit" =>
                 /\ r.payload \in Payloads
                 /\ r.payload.product \in Products
                 /\ r.payload.form \in Forms
                 /\ r.payload.amount \in Nat
  BY DeskAssumption DEF Requests, Payload

\* The lock of every row is a lock.
LEMMA LockTypes ==
    /\ \A p \in Products : ProductLock(p) \in Locks
    /\ \A k \in Keys : IdemLock(k) \in Locks /\ OrderLock(k) \in Locks
    /\ \A q \in QuotaRows : QuotaLock(q) \in Locks
  BY DEF Locks, ProductLock, IdemLock, OrderLock, QuotaLock

\* No two rows share a lock.
LEMMA LocksDiffer ==
    /\ \A p, k : ProductLock(p) # IdemLock(k) /\ ProductLock(p) # OrderLock(k)
    /\ \A p, q : ProductLock(p) # QuotaLock(q)
    /\ \A k, j : IdemLock(k) # OrderLock(j)
    /\ \A k, q : IdemLock(k) # QuotaLock(q) /\ OrderLock(k) # QuotaLock(q)
    /\ \A k, j : /\ IdemLock(k) = IdemLock(j) => k = j
                 /\ OrderLock(k) = OrderLock(j) => k = j
                 /\ QuotaLock(k) = QuotaLock(j) => k = j
                 /\ ProductLock(k) = ProductLock(j) => k = j
  BY DEF ProductLock, IdemLock, OrderLock, QuotaLock

LEMMA BlankType == Blank \in Draft
  <1>1. <<>> \in Seq(Movement) /\ <<>> \in Seq(Statuses)
    OBVIOUS
  <1>. QED BY <1>1 DEF Blank, Draft

LEMMA BlankFields ==
    /\ Blank.order = NoRow
    /\ Blank.idem = NoRow
    /\ Blank.alloc = NoRow
    /\ Blank.ledger = <<>>
    /\ Blank.trail = <<>>
  BY DEF Blank

\* The rows of a draft.
LEMMA DraftFields ==
    ASSUME NEW d \in Draft
    PROVE  /\ d.order \in OrderRow \cup {NoRow}
           /\ d.idem \in IdemRow \cup {NoRow}
           /\ d.alloc \in AllocRow \cup {NoRow}
           /\ d.ledger \in Seq(Movement)
           /\ d.trail \in Seq(Statuses)
           /\ d.quota \in Nat
  BY DEF Draft

\* What a key's rows are.
LEMMA RowTypes ==
    ASSUME TypeOK, NEW k \in Keys
    PROVE  /\ orders[k] # NoRow => orders[k] \in OrderRow
           /\ idem[k] # NoRow => idem[k] \in IdemRow
           /\ alloc[k] # NoRow => alloc[k] \in AllocRow
           /\ ledger[k] \in Seq(Movement)
           /\ trail[k] \in Seq(Statuses)
           /\ RowsOf(k) \in Draft
  <1>1. /\ orders[k] \in OrderRow \cup {NoRow}
        /\ idem[k] \in IdemRow \cup {NoRow}
        /\ alloc[k] \in AllocRow \cup {NoRow}
        /\ ledger[k] \in Seq(Movement)
        /\ trail[k] \in Seq(Statuses)
    BY DEF TypeOK
  <1>2. RowsOf(k) \in Draft
    BY <1>1 DEF RowsOf, Blank, Draft
  <1>. QED BY <1>1, <1>2

LEMMA RowsOfFields ==
    ASSUME NEW k
    PROVE  /\ RowsOf(k).order = orders[k]
           /\ RowsOf(k).alloc = alloc[k]
           /\ RowsOf(k).ledger = ledger[k]
           /\ RowsOf(k).trail = trail[k]
  BY DEF RowsOf, Blank
----
(***************************************************************************)
(* What single statements do to the private rows.                          *)
(***************************************************************************)
LEMMA RecordKept ==
    ASSUME NEW r \in IdemRow
    PROVE  /\ [Blank EXCEPT !.idem = r] \in Draft
           /\ [Blank EXCEPT !.idem = r].order = NoRow
           /\ [Blank EXCEPT !.idem = r].idem = r
           /\ [Blank EXCEPT !.idem = r].alloc = NoRow
           /\ [Blank EXCEPT !.idem = r].ledger = <<>>
           /\ [Blank EXCEPT !.idem = r].trail = <<>>
  BY BlankType, BlankFields DEF Draft

LEMMA ClaimedFields ==
    ASSUME NEW p \in Payloads
    PROVE  /\ Claimed(p) \in Draft
           /\ Claimed(p).idem # NoRow
           /\ Claimed(p).idem.payload = p
           /\ Claimed(p).order = NoRow
           /\ Claimed(p).alloc = NoRow
           /\ Claimed(p).ledger = <<>>
           /\ Claimed(p).trail = <<>>
  <1> DEFINE r == [payload |-> p, response |-> NoRow]
  <1>1. r \in IdemRow /\ r # NoRow /\ r.payload = p
    BY DeskAssumption DEF IdemRow
  <1>2. Claimed(p) = [Blank EXCEPT !.idem = r]
    BY DEF Claimed
  <1> HIDE DEF r
  <1>. QED BY <1>1, <1>2, RecordKept

LEMMA InsertedFields ==
    ASSUME NEW d \in Draft, NEW o \in OrderRow
    PROVE  /\ Inserted(d, o) \in Draft
           /\ Inserted(d, o).order = o
           /\ Inserted(d, o).idem = d.idem
           /\ Inserted(d, o).alloc = d.alloc
           /\ Inserted(d, o).ledger = d.ledger
           /\ Inserted(d, o).trail = Append(d.trail, o.status)
  <1>1. Append(d.trail, o.status) \in Seq(Statuses)
    BY DEF Draft, OrderRow
  <1>. QED BY <1>1 DEF Inserted, Draft

LEMMA UpdatedFields ==
    ASSUME NEW d \in Draft, d.order # NoRow, NEW s \in Statuses
    PROVE  /\ Updated(d, s) \in Draft
           /\ Updated(d, s).order = WithStatus(d.order, s)
           /\ Updated(d, s).idem = d.idem
           /\ Updated(d, s).alloc = d.alloc
           /\ Updated(d, s).ledger = d.ledger
           /\ Updated(d, s).quota = d.quota
           /\ Updated(d, s).trail = Append(d.trail, s)
  <1>1. Append(d.trail, s) \in Seq(Statuses) /\ WithStatus(d.order, s) \in OrderRow
    BY StatusFields DEF Draft
  <1>. QED BY <1>1 DEF Updated, Draft

LEMMA FinalizedFields ==
    ASSUME NEW d \in Draft, d.order # NoRow, d.idem # NoRow
    PROVE  /\ Finalized(d) \in Draft
           /\ Finalized(d).order = d.order
           /\ Finalized(d).idem # NoRow
           /\ Finalized(d).idem.payload = d.idem.payload
           /\ Finalized(d).idem.response = d.order
           /\ Finalized(d).alloc = d.alloc
           /\ Finalized(d).ledger = d.ledger
           /\ Finalized(d).quota = d.quota
           /\ Finalized(d).trail = d.trail
  <1> DEFINE r == [d.idem EXCEPT !.response = d.order]
  <1>1. r \in IdemRow /\ r # NoRow /\ r.payload = d.idem.payload /\ r.response = d.order
    BY DeskAssumption DEF Draft, IdemRow
  <1>2. Finalized(d) = [d EXCEPT !.idem = r]
    BY DEF Finalized
  <1> HIDE DEF r
  <1>. QED BY <1>1, <1>2 DEF Draft

LEMMA ConfirmPostedFields ==
    ASSUME NEW d \in Draft, d.order # NoRow
    PROVE  /\ ConfirmPosted(d) \in Draft
           /\ ConfirmPosted(d).order = d.order
           /\ ConfirmPosted(d).idem = d.idem
           /\ ConfirmPosted(d).alloc = d.alloc
           /\ ConfirmPosted(d).quota = d.quota
           /\ ConfirmPosted(d).trail = d.trail
           /\ ConfirmPosted(d).ledger =
                 Append(d.ledger, Posting("CONFIRM", d.order.amount))
  <1>1. Posting("CONFIRM", d.order.amount) \in Movement
    BY DEF Draft, OrderRow, Posting, Movement
  <1>2. Append(d.ledger, Posting("CONFIRM", d.order.amount)) \in Seq(Movement)
    BY <1>1 DEF Draft
  <1>. QED BY <1>2 DEF ConfirmPosted, Draft

LEMMA ReservedFields ==
    ASSUME TypeOK, NEW d \in Draft, d.order # NoRow
    PROVE  /\ Reserved(d) \in Draft
           /\ Reserved(d).order = d.order
           /\ Reserved(d).idem = d.idem
           /\ Reserved(d).ledger = d.ledger
           /\ Reserved(d).trail = d.trail
           /\ Reserved(d).alloc = AllocationFor(d.order)
           /\ Reserved(d).quota =
                 used[QuotaRowOf(AllocationFor(d.order))] + d.order.amount
  <1> DEFINE a == AllocationFor(d.order)
             n == used[QuotaRowOf(a)] + a.amount
  <1>1. a \in AllocRow /\ a.amount = d.order.amount /\ n \in Nat
    <2>1. d.order \in OrderRow
      BY DEF Draft
    <2>2. a \in AllocRow /\ a.amount = d.order.amount /\ QuotaRowOf(a) \in QuotaRows
      BY <2>1, AllocationRow
    <2>3. a.amount \in Nat /\ used[QuotaRowOf(a)] \in Nat
      BY <2>1, <2>2 DEF OrderRow, TypeOK
    <2>. QED BY <2>2, <2>3
  <1>2. Reserved(d) = [d EXCEPT !.quota = n, !.alloc = a]
    BY DEF Reserved
  <1>3. n = used[QuotaRowOf(AllocationFor(d.order))] + d.order.amount
    BY <1>1
  <1>4. a = AllocationFor(d.order)
    OBVIOUS
  <1> HIDE DEF a, n
  <1>. QED BY <1>1, <1>2, <1>3, <1>4 DEF Draft

LEMMA ReleasedFields ==
    ASSUME NEW d \in Draft
    PROVE  /\ Released(d) \in Draft
           /\ Released(d).order = d.order
           /\ Released(d).idem = d.idem
           /\ Released(d).ledger = d.ledger
           /\ Released(d).trail = d.trail
           /\ Released(d).alloc = IF OpenAllocation(d)
                                  THEN [d.alloc EXCEPT !.released = TRUE]
                                  ELSE d.alloc
  <1>1. CASE OpenAllocation(d)
    <2> DEFINE a == [d.alloc EXCEPT !.released = TRUE]
    <2>1. a \in AllocRow
      BY <1>1 DEF OpenAllocation, Draft, AllocRow
    <2>2. Released(d) = [d EXCEPT !.alloc = a]
      BY <1>1 DEF Released
    <2> HIDE DEF a
    <2>3. /\ Released(d) \in Draft
          /\ Released(d).order = d.order
          /\ Released(d).idem = d.idem
          /\ Released(d).ledger = d.ledger
          /\ Released(d).trail = d.trail
          /\ Released(d).alloc = a
      BY <2>1, <2>2 DEF Draft
    <2>. QED BY <1>1, <2>3 DEF a
  <1>2. CASE ~OpenAllocation(d)
    BY <1>2 DEF Released
  <1>. QED BY <1>1, <1>2

LEMMA CancelPostedFields ==
    ASSUME TypeOK, NEW d \in Draft, d.alloc # NoRow
    PROVE  /\ CancelPosted(d) \in Draft
           /\ CancelPosted(d).order = d.order
           /\ CancelPosted(d).idem = d.idem
           /\ CancelPosted(d).alloc = d.alloc
           /\ CancelPosted(d).trail = d.trail
           /\ CancelPosted(d).quota =
                 Decremented(used[QuotaRowOf(d.alloc)], d.alloc.amount)
           /\ CancelPosted(d).ledger =
                 Append(d.ledger, Posting("CANCEL", d.alloc.amount))
  <1> DEFINE n == Decremented(used[QuotaRowOf(d.alloc)], d.alloc.amount)
             m == Append(d.ledger, Posting("CANCEL", d.alloc.amount))
  <1>1. d.alloc \in AllocRow
    BY DEF Draft
  <1>2. n \in Nat
    BY <1>1, QuotaRowType DEF TypeOK, AllocRow, Decremented
  <1>3. Posting("CANCEL", d.alloc.amount) \in Movement
    BY <1>1 DEF Posting, Movement, AllocRow
  <1>4. m \in Seq(Movement)
    BY <1>3 DEF Draft
  <1>5. CancelPosted(d) = [d EXCEPT !.quota = n, !.ledger = m]
    BY DEF CancelPosted
  <1>6. /\ n = Decremented(used[QuotaRowOf(d.alloc)], d.alloc.amount)
        /\ m = Append(d.ledger, Posting("CANCEL", d.alloc.amount))
    OBVIOUS
  <1> HIDE DEF n, m
  <1>. QED BY <1>2, <1>4, <1>5, <1>6 DEF Draft
----
(***************************************************************************)
(* The frame: what a transaction knows stays true while others work,       *)
(* because nobody else writes the rows it has locked.                      *)
(***************************************************************************)
Undisturbed(w) ==
    /\ pc'[w] = pc[w]
    /\ req'[w] = req[w]
    /\ draft'[w] = draft[w]
    /\ now' \in Nat
    /\ now <= now'
    /\ \A l \in Locks : owner'[l] = w <=> owner[l] = w
    /\ \A k \in Keys : Holds(w, OrderLock(k)) =>
          /\ orders'[k] = orders[k]
          /\ alloc'[k] = alloc[k]
          /\ ledger'[k] = ledger[k]
          /\ trail'[k] = trail[k]
    /\ \A k \in Keys : Holds(w, IdemLock(k)) => idem'[k] = idem[k]
    /\ \A q \in QuotaRows : Holds(w, QuotaLock(q)) => used'[q] = used[q]

\* Its locks stay the ones that fit its place.
LEMMA UndisturbedLocks ==
    ASSUME NEW w \in Workers, LocksFit(w), Undisturbed(w)
    PROVE  LocksFit(w)'
  <1>1. /\ \A p \in Products : Holds(w, ProductLock(p))' <=> Holds(w, ProductLock(p))
        /\ \A k \in Keys : Holds(w, IdemLock(k))' <=> Holds(w, IdemLock(k))
        /\ \A k \in Keys : Holds(w, OrderLock(k))' <=> Holds(w, OrderLock(k))
        /\ \A q \in QuotaRows : Holds(w, QuotaLock(q))' <=> Holds(w, QuotaLock(q))
    BY LockTypes DEF Undisturbed, Holds
  <1>2. pc'[w] = pc[w] /\ req'[w] = req[w] /\ draft'[w] = draft[w]
    BY DEF Undisturbed
  <1> HIDE DEF Holds
  <1>. QED BY <1>1, <1>2 DEF LocksFit

\* And so does what it knows of the rows.
LEMMA UndisturbedSession ==
    ASSUME TypeOK, NEW w \in Workers, Session(w), Undisturbed(w)
    PROVE  Session(w)'
  <1> DEFINE k == req[w].key
             p == req[w].payload
             d == draft[w]
  <1>1. CASE pc[w] = "idle"
    BY <1>1 DEF Session, Undisturbed
  <1>2. CASE pc[w] # "idle"
    <2>1. req[w] \in Requests /\ k \in Keys
      BY <1>2, RequestFields DEF Session
    <2>2. /\ pc'[w] = pc[w]
          /\ req'[w] = req[w]
          /\ draft'[w] = draft[w]
          /\ now' \in Nat
          /\ now \in Nat
          /\ now <= now'
          /\ d \in Draft
      BY DeskAssumption DEF Undisturbed, TypeOK, Times
    <2>3. Holds(w, IdemLock(k)) =>
             Holds(w, IdemLock(k))' /\ idem'[k] = idem[k]
      BY <2>1, LockTypes DEF Undisturbed, Holds
    <2>4. Holds(w, OrderLock(k)) =>
             /\ Holds(w, OrderLock(k))'
             /\ orders'[k] = orders[k]
             /\ alloc'[k] = alloc[k]
             /\ ledger'[k] = ledger[k]
             /\ trail'[k] = trail[k]
      BY <2>1, LockTypes DEF Undisturbed, Holds
    <2>5. ASSUME NEW q \in QuotaRows, Holds(w, QuotaLock(q))
          PROVE  Holds(w, QuotaLock(q))' /\ used'[q] = used[q]
      BY <2>5, LockTypes DEF Undisturbed, Holds
    <2>6. \A t \in 0 .. now : t \in 0 .. now'
      BY <2>2
    <2>7. Claiming(w) => Claiming(w)'
      BY <2>2, <2>3 DEF Claiming
    <2>8. Submitting(w) => Submitting(w)'
      BY <2>2, <2>4, <2>7 DEF Submitting
    <2>9. Reading(w) => Reading(w)'
      BY <2>2, <2>4 DEF Reading, RowsOf
    <2>10. Deciding(w) => Deciding(w)'
      <3>1. ASSUME Submitting(w),
                   NEW t \in 0 .. now,
                   BeforeCutoff(p.product, t),
                   Asked(w) = NewOrder(p.product, "PENDING", t, p.amount)
            PROVE  Deciding(w)'
        <4>1. t \in 0 .. now' /\ Submitting(w)' /\ Asked(w)' = Asked(w)
          BY <2>2, <2>6, <2>8, <3>1 DEF Asked
        <4>. QED BY <2>2, <3>1, <4>1 DEF Deciding
      <3>2. ASSUME req[w].op = "confirm", Holds(w, OrderLock(k)), orders[k] # NoRow,
                   draft[w].order # NoRow, orders[k] = Asked(w)
            PROVE  Deciding(w)'
        BY <2>2, <2>4, <3>2 DEF Deciding, Asked
      <3>. QED BY <3>1, <3>2 DEF Deciding
    <2>11. Deciding(w) /\ Reserving(w) => Reserving(w)'
      <3> SUFFICES ASSUME Deciding(w), Reserving(w) PROVE Reserving(w)'
        OBVIOUS
      <3>1. d.order \in OrderRow
        BY <2>2, DraftFields DEF Deciding, Submitting
      <3>2. CASE d.order.product \in QdiiProducts
        <4>1. QuotaRowOf(d.alloc) \in QuotaRows
          BY <3>1, <3>2, AllocationRow DEF Reserving
        <4>. QED BY <2>2, <2>5, <3>2, <4>1 DEF Reserving
      <3>. QED BY <2>2, <3>2 DEF Reserving
    <2>12. Cancelling(w) => Cancelling(w)'
      BY <2>2, <2>4 DEF Cancelling
    <2>13. Finalizing(w) => Finalizing(w)'
      BY <2>2 DEF Finalizing
    <2>14. Replaying(w) => Replaying(w)'
      BY <2>2, <2>3 DEF Replaying
    <2>15. TurningDown(w) => TurningDown(w)'
      BY <2>2, <2>10, <2>13 DEF TurningDown
    <2>16. TakingEffect(w) => TakingEffect(w)'
      BY <2>2, <2>10, <2>11, <2>13 DEF TakingEffect
    <2>17. BeingLate(w) => BeingLate(w)'
      BY <2>2, <2>6, <2>8, <2>13 DEF BeingLate
    <2>18. ChangingNothing(w) => ChangingNothing(w)'
      <3>1. \A q \in QuotaRows : ~Holds(w, QuotaLock(q)) => ~Holds(w, QuotaLock(q))'
        BY LockTypes DEF Undisturbed, Holds
      <3>. QED BY <2>2, <2>4, <2>9, <3>1 DEF ChangingNothing, Reading
    <2>19. CancellingDone(w) => CancellingDone(w)'
      <3> SUFFICES ASSUME CancellingDone(w) PROVE CancellingDone(w)'
        OBVIOUS
      <3>1. CASE alloc[k] = NoRow
        BY <2>2, <2>4, <2>12, <3>1 DEF CancellingDone, Cancelling
      <3>2. CASE alloc[k] # NoRow
        <4>1. d.alloc = [alloc[k] EXCEPT !.released = TRUE]
          BY <3>2 DEF CancellingDone, Cancelling
        <4>2. d.alloc \in AllocRow
          BY <2>1, <3>2, <4>1, RowTypes DEF AllocRow
        <4>3. QuotaRowOf(d.alloc) \in QuotaRows
          BY <4>2, QuotaRowType
        <4>4. alloc'[k] = alloc[k] /\ ledger'[k] = ledger[k] /\ Cancelling(w)'
          BY <2>4, <2>12 DEF CancellingDone, Cancelling
        <4>5. /\ Holds(w, QuotaLock(QuotaRowOf(d.alloc)))
              /\ d.quota = Decremented(used[QuotaRowOf(d.alloc)], d.alloc.amount)
              /\ d.ledger = Append(ledger[k], Posting("CANCEL", d.alloc.amount))
          BY <3>2 DEF CancellingDone
        <4>6. /\ Holds(w, QuotaLock(QuotaRowOf(d.alloc)))'
              /\ used'[QuotaRowOf(d.alloc)] = used[QuotaRowOf(d.alloc)]
          BY <2>2, <2>5, <4>3, <4>5
        <4> HIDE DEF d
        <4>. QED BY <2>2, <3>2, <4>4, <4>5, <4>6 DEF CancellingDone, d
      <3>. QED BY <3>1, <3>2
    <2> HIDE DEF k, p, d
    <2>20. /\ pc[w] = "product" => Session(w)'
           /\ pc[w] \in {"idem", "answer", "order"} => Session(w)'
      BY <2>1, <2>2, <2>4, <2>9 DEF Session, Reading, k
    <2>21. pc[w] \in {"cutoff", "reject", "insert"} => Session(w)'
      BY <2>1, <2>2, <2>6, <2>7 DEF Session
    <2>22. pc[w] \in {"reserve", "confirm"} => Session(w)'
      BY <2>1, <2>2, <2>10, <2>11 DEF Session
    <2>23. pc[w] \in {"cancel", "release"} => Session(w)'
      BY <2>1, <2>2, <2>4, <2>9, <2>12 DEF Session, Reading, Cancelling, k
    <2>24. pc[w] = "commit" => Session(w)'
      BY <2>1, <2>2, <2>14, <2>15, <2>16, <2>17, <2>18, <2>19 DEF Session
    <2>25. pc[w] \in Labels
      BY DEF TypeOK
    <2>. QED BY <1>2, <2>20, <2>21, <2>22, <2>23, <2>24, <2>25 DEF Labels, Statements
  <1>. QED BY <1>1, <1>2
----
(***************************************************************************)
(* The shapes of a step: a statement that succeeds, the end of a           *)
(* transaction.  Neither disturbs another transaction.                     *)
(***************************************************************************)
\* A statement only takes locks that were free, or its own.
LEMMA ProceedOthers ==
    ASSUME TypeOK, NEW w \in Workers, NEW next, NEW d, NEW ls,
           Proceed(w, next, d, ls),
           \A l \in ls : l \in Locks => owner[l] \in {Nobody, w},
           NEW v \in Workers, v # w
    PROVE  Undisturbed(v)
  <1>1. /\ pc'[v] = pc[v]
        /\ draft'[v] = draft[v]
        /\ UNCHANGED <<now, tables, req>>
    BY DEF Proceed, TypeOK
  <1>2. \A l \in Locks : owner'[l] = v <=> owner[l] = v
    BY WorkerAssumption DEF Proceed, TypeOK
  <1>3. now \in Nat
    BY DeskAssumption DEF TypeOK, Times
  <1>. QED BY <1>1, <1>2, <1>3 DEF Undisturbed, tables

\* The locks a transaction holds after a statement.
LEMMA ProceedHolds ==
    ASSUME NEW w \in Workers, NEW next, NEW d, NEW ls,
           Proceed(w, next, d, ls), NEW l \in Locks
    PROVE  Holds(w, l)' <=> l \in ls \/ Holds(w, l)
  BY DEF Proceed, Holds

\* After a statement the database is well-typed, and the other transactions
\* know what they knew.
LEMMA ProceedStep ==
    ASSUME TypeOK, Sessions, NEW w \in Workers, NEW next \in Labels,
           NEW d \in Draft, NEW ls,
           Proceed(w, next, d, ls),
           \A l \in ls : l \in Locks => owner[l] \in {Nobody, w},
           LocksFit(w)', Session(w)'
    PROVE  TypeOK' /\ Sessions'
  <1>1. TypeOK'
    <2>1. /\ pc' \in [Workers -> Labels]
          /\ draft' \in [Workers -> Draft]
          /\ owner' \in [Locks -> Workers \cup {Nobody}]
          /\ UNCHANGED <<now, orders, idem, used, alloc, ledger, trail, req, reply>>
      BY DEF Proceed, TypeOK, tables
    <2>. QED BY <2>1 DEF TypeOK
  <1>2. ASSUME NEW v \in Workers, v # w PROVE LocksFit(v)' /\ Session(v)'
    BY <1>2, ProceedOthers, UndisturbedLocks, UndisturbedSession DEF Sessions
  <1>. QED BY <1>1, <1>2 DEF Sessions

\* The end of a transaction gives back its locks and no other.
LEMMA EndOwner ==
    ASSUME TypeOK, NEW w \in Workers, EndTransaction(w)
    PROVE  /\ owner' \in [Locks -> Workers \cup {Nobody}]
           /\ draft' \in [Workers -> Draft]
           /\ draft'[w] = Blank
           /\ \A l \in Locks : ~Holds(w, l)'
           /\ \A v \in Workers : v # w =>
                 /\ draft'[v] = draft[v]
                 /\ \A l \in Locks : owner'[l] = v <=> owner[l] = v
  BY BlankType, WorkerAssumption DEF EndTransaction, TypeOK, Holds

\* A rollback, whoever asks for it, leaves everything in order.
LEMMA RollbackStep ==
    ASSUME TypeOK, Sessions, NEW w \in Workers, EndTransaction(w),
           UNCHANGED <<now, tables>>,
           pc' \in [Workers -> Labels],
           req' \in [Workers -> Requests \cup {NoRequest}],
           reply' \in [Workers -> Replies \cup {NoReply}],
           \A v \in Workers : v # w => pc'[v] = pc[v] /\ req'[v] = req[v],
           \/ pc'[w] = "idle"
           \/ req'[w] \in Requests /\ pc'[w] = "answer"
    PROVE  TypeOK' /\ Sessions'
  <1>1. TypeOK'
    BY EndOwner DEF TypeOK, tables
  <1>2. LocksFit(w)' /\ Session(w)'
    <2>1. draft'[w] = Blank /\ \A l \in Locks : ~Holds(w, l)'
      BY EndOwner
    <2>2. LocksFit(w)'
      BY <2>1, LockTypes DEF LocksFit
    <2>3. Session(w)'
      BY <2>1 DEF Session
    <2>. QED BY <2>2, <2>3
  <1>3. ASSUME NEW v \in Workers, v # w PROVE LocksFit(v)' /\ Session(v)'
    <2>1. now \in Nat
      BY DeskAssumption DEF TypeOK, Times
    <2>2. Undisturbed(v)
      BY <1>3, <2>1, EndOwner DEF Undisturbed, tables
    <2>. QED BY <2>2, UndisturbedLocks, UndisturbedSession DEF Sessions
  <1>. QED BY <1>2, <1>3, <1>1 DEF Sessions

\* A request that fails.
LEMMA FailStep ==
    ASSUME TypeOK, Sessions, NEW w \in Workers, pc[w] \in Statements,
           NEW code \in {404, 409, 500}, Fail(w, code)
    PROVE  TypeOK' /\ Sessions'
  <1>1. req[w] \in Requests
    <2>1. Session(w) /\ pc[w] # "idle"
      BY DEF Sessions, Statements
    <2>. QED BY <2>1 DEF Session
  <1>2. [code |-> code, order |-> NoRow] \in Replies
    BY DEF Replies
  <1>3. /\ pc' \in [Workers -> Labels]
        /\ reply' \in [Workers -> Replies \cup {NoReply}]
        /\ req' \in [Workers -> Requests \cup {NoRequest}]
        /\ pc'[w] = "answer"
        /\ req'[w] \in Requests
        /\ \A v \in Workers : v # w => pc'[v] = pc[v] /\ req'[v] = req[v]
        /\ EndTransaction(w)
        /\ UNCHANGED <<now, tables>>
    BY <1>1, <1>2 DEF Fail, TypeOK, Labels
  <1>. QED BY <1>3, RollbackStep

\* A worker that dies.
LEMMA AbortStep ==
    ASSUME TypeOK, Sessions, NEW w \in Workers, Abort(w)
    PROVE  TypeOK' /\ Sessions'
  <1>1. /\ pc' \in [Workers -> Labels]
        /\ reply' \in [Workers -> Replies \cup {NoReply}]
        /\ req' \in [Workers -> Requests \cup {NoRequest}]
        /\ pc'[w] = "idle"
        /\ \A v \in Workers : v # w => pc'[v] = pc[v] /\ req'[v] = req[v]
        /\ EndTransaction(w)
        /\ UNCHANGED <<now, tables>>
    BY DEF Abort, TypeOK, Labels
  <1>. QED BY <1>1, RollbackStep
----
(***************************************************************************)
(* The statements, one lemma each: a well-typed database whose             *)
(* transactions are in order stays so.                                     *)
(***************************************************************************)
\* What AtomicOrders says of the rows of one key, in the words used here.
LEMMA BookFacts ==
    ASSUME Books!IInv, NEW k \in Keys
    PROVE  /\ orders[k] = NoRow =>
                 alloc[k] = NoRow /\ ledger[k] = <<>> /\ idem[k] = NoRow
           /\ orders[k] # NoRow /\ orders[k].status = "PENDING" =>
                 alloc[k] = NoRow /\ ledger[k] = <<>> /\ idem[k] = NoRow
           /\ orders[k] # NoRow /\ Active(orders[k]) /\ alloc[k] # NoRow =>
                 ~alloc[k].released
           /\ idem[k] # NoRow => idem[k].response # NoRow
  <1>1. Books!BookAgrees(k) /\ (idem[k] # NoRow => Books!RecordComplete(k))
    BY DEF Books!IInv, Books!BooksAgree, Books!RecordsComplete
  <1>. QED BY <1>1 DEF Books!BookAgrees, Books!RecordComplete, Active

\* A statement writes only the private rows of its transaction.
LEMMA ProceedSelf ==
    ASSUME TypeOK, NEW w \in Workers, NEW next, NEW d, NEW ls,
           Proceed(w, next, d, ls)
    PROVE  /\ pc'[w] = next
           /\ draft'[w] = d
           /\ Granted(w)
           /\ UNCHANGED <<now, orders, idem, used, alloc, ledger, trail, req>>
           /\ \A p \in Products : Holds(w, ProductLock(p))'
                 <=> ProductLock(p) \in ls \/ Holds(w, ProductLock(p))
           /\ \A j \in Keys : Holds(w, IdemLock(j))'
                 <=> IdemLock(j) \in ls \/ Holds(w, IdemLock(j))
           /\ \A j \in Keys : Holds(w, OrderLock(j))'
                 <=> OrderLock(j) \in ls \/ Holds(w, OrderLock(j))
           /\ \A q \in QuotaRows : Holds(w, QuotaLock(q))'
                 <=> QuotaLock(q) \in ls \/ Holds(w, QuotaLock(q))
  <1>1. /\ pc'[w] = next
        /\ draft'[w] = d
        /\ Granted(w)
        /\ UNCHANGED <<now, orders, idem, used, alloc, ledger, trail, req>>
    BY DEF Proceed, TypeOK, tables
  <1>. QED BY <1>1, ProceedHolds, LockTypes

\* A running transaction works on a request.
LEMMA Running ==
    ASSUME TypeOK, Sessions, NEW w \in Workers, pc[w] \in Statements
    PROVE  /\ LocksFit(w)
           /\ Session(w)
           /\ req[w] \in Requests
           /\ req[w].key \in Keys
           /\ draft[w] \in Draft
  <1>1. LocksFit(w) /\ Session(w) /\ pc[w] # "idle"
    BY DEF Sessions, Statements
  <1>2. req[w] \in Requests
    BY <1>1 DEF Session
  <1>. QED BY <1>1, <1>2, RequestFields DEF TypeOK

LEMMA LockProductStep ==
    ASSUME TypeOK, Books!IInv, Sessions, NEW w \in Workers, LockProduct(w)
    PROVE  TypeOK' /\ Sessions'
  <1> DEFINE k == req[w].key
             l == ProductLock(ProductOf(w))
  <1>1. /\ pc[w] = "product"
        /\ pc[w] \in Statements
    BY DEF LockProduct, Statements
  <1>2. /\ LocksFit(w)
        /\ Session(w)
        /\ k \in Keys
        /\ draft[w] \in Draft
    BY <1>1, Running
  <1>3. CASE Fail(w, 404)
    BY <1>1, <1>3, FailStep
  <1>4. \/ req[w].op = "submit" /\ draft[w] = Blank
        \/ req[w].op = "confirm" /\ Reading(w) /\ orders[k].status = "PENDING"
    BY <1>1, <1>2 DEF Session
  <1>5. ASSUME NEW next, Proceed(w, next, draft[w], {l}),
               req[w].op = "submit" => req[w].payload.form # "unknown"
        PROVE  \A x \in {l} : x \in Locks => owner[x] \in {Nobody, w}
    BY <1>1, <1>5 DEF Proceed, Granted, Needs, Free
  <1>6. CASE /\ req[w].op = "submit"
             /\ req[w].payload.form # "unknown"
             /\ Proceed(w, "idem", draft[w], {l})
    <2>1. draft[w] = Blank
      BY <1>4, <1>6
    <2>2. /\ pc'[w] = "idem"
          /\ draft'[w] = Blank
          /\ req'[w] = req[w]
          /\ \A j \in Keys : Holds(w, IdemLock(j))' => Holds(w, IdemLock(j))
          /\ \A j \in Keys : Holds(w, OrderLock(j))' => Holds(w, OrderLock(j))
          /\ \A q \in QuotaRows : Holds(w, QuotaLock(q))' => Holds(w, QuotaLock(q))
      BY <1>6, <2>1, ProceedSelf, LocksDiffer
    <2>3. LocksFit(w)'
      BY <1>1, <1>2, <2>1, <2>2, BlankFields DEF LocksFit
    <2>4. Session(w)'
      BY <1>1, <1>2, <1>6, <2>2 DEF Session
    <2>. QED BY <1>2, <1>5, <1>6, <2>3, <2>4, ProceedStep DEF Labels, Statements
  <1>7. CASE /\ req[w].op = "confirm"
             /\ Proceed(w, AfterChecks(ProductOf(w)), draft[w], {l})
    <2> DEFINE next == AfterChecks(ProductOf(w))
    <2>1. Reading(w) /\ orders[k].status = "PENDING"
      BY <1>4, <1>7
    <2>2. /\ pc'[w] = next
          /\ draft'[w] = draft[w]
          /\ req'[w] = req[w]
          /\ UNCHANGED <<orders, used>>
          /\ \A j \in Keys : Holds(w, IdemLock(j))' => Holds(w, IdemLock(j))
          /\ \A j \in Keys : Holds(w, OrderLock(j))' <=> Holds(w, OrderLock(j))
          /\ \A q \in QuotaRows : Holds(w, QuotaLock(q))' => Holds(w, QuotaLock(q))
      BY <1>7, ProceedSelf, LocksDiffer
    <2>3. /\ draft[w].order = orders[k]
          /\ draft[w].alloc = NoRow
          /\ draft[w].ledger = <<>>
          /\ orders[k] \in OrderRow
          /\ orders[k] # NoRow
          /\ Holds(w, OrderLock(k))
      BY <1>2, <2>1, RowsOfFields, BookFacts, RowTypes DEF Reading
    <2>4. /\ next \in {"reserve", "confirm"}
          /\ next = "reserve" <=> orders[k].product \in QdiiProducts
      BY <1>7, <2>3 DEF AfterChecks, ProductOf
    <2> HIDE DEF next
    <2>5. LocksFit(w)'
      BY <1>1, <1>2, <2>2, <2>3, <2>4 DEF LocksFit
    <2>6. Deciding(w)'
      <3>1. Asked(w)' = orders[k]
        BY <2>1, <2>2, <2>3, StatusFields DEF Asked, Statuses
      <3>. QED BY <1>2, <1>7, <2>2, <2>3, <3>1 DEF Deciding
    <2>7. next = "confirm" => Reserving(w)'
      BY <2>2, <2>3, <2>4 DEF Reserving
    <2>8. Session(w)'
      BY <1>1, <1>2, <1>7, <2>1, <2>2, <2>3, <2>4, <2>6, <2>7 DEF Session
    <2>. QED BY <1>2, <1>5, <1>7, <2>4, <2>5, <2>8, ProceedStep
             DEF Labels, Statements, next
  <1>. QED BY <1>3, <1>6, <1>7 DEF LockProduct

LEMMA LockIdempotencyStep ==
    ASSUME TypeOK, Books!IInv, Sessions, NEW w \in Workers, LockIdempotency(w)
    PROVE  TypeOK' /\ Sessions'
  <1> DEFINE k == req[w].key
             p == req[w].payload
             record == IF idem[k] = NoRow
                       THEN [payload |-> p, response |-> NoRow] ELSE idem[k]
             d == [draft[w] EXCEPT !.idem = record]
             l == IdemLock(k)
  <1>1. /\ pc[w] = "idem"
        /\ pc[w] \in Statements
    BY DEF LockIdempotency, Statements
  <1>2. /\ LocksFit(w)
        /\ Session(w)
        /\ k \in Keys
        /\ req[w] \in Requests
    BY <1>1, Running
  <1>3. /\ req[w].op = "submit"
        /\ draft[w] = Blank
        /\ p \in Payloads
    BY <1>1, <1>2, RequestFields DEF Session
  <1>4. CASE Fail(w, 409)
    BY <1>1, <1>4, FailStep
  <1>5. ASSUME NEW next, Proceed(w, next, d, {l})
        PROVE  \A x \in {l} : x \in Locks => owner[x] \in {Nobody, w}
    BY <1>1, <1>5 DEF Proceed, Granted, Needs, Free
  <1>6. ASSUME NEW next \in {"commit", "cutoff"}, Proceed(w, next, d, {l}),
               d.order = NoRow, d.alloc = NoRow
        PROVE  /\ LocksFit(w)'
               /\ pc'[w] = next
               /\ draft'[w] = d
               /\ req'[w] = req[w]
               /\ idem' = idem
               /\ Holds(w, l)'
    <2>1. /\ pc'[w] = next
          /\ draft'[w] = d
          /\ req'[w] = req[w]
          /\ idem' = idem
      BY <1>6, ProceedSelf
    <2>2. /\ \A j \in Keys : Holds(w, IdemLock(j))' <=> IdemLock(j) \in {l} \/ Holds(w, IdemLock(j))
          /\ \A j \in Keys : Holds(w, OrderLock(j))' => Holds(w, OrderLock(j))
          /\ \A q \in QuotaRows : Holds(w, QuotaLock(q))' => Holds(w, QuotaLock(q))
      BY <1>6, ProceedSelf, LocksDiffer
    <2>3. \A j \in Keys : Holds(w, IdemLock(j))' => j = k
      BY <1>1, <1>2, <2>2, LocksDiffer DEF LocksFit
    <2> HIDE DEF d, record
    <2>4. LocksFit(w)'
      BY <1>1, <1>2, <1>3, <1>6, <2>1, <2>2, <2>3 DEF LocksFit
    <2>. QED BY <1>2, <2>1, <2>2, <2>4
  <1>7. CASE record.response # NoRow /\ p = record.payload /\ Proceed(w, "commit", d, {l})
    <2>1. idem[k] # NoRow /\ record = idem[k] /\ idem[k] \in IdemRow
      BY <1>2, <1>7, RowTypes
    <2>2. /\ d \in Draft
          /\ d.order = NoRow
          /\ d.alloc = NoRow
          /\ d.idem = idem[k]
      BY <1>3, <2>1, RecordKept
    <2>3. /\ LocksFit(w)'
          /\ pc'[w] = "commit"
          /\ draft'[w] = d
          /\ req'[w] = req[w]
          /\ idem' = idem
          /\ Holds(w, l)'
      BY <1>6, <1>7, <2>2
    <2>4. idem[k].payload = p
      BY <1>7, <2>1
    <2> HIDE DEF d, record
    <2>5. Replaying(w)'
      BY <1>3, <2>1, <2>2, <2>3, <2>4 DEF Replaying
    <2>6. Session(w)'
      BY <1>2, <2>3, <2>5 DEF Session
    <2>. QED BY <1>5, <1>7, <2>2, <2>3, <2>6, ProceedStep DEF Labels, Statements
  <1>8. CASE record.response = NoRow /\ Proceed(w, "cutoff", d, {l})
    <2>1. idem[k] = NoRow
      BY <1>2, <1>8, BookFacts
    <2>2. d = Claimed(p)
      BY <1>3, <2>1 DEF Claimed
    <2> HIDE DEF d, record
    <2>3. /\ LocksFit(w)'
          /\ pc'[w] = "cutoff"
          /\ draft'[w] = d
          /\ req'[w] = req[w]
          /\ idem' = idem
          /\ Holds(w, l)'
      BY <1>3, <1>6, <1>8, <2>2, ClaimedFields
    <2>4. Claiming(w)'
      BY <1>3, <2>1, <2>2, <2>3, ClaimedFields DEF Claiming
    <2>5. Session(w)'
      BY <1>2, <2>2, <2>3, <2>4 DEF Session
    <2>6. d \in Draft
      BY <1>3, <2>2, ClaimedFields
    <2>. QED BY <1>5, <1>8, <2>3, <2>5, <2>6, ProceedStep DEF Labels, Statements
  <1>. QED BY <1>4, <1>7, <1>8 DEF LockIdempotency, SamePayload

LEMMA CheckCutoffStep ==
    ASSUME TypeOK, Sessions, NEW w \in Workers, CheckCutoff(w)
    PROVE  TypeOK' /\ Sessions'
  <1> DEFINE k == req[w].key
             p == req[w].payload
  <1>1. pc[w] = "cutoff" /\ pc[w] \in Statements
    BY DEF CheckCutoff, Statements
  <1>2. /\ LocksFit(w)
        /\ Session(w)
        /\ req[w] \in Requests
        /\ draft[w] \in Draft
    BY <1>1, Running
  <1>3. Claiming(w) /\ draft[w] = Claimed(p)
    BY <1>1, <1>2 DEF Session
  <1>4. CASE Fail(w, 409)
    BY <1>1, <1>4, FailStep
  <1>5. ASSUME NEW next \in {"reject", "insert"}, Proceed(w, next, draft[w], {}),
               next = "reject" => ~BeforeCutoff(p.product, now)
        PROVE  TypeOK' /\ Sessions'
    <2>1. /\ pc'[w] = next
          /\ UNCHANGED <<req, idem, now>>
          /\ draft'[w] = draft[w]
          /\ \A j \in Keys : Holds(w, IdemLock(j))' <=> Holds(w, IdemLock(j))
          /\ \A j \in Keys : Holds(w, OrderLock(j))' <=> Holds(w, OrderLock(j))
          /\ \A q \in QuotaRows : Holds(w, QuotaLock(q))' <=> Holds(w, QuotaLock(q))
      BY <1>5, ProceedSelf
    <2>2. LocksFit(w)'
      BY <1>1, <1>2, <2>1 DEF LocksFit
    <2>3. Claiming(w)'
      BY <1>2, <1>3, <2>1, RequestFields DEF Claiming
    <2>4. now \in 0 .. now
      BY DeskAssumption DEF TypeOK, Times
    <2>5. Session(w)'
      BY <1>2, <1>3, <1>5, <2>1, <2>3, <2>4 DEF Session
    <2>. QED BY <1>2, <1>5, <2>2, <2>5, ProceedStep DEF Labels, Statements
  <1>. QED BY <1>4, <1>5 DEF CheckCutoff

\* A row that does not exist yet is locked only by the transaction that has
\* inserted it, which the unique key makes the others wait for.
LEMMA InsertFindsItFree ==
    ASSUME TypeOK, Sessions, NEW w \in Workers, Granted(w),
           pc[w] \in {"reject", "insert"}, req[w].key \in Keys,
           orders[req[w].key] = NoRow
    PROVE  owner[OrderLock(req[w].key)] = Nobody
  <1> DEFINE k == req[w].key
             l == OrderLock(k)
  <1> SUFFICES ASSUME owner[l] # Nobody PROVE FALSE
    OBVIOUS
  <1>1. l \in Locks
    BY LockTypes
  <1>2. PICK v \in Workers : owner[l] = v
    BY <1>1 DEF TypeOK
  <1>3. draft[v].order # NoRow
    BY <1>2 DEF Sessions, LocksFit, Holds
  <1>4. RewrittenByHolder(k)
    BY <1>2, <1>3 DEF RewrittenByHolder
  <1>5. Needs(w, l)
    BY <1>4 DEF Needs
  <1>. QED BY <1>1, <1>5 DEF Granted, Free

LEMMA InsertOrderStep ==
    ASSUME TypeOK, Sessions, NEW w \in Workers, InsertOrder(w)
    PROVE  TypeOK' /\ Sessions'
  <1> DEFINE k == req[w].key
             p == req[w].payload
             o == IF pc[w] = "insert"
                  THEN NewOrder(p.product, "PENDING", now, p.amount)
                  ELSE NewOrder(p.product, "REJECTED", now, 0)
             l == OrderLock(k)
  <1>1. pc[w] \in {"insert", "reject"} /\ pc[w] \in Statements
    BY DEF InsertOrder, Statements
  <1>2. /\ LocksFit(w)
        /\ Session(w)
        /\ k \in Keys
        /\ req[w] \in Requests
        /\ draft[w] \in Draft
        /\ now \in Times
        /\ now \in 0 .. now
    BY <1>1, Running, DeskAssumption DEF TypeOK, Times
  <1>3. Claiming(w) /\ draft[w] = Claimed(p)
    BY <1>1, <1>2 DEF Session
  <1>4. /\ p \in Payloads
        /\ p.product \in Products
        /\ p.amount \in Nat
        /\ req[w].op = "submit"
    BY <1>2, <1>3, RequestFields DEF Claiming
  <1>5. CASE Fail(w, 500)
    BY <1>1, <1>5, FailStep
  <1>6. /\ draft[w].idem # NoRow
        /\ draft[w].idem.payload = p
        /\ draft[w].order = NoRow
        /\ draft[w].alloc = NoRow
        /\ draft[w].ledger = <<>>
    BY <1>3, <1>4, ClaimedFields
  <1>7. ASSUME NEW next \in {"reserve", "confirm", "commit"}, NEW d \in Draft,
               Proceed(w, next, d, {l}), d.order # NoRow, d.alloc = NoRow,
               d.idem # NoRow, d.idem.payload = p,
               orders[k] = NoRow, p.form = "ok"
        PROVE  /\ LocksFit(w)'
               /\ Submitting(w)'
               /\ pc'[w] = next
               /\ draft'[w] = d
               /\ UNCHANGED <<now, req>>
               /\ \A x \in {l} : x \in Locks => owner[x] \in {Nobody, w}
    <2>1. /\ pc'[w] = next
          /\ draft'[w] = d
          /\ UNCHANGED <<now, req, idem, orders>>
          /\ Granted(w)
      BY <1>7, ProceedSelf
    <2>2. /\ \A j \in Keys : Holds(w, IdemLock(j))' <=> Holds(w, IdemLock(j))
          /\ \A j \in Keys : Holds(w, OrderLock(j))' <=> OrderLock(j) \in {l} \/ Holds(w, OrderLock(j))
          /\ \A q \in QuotaRows : Holds(w, QuotaLock(q))' => Holds(w, QuotaLock(q))
      <3>1. /\ \A j \in Keys : IdemLock(j) \notin {l}
            /\ \A q \in QuotaRows : QuotaLock(q) \notin {l}
        BY LocksDiffer
      <3>. QED BY <1>7, <3>1, ProceedSelf
    <2>3. \A j \in Keys : Holds(w, OrderLock(j))' => j = k
      BY <1>2, <2>2, LocksDiffer DEF LocksFit
    <2>4. LocksFit(w)'
      BY <1>1, <1>2, <1>4, <1>7, <2>1, <2>2, <2>3 DEF LocksFit
    <2>5. Submitting(w)'
      BY <1>2, <1>3, <1>7, <2>1, <2>2 DEF Submitting, Claiming
    <2>6. owner[l] = Nobody
      BY <1>1, <1>2, <1>7, <2>1, InsertFindsItFree
    <2>. QED BY <2>1, <2>4, <2>5, <2>6
  <1>8. CASE /\ pc[w] = "insert"
             /\ orders[k] = NoRow
             /\ p.form = "ok"
             /\ CutoffTrigger(o)
             /\ Proceed(w, AfterChecks(p.product), Inserted(draft[w], o), {l})
    <2> DEFINE next == AfterChecks(p.product)
               d == Inserted(draft[w], o)
    <2>1. /\ o \in OrderRow
          /\ o # NoRow
          /\ o.status = "PENDING"
          /\ o.product = p.product
          /\ o.received = now
          /\ WithStatus(o, "PENDING") = o
          /\ o = NewOrder(p.product, "PENDING", now, p.amount)
      BY <1>2, <1>4, <1>8, NewOrderFields DEF Statuses
    <2>2. BeforeCutoff(p.product, now)
      BY <1>8, <2>1 DEF CutoffTrigger, Active
    <2> HIDE DEF o
    <2>3. /\ d \in Draft
          /\ d.order = o
          /\ d.alloc = NoRow
          /\ d.ledger = <<>>
          /\ d.idem = draft[w].idem
      BY <1>2, <1>6, <2>1, InsertedFields
    <2>4. /\ next \in {"reserve", "confirm"}
          /\ next = "reserve" <=> p.product \in QdiiProducts
      BY DEF AfterChecks
    <2> HIDE DEF d, next
    <2>5. Proceed(w, next, d, {l})
      BY <1>8 DEF next, d
    <2>6. /\ LocksFit(w)'
          /\ Submitting(w)'
          /\ pc'[w] = next
          /\ draft'[w] = d
          /\ UNCHANGED <<now, req>>
          /\ \A x \in {l} : x \in Locks => owner[x] \in {Nobody, w}
      BY <1>6, <1>7, <1>8, <2>1, <2>3, <2>4, <2>5
    <2>7. Deciding(w)'
      <3>1. Asked(w)' = NewOrder(p.product, "PENDING", now, p.amount)
        BY <2>1, <2>3, <2>6 DEF Asked
      <3>. QED BY <1>2, <2>2, <2>6, <3>1 DEF Deciding
    <2>8. next = "confirm" => Reserving(w)'
      BY <2>1, <2>3, <2>4, <2>6 DEF Reserving
    <2>9. Session(w)'
      BY <1>2, <2>1, <2>3, <2>4, <2>6, <2>7, <2>8 DEF Session
    <2>. QED BY <2>3, <2>4, <2>5, <2>6, <2>9, ProceedStep DEF Labels, Statements
  <1>9. CASE /\ pc[w] = "reject"
             /\ orders[k] = NoRow
             /\ p.form = "ok"
             /\ Proceed(w, "commit", Finalized(Inserted(draft[w], o)), {l})
    <2> DEFINE i == Inserted(draft[w], o)
               d == Finalized(i)
    <2>1. /\ o \in OrderRow
          /\ o # NoRow
          /\ o = NewOrder(p.product, "REJECTED", now, 0)
      BY <1>2, <1>4, <1>9, NewOrderFields DEF Statuses
    <2> HIDE DEF o
    <2>2. /\ i \in Draft
          /\ i.order = o
          /\ i.alloc = NoRow
          /\ i.ledger = <<>>
          /\ i.idem = draft[w].idem
      BY <1>2, <1>6, <2>1, InsertedFields
    <2> HIDE DEF i
    <2>3. /\ d \in Draft
          /\ d.order = o
          /\ d.alloc = NoRow
          /\ d.ledger = <<>>
          /\ d.idem # NoRow
          /\ d.idem.payload = p
          /\ d.idem.response = o
      BY <1>6, <2>1, <2>2, FinalizedFields
    <2> HIDE DEF d
    <2>4. Proceed(w, "commit", d, {l})
      BY <1>9 DEF d, i
    <2>5. /\ LocksFit(w)'
          /\ Submitting(w)'
          /\ pc'[w] = "commit"
          /\ draft'[w] = d
          /\ UNCHANGED <<now, req>>
          /\ \A x \in {l} : x \in Locks => owner[x] \in {Nobody, w}
      BY <1>7, <1>9, <2>1, <2>3, <2>4
    <2>6. \E s \in 0 .. now : ~BeforeCutoff(p.product, s)
      BY <1>2, <1>9 DEF Session
    <2>7. BeingLate(w)'
      BY <1>2, <2>1, <2>3, <2>5, <2>6 DEF BeingLate, Finalizing
    <2>8. Session(w)'
      BY <1>2, <2>5, <2>7 DEF Session
    <2>. QED BY <2>3, <2>4, <2>5, <2>8, ProceedStep DEF Labels, Statements
  <1>. QED BY <1>5, <1>8, <1>9 DEF InsertOrder, ConsistencyTrigger

\* The shape of a decided transaction survives a statement that changes only
\* the status of its order.
LEMMA DecidingKept ==
    ASSUME TypeOK, NEW w \in Workers, NEW next, NEW d, NEW ls,
           Proceed(w, next, d, ls), Deciding(w), req[w] \in Requests,
           d.order # NoRow,
           WithStatus(d.order, "PENDING") = Asked(w),
           req[w].op = "submit" =>
              d.idem # NoRow /\ d.idem.payload = req[w].payload
    PROVE  Deciding(w)'
  <1> DEFINE k == req[w].key
             p == req[w].payload
  <1>1. /\ draft'[w] = d
        /\ UNCHANGED <<now, orders, idem, req>>
        /\ Holds(w, OrderLock(k)) => Holds(w, OrderLock(k))'
        /\ Holds(w, IdemLock(k)) => Holds(w, IdemLock(k))'
    BY ProceedSelf, RequestFields
  <1>2. Asked(w)' = Asked(w)
    BY <1>1 DEF Asked
  <1>3. CASE Submitting(w)
    <2>1. PICK t \in 0 .. now :
             /\ BeforeCutoff(p.product, t)
             /\ Asked(w) = NewOrder(p.product, "PENDING", t, p.amount)
      BY <1>3 DEF Deciding, Submitting, Claiming
    <2>2. Submitting(w)'
      BY <1>1, <1>3 DEF Submitting, Claiming
    <2>. QED BY <1>1, <1>2, <2>1, <2>2 DEF Deciding
  <1>4. CASE ~Submitting(w)
    BY <1>1, <1>2, <1>4 DEF Deciding
  <1>. QED BY <1>3, <1>4

\* What a deciding transaction has in its hands.
LEMMA DecidingFacts ==
    ASSUME TypeOK, NEW w \in Workers, Deciding(w)
    PROVE  /\ draft[w].order \in OrderRow
           /\ draft[w].order # NoRow
           /\ Holds(w, OrderLock(req[w].key))
           /\ req[w].op \in {"submit", "confirm"}
           /\ req[w].op = "submit" =>
                 /\ draft[w].idem # NoRow
                 /\ draft[w].idem.payload = req[w].payload
                 /\ Submitting(w)
  <1>1. draft[w] \in Draft
    BY DEF TypeOK
  <1>. QED BY <1>1, DraftFields DEF Deciding, Submitting, Claiming

\* Statements that write an order already locked and take at most a quota row
\* keep the locks in order.
LEMMA DecidedLocks ==
    ASSUME TypeOK, NEW w \in Workers, LocksFit(w), req[w] \in Requests,
           pc[w] \in {"reserve", "confirm"}, NEW next \in {"confirm", "commit"},
           NEW d, NEW ls, Proceed(w, next, d, ls),
           d.order # NoRow,
           \/ ls = {} /\ d.alloc = draft[w].alloc
           \/ /\ pc[w] = "reserve"
              /\ d.alloc # NoRow
              /\ ls = {QuotaLock(QuotaRowOf(d.alloc))}
    PROVE  LocksFit(w)'
  <1>1. /\ pc'[w] = next
        /\ draft'[w] = d
        /\ req'[w] = req[w]
    BY ProceedSelf
  <1>2. /\ \A j \in Keys : Holds(w, IdemLock(j))' => Holds(w, IdemLock(j))
        /\ \A j \in Keys : Holds(w, OrderLock(j))' => Holds(w, OrderLock(j))
    <2>1. /\ \A j \in Keys : IdemLock(j) \notin ls
          /\ \A j \in Keys : OrderLock(j) \notin ls
      BY LocksDiffer
    <2>. QED BY <2>1, ProceedSelf
  <1>3. \A q \in QuotaRows : Holds(w, QuotaLock(q))' =>
           d.alloc # NoRow /\ q = QuotaRowOf(d.alloc)
    <2>1. CASE ls = {} /\ d.alloc = draft[w].alloc
      BY <2>1, ProceedSelf DEF LocksFit
    <2>2. CASE /\ pc[w] = "reserve"
               /\ d.alloc # NoRow
               /\ ls = {QuotaLock(QuotaRowOf(d.alloc))}
      <3>1. \A q \in QuotaRows : ~Holds(w, QuotaLock(q))
        BY <2>2 DEF LocksFit
      <3>2. \A q \in QuotaRows : QuotaLock(q) \in ls => q = QuotaRowOf(d.alloc)
        BY <2>2, LocksDiffer
      <3>. QED BY <2>2, <3>1, <3>2, ProceedSelf
    <2>. QED BY <2>1, <2>2
  <1>. QED BY <1>1, <1>2, <1>3 DEF LocksFit

LEMMA ReserveQuotaStep ==
    ASSUME TypeOK, Sessions, NEW w \in Workers, ReserveQuota(w)
    PROVE  TypeOK' /\ Sessions'
  <1> DEFINE b == draft[w]
             o == draft[w].order
             a == AllocationFor(o)
             u == Updated(b, "REJECTED")
  <1>1. pc[w] = "reserve" /\ pc[w] \in Statements
    BY DEF ReserveQuota, Statements
  <1>2. /\ LocksFit(w)
        /\ Session(w)
        /\ req[w] \in Requests
        /\ b \in Draft
    BY <1>1, Running
  <1>3. /\ Deciding(w)
        /\ o.status = "PENDING"
        /\ b.ledger = <<>>
        /\ o.product \in QdiiProducts
        /\ b.alloc = NoRow
    BY <1>1, <1>2 DEF Session
  <1>4. /\ o \in OrderRow
        /\ o # NoRow
        /\ req[w].op \in {"submit", "confirm"}
        /\ req[w].op = "submit" =>
              b.idem # NoRow /\ b.idem.payload = req[w].payload
        /\ Asked(w) = o
    <2>1. /\ o \in OrderRow
          /\ o # NoRow
          /\ req[w].op \in {"submit", "confirm"}
          /\ req[w].op = "submit" =>
                b.idem # NoRow /\ b.idem.payload = req[w].payload
      BY <1>3, DecidingFacts
    <2>. QED BY <1>3, <2>1, StatusFields DEF Asked, Statuses
  <1>5. CASE Fail(w, 500)
    BY <1>1, <1>5, FailStep
  <1>6. ASSUME NEW d \in Draft, Proceed(w, "commit", d, {}),
               d.order = WithStatus(o, "REJECTED"),
               d.alloc = NoRow,
               d.ledger = <<>>,
               req[w].op = "submit" =>
                  /\ d.idem # NoRow
                  /\ d.idem.payload = req[w].payload
                  /\ d.idem.response = d.order
        PROVE  TypeOK' /\ Sessions'
    <2>1. /\ pc'[w] = "commit"
          /\ draft'[w] = d
          /\ req'[w] = req[w]
      BY <1>6, ProceedSelf
    <2>2. /\ d.order # NoRow
          /\ d.order.status = "REJECTED"
          /\ d.order.product \in QdiiProducts
          /\ WithStatus(d.order, "PENDING") = Asked(w)
      BY <1>3, <1>4, <1>6, StatusFields DEF Statuses
    <2>3. Deciding(w)'
      BY <1>2, <1>3, <1>6, <2>2, DecidingKept
    <2>4. TurningDown(w)'
      BY <1>6, <2>1, <2>2, <2>3 DEF TurningDown, Finalizing
    <2>5. Session(w)'
      BY <1>2, <2>1, <2>4 DEF Session
    <2>6. LocksFit(w)'
      BY <1>1, <1>2, <1>3, <1>6, <2>2, DecidedLocks
    <2>. QED BY <1>6, <2>5, <2>6, ProceedStep DEF Labels, Statements
  <1>7. /\ u \in Draft
        /\ u.order = WithStatus(o, "REJECTED")
        /\ u.order # NoRow
        /\ u.idem = b.idem
        /\ u.alloc = NoRow
        /\ u.ledger = <<>>
    BY <1>2, <1>3, <1>4, UpdatedFields, StatusFields DEF Statuses
  <1>8. CASE req[w].op = "submit" /\ Proceed(w, "commit", Finalized(u), {})
    <2> HIDE DEF u
    <2>1. /\ Finalized(u) \in Draft
          /\ Finalized(u).order = WithStatus(o, "REJECTED")
          /\ Finalized(u).idem # NoRow
          /\ Finalized(u).idem.payload = req[w].payload
          /\ Finalized(u).idem.response = Finalized(u).order
          /\ Finalized(u).alloc = NoRow
          /\ Finalized(u).ledger = <<>>
      BY <1>4, <1>7, <1>8, FinalizedFields
    <2>. QED BY <1>6, <1>8, <2>1
  <1>9. CASE req[w].op = "confirm" /\ Proceed(w, "commit", u, {})
    <2> HIDE DEF u
    <2>. QED BY <1>6, <1>7, <1>9
  <1>10. CASE /\ ~Refused(a)
              /\ a.amount > 0
              /\ Proceed(w, "confirm", Reserved(b), {QuotaLock(QuotaRowOf(a))})
    <2> DEFINE d == Reserved(b)
               q == QuotaRowOf(a)
    <2>1. /\ d \in Draft
          /\ d.order = o
          /\ d.idem = b.idem
          /\ d.ledger = <<>>
          /\ d.alloc = a
          /\ d.quota = used[q] + o.amount
      BY <1>2, <1>3, <1>4, ReservedFields
    <2>2. /\ a # NoRow
          /\ a.amount = o.amount
          /\ a.product = o.product
          /\ q \in QuotaRows
          /\ QuotaLock(q) \in Locks
      BY <1>4, AllocationRow, LockTypes
    <2>3. d.quota <= DailyTotal[o.product]
      <3>1. used[q] + o.amount \in Int /\ DailyTotal[o.product] \in Int
        BY <1>4, <2>2, DeskAssumption DEF TypeOK, OrderRow
      <3>. QED BY <1>10, <2>1, <2>2, <3>1 DEF Refused
    <2>4. o.amount > 0
      BY <1>10, <2>2
    <2>5. owner[QuotaLock(q)] = Nobody
      <3>1. Needs(w, QuotaLock(q))
        BY <1>1, <1>10 DEF Needs
      <3>. QED BY <1>10, <2>2, <3>1 DEF Proceed, Granted, Free
    <2> HIDE DEF d, a
    <2>6. Proceed(w, "confirm", d, {QuotaLock(q)})
      BY <1>10 DEF d
    <2>7. /\ pc'[w] = "confirm"
          /\ draft'[w] = d
          /\ req'[w] = req[w]
          /\ used' = used
          /\ owner'[QuotaLock(q)] = w
      <3>1. owner'[QuotaLock(q)] = w
        BY <2>2, <2>6 DEF Proceed
      <3>. QED BY <2>6, <3>1, ProceedSelf
    <2>8. Deciding(w)'
      BY <1>2, <1>3, <1>4, <2>1, <2>6, DecidingKept DEF Asked
    <2>9. Reserving(w)'
      BY <1>3, <2>1, <2>3, <2>4, <2>7 DEF Reserving, Holds, a
    <2>10. Session(w)'
      BY <1>2, <1>3, <2>1, <2>7, <2>8, <2>9 DEF Session
    <2>11. LocksFit(w)'
      BY <1>1, <1>2, <1>4, <2>1, <2>2, <2>6, DecidedLocks
    <2>. QED BY <2>1, <2>5, <2>6, <2>10, <2>11, ProceedStep DEF Labels, Statements
  <1>. QED BY <1>5, <1>8, <1>9, <1>10 DEF ReserveQuota

LEMMA FirstPosting == ASSUME NEW x \in Movement PROVE Append(<<>>, x) = <<x>>
  <1>1. <<>> \in Seq(Movement) /\ <<x>> \in Seq(Movement) /\ Len(<<x>>) = 1
    OBVIOUS
  <1>2. /\ Append(<<>>, x) \in Seq(Movement)
        /\ Len(Append(<<>>, x)) = 1
        /\ Append(<<>>, x)[1] = x
    BY <1>1, AppendProperties
  <1>. QED BY <1>1, <1>2, SeqEqual

LEMMA ConfirmOrderStep ==
    ASSUME TypeOK, Sessions, NEW w \in Workers, ConfirmOrder(w)
    PROVE  TypeOK' /\ Sessions'
  <1> DEFINE b == draft[w]
             o == draft[w].order
             u == Updated(b, "CONFIRMED")
             c == ConfirmPosted(u)
  <1>1. pc[w] = "confirm" /\ pc[w] \in Statements
    BY DEF ConfirmOrder, Statements
  <1>2. /\ LocksFit(w)
        /\ Session(w)
        /\ req[w] \in Requests
        /\ b \in Draft
    BY <1>1, Running
  <1>3. /\ Deciding(w)
        /\ o.status = "PENDING"
        /\ b.ledger = <<>>
        /\ Reserving(w)
    BY <1>1, <1>2 DEF Session
  <1>4. /\ o \in OrderRow
        /\ o # NoRow
        /\ req[w].op \in {"submit", "confirm"}
        /\ req[w].op = "submit" =>
              b.idem # NoRow /\ b.idem.payload = req[w].payload
        /\ Asked(w) = o
    <2>1. /\ o \in OrderRow
          /\ o # NoRow
          /\ req[w].op \in {"submit", "confirm"}
          /\ req[w].op = "submit" =>
                b.idem # NoRow /\ b.idem.payload = req[w].payload
      BY <1>3, DecidingFacts
    <2>. QED BY <1>3, <2>1, StatusFields DEF Asked, Statuses
  <1>5. CASE Fail(w, 500)
    BY <1>1, <1>5, FailStep
  <1>6. ASSUME NEW d \in Draft, Proceed(w, "commit", d, {}),
               o.amount > 0,
               d.order = WithStatus(o, "CONFIRMED"),
               d.alloc = b.alloc,
               d.quota = b.quota,
               d.ledger = <<Posting("CONFIRM", o.amount)>>,
               req[w].op = "submit" =>
                  /\ d.idem # NoRow
                  /\ d.idem.payload = req[w].payload
                  /\ d.idem.response = d.order
        PROVE  TypeOK' /\ Sessions'
    <2>1. /\ pc'[w] = "commit"
          /\ draft'[w] = d
          /\ UNCHANGED <<req, used>>
          /\ \A q \in QuotaRows : Holds(w, QuotaLock(q)) => Holds(w, QuotaLock(q))'
      BY <1>6, ProceedSelf
    <2>2. /\ d.order # NoRow
          /\ d.order.status = "CONFIRMED"
          /\ d.order.amount = o.amount
          /\ d.order.product = o.product
          /\ WithStatus(d.order, "PENDING") = Asked(w)
          /\ AllocationFor(d.order) = AllocationFor(o)
      BY <1>3, <1>4, <1>6, StatusFields DEF Statuses
    <2>3. Deciding(w)'
      BY <1>2, <1>3, <1>6, <2>2, DecidingKept
    <2>4. Reserving(w)'
      <3>1. CASE o.product \in QdiiProducts
        <4>1. QuotaRowOf(b.alloc) \in QuotaRows
          BY <1>3, <1>4, <3>1, AllocationRow DEF Reserving
        <4>2. /\ owner'[QuotaLock(QuotaRowOf(b.alloc))] = w
              /\ b.alloc = AllocationFor(o)
              /\ b.quota = used[QuotaRowOf(b.alloc)] + o.amount
              /\ b.quota <= DailyTotal[o.product]
          BY <1>3, <2>1, <3>1, <4>1 DEF Reserving, Holds
        <4> HIDE DEF b, o
        <4>. QED BY <1>6, <2>1, <2>2, <3>1, <4>2 DEF Reserving, Holds
      <3>2. CASE o.product \notin QdiiProducts
        BY <1>3, <1>6, <2>1, <2>2, <3>2 DEF Reserving
      <3>. QED BY <3>1, <3>2
    <2>5. TakingEffect(w)'
      BY <1>6, <2>1, <2>2, <2>3, <2>4 DEF TakingEffect, Finalizing
    <2>6. Session(w)'
      BY <1>2, <2>1, <2>5 DEF Session
    <2>7. LocksFit(w)'
      BY <1>1, <1>2, <1>6, <2>2, DecidedLocks
    <2>. QED BY <1>6, <2>6, <2>7, ProceedStep DEF Labels, Statements
  <1>7. /\ u \in Draft
        /\ u.order = WithStatus(o, "CONFIRMED")
        /\ u.order # NoRow
        /\ u.order.amount = o.amount
        /\ u.idem = b.idem
        /\ u.alloc = b.alloc
        /\ u.quota = b.quota
        /\ u.ledger = <<>>
    BY <1>2, <1>3, <1>4, UpdatedFields, StatusFields DEF Statuses
  <1> HIDE DEF u
  <1>8. /\ c \in Draft
        /\ c.order = WithStatus(o, "CONFIRMED")
        /\ c.order # NoRow
        /\ c.idem = b.idem
        /\ c.alloc = b.alloc
        /\ c.quota = b.quota
        /\ c.ledger = <<Posting("CONFIRM", o.amount)>>
    <2>1. Posting("CONFIRM", o.amount) \in Movement
      BY <1>4 DEF Posting, Movement, OrderRow
    <2>. QED BY <1>7, <2>1, ConfirmPostedFields, FirstPosting
  <1>9. CASE /\ o.amount > 0
             /\ req[w].op = "submit"
             /\ Proceed(w, "commit", Finalized(c), {})
    <2> HIDE DEF c
    <2>1. /\ Finalized(c) \in Draft
          /\ Finalized(c).order = WithStatus(o, "CONFIRMED")
          /\ Finalized(c).idem # NoRow
          /\ Finalized(c).idem.payload = req[w].payload
          /\ Finalized(c).idem.response = Finalized(c).order
          /\ Finalized(c).alloc = b.alloc
          /\ Finalized(c).quota = b.quota
          /\ Finalized(c).ledger = <<Posting("CONFIRM", o.amount)>>
      BY <1>4, <1>8, <1>9, FinalizedFields
    <2>. QED BY <1>6, <1>9, <2>1
  <1>10. CASE /\ o.amount > 0
              /\ req[w].op = "confirm"
              /\ Proceed(w, "commit", c, {})
    <2> HIDE DEF c
    <2>. QED BY <1>6, <1>8, <1>10
  <1>. QED BY <1>5, <1>9, <1>10 DEF ConfirmOrder, u

LEMMA LockOrderStep ==
    ASSUME TypeOK, Sessions, NEW w \in Workers, LockOrder(w)
    PROVE  TypeOK' /\ Sessions'
  <1> DEFINE k == req[w].key
             s == orders[k].status
             d == RowsOf(k)
             l == OrderLock(k)
  <1>1. pc[w] = "order" /\ pc[w] \in Statements
    BY DEF LockOrder, Statements
  <1>2. /\ LocksFit(w)
        /\ Session(w)
        /\ req[w] \in Requests
        /\ k \in Keys
        /\ d \in Draft
        /\ req[w].op \in {"confirm", "cancel"}
    <2>1. LocksFit(w) /\ Session(w) /\ req[w] \in Requests /\ k \in Keys
      BY <1>1, Running
    <2>. QED BY <1>1, <2>1, RowTypes DEF Session
  <1>3. CASE Fail(w, 404) \/ Fail(w, 409)
    BY <1>1, <1>3, FailStep
  <1>4. ASSUME orders[k] # NoRow,
               NEW next \in {"product", "cancel", "commit"},
               Proceed(w, next, d, {l}),
               next = "product" => req[w].op = "confirm" /\ s = "PENDING",
               next = "cancel" => req[w].op = "cancel" /\ Active(orders[k]),
               next = "commit" =>
                  /\ req[w].op = "confirm" => s = "CONFIRMED"
                  /\ req[w].op = "cancel" => s \in {"CANCELLED", "REJECTED"}
        PROVE  TypeOK' /\ Sessions'
    <2>1. /\ pc'[w] = next
          /\ draft'[w] = d
          /\ UNCHANGED <<req, orders, alloc, ledger, trail>>
          /\ Granted(w)
      BY <1>4, ProceedSelf
    <2>2. /\ \A j \in Keys : ~Holds(w, IdemLock(j))'
          /\ \A j \in Keys : Holds(w, OrderLock(j))' <=> OrderLock(j) \in {l}
          /\ \A q \in QuotaRows : ~Holds(w, QuotaLock(q))'
          /\ \A p \in Products : ~Holds(w, ProductLock(p))'
      <3>1. /\ \A j \in Keys : IdemLock(j) \notin {l}
            /\ \A q \in QuotaRows : QuotaLock(q) \notin {l}
            /\ \A p \in Products : ProductLock(p) \notin {l}
        BY LocksDiffer
      <3>2. /\ \A j \in Keys : ~Holds(w, IdemLock(j))
            /\ \A j \in Keys : ~Holds(w, OrderLock(j))
            /\ \A q \in QuotaRows : ~Holds(w, QuotaLock(q))
            /\ \A p \in Products : ~Holds(w, ProductLock(p))
        BY <1>1, <1>2 DEF LocksFit
      <3>. QED BY <1>4, <3>1, <3>2, ProceedSelf
    <2>3. \A j \in Keys : Holds(w, OrderLock(j))' => j = k
      BY <2>2, LocksDiffer
    <2>4. d.order = orders[k] /\ d.order # NoRow
      BY <1>4, RowsOfFields
    <2> HIDE DEF d
    <2>5. LocksFit(w)'
      BY <1>4, <2>1, <2>2, <2>3, <2>4 DEF LocksFit
    <2>6. Reading(w)'
      BY <1>2, <1>4, <2>1, <2>2 DEF Reading, RowsOf, d
    <2>7. next = "commit" => ChangingNothing(w)'
      BY <1>4, <2>1, <2>2, <2>6 DEF ChangingNothing
    <2>8. Session(w)'
      BY <1>2, <1>4, <2>1, <2>6, <2>7 DEF Session
    <2>9. owner[l] = Nobody
      <3>1. Needs(w, l)
        BY <1>1, <1>4 DEF Needs
      <3>. QED BY <1>2, <2>1, <3>1, LockTypes DEF Granted, Free
    <2>. QED BY <1>2, <1>4, <2>5, <2>8, <2>9, ProceedStep DEF Labels, Statements
  <1>5. orders[k] # NoRow => s \in Statuses
    BY <1>2, RowTypes DEF OrderRow
  <1>6. ASSUME orders[k] # NoRow
        PROVE  /\ Cancellable(s) => Active(orders[k])
               /\ s # "SETTLED" /\ ~Cancellable(s) => s \in {"CANCELLED", "REJECTED"}
               /\ Confirmable(s) => s = "PENDING"
    BY <1>5, <1>6 DEF Cancellable, Confirmable, Active, Statuses
  <1> HIDE DEF s, d, l
  <1>7. \/ Fail(w, 404)
        \/ Fail(w, 409)
        \/ /\ orders[k] # NoRow
           /\ req[w].op = "confirm"
           /\ \/ s = "CONFIRMED" /\ Proceed(w, "commit", d, {l})
              \/ s = "PENDING" /\ Proceed(w, "product", d, {l})
        \/ /\ orders[k] # NoRow
           /\ req[w].op = "cancel"
           /\ \/ Active(orders[k]) /\ Proceed(w, "cancel", d, {l})
              \/ s \in {"CANCELLED", "REJECTED"} /\ Proceed(w, "commit", d, {l})
    BY <1>6 DEF LockOrder, s, d, l
  <1>. QED BY <1>3, <1>4, <1>7

LEMMA CancelOrderStep ==
    ASSUME TypeOK, Books!IInv, Sessions, NEW w \in Workers, CancelOrder(w)
    PROVE  TypeOK' /\ Sessions'
  <1> DEFINE k == req[w].key
             b == draft[w]
             u == Updated(b, "CANCELLED")
             d == Released(u)
             next == IF OpenAllocation(b) THEN "release" ELSE "commit"
  <1>1. pc[w] = "cancel" /\ pc[w] \in Statements
    BY DEF CancelOrder, Statements
  <1>2. /\ LocksFit(w)
        /\ Session(w)
        /\ req[w] \in Requests
        /\ k \in Keys
        /\ b \in Draft
    BY <1>1, Running
  <1>3. req[w].op = "cancel" /\ Reading(w) /\ Active(orders[k])
    BY <1>1, <1>2 DEF Session
  <1>4. /\ Holds(w, OrderLock(k))
        /\ orders[k] # NoRow
        /\ orders[k] \in OrderRow
        /\ b.order = orders[k]
        /\ b.alloc = alloc[k]
        /\ b.ledger = ledger[k]
    BY <1>2, <1>3, RowsOfFields, RowTypes DEF Reading
  <1>5. OpenAllocation(b) <=> alloc[k] # NoRow
    BY <1>2, <1>3, <1>4, BookFacts DEF OpenAllocation
  <1>6. /\ u \in Draft
        /\ u.order = WithStatus(orders[k], "CANCELLED")
        /\ u.order # NoRow
        /\ u.alloc = alloc[k]
        /\ u.ledger = ledger[k]
        /\ OpenAllocation(u) <=> OpenAllocation(b)
    BY <1>2, <1>4, UpdatedFields, StatusFields DEF Statuses, OpenAllocation
  <1> HIDE DEF u
  <1>7. /\ d \in Draft
        /\ d.order = WithStatus(orders[k], "CANCELLED")
        /\ d.order # NoRow
        /\ d.ledger = ledger[k]
        /\ d.alloc = IF alloc[k] = NoRow THEN NoRow
                     ELSE [alloc[k] EXCEPT !.released = TRUE]
    BY <1>5, <1>6, ReleasedFields
  <1>8. next \in {"release", "commit"} /\ (next = "release" <=> alloc[k] # NoRow)
    BY <1>5
  <1>9. Proceed(w, next, d, {})
    BY DEF CancelOrder, u
  <1> HIDE DEF d, next
  <1>10. /\ pc'[w] = next
         /\ draft'[w] = d
         /\ UNCHANGED <<req, orders, alloc, ledger>>
         /\ \A j \in Keys : Holds(w, IdemLock(j))' <=> Holds(w, IdemLock(j))
         /\ \A j \in Keys : Holds(w, OrderLock(j))' <=> Holds(w, OrderLock(j))
         /\ \A q \in QuotaRows : Holds(w, QuotaLock(q))' <=> Holds(w, QuotaLock(q))
         /\ \A p \in Products : Holds(w, ProductLock(p))' <=> Holds(w, ProductLock(p))
    BY <1>9, ProceedSelf
  <1>11. LocksFit(w)'
    BY <1>1, <1>2, <1>7, <1>8, <1>10 DEF LocksFit
  <1>12. Cancelling(w)'
    BY <1>2, <1>3, <1>4, <1>7, <1>10 DEF Cancelling
  <1>13. next = "commit" => CancellingDone(w)'
    BY <1>7, <1>8, <1>10, <1>12 DEF CancellingDone
  <1>14. Session(w)'
    BY <1>2, <1>7, <1>8, <1>10, <1>12, <1>13 DEF Session
  <1>. QED BY <1>7, <1>8, <1>9, <1>11, <1>14, ProceedStep DEF Labels, Statements

LEMMA ReleaseQuotaStep ==
    ASSUME TypeOK, Sessions, NEW w \in Workers, ReleaseQuota(w)
    PROVE  TypeOK' /\ Sessions'
  <1> DEFINE k == req[w].key
             b == draft[w]
             d == CancelPosted(b)
             q == QuotaRowOf(b.alloc)
  <1>1. pc[w] = "release" /\ pc[w] \in Statements
    BY DEF ReleaseQuota, Statements
  <1>2. /\ LocksFit(w)
        /\ Session(w)
        /\ req[w] \in Requests
        /\ k \in Keys
        /\ b \in Draft
    BY <1>1, Running
  <1>3. Cancelling(w) /\ alloc[k] # NoRow /\ b.ledger = ledger[k]
    BY <1>1, <1>2 DEF Session
  <1>4. /\ b.alloc \in AllocRow
        /\ b.alloc # NoRow
        /\ b.order # NoRow
        /\ q \in QuotaRows
        /\ QuotaLock(q) \in Locks
    <2>1. b.alloc = [alloc[k] EXCEPT !.released = TRUE]
      BY <1>3 DEF Cancelling
    <2>2. b.alloc \in AllocRow
      BY <1>2, <1>3, <2>1, RowTypes DEF AllocRow
    <2>3. b.order # NoRow
      BY <1>2, <1>3, RowTypes, StatusFields DEF Cancelling, Statuses
    <2>. QED BY <2>2, <2>3, QuotaRowType, LockTypes, DeskAssumption
  <1>5. /\ d \in Draft
        /\ d.order = b.order
        /\ d.alloc = b.alloc
        /\ d.quota = Decremented(used[q], b.alloc.amount)
        /\ d.ledger = Append(ledger[k], Posting("CANCEL", b.alloc.amount))
    BY <1>2, <1>3, <1>4, CancelPostedFields
  <1>6. Proceed(w, "commit", d, {QuotaLock(q)})
    BY DEF ReleaseQuota
  <1> HIDE DEF d
  <1>7. /\ pc'[w] = "commit"
        /\ draft'[w] = d
        /\ UNCHANGED <<req, orders, alloc, ledger, used>>
        /\ Granted(w)
    BY <1>6, ProceedSelf
  <1>8. owner'[QuotaLock(q)] = w
    BY <1>4, <1>6 DEF Proceed
  <1>9. /\ \A j \in Keys : Holds(w, IdemLock(j))' <=> Holds(w, IdemLock(j))
        /\ \A j \in Keys : Holds(w, OrderLock(j))' <=> Holds(w, OrderLock(j))
        /\ \A p \in Products : Holds(w, ProductLock(p))' <=> Holds(w, ProductLock(p))
    <2>1. /\ \A j \in Keys : IdemLock(j) \notin {QuotaLock(q)}
          /\ \A j \in Keys : OrderLock(j) \notin {QuotaLock(q)}
          /\ \A p \in Products : ProductLock(p) \notin {QuotaLock(q)}
      BY LocksDiffer
    <2>. QED BY <1>6, <2>1, ProceedSelf
  <1>10. \A x \in QuotaRows : Holds(w, QuotaLock(x))' => x = q
    <2>1. \A x \in QuotaRows : ~Holds(w, QuotaLock(x))
      BY <1>1, <1>2 DEF LocksFit
    <2>2. \A x \in QuotaRows : QuotaLock(x) \in {QuotaLock(q)} => x = q
      BY LocksDiffer
    <2>. QED BY <1>6, <2>1, <2>2, ProceedSelf
  <1>11. LocksFit(w)'
    BY <1>1, <1>2, <1>4, <1>5, <1>7, <1>9, <1>10 DEF LocksFit
  <1>12. Cancelling(w)'
    BY <1>2, <1>3, <1>5, <1>7, <1>9 DEF Cancelling
  <1>13. CancellingDone(w)'
    <2>1. QuotaRowOf(d.alloc) = q /\ d.alloc.amount = b.alloc.amount
      BY <1>5
    <2>. QED BY <1>3, <1>5, <1>7, <1>8, <1>12, <2>1 DEF CancellingDone, Holds
  <1>14. Session(w)'
    BY <1>2, <1>7, <1>13 DEF Session
  <1>15. owner[QuotaLock(q)] = Nobody
    <2>1. Needs(w, QuotaLock(q))
      BY <1>1 DEF Needs
    <2>. QED BY <1>4, <1>7, <2>1 DEF Granted, Free
  <1>. QED BY <1>5, <1>6, <1>11, <1>14, <1>15, ProceedStep DEF Labels, Statements

\* What COMMIT publishes: the rows whose locks the transaction holds.
Published(w, table, row) ==
    IF Holds(w, OrderLock(req[w].key))
    THEN [table EXCEPT ![req[w].key] = row] ELSE table

LEMMA CommitTables ==
    ASSUME NEW w \in Workers, Commit(w)
    PROVE  /\ pc[w] = "commit"
           /\ orders' = Published(w, orders, draft[w].order)
           /\ alloc' = Published(w, alloc, draft[w].alloc)
           /\ ledger' = Published(w, ledger, draft[w].ledger)
           /\ trail' = Published(w, trail, draft[w].trail)
           /\ idem' = IF Holds(w, IdemLock(req[w].key))
                      THEN [idem EXCEPT ![req[w].key] = draft[w].idem] ELSE idem
           /\ used' = [q \in QuotaRows |-> IF Holds(w, QuotaLock(q))
                                           THEN draft[w].quota ELSE used[q]]
           /\ pc' = [pc EXCEPT ![w] = "answer"]
           /\ reply' = [reply EXCEPT ![w] = Outcome(w)]
           /\ EndTransaction(w)
           /\ UNCHANGED <<now, req>>
  BY DEF Commit, Published, Holds

\* A submission about to commit has its record.
LEMMA CommitRecord ==
    ASSUME TypeOK, Sessions, NEW w \in Workers, pc[w] = "commit",
           req[w].op = "submit"
    PROVE  draft[w].idem \in IdemRow
  <1>1. Session(w) /\ req[w].key \in Keys /\ draft[w] \in Draft
    BY Running DEF Statements
  <1>2. draft[w].idem # NoRow
    <2>1. \/ Replaying(w)
          \/ TurningDown(w)
          \/ TakingEffect(w)
          \/ BeingLate(w)
          \/ ChangingNothing(w)
          \/ CancellingDone(w)
      BY <1>1 DEF Session
    <2>2. CASE Replaying(w)
      BY <2>2 DEF Replaying
    <2>3. CASE TurningDown(w) \/ TakingEffect(w)
      BY <2>3, DecidingFacts DEF TurningDown, TakingEffect
    <2>4. CASE BeingLate(w)
      BY <2>4 DEF BeingLate, Submitting, Claiming
    <2>5. CASE ChangingNothing(w) \/ CancellingDone(w)
      BY <2>5 DEF ChangingNothing, Reading, CancellingDone, Cancelling
    <2>. QED BY <2>1, <2>2, <2>3, <2>4, <2>5
  <1>. QED BY <1>1, <1>2, DraftFields

LEMMA CommitStep ==
    ASSUME TypeOK, Sessions, NEW w \in Workers, Commit(w)
    PROVE  TypeOK' /\ Sessions'
  <1> DEFINE k == req[w].key
  <1>1. /\ req[w] \in Requests
        /\ k \in Keys
        /\ draft[w] \in Draft
    BY CommitTables, Running DEF Statements
  <1>2. Outcome(w) \in Replies
    <2>1. CASE req[w].op = "submit"
      <3>1. draft[w].idem.response \in OrderRow \cup {NoRow}
        BY <2>1, CommitRecord, CommitTables DEF IdemRow
      <3>. QED BY <2>1, <3>1 DEF Outcome, Replies
    <2>2. CASE req[w].op # "submit"
      <3>1. draft[w].order \in OrderRow \cup {NoRow}
        BY <1>1, DraftFields
      <3>. QED BY <2>2, <3>1 DEF Outcome, Replies
    <2>. QED BY <2>1, <2>2
  <1>3. TypeOK'
    <2>1. /\ draft[w].order \in OrderRow \cup {NoRow}
          /\ draft[w].idem \in IdemRow \cup {NoRow}
          /\ draft[w].alloc \in AllocRow \cup {NoRow}
          /\ draft[w].ledger \in Seq(Movement)
          /\ draft[w].trail \in Seq(Statuses)
          /\ draft[w].quota \in Nat
      BY <1>1, DraftFields
    <2>2. /\ orders' \in [Keys -> OrderRow \cup {NoRow}]
          /\ alloc' \in [Keys -> AllocRow \cup {NoRow}]
          /\ ledger' \in [Keys -> Seq(Movement)]
          /\ trail' \in [Keys -> Seq(Statuses)]
      BY <1>1, <2>1, CommitTables DEF Published, TypeOK
    <2>3. /\ idem' \in [Keys -> IdemRow \cup {NoRow}]
          /\ used' \in [QuotaRows -> Nat]
      BY <1>1, <2>1, CommitTables DEF TypeOK
    <2>4. /\ pc' \in [Workers -> Labels]
          /\ reply' \in [Workers -> Replies \cup {NoReply}]
          /\ req' \in [Workers -> Requests \cup {NoRequest}]
          /\ now' \in Times
      <3>1. /\ pc' = [pc EXCEPT ![w] = "answer"]
            /\ reply' = [reply EXCEPT ![w] = Outcome(w)]
            /\ req' = req /\ now' = now
        BY CommitTables
      <3>2. pc' \in [Workers -> Labels]
        BY <3>1 DEF TypeOK, Labels
      <3>3. reply' \in [Workers -> Replies \cup {NoReply}]
        <4> DEFINE x == Outcome(w)
        <4>1. x \in Replies /\ reply' = [reply EXCEPT ![w] = x]
          BY <1>2, <3>1
        <4> HIDE DEF x
        <4>. QED BY <4>1 DEF TypeOK
      <3>. QED BY <3>1, <3>2, <3>3 DEF TypeOK
    <2>. QED BY <2>2, <2>3, <2>4, CommitTables, EndOwner DEF TypeOK
  <1>4. LocksFit(w)' /\ Session(w)'
    <2>1. /\ draft'[w] = Blank
          /\ \A l \in Locks : ~Holds(w, l)'
          /\ pc'[w] = "answer"
          /\ req'[w] \in Requests
      BY <1>1, EndOwner, CommitTables DEF TypeOK
    <2>2. LocksFit(w)'
      BY <2>1, LockTypes DEF LocksFit
    <2>3. Session(w)'
      BY <2>1 DEF Session
    <2>. QED BY <2>2, <2>3
  <1>5. ASSUME NEW v \in Workers, v # w PROVE LocksFit(v)' /\ Session(v)'
    <2>1. /\ pc'[v] = pc[v]
          /\ req'[v] = req[v]
          /\ draft'[v] = draft[v]
          /\ now' \in Nat
          /\ now <= now'
          /\ \A l \in Locks : owner'[l] = v <=> owner[l] = v
      BY <1>5, EndOwner, CommitTables, DeskAssumption DEF TypeOK, Times
    <2>2. \A j \in Keys : Holds(v, OrderLock(j)) =>
             /\ orders'[j] = orders[j]
             /\ alloc'[j] = alloc[j]
             /\ ledger'[j] = ledger[j]
             /\ trail'[j] = trail[j]
      <3>1. \A j \in Keys : Holds(v, OrderLock(j)) => j # k \/ ~Holds(w, OrderLock(k))
        BY <1>5 DEF Holds
      <3>2. ASSUME NEW j \in Keys, j # k \/ ~Holds(w, OrderLock(k)),
                   NEW f, DOMAIN f = Keys, f = [i \in Keys |-> f[i]], NEW row
            PROVE  Published(w, f, row)[j] = f[j]
        BY <3>2 DEF Published
      <3>3. /\ orders = [i \in Keys |-> orders[i]] /\ DOMAIN orders = Keys
            /\ alloc = [i \in Keys |-> alloc[i]] /\ DOMAIN alloc = Keys
            /\ ledger = [i \in Keys |-> ledger[i]] /\ DOMAIN ledger = Keys
            /\ trail = [i \in Keys |-> trail[i]] /\ DOMAIN trail = Keys
        BY DEF TypeOK
      <3>. QED BY <3>1, <3>2, <3>3, CommitTables
    <2>3. \A j \in Keys : Holds(v, IdemLock(j)) => idem'[j] = idem[j]
      <3>1. \A j \in Keys : j # k \/ ~Holds(w, IdemLock(k)) => idem'[j] = idem[j]
        BY <1>1, CommitTables DEF TypeOK
      <3>2. \A j \in Keys : Holds(v, IdemLock(j)) => j # k \/ ~Holds(w, IdemLock(k))
        BY <1>5 DEF Holds
      <3>. QED BY <3>1, <3>2
    <2>4. \A q \in QuotaRows : Holds(v, QuotaLock(q)) => used'[q] = used[q]
      BY <1>5, CommitTables DEF Holds
    <2>5. Undisturbed(v)
      BY <2>1, <2>2, <2>3, <2>4 DEF Undisturbed
    <2>. QED BY <2>5, UndisturbedLocks, UndisturbedSession DEF Sessions
  <1>. QED BY <1>3, <1>4, <1>5 DEF Sessions

LEMMA BeginStep ==
    ASSUME TypeOK, Sessions, NEW w \in Workers, NEW r \in Requests, Begin(w, r)
    PROVE  TypeOK' /\ Sessions'
  <1> DEFINE next == IF r.op = "submit" THEN "product" ELSE "order"
  <1>1. /\ pc[w] = "idle"
        /\ pc' = [pc EXCEPT ![w] = next]
        /\ req' = [req EXCEPT ![w] = r]
        /\ UNCHANGED <<now, orders, idem, used, alloc, ledger, trail, draft, owner, reply>>
        /\ next \in {"product", "order"}
        /\ next = "product" <=> r.op = "submit"
    BY DEF Begin, tables
  <1> HIDE DEF next
  <1>2. TypeOK'
    <2>1. /\ pc' \in [Workers -> Labels]
          /\ req' \in [Workers -> Requests \cup {NoRequest}]
      BY <1>1 DEF TypeOK, Labels, Statements
    <2>. QED BY <1>1, <2>1 DEF TypeOK
  <1>3. LocksFit(w)' /\ Session(w)'
    <2>1. /\ pc'[w] = next
          /\ req'[w] = r
          /\ draft'[w] = Blank
      BY <1>1 DEF TypeOK, Sessions, Session
    <2>2. /\ \A p \in Products : ~Holds(w, ProductLock(p))
          /\ \A j \in Keys : ~Holds(w, IdemLock(j)) /\ ~Holds(w, OrderLock(j))
          /\ \A q \in QuotaRows : ~Holds(w, QuotaLock(q))
      BY <1>1 DEF Sessions, LocksFit
    <2>3. LocksFit(w)'
      BY <1>1, <2>2 DEF LocksFit, Holds
    <2>4. Session(w)'
      BY <1>1, <2>1, RequestFields DEF Session
    <2>. QED BY <2>3, <2>4
  <1>4. ASSUME NEW v \in Workers, v # w PROVE LocksFit(v)' /\ Session(v)'
    <2>1. Undisturbed(v)
      BY <1>1, <1>4, DeskAssumption DEF Undisturbed, TypeOK, Times
    <2>. QED BY <2>1, UndisturbedLocks, UndisturbedSession DEF Sessions
  <1>. QED BY <1>2, <1>3, <1>4 DEF Sessions

LEMMA AnswerStep ==
    ASSUME TypeOK, Sessions, NEW w \in Workers, Answer(w)
    PROVE  TypeOK' /\ Sessions'
  <1>1. /\ pc[w] = "answer"
        /\ pc' = [pc EXCEPT ![w] = "idle"]
        /\ req' = [req EXCEPT ![w] = NoRequest]
        /\ reply' = [reply EXCEPT ![w] = NoReply]
        /\ UNCHANGED <<now, orders, idem, used, alloc, ledger, trail, draft, owner>>
    BY DEF Answer, tables
  <1>2. TypeOK'
    <2>1. /\ pc' \in [Workers -> Labels]
          /\ req' \in [Workers -> Requests \cup {NoRequest}]
          /\ reply' \in [Workers -> Replies \cup {NoReply}]
      BY <1>1 DEF TypeOK, Labels
    <2>. QED BY <1>1, <2>1 DEF TypeOK
  <1>3. LocksFit(w)' /\ Session(w)'
    <2>1. /\ pc'[w] = "idle"
          /\ draft'[w] = Blank
      BY <1>1 DEF TypeOK, Sessions, Session
    <2>2. /\ \A p \in Products : ~Holds(w, ProductLock(p))
          /\ \A j \in Keys : ~Holds(w, IdemLock(j)) /\ ~Holds(w, OrderLock(j))
          /\ \A q \in QuotaRows : ~Holds(w, QuotaLock(q))
      BY <1>1 DEF Sessions, LocksFit
    <2>3. LocksFit(w)'
      BY <1>1, <2>2 DEF LocksFit, Holds
    <2>4. Session(w)'
      BY <2>1 DEF Session
    <2>. QED BY <2>3, <2>4
  <1>4. ASSUME NEW v \in Workers, v # w PROVE LocksFit(v)' /\ Session(v)'
    <2>1. Undisturbed(v)
      BY <1>1, <1>4, DeskAssumption DEF Undisturbed, TypeOK, Times
    <2>. QED BY <2>1, UndisturbedLocks, UndisturbedSession DEF Sessions
  <1>. QED BY <1>2, <1>3, <1>4 DEF Sessions

LEMMA TickStep == ASSUME TypeOK, Sessions, Tick PROVE TypeOK' /\ Sessions'
  <1>1. /\ now \in Nat
        /\ now' = now + 1
        /\ now' \in Times
        /\ UNCHANGED <<orders, idem, used, alloc, ledger, trail, pc, req, draft, owner, reply>>
    BY DeskAssumption DEF Tick, tables, TypeOK, Times
  <1>2. ASSUME NEW v \in Workers PROVE LocksFit(v)' /\ Session(v)'
    <2>1. Undisturbed(v)
      BY <1>1 DEF Undisturbed
    <2>. QED BY <2>1, UndisturbedLocks, UndisturbedSession DEF Sessions
  <1>. QED BY <1>1, <1>2 DEF TypeOK, Sessions

\* Every step keeps the database well-typed and its transactions in order.
LEMMA SessionsKept ==
    ASSUME TypeOK, Books!IInv, Sessions, Next
    PROVE  TypeOK' /\ Sessions'
  <1>1. ASSUME NEW w \in Workers, Step(w) PROVE TypeOK' /\ Sessions'
    BY <1>1, LockProductStep, LockIdempotencyStep, CheckCutoffStep,
       InsertOrderStep, ReserveQuotaStep, ConfirmOrderStep, LockOrderStep,
       CancelOrderStep, ReleaseQuotaStep, CommitStep, AnswerStep DEF Step
  <1>2. ASSUME NEW w \in Workers, NEW r \in Requests, Begin(w, r)
        PROVE  TypeOK' /\ Sessions'
    BY <1>2, BeginStep
  <1>3. ASSUME NEW w \in Workers, Abort(w) PROVE TypeOK' /\ Sessions'
    BY <1>3, AbortStep
  <1>4. CASE Tick
    BY <1>4, TickStep
  <1>. QED BY <1>1, <1>2, <1>3, <1>4 DEF Next
----
(***************************************************************************)
(* Refinement: COMMIT is the one step of a request that AtomicOrders sees, *)
(* and every other statement is a stutter of the committed tables.         *)
(***************************************************************************)
\* AtomicOrders and the transactions share the words of TradeDesk.
LEMMA SameWords ==
    /\ \A p, t : Books!InTime(p, t) <=> BeforeCutoff(p, t)
    /\ \A p, s, t, a : Books!NewOrder(p, s, t, a) = NewOrder(p, s, t, a)
    /\ \A o, s : Books!WithStatus(o, s) = WithStatus(o, s)
    /\ \A o : Books!AllocationFor(o) = AllocationFor(o)
    /\ \A a : Books!QuotaRowOf(a) = QuotaRowOf(a)
    /\ \A e, a : Books!Posting(e, a) = Posting(e, a)
    /\ \A n, a : Books!Decremented(n, a) = Decremented(n, a)
    /\ \A n, a : Books!Taken(n, a) = n + a.amount
    /\ \A a : Books!Fits(a) <=>
             used[QuotaRowOf(a)] + a.amount <= DailyTotal[a.product]
    /\ \A o : Books!Confirmable(o) <=> o.status = "PENDING"
    /\ \A o : Books!Cancellable(o) <=> Active(o)
  BY DEF Books!InTime, Books!BeforeCutoff, BeforeCutoff, Books!LocalTime, LocalTime,
         Books!NewOrder, NewOrder, Books!WithStatus, WithStatus,
         Books!AllocationFor, AllocationFor, Books!QuotaDay, QuotaDay,
         Books!QuotaRowOf, QuotaRowOf, Books!Posting, Posting,
         Books!Decremented, Decremented, Books!Taken, Books!Fits,
         Books!Confirmable, Books!Cancellable, Books!Active, Active

\* COMMIT publishes the rows of a transaction that holds its order's lock.
LEMMA CommitRows ==
    ASSUME TypeOK, NEW w \in Workers, Commit(w), Holds(w, OrderLock(req[w].key))
    PROVE  /\ orders' = [orders EXCEPT ![req[w].key] = draft[w].order]
           /\ alloc' = [alloc EXCEPT ![req[w].key] = draft[w].alloc]
           /\ ledger' = [ledger EXCEPT ![req[w].key] = draft[w].ledger]
           /\ UNCHANGED now
  BY CommitTables DEF Published

\* The record is published by a submission, and by nothing else.
LEMMA CommitIdem ==
    ASSUME TypeOK, NEW w \in Workers, Commit(w), LocksFit(w), req[w].key \in Keys
    PROVE  IF Holds(w, IdemLock(req[w].key))
           THEN /\ idem' = [idem EXCEPT ![req[w].key] = draft[w].idem]
                /\ req[w].op = "submit"
           ELSE UNCHANGED idem
  BY CommitTables DEF LocksFit

\* A transaction that locked a quota row publishes that one, one that locked
\* none publishes none.
LEMMA CommitUsed ==
    ASSUME TypeOK, NEW w \in Workers, Commit(w), LocksFit(w)
    PROVE  /\ (\A q \in QuotaRows : ~Holds(w, QuotaLock(q))) => UNCHANGED used
           /\ draft[w].alloc = NoRow => UNCHANGED used
           /\ \A q \in QuotaRows : Holds(w, QuotaLock(q)) =>
                 used' = [used EXCEPT ![q] = draft[w].quota]
  <1>1. used' = [q \in QuotaRows |->
                    IF Holds(w, QuotaLock(q)) THEN draft[w].quota ELSE used[q]]
    BY CommitTables
  <1>2. used = [q \in QuotaRows |-> used[q]]
    BY DEF TypeOK
  <1>3. \A q, r \in QuotaRows :
           Holds(w, QuotaLock(q)) /\ Holds(w, QuotaLock(r)) => q = r
    BY DEF LocksFit
  <1>4. draft[w].alloc = NoRow => \A q \in QuotaRows : ~Holds(w, QuotaLock(q))
    BY DEF LocksFit
  <1>5. (\A q \in QuotaRows : ~Holds(w, QuotaLock(q))) => UNCHANGED used
    BY <1>1, <1>2
  <1>6. ASSUME NEW q \in QuotaRows, Holds(w, QuotaLock(q))
        PROVE  used' = [used EXCEPT ![q] = draft[w].quota]
    BY <1>1, <1>2, <1>3, <1>6
  <1>. QED BY <1>4, <1>5, <1>6

\* The order a transaction decides about, and the row it decided on.
LEMMA AskedFields ==
    ASSUME TypeOK, NEW w \in Workers, Deciding(w)
    PROVE  /\ Asked(w) \in OrderRow
           /\ Asked(w) # NoRow
           /\ Asked(w).status = "PENDING"
           /\ Asked(w).product = draft[w].order.product
           /\ Asked(w).amount = draft[w].order.amount
           /\ AllocationFor(Asked(w)) = AllocationFor(draft[w].order)
           /\ draft[w].order = WithStatus(Asked(w), draft[w].order.status)
  <1> DEFINE o == draft[w].order
  <1>1. o \in OrderRow /\ o.status \in Statuses /\ "PENDING" \in Statuses
    BY DecidingFacts DEF OrderRow, Statuses
  <1>2. Asked(w) = WithStatus(o, "PENDING")
    BY DEF Asked
  <1> HIDE DEF o
  <1>3. WithStatus(WithStatus(o, "PENDING"), o.status) = o
    BY <1>1, StatusFields
  <1>4. /\ Asked(w) \in OrderRow
        /\ Asked(w) # NoRow
        /\ Asked(w).status = "PENDING"
        /\ Asked(w).product = o.product
        /\ Asked(w).amount = o.amount
        /\ AllocationFor(Asked(w)) = AllocationFor(o)
    BY <1>1, <1>2, StatusFields
  <1>. QED BY <1>2, <1>3, <1>4 DEF o

\* An order in effect at COMMIT takes effect for AtomicOrders.
LEMMA EffectCommitted ==
    ASSUME TypeOK, Books!IInv, Sessions, NEW w \in Workers, Commit(w),
           TakingEffect(w)
    PROVE  Books!TakeEffect(req[w].key, Asked(w))
  <1> DEFINE k == req[w].key
             d == draft[w]
             o == Asked(w)
             a == AllocationFor(o)
             q == QuotaRowOf(a)
  <1>1. /\ LocksFit(w)
        /\ k \in Keys
        /\ d \in Draft
    BY Running, CommitTables DEF Statements
  <1>2. /\ Deciding(w)
        /\ d.order.status = "CONFIRMED"
        /\ d.order.amount > 0
        /\ d.ledger = <<Posting("CONFIRM", d.order.amount)>>
        /\ Reserving(w)
    BY DEF TakingEffect
  <1>3. /\ d.order \in OrderRow
        /\ Holds(w, OrderLock(k))
    BY <1>2, DecidingFacts
  <1>4. /\ o.product = d.order.product
        /\ o.amount = d.order.amount
        /\ a = AllocationFor(d.order)
        /\ d.order = WithStatus(o, "CONFIRMED")
    BY <1>2, AskedFields
  <1>5. /\ orders' = [orders EXCEPT ![k] = WithStatus(o, "CONFIRMED")]
        /\ ledger' = [ledger EXCEPT ![k] = <<Posting("CONFIRM", o.amount)>>]
        /\ alloc' = [alloc EXCEPT ![k] = d.alloc]
    BY <1>2, <1>3, <1>4, CommitRows
  <1>6. CASE o.product \in QdiiProducts
    <2>1. /\ d.alloc = a
          /\ Holds(w, QuotaLock(q))
          /\ d.quota = used[q] + d.order.amount
          /\ d.quota <= DailyTotal[d.order.product]
      BY <1>2, <1>4, <1>6 DEF Reserving
    <2>2. /\ q \in QuotaRows
          /\ a.amount = d.order.amount
          /\ a.product = d.order.product
      BY <1>3, <1>4, AllocationRow
    <2>3. used' = [used EXCEPT ![q] = d.quota]
      BY <1>1, <2>1, <2>2, CommitUsed
    <2> HIDE DEF k, d, o, a, q
    <2>4. /\ used[q] + a.amount <= DailyTotal[a.product]
          /\ used' = [used EXCEPT ![q] = @ + a.amount]
          /\ alloc' = [alloc EXCEPT ![k] = a]
      BY <1>5, <2>1, <2>2, <2>3
    <2>. QED BY <1>2, <1>4, <1>5, <1>6, <2>4, SameWords DEF Books!TakeEffect, k, o, a, q
  <1>7. CASE o.product \notin QdiiProducts
    <2>1. d.alloc = NoRow
      BY <1>2, <1>4, <1>7 DEF Reserving
    <2>2. alloc[k] = NoRow
      <3>1. orders[k] = NoRow \/ orders[k].status = "PENDING"
        BY <1>2, AskedFields DEF Deciding, Submitting
      <3>. QED BY <1>1, <3>1, BookFacts
    <2>3. UNCHANGED <<used, alloc>>
      BY <1>1, <1>5, <2>1, <2>2, CommitUsed DEF TypeOK
    <2> HIDE DEF k, d, o, a, q
    <2>. QED BY <1>2, <1>4, <1>5, <1>7, <2>3, SameWords DEF Books!TakeEffect, k, o
  <1>. QED BY <1>6, <1>7

\* A transaction that leaves no allocation and no posting turns its order down.
LEMMA RejectionCommitted ==
    ASSUME TypeOK, Books!IInv, Sessions, NEW w \in Workers, Commit(w),
           Holds(w, OrderLock(req[w].key)),
           orders[req[w].key] = NoRow \/ orders[req[w].key].status = "PENDING",
           NEW o, draft[w].order = WithStatus(o, "REJECTED"),
           draft[w].alloc = NoRow, draft[w].ledger = <<>>
    PROVE  Books!TurnDown(req[w].key, o)
  <1> DEFINE k == req[w].key
  <1>1. LocksFit(w) /\ k \in Keys
    BY Running, CommitTables DEF Statements
  <1>2. alloc[k] = NoRow /\ ledger[k] = <<>>
    BY <1>1, BookFacts
  <1>3. UNCHANGED <<used, alloc, ledger>>
    BY <1>1, <1>2, CommitRows, CommitUsed DEF TypeOK
  <1>. QED BY <1>3, CommitRows, SameWords DEF Books!TurnDown

\* A submission that inserted its order records it as the response.
LEMMA RecordCommitted ==
    ASSUME TypeOK, Sessions, NEW w \in Workers, Commit(w),
           Submitting(w), Finalizing(w)
    PROVE  idem' = [idem EXCEPT ![req[w].key] =
                       [payload |-> req[w].payload, response |-> orders'[req[w].key]]]
  <1> DEFINE k == req[w].key
             r == draft[w].idem
  <1>1. /\ LocksFit(w)
        /\ k \in Keys
    BY Running, CommitTables DEF Statements
  <1>2. /\ req[w].op = "submit"
        /\ Holds(w, IdemLock(k))
        /\ Holds(w, OrderLock(k))
        /\ r # NoRow
        /\ r.payload = req[w].payload
        /\ r.response = draft[w].order
    BY DEF Submitting, Claiming, Finalizing
  <1>3. r \in IdemRow
    BY <1>2, CommitRecord, CommitTables
  <1>4. r = [payload |-> req[w].payload, response |-> draft[w].order]
    BY <1>2, <1>3 DEF IdemRow
  <1>5. orders'[k] = draft[w].order
    BY <1>1, <1>2, CommitRows DEF TypeOK
  <1>. QED BY <1>1, <1>2, <1>4, <1>5, CommitIdem

\* COMMIT is a submission, a confirm or a cancel of AtomicOrders, or changes no
\* committed row.
LEMMA CommitRefines ==
    ASSUME TypeOK, Books!IInv, Sessions, NEW w \in Workers, Commit(w)
    PROVE  Books!Next \/ UNCHANGED Books!vars
  <1> DEFINE k == req[w].key
             p == req[w].payload
             d == draft[w]
  <1>1. /\ LocksFit(w)
        /\ Session(w)
        /\ req[w] \in Requests
        /\ k \in Keys
        /\ d \in Draft
        /\ pc[w] = "commit"
        /\ now' = now
    BY Running, CommitTables DEF Statements
  <1>2. \/ Replaying(w)
        \/ TurningDown(w)
        \/ TakingEffect(w)
        \/ BeingLate(w)
        \/ ChangingNothing(w)
        \/ CancellingDone(w)
    BY <1>1 DEF Session
  <1>3. CASE Replaying(w)
    <2>1. /\ d.order = NoRow
          /\ d.alloc = NoRow
          /\ d.idem = idem[k]
          /\ Holds(w, IdemLock(k))
      BY <1>3 DEF Replaying
    <2>2. ~Holds(w, OrderLock(k))
      BY <1>1, <2>1 DEF LocksFit
    <2>3. UNCHANGED <<orders, alloc, ledger, idem, used>>
      BY <1>1, <2>1, <2>2, CommitTables, CommitIdem, CommitUsed DEF Published, TypeOK
    <2>. QED BY <1>1, <2>3 DEF Books!vars
  <1>4. ASSUME Deciding(w), req[w].op = "submit", Finalizing(w),
               \/ Books!TakeEffect(k, Asked(w))
               \/ d.order.product \in QdiiProducts /\ Books!TurnDown(k, Asked(w))
        PROVE  Books!Next
    <2>1. Submitting(w) /\ p \in Payloads
      BY <1>1, <1>4, DecidingFacts, RequestFields
    <2>2. /\ orders[k] = NoRow
          /\ idem[k] = NoRow
          /\ p.form = "ok"
      BY <2>1 DEF Submitting, Claiming
    <2>3. PICK t \in 0 .. now :
             /\ BeforeCutoff(p.product, t)
             /\ Asked(w) = NewOrder(p.product, "PENDING", t, p.amount)
      BY <1>4 DEF Deciding
    <2>4. idem' = [idem EXCEPT ![k] = [payload |-> p, response |-> orders'[k]]]
      BY <1>4, <2>1, RecordCommitted
    <2>5. d.order.product = p.product
      <3>1. Asked(w).product = p.product
        BY <2>3 DEF NewOrder
      <3>. QED BY <1>4, <3>1, AskedFields
    <2> HIDE DEF k, p, d
    <2>6. Books!Submit(k, p, t)
      BY <1>1, <1>4, <2>2, <2>3, <2>4, <2>5, SameWords DEF Books!Submit
    <2>. QED BY <1>1, <2>1, <2>3, <2>6 DEF Books!Next
  <1>5. ASSUME Deciding(w), req[w].op = "confirm",
               \/ Books!TakeEffect(k, Asked(w))
               \/ d.order.product \in QdiiProducts /\ Books!TurnDown(k, Asked(w))
        PROVE  Books!Next
    <2>1. orders[k] # NoRow /\ orders[k] = Asked(w)
      BY <1>5 DEF Deciding, Submitting, Claiming
    <2>2. orders[k].status = "PENDING" /\ orders[k].product = d.order.product
      BY <1>5, <2>1, AskedFields
    <2>3. UNCHANGED idem
      BY <1>1, <1>5, CommitIdem
    <2> HIDE DEF k, p, d
    <2>4. Books!Confirm(k)
      BY <1>1, <1>5, <2>1, <2>2, <2>3, SameWords DEF Books!Confirm
    <2>. QED BY <1>1, <2>4 DEF Books!Next
  <1>6. CASE TakingEffect(w)
    <2>1. Books!TakeEffect(k, Asked(w)) /\ Deciding(w) /\ Finalizing(w)
      BY <1>6, EffectCommitted DEF TakingEffect
    <2>. QED BY <1>4, <1>5, <2>1, DecidingFacts
  <1>7. CASE TurningDown(w)
    <2>1. /\ Deciding(w)
          /\ Finalizing(w)
          /\ d.order.product \in QdiiProducts
          /\ d.order.status = "REJECTED"
          /\ d.alloc = NoRow
          /\ d.ledger = <<>>
      BY <1>7 DEF TurningDown
    <2>2. orders[k] = NoRow \/ orders[k].status = "PENDING"
      BY <2>1, AskedFields DEF Deciding, Submitting
    <2>3. Books!TurnDown(k, Asked(w))
      BY <2>1, <2>2, AskedFields, DecidingFacts, RejectionCommitted
    <2>. QED BY <1>4, <1>5, <2>1, <2>3, DecidingFacts
  <1>8. CASE BeingLate(w)
    <2>1. /\ Submitting(w)
          /\ Finalizing(w)
          /\ d.alloc = NoRow
          /\ d.ledger = <<>>
      BY <1>8 DEF BeingLate
    <2>2. PICK t \in 0 .. now :
             /\ \E s \in 0 .. t : ~BeforeCutoff(p.product, s)
             /\ d.order = NewOrder(p.product, "REJECTED", t, 0)
      BY <1>8 DEF BeingLate
    <2> DEFINE o == NewOrder(p.product, "PENDING", t, p.amount)
               late == [o EXCEPT !.amount = 0]
    <2>3. /\ orders[k] = NoRow
          /\ idem[k] = NoRow
          /\ p.form = "ok"
          /\ p \in Payloads
          /\ Holds(w, OrderLock(k))
      BY <1>1, <2>1, RequestFields DEF Submitting, Claiming
    <2>4. d.order = WithStatus(late, "REJECTED")
      <3>1. /\ t \in Times
            /\ p.product \in Products
            /\ 0 \in Nat
            /\ {"PENDING", "REJECTED"} \subseteq Statuses
        BY <1>1, <2>1, DeskAssumption, RequestFields
           DEF TypeOK, Times, Submitting, Claiming, Statuses
      <3>2. late = NewOrder(p.product, "PENDING", t, 0)
        BY DEF NewOrder
      <3> HIDE DEF late, p
      <3>. QED BY <2>2, <3>1, <3>2, NewOrderFields
    <2>5. idem' = [idem EXCEPT ![k] = [payload |-> p, response |-> orders'[k]]]
      BY <2>1, RecordCommitted
    <2> HIDE DEF late
    <2>6. Books!TurnDown(k, late)
      BY <2>1, <2>3, <2>4, RejectionCommitted
    <2> HIDE DEF k, p, d
    <2>7. Books!Submit(k, p, t)
      BY <1>1, <2>2, <2>3, <2>5, <2>6, SameWords DEF Books!Submit, late
    <2>. QED BY <1>1, <2>2, <2>3, <2>7 DEF Books!Next
  <1>9. CASE ChangingNothing(w)
    <2>1. /\ Reading(w)
          /\ \A q \in QuotaRows : ~Holds(w, QuotaLock(q))
      BY <1>9 DEF ChangingNothing
    <2>2. /\ Holds(w, OrderLock(k))
          /\ req[w].op # "submit"
          /\ d.order = orders[k]
          /\ d.alloc = alloc[k]
          /\ d.ledger = ledger[k]
      BY <2>1, RowsOfFields DEF Reading
    <2>3. UNCHANGED <<orders, alloc, ledger, idem, used>>
      BY <1>1, <2>1, <2>2, CommitRows, CommitIdem, CommitUsed DEF TypeOK
    <2>. QED BY <1>1, <2>3 DEF Books!vars
  <1>10. CASE CancellingDone(w)
    <2>1. /\ req[w].op = "cancel"
          /\ Holds(w, OrderLock(k))
          /\ orders[k] # NoRow
          /\ Active(orders[k])
          /\ d.order = WithStatus(orders[k], "CANCELLED")
          /\ d.alloc = IF alloc[k] = NoRow THEN NoRow
                       ELSE [alloc[k] EXCEPT !.released = TRUE]
      BY <1>10 DEF CancellingDone, Cancelling
    <2>2. UNCHANGED <<now, idem>>
      BY <1>1, <2>1, CommitIdem
    <2>3. orders' = [orders EXCEPT ![k] = WithStatus(@, "CANCELLED")]
      BY <1>1, <2>1, CommitRows
    <2>4. CASE alloc[k] = NoRow
      <3>1. d.ledger = ledger[k]
        BY <1>10, <2>4 DEF CancellingDone
      <3>2. UNCHANGED <<used, alloc, ledger>>
        BY <1>1, <2>1, <2>4, <3>1, CommitRows, CommitUsed DEF TypeOK
      <3> HIDE DEF k, d
      <3>3. Books!Cancel(k)
        BY <2>1, <2>2, <2>3, <2>4, <3>2, SameWords DEF Books!Cancel
      <3>. QED BY <1>1, <3>3 DEF Books!Next
    <2>5. CASE alloc[k] # NoRow
      <3> DEFINE a == alloc[k]
                 q == QuotaRowOf(a)
      <3>1. a \in AllocRow
        BY <1>1, <2>5, RowTypes
      <3>2. /\ d.alloc = [a EXCEPT !.released = TRUE]
            /\ QuotaRowOf(d.alloc) = q
            /\ d.alloc.amount = a.amount
            /\ q \in QuotaRows
        BY <2>1, <2>5, <3>1, QuotaRowType DEF AllocRow, QuotaRowOf
      <3>3. /\ Holds(w, QuotaLock(q))
            /\ d.quota = Decremented(used[q], a.amount)
            /\ d.ledger = Append(ledger[k], Posting("CANCEL", a.amount))
        BY <1>10, <2>5, <3>2 DEF CancellingDone
      <3>4. /\ used' = [used EXCEPT ![q] = d.quota]
            /\ alloc' = [alloc EXCEPT ![k] = d.alloc]
            /\ ledger' = [ledger EXCEPT ![k] = d.ledger]
        BY <1>1, <2>1, <3>2, <3>3, CommitRows, CommitUsed
      <3> HIDE DEF q, d, k
      <3>5. /\ used' = [used EXCEPT ![q] = Decremented(@, a.amount)]
            /\ alloc' = [alloc EXCEPT ![k].released = TRUE]
            /\ ledger' = [ledger EXCEPT ![k] = Append(@, Posting("CANCEL", a.amount))]
        BY <3>2, <3>3, <3>4
      <3>6. Books!Cancel(k)
        BY <2>1, <2>2, <2>3, <2>5, <3>5, SameWords DEF Books!Cancel, q
      <3>. QED BY <1>1, <3>6 DEF Books!Next
    <2>. QED BY <2>4, <2>5
  <1>. QED BY <1>2, <1>3, <1>6, <1>7, <1>8, <1>9, <1>10

\* No statement before COMMIT writes a committed row.
LEMMA StatementsStutter ==
    ASSUME NEW w \in Workers,
           Step(w) \/ Abort(w) \/ (\E r \in Requests : Begin(w, r)),
           ~Commit(w)
    PROVE  UNCHANGED <<now, tables>>
  <1>1. \A next, d, ls : Proceed(w, next, d, ls) => UNCHANGED <<now, tables>>
    BY DEF Proceed
  <1>2. \A code : Fail(w, code) => UNCHANGED <<now, tables>>
    BY DEF Fail
  <1>3. \/ LockProduct(w)
        \/ LockIdempotency(w)
        \/ CheckCutoff(w)
        \/ InsertOrder(w)
        => UNCHANGED <<now, tables>>
    BY <1>1, <1>2 DEF LockProduct, LockIdempotency, CheckCutoff, InsertOrder
  <1>4. \/ ReserveQuota(w)
        \/ ConfirmOrder(w)
        \/ LockOrder(w)
        \/ CancelOrder(w)
        \/ ReleaseQuota(w)
        => UNCHANGED <<now, tables>>
    BY <1>1, <1>2 DEF ReserveQuota, ConfirmOrder, LockOrder, CancelOrder, ReleaseQuota
  <1>5. \/ Answer(w)
        \/ Abort(w)
        \/ \E r \in Requests : Begin(w, r)
        => UNCHANGED <<now, tables>>
    BY DEF Answer, Abort, Begin
  <1>. QED BY <1>3, <1>4, <1>5 DEF Step

\* Every step is a step of AtomicOrders or leaves what it sees alone.
LEMMA NextRefines ==
    ASSUME IInv, [Next]_vars
    PROVE  [Books!Next]_(Books!vars)
  <1>1. TypeOK /\ Books!IInv /\ Sessions
    BY DEF IInv
  <1>2. UNCHANGED <<now, tables>> => UNCHANGED Books!vars
    BY DEF tables, Books!vars
  <1>3. ASSUME NEW w \in Workers,
               Step(w) \/ Abort(w) \/ (\E r \in Requests : Begin(w, r))
        PROVE  [Books!Next]_(Books!vars)
    <2>1. CASE Commit(w)
      BY <1>1, <2>1, CommitRefines
    <2>2. CASE ~Commit(w)
      BY <1>2, <1>3, <2>2, StatementsStutter
    <2>. QED BY <2>1, <2>2
  <1>4. CASE Tick
    <2>1. Books!Tick
      BY <1>4 DEF Tick, Books!Tick, tables
    <2>. QED BY <2>1 DEF Books!Next
  <1>5. CASE UNCHANGED vars
    BY <1>2, <1>5 DEF vars
  <1>. QED BY <1>3, <1>4, <1>5 DEF Next

LEMMA InitRefines == Init => Books!Init
  <1>1. Books!QuotaRows = QuotaRows
    BY DEF Books!QuotaRows, QuotaRows, Books!Days, Days, Books!Times, Times,
           Books!QuotaDay, QuotaDay
  <1>. QED BY <1>1 DEF Init, Books!Init

\* At the start nobody holds a lock or has a request.
LEMMA InitIInv == Init => IInv
  <1> SUFFICES ASSUME Init PROVE IInv
    OBVIOUS
  <1>1. Books!IInv
    BY DeskHolds, Books!InitInv, InitRefines
  <1>2. TypeOK
    <2>1. /\ now \in Times
          /\ orders \in [Keys -> OrderRow \cup {NoRow}]
          /\ idem \in [Keys -> IdemRow \cup {NoRow}]
          /\ used \in [QuotaRows -> Nat]
          /\ alloc \in [Keys -> AllocRow \cup {NoRow}]
      BY DeskAssumption DEF Init, Times
    <2>2. ledger \in [Keys -> Seq(Movement)]
      <3>1. <<>> \in Seq(Movement)
        OBVIOUS
      <3>. QED BY <3>1 DEF Init
    <2>3. trail \in [Keys -> Seq(Statuses)]
      <3>1. <<>> \in Seq(Statuses) /\ \A s \in Statuses : <<s>> \in Seq(Statuses)
        OBVIOUS
      <3>2. \A k \in Keys : orders[k] # NoRow => orders[k].status \in Statuses
        BY <2>1 DEF OrderRow
      <3>. QED BY <3>1, <3>2 DEF Init
    <2>4. /\ pc \in [Workers -> Labels]
          /\ req \in [Workers -> Requests \cup {NoRequest}]
          /\ draft \in [Workers -> Draft]
          /\ owner \in [Locks -> Workers \cup {Nobody}]
          /\ reply \in [Workers -> Replies \cup {NoReply}]
      BY BlankType DEF Init, Labels
    <2>. QED BY <2>1, <2>2, <2>3, <2>4 DEF TypeOK
  <1>3. ASSUME NEW w \in Workers PROVE LocksFit(w) /\ Session(w)
    <2>1. \A l \in Locks : ~Holds(w, l)
      BY WorkerAssumption DEF Init, Holds
    <2>2. LocksFit(w)
      BY <2>1, LockTypes DEF LocksFit
    <2>3. Session(w)
      BY DEF Init, Session
    <2>. QED BY <2>2, <2>3
  <1>. QED BY <1>1, <1>2, <1>3 DEF IInv, Sessions

\* A stutter keeps what the transactions know.
LEMMA StutterStep ==
    ASSUME TypeOK, Sessions, UNCHANGED vars PROVE TypeOK' /\ Sessions'
  <1>1. UNCHANGED <<now, orders, idem, used, alloc, ledger, trail, pc, req, draft,
                    owner, reply>>
    BY DEF vars, tables
  <1>2. ASSUME NEW v \in Workers PROVE LocksFit(v)' /\ Session(v)'
    <2>1. Undisturbed(v)
      BY <1>1, DeskAssumption DEF Undisturbed, TypeOK, Times
    <2>. QED BY <2>1, UndisturbedLocks, UndisturbedSession DEF Sessions
  <1>. QED BY <1>1, <1>2 DEF TypeOK, Sessions

LEMMA NextIInv == IInv /\ [Next]_vars => IInv'
  <1> SUFFICES ASSUME IInv, [Next]_vars PROVE IInv'
    OBVIOUS
  <1>1. TypeOK /\ Books!IInv /\ Sessions
    BY DEF IInv
  <1>2. Books!IInv'
    BY <1>1, NextRefines, DeskHolds, Books!NextInv
  <1>3. TypeOK' /\ Sessions'
    BY <1>1, SessionsKept, StutterStep
  <1>. QED BY <1>2, <1>3 DEF IInv

\* What a transaction knows of the rows it has locked is always true.
THEOREM Invariance == Spec => []IInv
  BY InitIInv, NextIInv, PTL DEF Spec

\* Every table holds rows of its shape and every worker a well-formed session,
\* whatever the requests interleave.
THEOREM TypeCorrect == Spec => []TypeOK
  <1>1. IInv => TypeOK
    BY DEF IInv
  <1>. QED BY <1>1, Invariance, PTL
----
(***************************************************************************)
(* The refinement, and what AtomicOrdersProofs shows through it.           *)
(***************************************************************************)
\* The two instances of AtomicOrders say the same of a step.
LEMMA SameSteps ==
    /\ Books!Init <=> Atomic!Init
    /\ Books!Next <=> Atomic!Next
    /\ Books!vars = Atomic!vars
    /\ Books!vars' = Atomic!vars'
  <1> USE DEF Books!InTime, Books!BeforeCutoff, Books!LocalTime,
              Books!NewOrder, Books!WithStatus, Books!AllocationFor, Books!QuotaDay,
              Books!QuotaRowOf, Books!Posting, Books!Decremented, Books!Taken,
              Books!Fits, Books!Confirmable, Books!Cancellable, Books!Active,
              Atomic!InTime, Atomic!BeforeCutoff, Atomic!LocalTime,
              Atomic!NewOrder, Atomic!WithStatus, Atomic!AllocationFor, Atomic!QuotaDay,
              Atomic!QuotaRowOf, Atomic!Posting, Atomic!Decremented, Atomic!Taken,
              Atomic!Fits, Atomic!Confirmable, Atomic!Cancellable, Atomic!Active
  <1>1. \A k, o : Books!TakeEffect(k, o) <=> Atomic!TakeEffect(k, o)
    BY DEF Books!TakeEffect, Atomic!TakeEffect
  <1>2. \A k, o : Books!TurnDown(k, o) <=> Atomic!TurnDown(k, o)
    BY DEF Books!TurnDown, Atomic!TurnDown
  <1>3. \A k, p, t : Books!Submit(k, p, t) <=> Atomic!Submit(k, p, t)
    BY <1>1, <1>2 DEF Books!Submit, Atomic!Submit
  <1>4. \A k : Books!Confirm(k) <=> Atomic!Confirm(k)
    BY <1>1, <1>2 DEF Books!Confirm, Atomic!Confirm
  <1>5. \A k : Books!Cancel(k) <=> Atomic!Cancel(k)
    BY DEF Books!Cancel, Atomic!Cancel
  <1>6. Books!Next <=> Atomic!Next
    BY <1>3, <1>4, <1>5 DEF Books!Next, Atomic!Next, Books!Tick, Atomic!Tick
  <1>7. Books!Init <=> Atomic!Init
    BY DEF Books!Init, Atomic!Init, Books!QuotaRows, Atomic!QuotaRows,
           Books!Days, Atomic!Days, Books!Times, Atomic!Times
  <1>8. Books!vars = Atomic!vars /\ Books!vars' = Atomic!vars'
    BY DEF Books!vars, Atomic!vars
  <1>. QED BY <1>6, <1>7, <1>8

\* Seen through the committed tables, every request - whatever statements of
\* other requests run between its own, wherever its worker dies - takes effect
\* as one submission, confirm or cancel at its COMMIT, or not at all.
THEOREM RequestsAtomic == Spec => RequestsAreAtomic
  <1>1. Init => Atomic!Init
    BY InitRefines, SameSteps
  <1>2. IInv /\ [Next]_vars => [Atomic!Next]_(Atomic!vars)
    BY NextRefines, SameSteps
  <1>. QED BY <1>1, <1>2, Invariance, PTL DEF Spec, RequestsAreAtomic, Atomic!Spec

\* The books of every order agree - order, allocation and postings - in every
\* state other transactions can see.
THEOREM BooksAlwaysAgree == Spec => []BooksAgree
  <1>1. IInv => BooksAgree
    BY DEF IInv, Books!IInv, BooksAgree, Atomic!BooksAgree, Books!BooksAgree,
           Atomic!BookAgrees, Books!BookAgrees, Atomic!Posting, Books!Posting,
           Atomic!QuotaDay, Books!QuotaDay
  <1>. QED BY <1>1, Invariance, PTL

\* No transaction ever sees an idempotency record without its response or its
\* order, and what a record says stands.
THEOREM RecordsAlwaysComplete == Spec => []RecordsComplete
  <1>1. IInv => RecordsComplete
    BY DEF IInv, Books!IInv, RecordsComplete, Atomic!RecordsComplete,
           Books!RecordsComplete, Atomic!RecordComplete, Books!RecordComplete,
           Atomic!WithStatus, Books!WithStatus
  <1>. QED BY <1>1, Invariance, PTL

\* A live order was received before its cutoff, whenever the clock moved
\* between the check and the insert.
THEOREM CutoffAlwaysKept == Spec => []ActiveOrdersBeatCutoff
  <1>1. IInv => ActiveOrdersBeatCutoff
    BY DEF IInv, Books!IInv, ActiveOrdersBeatCutoff, Atomic!ActiveOrdersBeatCutoff,
           Books!ActiveOrdersBeatCutoff, Atomic!BeatCutoff, Books!BeatCutoff,
           Atomic!Active, Books!Active, Atomic!BeforeCutoff, Books!BeforeCutoff,
           Atomic!LocalTime, Books!LocalTime
  <1>. QED BY <1>1, Invariance, PTL

\* However many submissions, confirms and cancels race for a day's quota, it is
\* never over-issued.
THEOREM QuotaNeverExceeded == Spec => []QuotaNeverOverIssued
  <1>1. IInv => QuotaNeverOverIssued
    BY DEF IInv, Books!IInv, QuotaNeverOverIssued, Atomic!QuotaNeverOverIssued,
           Books!QuotaNeverOverIssued, Atomic!QuotaRows, Books!QuotaRows,
           Atomic!Days, Books!Days, Atomic!Times, Books!Times,
           Atomic!QuotaDay, Books!QuotaDay, Atomic!QuotaTotal, Books!QuotaTotal
  <1>. QED BY <1>1, Invariance, PTL

\* What was answered and what an order is for never changes, terminal states
\* are terminal, and nobody sees a submitted order PENDING.
THEOREM HistoryAlwaysKept == Spec => HistoryIsKept
  <1>1. ASSUME IInv, [Next]_vars
        PROVE  [Atomic!KeepHistory]_(Atomic!vars)
    <2>1. Books!Next => Books!KeepHistory
      <3>1. Books!IInv
        BY <1>1 DEF IInv
      <3>. QED BY <3>1, DeskHolds, Books!StepHistory DEF Books!KeepHistory
    <2>2. Books!KeepHistory => Atomic!KeepHistory
      BY DEF Books!KeepHistory, Atomic!KeepHistory, Books!KeyHistoryKept,
             Atomic!KeyHistoryKept, Books!WithStatus, Atomic!WithStatus,
             Books!Follows, Atomic!Follows
    <2>. QED BY <1>1, <2>1, <2>2, NextRefines, SameSteps
  <1>. QED BY <1>1, Invariance, PTL DEF Spec, HistoryIsKept, Atomic!HistoryIsKept

\* used_quota is what is allocated and not released, in every state other
\* transactions can see, whatever requests race for the row or die on it.
THEOREM QuotaAlwaysMatches == Spec => []QuotaMatchesAllocations
  <1>1. Init => Books!Accounts
    BY InitRefines, DeskHolds, Books!InitAccounts
  <1>2. IInv /\ Books!Accounts /\ [Next]_vars => Books!Accounts'
    BY NextRefines, DeskHolds, Books!AccountsKept DEF IInv
  <1>3. Books!Accounts => QuotaMatchesAllocations
    <2>1. Books!QuotaRows = Atomic!QuotaRows
      BY DEF Atomic!QuotaRows, Books!QuotaRows, Atomic!Days, Books!Days,
             Atomic!Times, Books!Times, Atomic!QuotaDay, Books!QuotaDay
    <2>2. \A q : Books!OpenKeys(q) = Atomic!OpenKeys(q)
      BY DEF Books!OpenKeys, Atomic!OpenKeys, Books!QuotaRowOf, Atomic!QuotaRowOf
    <2>. QED BY <2>1, <2>2
             DEF Books!Accounts, Books!AmountOf, QuotaMatchesAllocations,
                 Atomic!QuotaMatchesAllocations, Books!MapThenSumSet,
                 Books!MapThenFoldSet, Atomic!MapThenSumSet, Atomic!MapThenFoldSet
  <1>. QED BY <1>1, <1>2, <1>3, Invariance, PTL DEF Spec
----
(***************************************************************************)
(* Waiting.  A transaction only waits for one that is further on: the rank *)
(* of its statement is the place of the row it asks for in the order the   *)
(* locks are taken in, with an order row placed before the products for    *)
(* the requests that lock it first and after them for the submissions that *)
(* find it taken.                                                          *)
(***************************************************************************)
Rank(w) ==
    CASE pc[w] = "order" -> 1
      [] pc[w] = "product" -> 2
      [] pc[w] = "idem" -> 3
      [] pc[w] \in {"reject", "insert"} -> 4
      [] pc[w] \in {"reserve", "release"} -> 5
      [] OTHER -> 6

LEMMA RankOf ==
    ASSUME NEW w
    PROVE  /\ Rank(w) \in 1 .. 6
           /\ pc[w] = "order" => Rank(w) = 1
           /\ pc[w] = "product" => Rank(w) = 2
           /\ pc[w] = "idem" => Rank(w) = 3
           /\ pc[w] \in {"reject", "insert"} => Rank(w) = 4
           /\ pc[w] \in {"reserve", "release"} => Rank(w) = 5
           /\ pc[w] \in {"cutoff", "confirm", "cancel", "commit", "idle", "answer"} =>
                 Rank(w) = 6
  <1>1. CASE pc[w] \in {"order", "product", "idem", "reject", "insert", "reserve", "release"}
    BY <1>1 DEF Rank
  <1>2. CASE pc[w] \notin {"order", "product", "idem", "reject", "insert", "reserve", "release"}
    BY <1>2 DEF Rank
  <1>. QED BY <1>1, <1>2

\* The row behind a lock.
LEMMA LockRows ==
    /\ \A p : ProductLock(p) \in Locks => p \in Products
    /\ \A k : IdemLock(k) \in Locks => k \in Keys
    /\ \A k : OrderLock(k) \in Locks => k \in Keys
    /\ \A q : QuotaLock(q) \in Locks => q \in QuotaRows
  BY DEF Locks, ProductLock, IdemLock, OrderLock, QuotaLock

\* A transaction waits for one of a higher rank.
LEMMA WaitsForHigherRank ==
    ASSUME IInv, NEW v \in Workers, NEW w \in Workers, WaitsFor(v, w)
    PROVE  Rank(v) < Rank(w)
  <1> DEFINE k == req[v].key
  <1>1. PICK l \in Locks : Needs(v, l) /\ Holds(w, l)
    BY DEF WaitsFor, Holds
  <1>2. LocksFit(w) /\ Session(w)
    BY DEF IInv, Sessions
  <1>3. CASE pc[v] = "product" /\ l = ProductLock(ProductOf(v))
    <2>1. pc[w] \in {"idem", "cutoff", "reject", "insert", "reserve", "confirm", "commit"}
      BY <1>1, <1>2, <1>3, LockRows DEF LocksFit
    <2>. QED BY <1>3, <2>1, RankOf
  <1>4. CASE pc[v] = "idem" /\ l = IdemLock(k)
    <2>1. pc[w] \in {"cutoff", "reject", "insert", "reserve", "confirm", "commit"}
      BY <1>1, <1>2, <1>4, LockRows DEF LocksFit
    <2>. QED BY <1>4, <2>1, RankOf
  <1>5. CASE pc[v] = "order" /\ l = OrderLock(k)
    <2>1. pc[w] \in {"product", "reserve", "confirm", "cancel", "release", "commit"}
      BY <1>1, <1>2, <1>5, LockRows DEF LocksFit
    <2>. QED BY <1>5, <2>1, RankOf
  <1>6. CASE pc[v] \in {"reject", "insert"} /\ RewrittenByHolder(k) /\ l = OrderLock(k)
    <2>1. draft[w].order # orders[k]
      BY <1>1, <1>6 DEF RewrittenByHolder, Holds
    <2>2. /\ pc[w] \in {"product", "reserve", "confirm", "cancel", "release", "commit"}
          /\ k = req[w].key
          /\ draft[w].order # NoRow
      BY <1>1, <1>2, <1>6, LockRows DEF LocksFit
    <2>3. pc[w] # "product"
      <3> SUFFICES ASSUME pc[w] = "product" PROVE FALSE
        OBVIOUS
      <3>1. draft[w] = Blank \/ Reading(w)
        BY <1>2 DEF Session
      <3>. QED BY <2>1, <2>2, <3>1, BlankFields, RowsOfFields DEF Reading
    <2>. QED BY <1>6, <2>2, <2>3, RankOf
  <1>7. ASSUME NEW q, pc[v] \in {"reserve", "release"}, l = QuotaLock(q)
        PROVE  Rank(v) < Rank(w)
    <2>1. pc[w] \in {"confirm", "commit"}
      BY <1>1, <1>2, <1>7, LockRows DEF LocksFit
    <2>. QED BY <1>7, <2>1, RankOf
  <1>. QED BY <1>1, <1>3, <1>4, <1>5, <1>6, <1>7 DEF Needs

\* Whatever rows the requests share, some transaction of every group waits for
\* none of the group: no deadlock, though confirm locks order before product
\* and submit product before order.
THEOREM NeverDeadlocked == Spec => []NoWaitCycle
  <1>1. ASSUME IInv PROVE NoWaitCycle
    <2> SUFFICES ASSUME NEW ws \in (SUBSET Workers) \ {{}}
                 PROVE  \E v \in ws : \A w \in ws : ~WaitsFor(v, w)
      BY DEF NoWaitCycle
    <2>1. \A v \in ws : Rank(v) \in 1 .. 6
      BY RankOf
    <2> HIDE DEF Rank
    <2>2. \E v \in ws : \A w \in ws : Rank(w) <= Rank(v)
      <3> DEFINE Top(n) == \E v \in ws : Rank(v) = n
      <3>1. CASE Top(6)
        BY <2>1, <3>1
      <3>2. CASE ~Top(6) /\ Top(5)
        BY <2>1, <3>2
      <3>3. CASE ~Top(6) /\ ~Top(5) /\ Top(4)
        BY <2>1, <3>3
      <3>4. CASE ~Top(6) /\ ~Top(5) /\ ~Top(4) /\ Top(3)
        BY <2>1, <3>4
      <3>5. CASE ~Top(6) /\ ~Top(5) /\ ~Top(4) /\ ~Top(3)
        BY <2>1, <3>5
      <3>. QED BY <3>1, <3>2, <3>3, <3>4, <3>5
    <2>. QED BY <1>1, <2>1, <2>2, WaitsForHigherRank
  <1>. QED BY <1>1, Invariance, PTL
====
