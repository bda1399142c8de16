---- MODULE AtomicOrdersProofs ----
(***************************************************************************)
(* Proofs about AtomicOrders for every set of products, keys, payloads and *)
(* seeded orders.                                                          *)
(***************************************************************************)
EXTENDS AtomicOrders, RowSums, SequenceTheorems, TLAPS

\* An allocation made for an order row is a row of its table.
LEMMA AllocationForType ==
    ASSUME NEW o \in OrderRow
    PROVE  /\ AllocationFor(o) \in AllocRow
           /\ QuotaRowOf(AllocationFor(o)) \in QuotaRows
  BY DEF OrderRow, AllocationFor, AllocRow, QuotaRowOf, QuotaRows, Days

\* The quota row of an allocation is a row of its table.
LEMMA QuotaRowType == ASSUME NEW a \in AllocRow PROVE QuotaRowOf(a) \in QuotaRows
  BY DEF AllocRow, QuotaRowOf, QuotaRows

\* Changing the status of an order row gives an order row.
LEMMA WithStatusType ==
    ASSUME NEW o \in OrderRow, NEW s \in Statuses
    PROVE  WithStatus(o, s) \in OrderRow
  BY DEF OrderRow, WithStatus

\* TakeEffect keeps every table well-typed.
LEMMA TakeEffectType ==
    ASSUME TypeOK, NEW k \in Keys, NEW o \in OrderRow, TakeEffect(k, o)
    PROVE  /\ orders' \in [Keys -> OrderRow \cup {NoRow}]
           /\ used' \in [QuotaRows -> Nat]
           /\ alloc' \in [Keys -> AllocRow \cup {NoRow}]
           /\ ledger' \in [Keys -> Seq(Movement)]
  <1>1. orders' \in [Keys -> OrderRow \cup {NoRow}]
    BY WithStatusType DEF TakeEffect, TypeOK, Statuses
  <1>2. ledger' \in [Keys -> Seq(Movement)]
    <2>1. Posting("CONFIRM", o.amount) \in Movement
      BY DEF Posting, Movement, OrderRow
    <2>. QED BY <2>1 DEF TakeEffect, TypeOK
  <1>3. CASE o.product \in QdiiProducts
    <2>1. AllocationFor(o) \in AllocRow /\ QuotaRowOf(AllocationFor(o)) \in QuotaRows
      BY AllocationForType
    <2>2. Taken(used[QuotaRowOf(AllocationFor(o))], AllocationFor(o)) \in Nat
      BY <2>1 DEF Taken, TypeOK, AllocRow
    <2>. QED BY <1>1, <1>2, <1>3, <2>1, <2>2 DEF TakeEffect, TypeOK
  <1>4. CASE o.product \notin QdiiProducts
    BY <1>1, <1>2, <1>4 DEF TakeEffect, TypeOK
  <1>. QED BY <1>3, <1>4

\* The row a submission inserts is an order row.
LEMMA NewOrderType ==
    ASSUME NEW p \in Payloads, NEW t \in Times, NEW s \in Statuses, NEW a \in Nat
    PROVE  NewOrder(p.product, s, t, a) \in OrderRow
  BY DeskAssumption DEF NewOrder, OrderRow, Payload

\* Cancelling keeps every table well-typed.
LEMMA CancelType == ASSUME TypeOK, NEW k \in Keys, Cancel(k) PROVE TypeOK'
  <1>1. orders[k] \in OrderRow
    BY DEF TypeOK, Cancel
  <1>2. orders' \in [Keys -> OrderRow \cup {NoRow}]
    BY <1>1, WithStatusType DEF Cancel, TypeOK, Statuses
  <1>3. CASE alloc[k] = NoRow
    BY <1>2, <1>3 DEF Cancel, TypeOK
  <1>4. CASE alloc[k] # NoRow
    <2>1. alloc[k] \in AllocRow
      BY <1>4 DEF TypeOK
    <2>2. [alloc[k] EXCEPT !.released = TRUE] \in AllocRow
      BY <2>1 DEF AllocRow
    <2>3. /\ QuotaRowOf(alloc[k]) \in QuotaRows
          /\ Decremented(used[QuotaRowOf(alloc[k])], alloc[k].amount) \in Nat
      BY <2>1, QuotaRowType DEF Decremented, TypeOK, AllocRow
    <2>4. Posting("CANCEL", alloc[k].amount) \in Movement
      BY <2>1 DEF Posting, Movement, AllocRow
    <2>5. used' \in [QuotaRows -> Nat]
      BY <1>4, <2>3 DEF Cancel, TypeOK
    <2>6. alloc' \in [Keys -> AllocRow \cup {NoRow}]
      BY <1>4, <2>2 DEF Cancel, TypeOK
    <2>7. ledger' \in [Keys -> Seq(Movement)]
      <3>1. Append(ledger[k], Posting("CANCEL", alloc[k].amount)) \in Seq(Movement)
        BY <2>4 DEF TypeOK
      <3>. QED BY <1>4, <3>1 DEF Cancel, TypeOK
    <2>. QED BY <1>2, <2>5, <2>6, <2>7 DEF Cancel, TypeOK
  <1>. QED BY <1>3, <1>4

\* Confirming keeps every table well-typed.
LEMMA ConfirmType == ASSUME TypeOK, NEW k \in Keys, Confirm(k) PROVE TypeOK'
  <1>1. orders[k] \in OrderRow
    BY DEF TypeOK, Confirm
  <1>2. CASE TakeEffect(k, orders[k])
    BY <1>1, <1>2, TakeEffectType DEF Confirm, TypeOK
  <1>3. CASE TurnDown(k, orders[k])
    BY <1>1, <1>3, WithStatusType DEF TurnDown, Confirm, TypeOK, Statuses
  <1>. QED BY <1>2, <1>3 DEF Confirm

\* Submitting keeps every table well-typed.
LEMMA SubmitType ==
    ASSUME TypeOK, NEW k \in Keys, NEW p \in Payloads, NEW t \in 0 .. now,
           Submit(k, p, t)
    PROVE  TypeOK'
  <1> DEFINE o == NewOrder(p.product, "PENDING", t, p.amount)
  <1> DEFINE late == [o EXCEPT !.amount = 0]
  <1>1. t \in Times
    BY DeskAssumption DEF TypeOK, Times
  <1>2. o \in OrderRow
    BY <1>1, NewOrderType, DeskAssumption DEF Statuses, Payload
  <1>3. late \in OrderRow
    BY <1>2 DEF OrderRow
  <1>4. \/ TakeEffect(k, o)
        \/ TurnDown(k, o)
        \/ TurnDown(k, late)
    BY DEF Submit
  <1>5. ASSUME NEW x \in OrderRow, TurnDown(k, x)
        PROVE  /\ orders' \in [Keys -> OrderRow \cup {NoRow}]
               /\ UNCHANGED <<used, alloc, ledger>>
    BY <1>5, WithStatusType DEF TurnDown, TypeOK, Statuses
  <1>6. /\ orders' \in [Keys -> OrderRow \cup {NoRow}]
        /\ used' \in [QuotaRows -> Nat]
        /\ alloc' \in [Keys -> AllocRow \cup {NoRow}]
        /\ ledger' \in [Keys -> Seq(Movement)]
    BY <1>2, <1>3, <1>4, <1>5, TakeEffectType DEF TypeOK
  <1>7. [payload |-> p, response |-> orders'[k]] \in IdemRow
    BY <1>6 DEF IdemRow
  <1>. QED BY <1>6, <1>7 DEF Submit, TypeOK

\* Type correctness: the tables only ever hold rows of their shape.
THEOREM TypeCorrect == Spec => []TypeOK
  <1>1. Init => TypeOK
    BY DeskAssumption DEF Init, TypeOK, Times
  <1>2. TypeOK /\ [Next]_vars => TypeOK'
    <2> SUFFICES ASSUME TypeOK, [Next]_vars PROVE TypeOK'
      OBVIOUS
    <2>1. ASSUME NEW k \in Keys, NEW p \in Payloads, NEW t \in 0 .. now,
                 Submit(k, p, t)
          PROVE  TypeOK'
      BY <2>1, SubmitType
    <2>2. ASSUME NEW k \in Keys, Confirm(k) PROVE TypeOK'
      BY <2>2, ConfirmType
    <2>3. ASSUME NEW k \in Keys, Cancel(k) PROVE TypeOK'
      BY <2>3, CancelType
    <2>4. CASE Tick
      BY <2>4, DeskAssumption DEF Tick, TypeOK, Times
    <2>5. CASE UNCHANGED vars
      BY <2>5 DEF vars, TypeOK
    <2>. QED BY <2>1, <2>2, <2>3, <2>4, <2>5 DEF Next
  <1>. QED BY <1>1, <1>2, PTL DEF Spec
----
(***************************************************************************)
(* The safety invariants are inductive together: a rejected record stays   *)
(* rejected because BooksAgree and RecordsComplete keep PENDING orders     *)
(* without postings and without a record.                                  *)
(***************************************************************************)
IInv ==
    /\ TypeOK
    /\ BooksAgree
    /\ RecordsComplete
    /\ ActiveOrdersBeatCutoff
    /\ QuotaNeverOverIssued

\* What the four invariants say of one key.
KeyInv(k) ==
    /\ BookAgrees(k)
    /\ idem[k] # NoRow => RecordComplete(k)
    /\ BeatCutoff(k)

\* A step that writes the rows of one key keeps the facts of every other key.
LEMMA OtherKeys ==
    ASSUME IInv, NEW k \in Keys, NEW j \in Keys, j # k,
           orders' = [orders EXCEPT ![k] = orders'[k]],
           idem' = [idem EXCEPT ![k] = idem'[k]],
           alloc' = [alloc EXCEPT ![k] = alloc'[k]],
           ledger' = [ledger EXCEPT ![k] = ledger'[k]]
    PROVE  KeyInv(j)'
  <1>1. /\ orders'[j] = orders[j]
        /\ idem'[j] = idem[j]
        /\ alloc'[j] = alloc[j]
        /\ ledger'[j] = ledger[j]
    BY DEF IInv, TypeOK
  <1>2. KeyInv(j)
    BY DEF IInv, BooksAgree, RecordsComplete, ActiveOrdersBeatCutoff, KeyInv
  <1>. QED BY <1>1, <1>2 DEF KeyInv, BookAgrees, RecordComplete, BeatCutoff

\* An order that takes effect has the books of a confirmed order.
LEMMA TakeEffectBooks ==
    ASSUME TypeOK, NEW k \in Keys, NEW o \in OrderRow, TakeEffect(k, o),
           alloc[k] = NoRow
    PROVE  /\ BookAgrees(k)'
           /\ orders'[k] = WithStatus(o, "CONFIRMED")
           /\ ledger'[k] # <<>>
  <1>1. /\ orders'[k] = WithStatus(o, "CONFIRMED")
        /\ ledger'[k] = <<Posting("CONFIRM", o.amount)>>
    BY DEF TakeEffect, TypeOK
  <1>2. WithStatus(o, "CONFIRMED") \in OrderRow
    BY WithStatusType DEF Statuses
  <1>3. CASE o.product \in QdiiProducts
    <2>1. alloc'[k] = AllocationFor(o)
      BY <1>3 DEF TakeEffect, TypeOK
    <2>2. AllocationFor(o) # NoRow
      BY AllocationForType, DeskAssumption
    <2> DEFINE c == WithStatus(o, "CONFIRMED")
    <2>3. /\ c # NoRow
          /\ c.product = o.product
          /\ c.amount = o.amount
          /\ c.status = "CONFIRMED"
          /\ c.received = o.received
      BY <1>2, DeskAssumption DEF WithStatus, OrderRow
    <2>4. /\ AllocationFor(o).product = o.product
          /\ AllocationFor(o).day = QuotaDay(o.received)
          /\ AllocationFor(o).amount = o.amount
          /\ AllocationFor(o).released = FALSE
      BY DEF AllocationFor
    <2> HIDE DEF c
    <2>5. BookAgrees(k)'
      BY <1>1, <1>3, <2>1, <2>2, <2>3, <2>4 DEF BookAgrees, c
    <2>. QED BY <1>1, <2>5
  <1>4. CASE o.product \notin QdiiProducts
    <2>1. alloc'[k] = NoRow
      BY <1>4 DEF TakeEffect
    <2>. QED BY <1>1, <1>2, <1>4, <2>1, DeskAssumption
             DEF BookAgrees, WithStatus, OrderRow
  <1>. QED BY <1>3, <1>4

\* TakeEffect writes the rows of its key only.
LEMMA TakeEffectFrame ==
    ASSUME TypeOK, NEW k \in Keys, NEW o, TakeEffect(k, o)
    PROVE  /\ orders' = [orders EXCEPT ![k] = orders'[k]]
           /\ alloc' = [alloc EXCEPT ![k] = alloc'[k]]
           /\ ledger' = [ledger EXCEPT ![k] = ledger'[k]]
  BY DEF TakeEffect, TypeOK

\* Quota taken fits; quota given back only makes room.
LEMMA TakeEffectQuota ==
    ASSUME TypeOK, QuotaNeverOverIssued,
           NEW k \in Keys, NEW o \in OrderRow, TakeEffect(k, o)
    PROVE  QuotaNeverOverIssued'
  <1>1. CASE o.product \in QdiiProducts
    <2> DEFINE a == AllocationFor(o)
    <2>1. used' = [used EXCEPT ![QuotaRowOf(a)] = Taken(@, a)]
      BY <1>1 DEF TakeEffect
    <2>2. used[QuotaRowOf(a)] + a.amount <= DailyTotal[a.product]
      BY <1>1 DEF TakeEffect, Fits
    <2>3. /\ QuotaRowOf(a) \in QuotaRows
          /\ QuotaTotal(QuotaRowOf(a)) = DailyTotal[a.product]
      BY AllocationForType DEF QuotaTotal, QuotaRowOf
    <2> HIDE DEF a
    <2>. QED BY <2>1, <2>2, <2>3 DEF QuotaNeverOverIssued, Taken, TypeOK, QuotaTotal
  <1>2. CASE o.product \notin QdiiProducts
    BY <1>2 DEF TakeEffect, QuotaNeverOverIssued, QuotaTotal
  <1>. QED BY <1>1, <1>2

\* A key without an order has no allocation, no posting and no record.
LEMMA NoOrderNoTrace ==
    ASSUME IInv, NEW k \in Keys, orders[k] = NoRow
    PROVE  alloc[k] = NoRow /\ ledger[k] = <<>> /\ idem[k] = NoRow
  BY DEF IInv, BooksAgree, BookAgrees, RecordsComplete, RecordComplete

\* A pending order has no allocation, no posting and no record.
LEMMA PendingNoTrace ==
    ASSUME IInv, NEW k \in Keys, orders[k] # NoRow, orders[k].status = "PENDING"
    PROVE  alloc[k] = NoRow /\ ledger[k] = <<>> /\ idem[k] = NoRow
  BY DEF IInv, BooksAgree, BookAgrees, RecordsComplete, RecordComplete

\* An order turned down has the books of an order that never took effect.
LEMMA TurnDownBooks ==
    ASSUME TypeOK, NEW k \in Keys, NEW o \in OrderRow, TurnDown(k, o),
           alloc[k] = NoRow, ledger[k] = <<>>
    PROVE  /\ BookAgrees(k)'
           /\ BeatCutoff(k)'
           /\ orders'[k] = WithStatus(o, "REJECTED")
           /\ ledger'[k] = <<>>
           /\ QuotaNeverOverIssued <=> QuotaNeverOverIssued'
           /\ orders' = [orders EXCEPT ![k] = orders'[k]]
  <1>1. /\ orders'[k] = WithStatus(o, "REJECTED")
        /\ orders' = [orders EXCEPT ![k] = orders'[k]]
        /\ UNCHANGED <<used, alloc, ledger>>
    BY DEF TurnDown, TypeOK
  <1>2. WithStatus(o, "REJECTED").status = "REJECTED"
    BY DEF WithStatus, OrderRow
  <1>. QED BY <1>1, <1>2
           DEF BookAgrees, BeatCutoff, Active, QuotaNeverOverIssued, QuotaTotal

\* Changing the status leaves what the order is for.
LEMMA WithStatusFields ==
    ASSUME NEW o \in OrderRow, NEW s \in Statuses
    PROVE  /\ WithStatus(o, s).status = s
           /\ WithStatus(o, s).product = o.product
           /\ WithStatus(o, s).received = o.received
           /\ WithStatus(o, s).amount = o.amount
           /\ WithStatus(o, s) # NoRow
           /\ \A r \in Statuses : WithStatus(WithStatus(o, s), r) = WithStatus(o, r)
  BY WithStatusType, DeskAssumption DEF OrderRow, WithStatus

\* A row with its own status is itself.
LEMMA WithOwnStatus ==
    ASSUME NEW o \in OrderRow PROVE WithStatus(o, o.status) = o
  BY DEF OrderRow, WithStatus

\* A submission leaves the books of its key in order and its record complete.
LEMMA SubmitInv ==
    ASSUME IInv, NEW k \in Keys, NEW p \in Payloads, NEW t \in 0 .. now,
           Submit(k, p, t)
    PROVE  IInv'
  <1> DEFINE o == NewOrder(p.product, "PENDING", t, p.amount)
  <1> DEFINE late == NewOrder(p.product, "PENDING", t, 0)
  <1>1. TypeOK /\ TypeOK'
    BY SubmitType DEF IInv
  <1>2. t \in Times
    BY <1>1, DeskAssumption DEF TypeOK, Times
  <1>3. /\ o \in OrderRow
        /\ late \in OrderRow
        /\ late = [o EXCEPT !.amount = 0]
    BY <1>2, NewOrderType, DeskAssumption DEF Statuses, Payload, NewOrder
  <1>4. /\ o.product = p.product
        /\ o.received = t
        /\ late.product = p.product
    BY DEF NewOrder
  <1>5. /\ orders[k] = NoRow
        /\ alloc[k] = NoRow
        /\ ledger[k] = <<>>
        /\ idem[k] = NoRow
    BY NoOrderNoTrace DEF Submit
  <1>6. /\ idem' = [idem EXCEPT ![k] = idem'[k]]
        /\ idem'[k] = [payload |-> p, response |-> orders'[k]]
    BY <1>1 DEF Submit, TypeOK
  <1>7. \/ TakeEffect(k, o) /\ BeforeCutoff(p.product, t)
        \/ TurnDown(k, o)
        \/ TurnDown(k, late)
    BY <1>3 DEF Submit, InTime
  <1> HIDE DEF o, late
  <1>8. CASE TakeEffect(k, o) /\ BeforeCutoff(p.product, t)
    <2>1. /\ BookAgrees(k)'
          /\ orders'[k] = WithStatus(o, "CONFIRMED")
          /\ ledger'[k] # <<>>
      BY <1>1, <1>3, <1>5, <1>8, TakeEffectBooks
    <2>2. /\ WithStatus(o, "CONFIRMED").status = "CONFIRMED"
          /\ WithStatus(o, "CONFIRMED").product = p.product
          /\ WithStatus(o, "CONFIRMED").received = t
          /\ WithStatus(o, "CONFIRMED") # NoRow
          /\ WithStatus(WithStatus(o, "CONFIRMED"), "CONFIRMED")
                = WithStatus(o, "CONFIRMED")
      BY <1>3, <1>4, WithStatusFields DEF Statuses
    <2>3. KeyInv(k)'
      BY <1>6, <1>8, <2>1, <2>2 DEF KeyInv, RecordComplete, BeatCutoff
    <2>4. QuotaNeverOverIssued'
      BY <1>1, <1>3, <1>8, TakeEffectQuota DEF IInv
    <2>5. \A j \in Keys : j # k => KeyInv(j)'
      <3>1. /\ orders' = [orders EXCEPT ![k] = orders'[k]]
            /\ alloc' = [alloc EXCEPT ![k] = alloc'[k]]
            /\ ledger' = [ledger EXCEPT ![k] = ledger'[k]]
        BY <1>1, <1>8, TakeEffectFrame
      <3>. QED BY <1>6, <3>1, OtherKeys
    <2>. QED BY <1>1, <2>3, <2>4, <2>5
             DEF IInv, KeyInv, BooksAgree, RecordsComplete, ActiveOrdersBeatCutoff
  <1>9. ASSUME NEW x \in OrderRow, x.product = p.product, TurnDown(k, x)
        PROVE  IInv'
    <2>1. /\ BookAgrees(k)'
          /\ BeatCutoff(k)'
          /\ orders'[k] = WithStatus(x, "REJECTED")
          /\ ledger'[k] = <<>>
          /\ QuotaNeverOverIssued'
          /\ orders' = [orders EXCEPT ![k] = orders'[k]]
      BY <1>1, <1>5, <1>9, TurnDownBooks DEF IInv
    <2>2. /\ WithStatus(x, "REJECTED").status = "REJECTED"
          /\ WithStatus(x, "REJECTED").product = p.product
          /\ WithStatus(x, "REJECTED") # NoRow
          /\ WithStatus(WithStatus(x, "REJECTED"), "REJECTED")
                = WithStatus(x, "REJECTED")
      BY <1>9, WithStatusFields DEF Statuses
    <2>3. KeyInv(k)'
      BY <1>6, <2>1, <2>2 DEF KeyInv, RecordComplete
    <2>4. alloc' = [alloc EXCEPT ![k] = alloc'[k]] /\ ledger' = [ledger EXCEPT ![k] = ledger'[k]]
      BY <1>1, <1>9 DEF TurnDown, TypeOK
    <2>5. \A j \in Keys : j # k => KeyInv(j)'
      BY <1>6, <2>1, <2>4, OtherKeys
    <2>. QED BY <1>1, <2>1, <2>3, <2>5
             DEF IInv, KeyInv, BooksAgree, RecordsComplete, ActiveOrdersBeatCutoff
  <1>. QED BY <1>3, <1>4, <1>7, <1>8, <1>9

\* A confirmation only meets an order nothing has been recorded for.
LEMMA ConfirmInv == ASSUME IInv, NEW k \in Keys, Confirm(k) PROVE IInv'
  <1> DEFINE o == orders[k]
  <1>1. TypeOK /\ TypeOK'
    BY ConfirmType DEF IInv
  <1>2. /\ o \in OrderRow
        /\ o.status = "PENDING"
        /\ alloc[k] = NoRow
        /\ ledger[k] = <<>>
        /\ idem[k] = NoRow
    BY <1>1, PendingNoTrace DEF Confirm, Confirmable, TypeOK
  <1>3. UNCHANGED idem
    BY DEF Confirm
  <1>4. CASE TakeEffect(k, o)
    <2>1. /\ BookAgrees(k)'
          /\ orders'[k] = WithStatus(o, "CONFIRMED")
      BY <1>1, <1>2, <1>4, TakeEffectBooks
    <2>2. BeforeCutoff(o.product, o.received)
      BY <1>2, DeskAssumption DEF IInv, ActiveOrdersBeatCutoff, BeatCutoff, Active
    <2>3. KeyInv(k)'
      BY <1>2, <1>3, <2>1, <2>2, WithStatusFields DEF KeyInv, BeatCutoff, Statuses
    <2>4. QuotaNeverOverIssued'
      BY <1>1, <1>2, <1>4, TakeEffectQuota DEF IInv
    <2>5. \A j \in Keys : j # k => KeyInv(j)'
      <3>1. idem' = [idem EXCEPT ![k] = idem'[k]]
        BY <1>1, <1>3 DEF TypeOK
      <3>2. /\ orders' = [orders EXCEPT ![k] = orders'[k]]
            /\ alloc' = [alloc EXCEPT ![k] = alloc'[k]]
            /\ ledger' = [ledger EXCEPT ![k] = ledger'[k]]
        BY <1>1, <1>4, TakeEffectFrame
      <3>. QED BY <3>1, <3>2, OtherKeys
    <2>. QED BY <1>1, <2>3, <2>4, <2>5
             DEF IInv, KeyInv, BooksAgree, RecordsComplete, ActiveOrdersBeatCutoff
  <1>5. CASE TurnDown(k, o)
    <2>1. /\ BookAgrees(k)'
          /\ BeatCutoff(k)'
          /\ QuotaNeverOverIssued'
          /\ orders' = [orders EXCEPT ![k] = orders'[k]]
      BY <1>1, <1>2, <1>5, TurnDownBooks DEF IInv
    <2>2. KeyInv(k)'
      BY <1>2, <1>3, <2>1 DEF KeyInv
    <2>3. \A j \in Keys : j # k => KeyInv(j)'
      <3>1. /\ alloc' = [alloc EXCEPT ![k] = alloc'[k]]
            /\ ledger' = [ledger EXCEPT ![k] = ledger'[k]]
            /\ idem' = [idem EXCEPT ![k] = idem'[k]]
        BY <1>1, <1>3, <1>5 DEF TurnDown, TypeOK
      <3>. QED BY <2>1, <3>1, OtherKeys
    <2>. QED BY <1>1, <2>1, <2>2, <2>3
             DEF IInv, KeyInv, BooksAgree, RecordsComplete, ActiveOrdersBeatCutoff
  <1>. QED BY <1>4, <1>5 DEF Confirm

\* The ledger of an order that held quota ends with its reversal.
LEMMA SecondPosting ==
    ASSUME NEW x \in Movement, NEW y \in Movement
    PROVE  Append(<<x>>, y) = <<x, y>>
  <1>1. /\ <<x>> \in Seq(Movement) /\ Len(<<x>>) = 1
        /\ <<x, y>> \in Seq(Movement) /\ Len(<<x, y>>) = 2
    OBVIOUS
  <1>2. Append(<<x>>, y) \in Seq(Movement) /\ Len(Append(<<x>>, y)) = 2
    BY <1>1, AppendProperties
  <1>3. \A i \in 1 .. 2 : Append(<<x>>, y)[i] = <<x, y>>[i]
    BY <1>1, AppendProperties
  <1>. QED BY <1>1, <1>2, <1>3, SeqEqual

\* A cancel finds its allocation open, and releases and reverses it once.
LEMMA CancelInv == ASSUME IInv, NEW k \in Keys, Cancel(k) PROVE IInv'
  <1> DEFINE o == orders[k]
  <1> DEFINE c == WithStatus(o, "CANCELLED")
  <1>1. TypeOK /\ TypeOK'
    BY CancelType DEF IInv
  <1>2. /\ o \in OrderRow
        /\ o.status \in {"PENDING", "CONFIRMED"}
        /\ UNCHANGED idem
        /\ orders' = [orders EXCEPT ![k] = c]
        /\ orders'[k] = c
    BY <1>1 DEF Cancel, Cancellable, Active, TypeOK
  <1>3. /\ c # NoRow
        /\ c.status = "CANCELLED"
        /\ c.product = o.product
        /\ c.received = o.received
        /\ c.amount = o.amount
        /\ \A r \in Statuses : WithStatus(c, r) = WithStatus(o, r)
    BY <1>2, WithStatusFields DEF Statuses
  <1> HIDE DEF c
  <1>4. BeatCutoff(k)'
    BY <1>2, <1>3 DEF BeatCutoff, Active
  <1>5. idem[k] # NoRow => RecordComplete(k)
    BY DEF IInv, RecordsComplete
  <1>6. CASE alloc[k] = NoRow
    <2>1. UNCHANGED <<used, alloc, ledger>>
      BY <1>6 DEF Cancel
    <2>2. ledger[k] # <<>> =>
             /\ o.product \notin QdiiProducts
             /\ ledger[k] = <<Posting("CONFIRM", o.amount)>>
      BY <1>6 DEF IInv, BooksAgree, BookAgrees
    <2>3. BookAgrees(k)'
      BY <1>2, <1>3, <1>6, <2>1, <2>2 DEF BookAgrees
    <2>4. (idem[k] # NoRow => RecordComplete(k))'
      BY <1>2, <1>3, <1>5, <2>1 DEF RecordComplete, Statuses
    <2>5. \A j \in Keys : j # k => KeyInv(j)'
      BY <1>1, <1>2, <2>1, OtherKeys DEF TypeOK
    <2>. QED BY <1>1, <1>4, <2>1, <2>3, <2>4, <2>5
             DEF IInv, KeyInv, BooksAgree, RecordsComplete,
                 ActiveOrdersBeatCutoff, QuotaNeverOverIssued, QuotaTotal
  <1>7. CASE alloc[k] # NoRow
    <2> DEFINE a == alloc[k]
    <2>1. /\ a \in AllocRow
          /\ ~a.released
          /\ o.product \in QdiiProducts
          /\ a.product = o.product
          /\ a.day = QuotaDay(o.received)
          /\ a.amount = o.amount
          /\ ledger[k] = <<Posting("CONFIRM", o.amount)>>
      BY <1>1, <1>2, <1>7 DEF IInv, BooksAgree, BookAgrees, TypeOK, AllocRow
    <2>2. /\ alloc' = [alloc EXCEPT ![k] = [a EXCEPT !.released = TRUE]]
          /\ ledger' = [ledger EXCEPT ![k] =
                            Append(@, Posting("CANCEL", a.amount))]
          /\ used' = [used EXCEPT ![QuotaRowOf(a)] = Decremented(@, a.amount)]
      BY <1>7 DEF Cancel
    <2>3. /\ alloc'[k] = [a EXCEPT !.released = TRUE]
          /\ ledger'[k] =
                <<Posting("CONFIRM", o.amount), Posting("CANCEL", a.amount)>>
      <3>1. alloc'[k] = [a EXCEPT !.released = TRUE]
        BY <1>1, <2>2 DEF TypeOK
      <3>2. ledger'[k] = Append(ledger[k], Posting("CANCEL", a.amount))
        BY <1>1, <2>2 DEF TypeOK
      <3>3. Posting("CONFIRM", o.amount) \in Movement /\ Posting("CANCEL", a.amount) \in Movement
        BY <1>2, <2>1 DEF Posting, Movement, OrderRow, AllocRow
      <3>. QED BY <2>1, <3>1, <3>2, <3>3, SecondPosting
    <2>4. /\ alloc'[k] # NoRow
          /\ alloc'[k].released = TRUE
          /\ alloc'[k].product = o.product
          /\ alloc'[k].day = QuotaDay(o.received)
          /\ alloc'[k].amount = o.amount
      <3>1. [a EXCEPT !.released = TRUE] \in AllocRow
        BY <2>1 DEF AllocRow
      <3>. QED BY <2>1, <2>3, <3>1, DeskAssumption DEF AllocRow
    <2>5. BookAgrees(k)'
      BY <1>2, <1>3, <2>1, <2>3, <2>4 DEF BookAgrees
    <2>6. (idem[k] # NoRow => RecordComplete(k))'
      BY <1>2, <1>3, <1>5, <2>1, <2>3 DEF RecordComplete, Statuses
    <2>7. \A j \in Keys : j # k => KeyInv(j)'
      <3>1. /\ alloc' = [alloc EXCEPT ![k] = alloc'[k]]
            /\ ledger' = [ledger EXCEPT ![k] = ledger'[k]]
            /\ orders' = [orders EXCEPT ![k] = orders'[k]]
            /\ idem' = [idem EXCEPT ![k] = idem'[k]]
        BY <1>1, <1>2, <2>2 DEF TypeOK
      <3>. QED BY <3>1, OtherKeys
    <2>8. QuotaNeverOverIssued'
      <3>1. \A n \in Nat : Decremented(n, a.amount) <= n
        BY <2>1 DEF Decremented, AllocRow
      <3>2. \A q \in QuotaRows : used[q] \in Nat /\ used'[q] \in Nat /\ used'[q] <= used[q]
        BY <1>1, <2>2, <3>1 DEF TypeOK
      <3>3. \A q \in QuotaRows : used[q] <= QuotaTotal(q) /\ QuotaTotal(q) \in Nat
        BY DeskAssumption DEF IInv, QuotaNeverOverIssued, QuotaTotal, QuotaRows
      <3>. QED BY <3>2, <3>3 DEF QuotaNeverOverIssued, QuotaTotal
    <2>. QED BY <1>1, <1>4, <2>5, <2>6, <2>7, <2>8
             DEF IInv, KeyInv, BooksAgree, RecordsComplete, ActiveOrdersBeatCutoff
  <1>. QED BY <1>6, <1>7

\* The seeded tables satisfy the invariants.
LEMMA InitInv == Init => IInv
  <1> SUFFICES ASSUME Init PROVE IInv
    OBVIOUS
  <1>1. TypeOK
    BY DeskAssumption DEF Init, TypeOK, Times
  <1>2. QuotaNeverOverIssued
    BY DeskAssumption DEF Init, QuotaNeverOverIssued, QuotaTotal, QuotaRows
  <1>3. ActiveOrdersBeatCutoff
    BY DeskAssumption DEF Init, ActiveOrdersBeatCutoff, BeatCutoff
  <1>. QED BY <1>1, <1>2, <1>3
           DEF Init, IInv, BooksAgree, BookAgrees, RecordsComplete

\* Every step keeps the invariants.
LEMMA NextInv == IInv /\ [Next]_vars => IInv'
  <1> SUFFICES ASSUME IInv, [Next]_vars PROVE IInv'
    OBVIOUS
  <1>1. ASSUME NEW k \in Keys, NEW p \in Payloads, NEW t \in 0 .. now,
               Submit(k, p, t)
        PROVE  IInv'
    BY <1>1, SubmitInv
  <1>2. ASSUME NEW k \in Keys, Confirm(k) PROVE IInv'
    BY <1>2, ConfirmInv
  <1>3. ASSUME NEW k \in Keys, Cancel(k) PROVE IInv'
    BY <1>3, CancelInv
  <1>4. CASE Tick
    <2>1. TypeOK'
      BY <1>4, DeskAssumption DEF Tick, IInv, TypeOK, Times
    <2>. QED BY <1>4, <2>1
             DEF Tick, IInv, BooksAgree, BookAgrees, RecordsComplete,
                 RecordComplete, ActiveOrdersBeatCutoff, BeatCutoff,
                 QuotaNeverOverIssued, QuotaTotal
  <1>5. CASE UNCHANGED vars
    BY <1>5 DEF vars, IInv, TypeOK, BooksAgree, BookAgrees, RecordsComplete,
                RecordComplete, ActiveOrdersBeatCutoff, BeatCutoff,
                QuotaNeverOverIssued, QuotaTotal
  <1>. QED BY <1>1, <1>2, <1>3, <1>4, <1>5 DEF Next

LEMMA Invariance == Spec => []IInv
  BY InitInv, NextInv, PTL DEF Spec

\* Orders, allocations and postings always tell one story.
THEOREM BooksAlwaysAgree == Spec => []BooksAgree
  BY Invariance, PTL DEF IInv

\* An idempotency record is complete and stands from the moment it is visible.
THEOREM RecordsAlwaysComplete == Spec => []RecordsComplete
  BY Invariance, PTL DEF IInv

\* No live order was received at or after its market's cutoff.
THEOREM CutoffAlwaysKept == Spec => []ActiveOrdersBeatCutoff
  BY Invariance, PTL DEF IInv

\* No day of any product is ever issued beyond its total.
THEOREM QuotaNeverExceeded == Spec => []QuotaNeverOverIssued
  BY Invariance, PTL DEF IInv

\* What one step does to what is on record for a key.
LEMMA StepHistory ==
    ASSUME IInv, Next, NEW j \in Keys
    PROVE  KeyHistoryKept(j)
  <1>1. ASSUME NEW k \in Keys, NEW p \in Payloads, NEW t \in 0 .. now,
               Submit(k, p, t)
        PROVE  KeyHistoryKept(j)
    <2>1. /\ orders[k] = NoRow
          /\ idem[k] = NoRow
          /\ \A i \in Keys : i # k => idem'[i] = idem[i] /\ orders'[i] = orders[i]
      BY <1>1 DEF Submit, TakeEffect, TurnDown, IInv, TypeOK
    <2>2. orders'[k].status \in {"CONFIRMED", "REJECTED"}
      <3>1. t \in Times
        BY DeskAssumption DEF IInv, TypeOK, Times
      <3> DEFINE o == NewOrder(p.product, "PENDING", t, p.amount)
      <3>2. o \in OrderRow
        BY <3>1, NewOrderType, DeskAssumption DEF Statuses, Payload
      <3>3. [o EXCEPT !.amount = 0] \in OrderRow
        BY <3>2 DEF OrderRow
      <3>4. \E x \in OrderRow : TakeEffect(k, x) \/ TurnDown(k, x)
        BY <1>1, <3>2, <3>3 DEF Submit
      <3>5. PICK x \in OrderRow : TakeEffect(k, x) \/ TurnDown(k, x)
        BY <3>4
      <3>. QED BY <3>5, WithStatusFields DEF TakeEffect, TurnDown, IInv, TypeOK, Statuses
    <2>3. CASE j = k
      BY <2>1, <2>2, <2>3 DEF KeyHistoryKept
    <2>4. CASE j # k
      <3>1. orders[j] # NoRow => orders[j] = WithStatus(orders[j], orders[j].status)
        BY WithOwnStatus DEF IInv, TypeOK
      <3>. QED BY <2>1, <2>4, <3>1 DEF KeyHistoryKept
    <2>. QED BY <2>3, <2>4
  <1>2. ASSUME NEW k \in Keys, NEW s \in Statuses, orders[k] # NoRow,
               orders' = [orders EXCEPT ![k] = WithStatus(orders[k], s)],
               Follows(orders[k].status, s), UNCHANGED idem
        PROVE  KeyHistoryKept(j)
    <2>1. orders[k] \in OrderRow /\ \A i \in Keys : i # k => orders'[i] = orders[i]
      BY <1>2 DEF IInv, TypeOK
    <2>2. CASE j = k
      <3>1. orders'[k] = WithStatus(orders[k], s) /\ orders'[k].status = s
        BY <1>2, <2>1, WithStatusFields DEF IInv, TypeOK
      <3>. QED BY <1>2, <2>2, <3>1 DEF KeyHistoryKept
    <2>3. CASE j # k
      <3>1. orders[j] # NoRow => orders[j] = WithStatus(orders[j], orders[j].status)
        BY WithOwnStatus DEF IInv, TypeOK
      <3>. QED BY <1>2, <2>1, <2>3, <3>1 DEF KeyHistoryKept
    <2>. QED BY <2>2, <2>3
  <1>3. ASSUME NEW k \in Keys, Confirm(k) PROVE KeyHistoryKept(j)
    <2>1. CASE TakeEffect(k, orders[k])
      BY <1>2, <1>3, <2>1 DEF Confirm, Confirmable, TakeEffect, Follows, Statuses
    <2>2. CASE TurnDown(k, orders[k])
      BY <1>2, <1>3, <2>2 DEF Confirm, Confirmable, TurnDown, Follows, Statuses
    <2>. QED BY <1>3, <2>1, <2>2 DEF Confirm
  <1>4. ASSUME NEW k \in Keys, Cancel(k) PROVE KeyHistoryKept(j)
    <2>1. orders' = [orders EXCEPT ![k] = WithStatus(orders[k], "CANCELLED")]
      BY <1>4 DEF Cancel
    <2>. QED BY <1>2, <1>4, <2>1 DEF Cancel, Cancellable, Active, Follows, Statuses
  <1>5. CASE Tick
    <2>1. orders[j] # NoRow => orders[j] = WithStatus(orders[j], orders[j].status)
      BY WithOwnStatus DEF IInv, TypeOK
    <2>. QED BY <1>5, <2>1 DEF Tick, KeyHistoryKept
  <1>. QED BY <1>1, <1>3, <1>4, <1>5 DEF Next

\* Answers and what orders are for never change, terminal states are terminal,
\* and no submitted order is ever seen PENDING.
THEOREM HistoryAlwaysKept == Spec => HistoryIsKept
  <1>1. IInv /\ [Next]_vars => [KeepHistory]_vars
    BY StepHistory DEF KeepHistory
  <1>. QED BY <1>1, Invariance, PTL DEF Spec, HistoryIsKept
----
(***************************************************************************)
(* Quota accounting.  Only finitely many keys ever have an allocation, so  *)
(* the sums of QuotaMatchesAllocations are sums, and each step adds a row  *)
(* to one of them, takes a row from one of them, or leaves them alone.     *)
(***************************************************************************)
\* The keys that were allocated quota on a day, given back or not.
AllocatedKeys(q) == {k \in Keys : alloc[k] # NoRow /\ QuotaRowOf(alloc[k]) = q}
Allocated(q) == AmountOf(alloc, AllocatedKeys(q))

Accounts ==
    \A q \in QuotaRows :
        /\ IsFiniteSet(AllocatedKeys(q))
        /\ used[q] = AmountOf(alloc, OpenKeys(q))

\* What was allocated on a day only grows.
AllocatedGrows ==
    \A q \in QuotaRows :
        /\ Allocated(q) \in Nat
        /\ Allocated(q)' \in Nat
        /\ Allocated(q) <= Allocated(q)'

LEMMA RowsSummed ==
    ASSUME TypeOK, Accounts, NEW q \in QuotaRows
    PROVE  /\ OpenKeys(q) \in SUBSET AllocatedKeys(q)
           /\ IsFiniteSet(AllocatedKeys(q))
           /\ IsFiniteSet(OpenKeys(q))
           /\ \A k \in AllocatedKeys(q) : alloc[k] \in AllocRow /\ alloc[k].amount \in Nat
           /\ Allocated(q) \in Nat
           /\ used[q] <= Allocated(q)
  <1>1. OpenKeys(q) \in SUBSET AllocatedKeys(q)
    BY DEF OpenKeys, AllocatedKeys
  <1>2. IsFiniteSet(AllocatedKeys(q)) /\ used[q] = AmountOf(alloc, OpenKeys(q))
    BY DEF Accounts
  <1>3. IsFiniteSet(OpenKeys(q))
    BY <1>1, <1>2, FS_Subset
  <1>4. \A k \in AllocatedKeys(q) : alloc[k] \in AllocRow /\ alloc[k].amount \in Nat
    BY DEF AllocatedKeys, TypeOK, AllocRow
  <1>5. Allocated(q) \in Nat
    BY <1>2, <1>4, AmountType DEF Allocated
  <1>6. used[q] <= Allocated(q)
    BY <1>1, <1>2, <1>4, AmountOfMore DEF Allocated
  <1>. QED BY <1>1, <1>2, <1>3, <1>4, <1>5, <1>6

\* A sum over rows whose amounts a step leaves alone.
LEMMA SameAmounts ==
    ASSUME NEW S, IsFiniteSet(S), \A k \in S : alloc'[k].amount = alloc[k].amount
    PROVE  AmountOf(alloc', S) = AmountOf(alloc, S)
  <1> DEFINE b == alloc'
  <1>1. \A k \in S : b[k].amount = alloc[k].amount
    OBVIOUS
  <1> HIDE DEF b
  <1>2. AmountOf(b, S) = AmountOf(alloc, S)
    BY <1>1, AmountSame
  <1>. QED BY <1>2 DEF b

\* A step that leaves the accounts alone.
LEMMA SameAccounts ==
    ASSUME TypeOK, Accounts, UNCHANGED <<used, alloc>>
    PROVE  Accounts' /\ AllocatedGrows
  <1>1. \A q \in QuotaRows : /\ AllocatedKeys(q)' = AllocatedKeys(q)
                            /\ OpenKeys(q)' = OpenKeys(q)
                            /\ Allocated(q)' = Allocated(q)
    BY DEF AllocatedKeys, OpenKeys, Allocated
  <1>2. \A q \in QuotaRows : Allocated(q) \in Nat
    BY RowsSummed
  <1>. QED BY <1>1, <1>2 DEF Accounts, AllocatedGrows

\* Quota taken by a key that had none.
LEMMA QuotaTaken ==
    ASSUME TypeOK, Accounts, NEW k \in Keys, alloc[k] = NoRow,
           NEW a \in AllocRow, ~a.released,
           used' = [used EXCEPT ![QuotaRowOf(a)] = @ + a.amount],
           alloc' = [alloc EXCEPT ![k] = a]
    PROVE  Accounts' /\ AllocatedGrows
  <1> DEFINE r == QuotaRowOf(a)
  <1>1. /\ a # NoRow
        /\ a.amount \in Nat
        /\ r \in QuotaRows
        /\ alloc'[k] = a
        /\ \A j \in Keys : j # k => alloc'[j] = alloc[j]
    BY QuotaRowType, DeskAssumption DEF TypeOK, AllocRow
  <1> SUFFICES ASSUME NEW q \in QuotaRows
               PROVE  /\ IsFiniteSet(AllocatedKeys(q)')
                      /\ used'[q] = AmountOf(alloc', OpenKeys(q)')
                      /\ Allocated(q) \in Nat
                      /\ Allocated(q)' \in Nat
                      /\ Allocated(q) <= Allocated(q)'
    BY DEF Accounts, AllocatedGrows
  <1>2. /\ k \notin AllocatedKeys(q)
        /\ k \notin OpenKeys(q)
    BY DEF AllocatedKeys, OpenKeys
  <1>3. /\ IsFiniteSet(AllocatedKeys(q))
        /\ IsFiniteSet(OpenKeys(q))
        /\ OpenKeys(q) \subseteq AllocatedKeys(q)
        /\ \A j \in AllocatedKeys(q) : alloc[j].amount \in Nat
        /\ used[q] = AmountOf(alloc, OpenKeys(q))
        /\ Allocated(q) \in Nat
    BY RowsSummed DEF Accounts
  <1>4. \A j \in AllocatedKeys(q) : alloc'[j] = alloc[j]
    BY <1>1, <1>2 DEF AllocatedKeys
  <1>5. /\ AmountOf(alloc', OpenKeys(q)) = AmountOf(alloc, OpenKeys(q))
        /\ AmountOf(alloc', AllocatedKeys(q)) = Allocated(q)
    <2>1. /\ \A j \in OpenKeys(q) : alloc'[j].amount = alloc[j].amount
          /\ \A j \in AllocatedKeys(q) : alloc'[j].amount = alloc[j].amount
      BY <1>3, <1>4
    <2>2. AmountOf(alloc', OpenKeys(q)) = AmountOf(alloc, OpenKeys(q))
      BY <1>3, <2>1, SameAmounts
    <2>3. AmountOf(alloc', AllocatedKeys(q)) = AmountOf(alloc, AllocatedKeys(q))
      BY <1>3, <2>1, SameAmounts
    <2>. QED BY <2>2, <2>3 DEF Allocated
  <1>6. CASE q = r
    <2>1. /\ OpenKeys(q)' = OpenKeys(q) \cup {k}
          /\ AllocatedKeys(q)' = AllocatedKeys(q) \cup {k}
      BY <1>1, <1>6 DEF OpenKeys, AllocatedKeys
    <2>2. /\ \A j \in AllocatedKeys(q) \cup {k} : alloc'[j].amount \in Nat
          /\ \A j \in OpenKeys(q) \cup {k} : alloc'[j].amount \in Nat
      BY <1>1, <1>3, <1>4
    <2>3. AmountOf(alloc', OpenKeys(q) \cup {k}) =
             alloc'[k].amount + AmountOf(alloc', OpenKeys(q))
      BY <1>2, <1>3, <2>2, AmountWithRow
    <2>4. /\ IsFiniteSet(AllocatedKeys(q) \cup {k})
          /\ AmountOf(alloc', AllocatedKeys(q) \cup {k}) =
                alloc'[k].amount + AmountOf(alloc', AllocatedKeys(q))
      BY <1>2, <1>3, <2>2, AmountWithRow
    <2>5. used'[q] = used[q] + a.amount
      BY <1>1, <1>6 DEF TypeOK
    <2>6. used[q] \in Nat
      BY DEF TypeOK
    <2>. QED BY <1>1, <1>3, <1>5, <2>1, <2>3, <2>4, <2>5, <2>6 DEF Allocated
  <1>7. CASE q # r
    <2>1. /\ OpenKeys(q)' = OpenKeys(q)
          /\ AllocatedKeys(q)' = AllocatedKeys(q)
      BY <1>1, <1>7 DEF OpenKeys, AllocatedKeys
    <2>2. used'[q] = used[q]
      BY <1>7 DEF TypeOK
    <2>. QED BY <1>3, <1>5, <2>1, <2>2 DEF Allocated
  <1>. QED BY <1>6, <1>7

\* Quota given back by a key whose allocation was open.
LEMMA QuotaGivenBack ==
    ASSUME TypeOK, Accounts, NEW k \in Keys, alloc[k] # NoRow, ~alloc[k].released,
           used' = [used EXCEPT ![QuotaRowOf(alloc[k])] = Decremented(@, alloc[k].amount)],
           alloc' = [alloc EXCEPT ![k].released = TRUE]
    PROVE  Accounts' /\ AllocatedGrows
  <1> DEFINE a == alloc[k]
             r == QuotaRowOf(a)
  <1>1. /\ a \in AllocRow
        /\ a.amount \in Nat
        /\ r \in QuotaRows
    BY QuotaRowType DEF TypeOK, AllocRow
  <1>2. /\ alloc'[k] # NoRow
        /\ alloc'[k].released = TRUE
        /\ alloc'[k].amount = a.amount
        /\ QuotaRowOf(alloc'[k]) = r
        /\ \A j \in Keys : j # k => alloc'[j] = alloc[j]
    <2>1. alloc'[k] = [a EXCEPT !.released = TRUE]
      BY DEF TypeOK
    <2>2. [a EXCEPT !.released = TRUE] \in AllocRow
      BY <1>1 DEF AllocRow
    <2>3. \A j \in Keys : j # k => alloc'[j] = alloc[j]
      BY DEF TypeOK
    <2>. QED BY <1>1, <2>1, <2>2, <2>3, DeskAssumption DEF AllocRow, QuotaRowOf
  <1> SUFFICES ASSUME NEW q \in QuotaRows
               PROVE  /\ IsFiniteSet(AllocatedKeys(q)')
                      /\ used'[q] = AmountOf(alloc', OpenKeys(q)')
                      /\ Allocated(q) \in Nat
                      /\ Allocated(q)' \in Nat
                      /\ Allocated(q) <= Allocated(q)'
    BY DEF Accounts, AllocatedGrows
  <1>3. /\ IsFiniteSet(AllocatedKeys(q))
        /\ IsFiniteSet(OpenKeys(q))
        /\ OpenKeys(q) \subseteq AllocatedKeys(q)
        /\ \A j \in AllocatedKeys(q) : alloc[j].amount \in Nat
        /\ used[q] = AmountOf(alloc, OpenKeys(q))
        /\ Allocated(q) \in Nat
    BY RowsSummed DEF Accounts
  <1>4. \A j \in AllocatedKeys(q) : alloc'[j].amount = alloc[j].amount
    BY <1>2 DEF AllocatedKeys
  <1>5. AllocatedKeys(q)' = AllocatedKeys(q)
    BY <1>2 DEF AllocatedKeys
  <1>6. Allocated(q)' = Allocated(q)
    BY <1>3, <1>4, <1>5, SameAmounts DEF Allocated
  <1>7. CASE q = r
    <2>1. /\ OpenKeys(q)' = OpenKeys(q) \ {k}
          /\ k \in OpenKeys(q)
      BY <1>2, <1>7 DEF OpenKeys
    <2>2. AmountOf(alloc, OpenKeys(q)) = a.amount + AmountOf(alloc, OpenKeys(q) \ {k})
      BY <1>3, <2>1, AmountOfRow
    <2>3. IsFiniteSet(OpenKeys(q) \ {k})
      BY <1>3, FS_RemoveElement
    <2>4. /\ AmountOf(alloc', OpenKeys(q) \ {k}) = AmountOf(alloc, OpenKeys(q) \ {k})
          /\ AmountOf(alloc, OpenKeys(q) \ {k}) \in Nat
      BY <1>3, <1>4, <2>3, SameAmounts, AmountType
    <2>5. used'[q] = Decremented(used[q], a.amount)
      BY <1>1, <1>7 DEF TypeOK
    <2> HIDE DEF a, r
    <2>6. used'[q] = AmountOf(alloc, OpenKeys(q) \ {k})
      BY <1>1, <1>3, <2>2, <2>4, <2>5 DEF Decremented
    <2>. QED BY <1>3, <1>5, <1>6, <2>1, <2>4, <2>6
  <1>8. CASE q # r
    <2>1. OpenKeys(q)' = OpenKeys(q)
      BY <1>2, <1>8 DEF OpenKeys
    <2>2. used'[q] = used[q]
      BY <1>8 DEF TypeOK
    <2>3. AmountOf(alloc', OpenKeys(q)) = AmountOf(alloc, OpenKeys(q))
      BY <1>3, <1>4, SameAmounts
    <2>. QED BY <1>3, <1>5, <1>6, <2>1, <2>2, <2>3
  <1>. QED BY <1>7, <1>8

\* The accounts are in order after every step.
LEMMA AccountsKept ==
    ASSUME IInv, Accounts, [Next]_vars
    PROVE  Accounts' /\ AllocatedGrows
  <1>1. TypeOK
    BY DEF IInv
  <1>2. ASSUME NEW k \in Keys, NEW o \in OrderRow, TakeEffect(k, o), alloc[k] = NoRow
        PROVE  Accounts' /\ AllocatedGrows
    <2>1. CASE o.product \in QdiiProducts
      <3> DEFINE a == AllocationFor(o)
      <3>1. a \in AllocRow /\ ~a.released
        BY AllocationForType DEF AllocationFor
      <3>2. /\ used' = [used EXCEPT ![QuotaRowOf(a)] = @ + a.amount]
            /\ alloc' = [alloc EXCEPT ![k] = a]
        BY <1>2, <2>1 DEF TakeEffect, Taken
      <3> HIDE DEF a
      <3>. QED BY <1>1, <1>2, <3>1, <3>2, QuotaTaken
    <2>2. CASE o.product \notin QdiiProducts
      BY <1>1, <1>2, <2>2, SameAccounts DEF TakeEffect
    <2>. QED BY <2>1, <2>2
  <1>3. ASSUME NEW k, NEW o, TurnDown(k, o) PROVE Accounts' /\ AllocatedGrows
    BY <1>1, <1>3, SameAccounts DEF TurnDown
  <1>4. ASSUME NEW k \in Keys, NEW p \in Payloads, NEW t \in 0 .. now, Submit(k, p, t)
        PROVE  Accounts' /\ AllocatedGrows
    <2> DEFINE o == NewOrder(p.product, "PENDING", t, p.amount)
    <2>1. o \in OrderRow
      <3>1. t \in Times
        BY <1>1, DeskAssumption DEF TypeOK, Times
      <3>. QED BY <3>1, NewOrderType, DeskAssumption DEF Statuses, Payload
    <2>2. alloc[k] = NoRow
      BY <1>4, NoOrderNoTrace DEF Submit
    <2>3. TakeEffect(k, o) \/ TurnDown(k, o) \/ TurnDown(k, [o EXCEPT !.amount = 0])
      BY <1>4 DEF Submit
    <2> HIDE DEF o
    <2>. QED BY <1>2, <1>3, <2>1, <2>2, <2>3
  <1>5. ASSUME NEW k \in Keys, Confirm(k) PROVE Accounts' /\ AllocatedGrows
    <2>1. /\ orders[k] \in OrderRow
          /\ alloc[k] = NoRow
          /\ TakeEffect(k, orders[k]) \/ TurnDown(k, orders[k])
      BY <1>1, <1>5, PendingNoTrace DEF Confirm, Confirmable, TypeOK
    <2>. QED BY <1>2, <1>3, <2>1
  <1>6. ASSUME NEW k \in Keys, Cancel(k) PROVE Accounts' /\ AllocatedGrows
    <2>1. CASE alloc[k] = NoRow
      BY <1>1, <1>6, <2>1, SameAccounts DEF Cancel
    <2>2. CASE alloc[k] # NoRow
      <3>1. ~alloc[k].released
        BY <1>6, <2>2 DEF IInv, BooksAgree, BookAgrees, Cancel, Cancellable, Active
      <3>2. /\ used' = [used EXCEPT ![QuotaRowOf(alloc[k])] =
                                Decremented(@, alloc[k].amount)]
            /\ alloc' = [alloc EXCEPT ![k].released = TRUE]
        BY <1>6, <2>2 DEF Cancel
      <3>. QED BY <1>1, <2>2, <3>1, <3>2, QuotaGivenBack
    <2>. QED BY <2>1, <2>2
  <1>7. CASE Tick \/ UNCHANGED vars
    BY <1>1, <1>7, SameAccounts DEF Tick, vars
  <1>. QED BY <1>4, <1>5, <1>6, <1>7 DEF Next

LEMMA InitAccounts == Init => Accounts
  <1> SUFFICES ASSUME Init, NEW q \in QuotaRows
               PROVE  /\ IsFiniteSet(AllocatedKeys(q))
                      /\ used[q] = AmountOf(alloc, OpenKeys(q))
    BY DEF Accounts
  <1>1. AllocatedKeys(q) = {} /\ OpenKeys(q) = {}
    BY DEF Init, AllocatedKeys, OpenKeys
  <1>. QED BY <1>1, FS_EmptySet, AmountOfNone DEF Init

LEMMA AccountsInvariant == Spec => []Accounts
  BY InitAccounts, AccountsKept, Invariance, PTL DEF Spec

\* used_quota is what is allocated and not released, for every day of every
\* product, whatever was submitted, confirmed and cancelled.
THEOREM QuotaAlwaysMatches == Spec => []QuotaMatchesAllocations
  <1>1. Accounts => QuotaMatchesAllocations
    BY DEF Accounts, QuotaMatchesAllocations, AmountOf
  <1>. QED BY <1>1, AccountsInvariant, PTL
====
