---- MODULE OrderAnswersProofs ----
(***************************************************************************)
(* Proofs about what the requests of OrderTransactions leave behind: the   *)
(* answers their clients get, the status events of the orders and the      *)
(* refusals.  They rest on IInv of OrderTransactionsProofs.                *)
(***************************************************************************)
EXTENDS OrderTransactionsProofs
----
(***************************************************************************)
(* Answers.                                                                *)
(***************************************************************************)
\* The answer of w is true of the books.  That the order is there is part of
\* it: the status of an absent row would be anything.
Truthful(w) ==
    LET k == req[w].key
        r == reply[w]
    IN  /\ req[w].op = "submit" /\ r.code = 200 =>
              /\ idem[k] # NoRow
              /\ idem[k].payload = req[w].payload
              /\ r.order = idem[k].response
        /\ r.code = 422 => orders[k] # NoRow /\ orders[k].status = "REJECTED"
        /\ req[w].op = "cancel" /\ r.code = 200 =>
              /\ orders[k] # NoRow
              /\ orders[k].status \in {"CANCELLED", "REJECTED"}
        /\ req[w].op = "confirm" /\ r.code = 200 =>
              /\ orders[k] # NoRow
              /\ orders[k].status \in {"CONFIRMED", "CANCELLED"}

Answers == \A w \in Workers : pc[w] = "answer" => Truthful(w)

\* What is on record for a key only changes as its history allows.
LEMMA HistoryOfKey ==
    ASSUME IInv, [Next]_vars, NEW k \in Keys
    PROVE  /\ idem[k] # NoRow => idem'[k] = idem[k]
           /\ orders[k] # NoRow =>
                 /\ orders'[k] # NoRow
                 /\ \/ orders'[k] = orders[k]
                    \/ Follows(orders[k].status, orders'[k].status)
  <1>1. [Books!Next]_(Books!vars)
    BY NextRefines
  <1>2. CASE UNCHANGED Books!vars
    BY <1>2 DEF Books!vars
  <1>3. CASE Books!Next
    <2>1. Books!KeyHistoryKept(k)
      BY <1>3, DeskHolds, Books!StepHistory DEF IInv
    <2>2. /\ idem[k] # NoRow => idem'[k] = idem[k]
          /\ orders[k] # NoRow /\ orders'[k] # orders[k] =>
                /\ orders'[k] = WithStatus(orders[k], orders'[k].status)
                /\ Follows(orders[k].status, orders'[k].status)
      BY <2>1 DEF Books!KeyHistoryKept, Books!WithStatus, WithStatus,
                  Books!Follows, Follows
    <2>3. ASSUME orders[k] # NoRow, orders'[k] # orders[k]
          PROVE  orders'[k] # NoRow
      <3>1. orders[k] \in OrderRow
        BY <2>3 DEF IInv, TypeOK
      <3>2. orders'[k].status \in Statuses
        BY <2>2, <2>3 DEF Follows, Statuses
      <3>. QED BY <2>2, <2>3, <3>1, <3>2, StatusFields
    <2>. QED BY <2>2, <2>3
  <1>. QED BY <1>1, <1>2, <1>3

\* A true answer stays true while it is on its way.
LEMMA AnswersStand ==
    ASSUME IInv, [Next]_vars, NEW w \in Workers,
           pc[w] = "answer", Truthful(w), req'[w] = req[w], reply'[w] = reply[w]
    PROVE  Truthful(w)'
  <1>1. req[w].key \in Keys
    BY RequestFields DEF IInv, Sessions, Session
  <1>. QED BY <1>1, HistoryOfKey DEF Truthful, Follows

\* The step of one worker leaves the request, the private rows and the answer
\* of another alone.
LEMMA OthersLeftAlone ==
    ASSUME TypeOK, NEW w \in Workers, NEW v \in Workers, v # w,
           Step(w) \/ Abort(w) \/ (\E r \in Requests : Begin(w, r))
    PROVE  /\ pc'[v] = pc[v]
           /\ req'[v] = req[v]
           /\ draft'[v] = draft[v]
           /\ reply'[v] = reply[v]
  <1> DEFINE Apart == /\ pc'[v] = pc[v]
                      /\ req'[v] = req[v]
                      /\ draft'[v] = draft[v]
                      /\ reply'[v] = reply[v]
  <1>1. \A next, d, ls : Proceed(w, next, d, ls) => Apart
    BY DEF Proceed, TypeOK
  <1>2. \A code : Fail(w, code) => Apart
    BY DEF Fail, EndTransaction, TypeOK
  <1>3. Commit(w) \/ Answer(w) \/ Abort(w) \/ (\E r \in Requests : Begin(w, r)) => Apart
    BY DEF Commit, Answer, Abort, Begin, EndTransaction, TypeOK
  <1> HIDE DEF Apart
  <1>4. LockProduct(w) \/ LockIdempotency(w) \/ CheckCutoff(w) \/ InsertOrder(w) => Apart
    BY <1>1, <1>2 DEF LockProduct, LockIdempotency, CheckCutoff, InsertOrder
  <1>5. \/ ReserveQuota(w)
        \/ ConfirmOrder(w)
        \/ LockOrder(w)
        \/ CancelOrder(w)
        \/ ReleaseQuota(w)
        => Apart
    BY <1>1, <1>2 DEF ReserveQuota, ConfirmOrder, LockOrder, CancelOrder, ReleaseQuota
  <1>. QED BY <1>3, <1>4, <1>5 DEF Step, Apart

\* Before COMMIT, the only way to an answer is an error.
LEMMA ErrorsBeforeCommit ==
    ASSUME TypeOK, NEW w \in Workers,
           Step(w) \/ Abort(w) \/ (\E r \in Requests : Begin(w, r)),
           ~Commit(w), pc'[w] = "answer"
    PROVE  reply'[w].code \in {404, 409, 500}
  <1> DEFINE Error == pc'[w] = "answer" => reply'[w].code \in {404, 409, 500}
  <1>1. \A next, d, ls : Proceed(w, next, d, ls) /\ next # "answer" => Error
    BY DEF Proceed, TypeOK
  <1>2. \A code \in {404, 409, 500} : Fail(w, code) => Error
    BY DEF Fail, TypeOK
  <1>3. Answer(w) \/ Abort(w) \/ (\E r \in Requests : Begin(w, r)) => Error
    BY DEF Answer, Abort, Begin, TypeOK
  <1>4. \A p : AfterChecks(p) # "answer"
    BY DEF AfterChecks
  <1> HIDE DEF Error
  <1>5. LockProduct(w) \/ LockIdempotency(w) \/ CheckCutoff(w) \/ InsertOrder(w) => Error
    BY <1>1, <1>2, <1>4 DEF LockProduct, LockIdempotency, CheckCutoff, InsertOrder
  <1>6. ReserveQuota(w) \/ ConfirmOrder(w) \/ LockOrder(w) => Error
    BY <1>1, <1>2 DEF ReserveQuota, ConfirmOrder, LockOrder
  <1>7. CancelOrder(w) \/ ReleaseQuota(w) => Error
    BY <1>1 DEF CancelOrder, ReleaseQuota
  <1>. QED BY <1>3, <1>5, <1>6, <1>7 DEF Step, Error

\* What COMMIT answers is what it has just published.
LEMMA CommitAnswers ==
    ASSUME IInv, NEW w \in Workers, Commit(w)
    PROVE  Truthful(w)'
  <1> DEFINE k == req[w].key
             d == draft[w]
  <1>1. TypeOK /\ Sessions
    BY DEF IInv
  <1>2. /\ LocksFit(w)
        /\ Session(w)
        /\ req[w] \in Requests
        /\ k \in Keys
        /\ pc[w] = "commit"
        /\ req'[w] = req[w]
        /\ reply'[w] = Outcome(w)
    BY <1>1, Running, CommitTables DEF Statements, TypeOK
  <1>3. \/ Replaying(w)
        \/ TurningDown(w)
        \/ TakingEffect(w)
        \/ BeingLate(w)
        \/ ChangingNothing(w)
        \/ CancellingDone(w)
    BY <1>2 DEF Session
  <1>4. CASE req[w].op = "submit"
    <2>1. /\ Holds(w, IdemLock(k))
          /\ d.idem # NoRow
          /\ d.idem.payload = req[w].payload
      <3>1. CASE Replaying(w)
        BY <3>1 DEF Replaying
      <3>2. CASE Submitting(w)
        BY <3>2 DEF Submitting, Claiming
      <3>3. TurningDown(w) \/ TakingEffect(w) \/ BeingLate(w) => Submitting(w)
        BY <1>1, <1>4, DecidingFacts DEF TurningDown, TakingEffect, BeingLate
      <3>4. ~ChangingNothing(w) /\ ~CancellingDone(w)
        BY <1>4 DEF ChangingNothing, Reading, CancellingDone, Cancelling
      <3>. QED BY <1>3, <3>1, <3>2, <3>3, <3>4
    <2>2. idem'[k] = d.idem
      BY <1>1, <1>2, <2>1, CommitIdem DEF TypeOK
    <2>3. Outcome(w).code = 200 /\ Outcome(w).order = d.idem.response
      BY <1>4 DEF Outcome
    <2>. QED BY <1>2, <1>4, <2>1, <2>2, <2>3 DEF Truthful
  <1>5. ASSUME req[w].op \in {"confirm", "cancel"},
               Holds(w, OrderLock(k)),
               d.order # NoRow,
               req[w].op = "confirm" =>
                  d.order.status \in {"REJECTED", "CONFIRMED", "CANCELLED"},
               req[w].op = "cancel" => d.order.status \in {"CANCELLED", "REJECTED"}
        PROVE  Truthful(w)'
    <2>1. orders'[k] = d.order
      BY <1>1, <1>2, <1>5, CommitRows DEF TypeOK
    <2>2. /\ Outcome(w).code \in {200, 422}
          /\ Outcome(w).code = 422 <=>
                req[w].op = "confirm" /\ d.order.status = "REJECTED"
      BY <1>5 DEF Outcome
    <2>. QED BY <1>2, <1>5, <2>1, <2>2 DEF Truthful
  <1>6. CASE req[w].op # "submit"
    <2>1. req[w].op \in {"confirm", "cancel"}
      BY <1>2, <1>6, RequestFields
    <2>2. CASE TurningDown(w) \/ TakingEffect(w)
      <3>1. /\ Holds(w, OrderLock(k))
            /\ d.order # NoRow
            /\ req[w].op = "confirm"
            /\ d.order.status \in {"REJECTED", "CONFIRMED"}
        BY <1>1, <1>6, <2>2, DecidingFacts DEF TurningDown, TakingEffect
      <3>. QED BY <1>5, <2>1, <3>1
    <2>3. CASE ChangingNothing(w)
      <3>1. /\ Holds(w, OrderLock(k))
            /\ d.order = orders[k]
            /\ d.order # NoRow
            /\ req[w].op = "confirm" => d.order.status = "CONFIRMED"
            /\ req[w].op = "cancel" => d.order.status \in {"CANCELLED", "REJECTED"}
        BY <2>3, RowsOfFields DEF ChangingNothing, Reading
      <3>. QED BY <1>5, <2>1, <3>1
    <2>4. CASE CancellingDone(w)
      <3>1. /\ Holds(w, OrderLock(k))
            /\ orders[k] # NoRow
            /\ req[w].op = "cancel"
            /\ d.order = WithStatus(orders[k], "CANCELLED")
        BY <2>4 DEF CancellingDone, Cancelling
      <3>2. orders[k] \in OrderRow
        BY <1>1, <1>2, <3>1, RowTypes
      <3>3. d.order # NoRow /\ d.order.status = "CANCELLED"
        BY <3>1, <3>2, StatusFields DEF Statuses
      <3>. QED BY <1>5, <3>1, <3>3
    <2>5. ~Replaying(w) /\ ~BeingLate(w)
      BY <1>6 DEF Replaying, BeingLate, Submitting, Claiming
    <2>. QED BY <1>3, <2>2, <2>3, <2>4, <2>5
  <1>. QED BY <1>4, <1>6

LEMMA AnswersKept ==
    ASSUME IInv, Answers, [Next]_vars
    PROVE  Answers'
  <1> SUFFICES ASSUME NEW v \in Workers, pc'[v] = "answer" PROVE Truthful(v)'
    BY DEF Answers
  <1>1. TypeOK
    BY DEF IInv
  <1>2. ASSUME pc'[v] = pc[v], req'[v] = req[v], reply'[v] = reply[v]
        PROVE  Truthful(v)'
    BY <1>2, AnswersStand DEF Answers
  <1>3. CASE Tick \/ UNCHANGED vars
    BY <1>2, <1>3 DEF Tick, vars
  <1>4. ASSUME NEW w \in Workers,
               Step(w) \/ Abort(w) \/ (\E r \in Requests : Begin(w, r))
        PROVE  Truthful(v)'
    <2>1. CASE v # w
      BY <1>1, <1>2, <1>4, <2>1, OthersLeftAlone
    <2>2. CASE v = w /\ Commit(w)
      BY <2>2, CommitAnswers
    <2>3. CASE v = w /\ ~Commit(w)
      <3>1. reply'[v].code \in {404, 409, 500}
        BY <1>1, <1>4, <2>3, ErrorsBeforeCommit
      <3>. QED BY <3>1 DEF Truthful
    <2>. QED BY <2>1, <2>2, <2>3
  <1>. QED BY <1>3, <1>4 DEF Next

\* Every answer sent is true of the books, and stays so until it arrives.
THEOREM AnswersAlwaysTrue == Spec => []AnswersMatchTheBooks
  <1>1. Init => Answers
    BY DEF Init, Answers
  <1>2. IInv /\ Answers /\ [Next]_vars => Answers'
    BY AnswersKept
  <1>3. Answers => AnswersMatchTheBooks
    BY DEF Answers, Truthful, AnswersMatchTheBooks
  <1>. QED BY <1>1, <1>2, <1>3, Invariance, PTL DEF Spec
----
(***************************************************************************)
(* Status events.  A transaction appends an event with every status it     *)
(* writes, so the trail in its hands explains the order in its hands.      *)
(***************************************************************************)
\* The events e are a legal path to the status of o.
Explains(e, o) ==
    IF o = NoRow THEN e = <<>>
    ELSE /\ e # <<>>
         /\ e[Len(e)] = o.status
         /\ \A i \in 1 .. Len(e) - 1 : Follows(e[i], e[i + 1])

Trails ==
    /\ \A k \in Keys : Explains(trail[k], orders[k])
    /\ \A w \in Workers : Explains(draft[w].trail, draft[w].order)

LEMMA FirstEvent ==
    ASSUME NEW o \in OrderRow
    PROVE  Explains(Append(<<>>, o.status), o)
  <1>1. o # NoRow
    BY DeskAssumption
  <1>2. Append(<<>>, o.status) = <<o.status>>
    OBVIOUS
  <1>. QED BY <1>1, <1>2 DEF Explains

LEMMA NextEvent ==
    ASSUME NEW o \in OrderRow, NEW e \in Seq(Statuses), Explains(e, o),
           NEW s \in Statuses, Follows(o.status, s)
    PROVE  Explains(Append(e, s), WithStatus(o, s))
  <1> DEFINE f == Append(e, s)
  <1>1. o # NoRow /\ WithStatus(o, s) # NoRow /\ WithStatus(o, s).status = s
    BY DeskAssumption, StatusFields
  <1>2. /\ e # <<>>
        /\ e[Len(e)] = o.status
        /\ \A i \in 1 .. Len(e) - 1 : Follows(e[i], e[i + 1])
    BY <1>1 DEF Explains
  <1>3. /\ Len(e) \in Nat \ {0}
        /\ Len(f) = Len(e) + 1
        /\ f[Len(e) + 1] = s
        /\ \A i \in 1 .. Len(e) : f[i] = e[i]
        /\ f # <<>>
    BY <1>2
  <1>4. ASSUME NEW i \in 1 .. Len(f) - 1 PROVE Follows(f[i], f[i + 1])
    <2> HIDE DEF f
    <2>1. CASE i = Len(e)
      BY <1>2, <1>3, <2>1
    <2>2. CASE i # Len(e)
      <3>1. i \in 1 .. Len(e) - 1 /\ f[i] = e[i] /\ f[i + 1] = e[i + 1]
        BY <1>3, <2>2
      <3>. QED BY <1>2, <3>1
    <2>. QED BY <2>1, <2>2
  <1> HIDE DEF f
  <1>. QED BY <1>1, <1>3, <1>4 DEF Explains, f

\* A statement that leaves a trail that explains its order.
LEMMA ProceedTrails ==
    ASSUME TypeOK, Trails, NEW w \in Workers, NEW next, NEW d, NEW ls,
           Proceed(w, next, d, ls), Explains(d.trail, d.order)
    PROVE  Trails'
  <1>1. /\ UNCHANGED <<orders, trail>>
        /\ draft' = [draft EXCEPT ![w] = d]
    BY DEF Proceed, tables
  <1>2. ASSUME NEW v \in Workers PROVE Explains(draft'[v].trail, draft'[v].order)
    BY <1>1 DEF TypeOK, Trails
  <1>. QED BY <1>1, <1>2 DEF Trails

LEMMA NoEvents == Explains(Blank.trail, Blank.order)
  BY BlankFields DEF Explains

LEMMA RollbackTrails ==
    ASSUME TypeOK, Trails, NEW w \in Workers, EndTransaction(w),
           UNCHANGED <<orders, trail>>
    PROVE  Trails'
  <1>1. draft' = [draft EXCEPT ![w] = Blank]
    BY DEF EndTransaction
  <1>2. ASSUME NEW v \in Workers PROVE Explains(draft'[v].trail, draft'[v].order)
    BY <1>1, NoEvents DEF TypeOK, Trails
  <1>. QED BY <1>2 DEF Trails

LEMMA FailTrails ==
    ASSUME TypeOK, Trails, NEW w \in Workers, NEW code, Fail(w, code)
    PROVE  Trails'
  BY RollbackTrails DEF Fail, tables

\* A statement that writes the next status of the order in its hands.
LEMMA UpdatedTrail ==
    ASSUME TypeOK, Trails, NEW w \in Workers, draft[w].order # NoRow,
           NEW s \in Statuses, Follows(draft[w].order.status, s)
    PROVE  LET u == Updated(draft[w], s) IN
           /\ u \in Draft
           /\ u.order # NoRow
           /\ u.idem = draft[w].idem
           /\ Explains(u.trail, u.order)
  <1> DEFINE d == draft[w]
  <1>1. /\ d \in Draft
        /\ d.order \in OrderRow
        /\ d.trail \in Seq(Statuses)
        /\ Explains(d.trail, d.order)
    BY DraftFields DEF TypeOK, Trails
  <1> HIDE DEF d
  <1>2. d.order # NoRow /\ Follows(d.order.status, s)
    BY DEF d
  <1> DEFINE u == Updated(d, s)
  <1>3. /\ u \in Draft
        /\ u.order = WithStatus(d.order, s)
        /\ u.idem = d.idem
        /\ u.trail = Append(d.trail, s)
    BY <1>1, <1>2, UpdatedFields
  <1>4. u.order # NoRow
    BY <1>1, <1>3, StatusFields
  <1> HIDE DEF u
  <1>5. Explains(u.trail, u.order)
    BY <1>1, <1>2, <1>3, NextEvent
  <1>. QED BY <1>3, <1>4, <1>5 DEF u, d

\* The statements that leave the order in hand as it is, or read it.
LEMMA ReadingTrails ==
    ASSUME TypeOK, Sessions, Trails, NEW w \in Workers,
           LockProduct(w) \/ LockIdempotency(w) \/ CheckCutoff(w) \/ LockOrder(w)
    PROVE  Trails'
  <1>1. Explains(draft[w].trail, draft[w].order)
    BY DEF Trails
  <1>2. CASE LockProduct(w) \/ CheckCutoff(w)
    BY <1>1, <1>2, ProceedTrails, FailTrails DEF LockProduct, CheckCutoff
  <1>3. CASE LockIdempotency(w)
    <2>1. draft[w] \in Draft
      BY DEF TypeOK
    <2>2. \A r : LET d == [draft[w] EXCEPT !.idem = r]
                 IN  d.trail = draft[w].trail /\ d.order = draft[w].order
      BY <2>1 DEF Draft
    <2>. QED BY <1>1, <1>3, <2>2, ProceedTrails, FailTrails DEF LockIdempotency
  <1>4. CASE LockOrder(w)
    <2> DEFINE k == req[w].key
    <2>1. k \in Keys
      BY <1>4, Running DEF LockOrder, Statements
    <2>2. Explains(RowsOf(k).trail, RowsOf(k).order)
      BY <2>1, RowsOfFields DEF Trails
    <2>. QED BY <1>4, <2>2, ProceedTrails, FailTrails DEF LockOrder
  <1>. QED BY <1>2, <1>3, <1>4

\* The row a submission inserts, and its private rows afterwards.
RowToInsert(w) ==
    LET p == req[w].payload IN
    IF pc[w] = "insert" THEN NewOrder(p.product, "PENDING", now, p.amount)
                        ELSE NewOrder(p.product, "REJECTED", now, 0)

LEMMA RowInserted ==
    ASSUME TypeOK, Sessions, NEW w \in Workers, InsertOrder(w)
    PROVE  LET o == RowToInsert(w)
               d == Inserted(draft[w], o)
           IN  /\ o \in OrderRow
               /\ o.status = "PENDING" \/ o.amount = 0
               /\ d \in Draft
               /\ d.order = o
               /\ d.order # NoRow
               /\ d.idem # NoRow
               /\ d.trail = Append(<<>>, o.status)
               /\ Finalized(d).order = o
               /\ Finalized(d).trail = d.trail
  <1> DEFINE p == req[w].payload
             o == RowToInsert(w)
             d == Inserted(draft[w], o)
  <1>1. /\ pc[w] \in {"insert", "reject"}
        /\ Session(w)
        /\ req[w] \in Requests
        /\ draft[w] \in Draft
    BY Running DEF InsertOrder, Statements
  <1>2. /\ draft[w] = Claimed(p)
        /\ p \in Payloads
        /\ p.product \in Products
        /\ p.amount \in Nat
    BY <1>1, RequestFields DEF Session, Claiming
  <1>3. o \in OrderRow /\ (o.status = "PENDING" \/ o.amount = 0)
    BY <1>2, NewOrderFields DEF TypeOK, Statuses, RowToInsert
  <1> HIDE DEF o
  <1>4. /\ draft[w].trail = <<>>
        /\ draft[w].idem # NoRow
    BY <1>2, ClaimedFields
  <1>5. /\ d \in Draft
        /\ d.order = o
        /\ d.order # NoRow
        /\ d.idem # NoRow
        /\ d.trail = Append(<<>>, o.status)
    <2>1. o # NoRow
      BY <1>3, DeskAssumption
    <2>2. /\ d \in Draft
          /\ d.order = o
          /\ d.idem = draft[w].idem
          /\ d.trail = Append(draft[w].trail, o.status)
      BY <1>1, <1>3, InsertedFields
    <2>. QED BY <1>4, <2>1, <2>2
  <1> HIDE DEF d
  <1>6. Finalized(d).order = o /\ Finalized(d).trail = d.trail
    BY <1>5, FinalizedFields
  <1>. QED BY <1>3, <1>5, <1>6 DEF d, o

LEMMA InsertTrails ==
    ASSUME TypeOK, Sessions, Trails, NEW w \in Workers, InsertOrder(w)
    PROVE  Trails'
  <1> DEFINE o == RowToInsert(w)
             d == Inserted(draft[w], o)
  <1>1. /\ Explains(d.trail, d.order)
        /\ Explains(Finalized(d).trail, Finalized(d).order)
    BY RowInserted, FirstEvent
  <1>. QED BY <1>1, ProceedTrails, FailTrails DEF InsertOrder, RowToInsert

LEMMA ReserveTrails ==
    ASSUME TypeOK, Sessions, Trails, NEW w \in Workers, ReserveQuota(w)
    PROVE  Trails'
  <1> DEFINE d == draft[w]
             u == Updated(d, "REJECTED")
  <1>1. pc[w] = "reserve" /\ Session(w) /\ d \in Draft
    BY Running DEF ReserveQuota, Statements
  <1>2. Deciding(w) /\ d.order.status = "PENDING"
    BY <1>1 DEF Session
  <1>3. /\ d.order # NoRow
        /\ req[w].op = "submit" => d.idem # NoRow
    BY <1>2, DecidingFacts
  <1>4. /\ u \in Draft
        /\ u.order # NoRow
        /\ u.idem = d.idem
        /\ Explains(u.trail, u.order)
    BY <1>2, <1>3, UpdatedTrail DEF Follows, Statuses
  <1>5. Explains(d.trail, d.order)
    BY DEF Trails
  <1> HIDE DEF u, d
  <1>6. req[w].op = "submit" => Explains(Finalized(u).trail, Finalized(u).order)
    BY <1>3, <1>4, FinalizedFields
  <1>7. Explains(Reserved(d).trail, Reserved(d).order)
    BY <1>1, <1>3, <1>5, ReservedFields
  <1>. QED BY <1>4, <1>6, <1>7, ProceedTrails, FailTrails DEF ReserveQuota, u, d

LEMMA ConfirmTrails ==
    ASSUME TypeOK, Sessions, Trails, NEW w \in Workers, ConfirmOrder(w)
    PROVE  Trails'
  <1> DEFINE u == Updated(draft[w], "CONFIRMED")
             d == ConfirmPosted(u)
  <1>1. pc[w] = "confirm" /\ Session(w)
    BY Running DEF ConfirmOrder, Statements
  <1>2. Deciding(w) /\ draft[w].order.status = "PENDING"
    BY <1>1 DEF Session
  <1>3. /\ draft[w].order # NoRow
        /\ req[w].op = "submit" => draft[w].idem # NoRow
    BY <1>2, DecidingFacts
  <1>4. /\ u \in Draft
        /\ u.order # NoRow
        /\ u.idem = draft[w].idem
        /\ Explains(u.trail, u.order)
    BY <1>2, <1>3, UpdatedTrail DEF Follows, Statuses
  <1> HIDE DEF u
  <1>5. /\ d \in Draft
        /\ d.order # NoRow
        /\ d.idem = draft[w].idem
        /\ Explains(d.trail, d.order)
    BY <1>4, ConfirmPostedFields
  <1> HIDE DEF d
  <1>6. req[w].op = "submit" => Explains(Finalized(d).trail, Finalized(d).order)
    BY <1>3, <1>5, FinalizedFields
  <1>. QED BY <1>5, <1>6, ProceedTrails, FailTrails DEF ConfirmOrder, d, u

LEMMA CancelTrails ==
    ASSUME TypeOK, Sessions, Trails, NEW w \in Workers,
           CancelOrder(w) \/ ReleaseQuota(w)
    PROVE  Trails'
  <1>1. /\ pc[w] \in {"cancel", "release"}
        /\ Session(w)
        /\ req[w].key \in Keys
        /\ draft[w] \in Draft
    BY Running DEF CancelOrder, ReleaseQuota, Statements
  <1>2. CASE CancelOrder(w)
    <2> DEFINE u == Updated(draft[w], "CANCELLED")
    <2>1. pc[w] = "cancel"
      BY <1>2 DEF CancelOrder
    <2>2. /\ Reading(w)
          /\ Active(orders[req[w].key])
      BY <1>1, <2>1 DEF Session
    <2>3. draft[w].order # NoRow /\ Active(draft[w].order)
      BY <2>2, RowsOfFields DEF Reading
    <2>4. u \in Draft /\ Explains(u.trail, u.order)
      BY <2>3, UpdatedTrail DEF Active, Follows, Statuses
    <2> HIDE DEF u
    <2>5. Explains(Released(u).trail, Released(u).order)
      BY <2>4, ReleasedFields
    <2>. QED BY <1>2, <2>5, ProceedTrails DEF CancelOrder, u
  <1>3. CASE ReleaseQuota(w)
    <2>1. pc[w] = "release"
      BY <1>3 DEF ReleaseQuota
    <2>2. draft[w].alloc # NoRow
      <3>1. Cancelling(w) /\ alloc[req[w].key] # NoRow
        BY <1>1, <2>1 DEF Session
      <3>2. alloc[req[w].key] \in AllocRow
        BY <1>1, <3>1, RowTypes
      <3>3. [alloc[req[w].key] EXCEPT !.released = TRUE] \in AllocRow
        BY <3>2 DEF AllocRow
      <3>. QED BY <3>1, <3>3, DeskAssumption DEF Cancelling
    <2>3. Explains(CancelPosted(draft[w]).trail, CancelPosted(draft[w]).order)
      BY <1>1, <2>2, CancelPostedFields DEF Trails
    <2>. QED BY <1>3, <2>3, ProceedTrails DEF ReleaseQuota
  <1>. QED BY <1>2, <1>3

\* COMMIT publishes an order together with its events.
LEMMA CommitTrails ==
    ASSUME TypeOK, Sessions, Trails, NEW w \in Workers, Commit(w)
    PROVE  Trails'
  <1>1. /\ orders' = Published(w, orders, draft[w].order)
        /\ trail' = Published(w, trail, draft[w].trail)
        /\ draft' = [draft EXCEPT ![w] = Blank]
    BY CommitTables DEF EndTransaction
  <1>2. ASSUME NEW v \in Workers PROVE Explains(draft'[v].trail, draft'[v].order)
    BY <1>1, NoEvents DEF TypeOK, Trails
  <1>3. ASSUME NEW k \in Keys PROVE Explains(trail'[k], orders'[k])
    <2>1. CASE Holds(w, OrderLock(req[w].key)) /\ k = req[w].key
      BY <1>1, <2>1 DEF Published, TypeOK, Trails
    <2>2. CASE ~(Holds(w, OrderLock(req[w].key)) /\ k = req[w].key)
      BY <1>1, <2>2 DEF Published, TypeOK, Trails
    <2>. QED BY <2>1, <2>2
  <1>. QED BY <1>2, <1>3 DEF Trails

LEMMA TrailsKept ==
    ASSUME TypeOK, Sessions, Trails, [Next]_vars
    PROVE  Trails'
  <1>1. UNCHANGED <<orders, trail, draft>> => Trails'
    BY DEF Trails
  <1>2. ASSUME NEW w \in Workers, Step(w) PROVE Trails'
    <2>1. CASE Answer(w)
      BY <1>1, <2>1 DEF Answer, tables
    <2>. QED BY <1>2, <2>1, ReadingTrails, InsertTrails, ReserveTrails,
                ConfirmTrails, CancelTrails, CommitTrails DEF Step
  <1>3. ASSUME NEW w \in Workers, Abort(w) PROVE Trails'
    BY <1>3, RollbackTrails DEF Abort, tables
  <1>4. ASSUME NEW w \in Workers, NEW r \in Requests, Begin(w, r) PROVE Trails'
    BY <1>1, <1>4 DEF Begin, tables
  <1>5. CASE Tick \/ UNCHANGED vars
    BY <1>1, <1>5 DEF Tick, vars, tables
  <1>. QED BY <1>2, <1>3, <1>4, <1>5 DEF Next

\* The events of an order are always a legal path to the status it has,
\* whoever wrote it and whatever died between two statements.
THEOREM TrailAlwaysExplains == Spec => []TrailExplainsStatus
  <1>1. Init => Trails
    <2> SUFFICES ASSUME Init PROVE Trails
      OBVIOUS
    <2>1. ASSUME NEW k \in Keys PROVE Explains(trail[k], orders[k])
      <3>1. \A s : <<s>> # <<>> /\ Len(<<s>>) = 1 /\ <<s>>[1] = s
        OBVIOUS
      <3>. QED BY <3>1 DEF Init, Explains
    <2>2. ASSUME NEW w \in Workers PROVE Explains(draft[w].trail, draft[w].order)
      BY NoEvents DEF Init
    <2>. QED BY <2>1, <2>2 DEF Trails
  <1>2. IInv /\ Trails /\ [Next]_vars => Trails'
    BY TrailsKept DEF IInv
  <1>3. IInv /\ Trails => TrailExplainsStatus
    <2> SUFFICES ASSUME IInv, Trails, NEW k \in Keys
                 PROVE  LET e == trail[k]
                            n == Len(e)
                        IN  IF orders[k] = NoRow THEN n = 0
                            ELSE /\ n > 0
                                 /\ e[n] = orders[k].status
                                 /\ \A i \in 1 .. n - 1 : Follows(e[i], e[i + 1])
      BY DEF TrailExplainsStatus
    <2>1. trail[k] \in Seq(Statuses) /\ Explains(trail[k], orders[k])
      BY DEF IInv, TypeOK, Trails
    <2>2. Len(<<>>) = 0 /\ (trail[k] # <<>> => Len(trail[k]) > 0)
      BY <2>1
    <2>. QED BY <2>1, <2>2 DEF Explains
  <1>. QED BY <1>1, <1>2, <1>3, Invariance, PTL DEF Spec
----
(***************************************************************************)
(* Refusals.  A submission decides on the committed row of the quota and   *)
(* commits its refusal later; in between others may give quota back, but   *)
(* what was allocated that day only grows.                                 *)
(***************************************************************************)
\* The quota row an order asks, and a refusal that was for want of quota.
Asking(o) == QuotaRowOf(AllocationFor(o))
Justified(o) ==
    o.status = "REJECTED" /\ o.amount > 0 =>
        Books!Allocated(Asking(o)) + o.amount > DailyTotal[o.product]

Refusals ==
    /\ \A k \in Keys : orders[k] # NoRow /\ idem[k] # NoRow => Justified(orders[k])
    /\ \A w \in Workers :
          req[w].op = "submit" /\ draft[w].order # NoRow => Justified(draft[w].order)

\* The books in order, with their sums.
Audited == IInv /\ Books!Accounts

LEMMA AccountsStep ==
    ASSUME Audited, [Next]_vars
    PROVE  Books!Accounts' /\ Books!AllocatedGrows
  <1>1. Books!IInv /\ Books!Accounts /\ [Books!Next]_(Books!vars)
    BY NextRefines DEF Audited, IInv
  <1>. QED BY <1>1, DeskHolds, Books!AccountsKept

LEMMA AskingRow == ASSUME NEW o \in OrderRow PROVE Asking(o) \in Books!QuotaRows
  <1>1. Books!QuotaRows = QuotaRows
    BY DEF Books!QuotaRows, QuotaRows, Books!Days, Days, Books!Times, Times,
           Books!QuotaDay, QuotaDay
  <1>. QED BY <1>1, AllocationRow DEF Asking

\* What justified a refusal goes on to justify it.
LEMMA RefusalStands ==
    ASSUME Audited, [Next]_vars, NEW o \in OrderRow, Justified(o)
    PROVE  Justified(o)'
  <1> DEFINE q == Asking(o)
  <1>1. /\ Books!Allocated(q) \in Nat
        /\ Books!Allocated(q)' \in Nat
        /\ Books!Allocated(q) <= Books!Allocated(q)'
    BY AccountsStep, AskingRow DEF Books!AllocatedGrows
  <1>2. o.amount \in Nat /\ DailyTotal[o.product] \in Nat
    BY DeskAssumption DEF OrderRow
  <1>. QED BY <1>1, <1>2 DEF Justified

LEMMA StandsForRow ==
    ASSUME Audited, [Next]_vars, NEW k, NEW o \in OrderRow, Justified(o),
           orders'[k] = o
    PROVE  Justified(orders[k])'
  BY RefusalStands DEF Justified, Asking, Books!Allocated, Books!AllocatedKeys

LEMMA StandsInHand ==
    ASSUME Audited, [Next]_vars, NEW w, NEW o \in OrderRow, Justified(o),
           draft'[w].order = o
    PROVE  Justified(draft[w].order)'
  BY RefusalStands DEF Justified, Asking, Books!Allocated, Books!AllocatedKeys

\* A refusal on the committed row of the quota is justified: what is used was
\* allocated.
LEMMA RefusedJustly ==
    ASSUME Audited, NEW o \in OrderRow, Refused(AllocationFor(o))
    PROVE  Justified(WithStatus(o, "REJECTED"))
  <1> DEFINE q == Asking(o)
             r == WithStatus(o, "REJECTED")
  <1>1. /\ Asking(r) = q
        /\ r.amount = o.amount
        /\ r.product = o.product
    BY StatusFields DEF Statuses, Asking
  <1>2. used[q] + o.amount > DailyTotal[o.product]
    BY AllocationRow DEF Refused, Asking
  <1>3. Books!Allocated(q) \in Nat /\ used[q] <= Books!Allocated(q)
    <2>1. Books!TypeOK /\ Books!Accounts
      BY DEF Audited, IInv, Books!IInv
    <2>. QED BY <2>1, DeskHolds, AskingRow, Books!RowsSummed
  <1>4. o.amount \in Nat /\ DailyTotal[o.product] \in Nat /\ used[q] \in Nat
    BY DeskAssumption, AllocationRow DEF OrderRow, Audited, IInv, TypeOK, Asking
  <1> HIDE DEF q, r
  <1>5. Books!Allocated(q) + o.amount > DailyTotal[o.product]
    BY <1>2, <1>3, <1>4
  <1>. QED BY <1>1, <1>5 DEF Justified, r

\* A step that writes no order keeps the refusals justified, if a submission
\* has a justified order in its hands afterwards.
LEMMA RefusalsStand ==
    ASSUME Audited, Refusals, [Next]_vars, UNCHANGED <<orders, idem>>,
           \A v \in Workers : req'[v].op = "submit" /\ draft'[v].order # NoRow =>
              \/ req'[v] = req[v] /\ draft'[v].order = draft[v].order
              \/ draft'[v].order \in OrderRow /\ Justified(draft'[v].order)
    PROVE  Refusals'
  <1>1. ASSUME NEW k \in Keys, orders'[k] # NoRow, idem'[k] # NoRow
        PROVE  Justified(orders[k])'
    <2>1. PICK o : o = orders'[k]
      OBVIOUS
    <2>2. o \in OrderRow /\ Justified(o)
      BY <1>1, <2>1 DEF Refusals, Audited, IInv, TypeOK
    <2>. QED BY <2>1, <2>2, StandsForRow
  <1>2. ASSUME NEW v \in Workers, req'[v].op = "submit", draft'[v].order # NoRow
        PROVE  Justified(draft[v].order)'
    <2>1. PICK o : o = draft'[v].order
      OBVIOUS
    <2>2. o \in OrderRow /\ Justified(o)
      <3>1. CASE req'[v] = req[v] /\ o = draft[v].order
        BY <1>2, <2>1, <3>1, DraftFields DEF Refusals, Audited, IInv, TypeOK
      <3>2. CASE ~(req'[v] = req[v] /\ o = draft[v].order)
        BY <1>2, <2>1, <3>2
      <3>. QED BY <3>1, <3>2
    <2>. QED BY <2>1, <2>2, StandsInHand
  <1>. QED BY <1>1, <1>2 DEF Refusals

\* The statements of a submission that write its order.
LEMMA InsertedJustly ==
    ASSUME Audited, NEW w \in Workers, InsertOrder(w)
    PROVE  LET o == RowToInsert(w)
               d == Inserted(draft[w], o)
           IN  /\ o \in OrderRow
               /\ Justified(o)
               /\ d.order = o
               /\ Finalized(d).order = o
  <1>1. TypeOK /\ Sessions
    BY DEF Audited, IInv
  <1>2. \A o : o.status = "PENDING" \/ o.amount = 0 => Justified(o)
    BY DEF Justified
  <1>. QED BY <1>1, <1>2, RowInserted

LEMMA TurnedDownJustly ==
    ASSUME Audited, NEW w \in Workers, ReserveQuota(w),
           Refused(AllocationFor(draft[w].order))
    PROVE  LET u == Updated(draft[w], "REJECTED")
           IN  /\ u.order \in OrderRow
               /\ Justified(u.order)
               /\ req[w].op = "submit" => Finalized(u).order = u.order
  <1> DEFINE d == draft[w]
             u == Updated(d, "REJECTED")
  <1>1. TypeOK /\ Sessions
    BY DEF Audited, IInv
  <1>2. pc[w] = "reserve" /\ Session(w) /\ d \in Draft
    BY <1>1, Running DEF ReserveQuota, Statements
  <1>3. /\ d.order \in OrderRow
        /\ d.order # NoRow
        /\ req[w].op = "submit" => d.idem # NoRow
    BY <1>1, <1>2, DecidingFacts DEF Session
  <1>4. /\ u \in Draft
        /\ u.order = WithStatus(d.order, "REJECTED")
        /\ u.idem = d.idem
    BY <1>2, <1>3, UpdatedFields DEF Statuses
  <1>5. u.order \in OrderRow /\ u.order # NoRow
    BY <1>3, <1>4, StatusFields DEF Statuses
  <1>6. Justified(WithStatus(d.order, "REJECTED"))
    BY <1>3, RefusedJustly
  <1> HIDE DEF u
  <1>7. req[w].op = "submit" => Finalized(u).order = u.order
    BY <1>3, <1>4, <1>5, FinalizedFields
  <1>. QED BY <1>4, <1>5, <1>6, <1>7 DEF u

LEMMA ConfirmedJustly ==
    ASSUME Audited, NEW w \in Workers, ConfirmOrder(w), req[w].op = "submit"
    PROVE  LET o == Finalized(ConfirmPosted(Updated(draft[w], "CONFIRMED"))).order
           IN  o \in OrderRow /\ Justified(o)
  <1> DEFINE u == Updated(draft[w], "CONFIRMED")
             d == ConfirmPosted(u)
  <1>1. TypeOK /\ Sessions
    BY DEF Audited, IInv
  <1>2. pc[w] = "confirm" /\ Session(w) /\ draft[w] \in Draft
    BY <1>1, Running DEF ConfirmOrder, Statements
  <1>3. /\ draft[w].order \in OrderRow
        /\ draft[w].order # NoRow
        /\ draft[w].idem # NoRow
    BY <1>1, <1>2, DecidingFacts DEF Session
  <1>4. /\ u \in Draft
        /\ u.order = WithStatus(draft[w].order, "CONFIRMED")
        /\ u.idem = draft[w].idem
    BY <1>2, <1>3, UpdatedFields DEF Statuses
  <1>5. /\ u.order \in OrderRow
        /\ u.order # NoRow
        /\ u.order.status = "CONFIRMED"
    BY <1>3, <1>4, StatusFields DEF Statuses
  <1> HIDE DEF u
  <1>6. /\ d \in Draft
        /\ d.order = u.order
        /\ d.idem # NoRow
    BY <1>3, <1>4, <1>5, ConfirmPostedFields
  <1> HIDE DEF d
  <1>7. Finalized(d).order = u.order
    BY <1>5, <1>6, FinalizedFields
  <1>. QED BY <1>5, <1>7 DEF Justified, d, u

\* Every statement but COMMIT, and every rollback.
LEMMA StatementRefusals ==
    ASSUME Audited, Refusals, NEW w \in Workers,
           Step(w) \/ Abort(w) \/ (\E r \in Requests : Begin(w, r)),
           ~Commit(w)
    PROVE  Refusals'
  <1> DEFINE Same == req'[w] = req[w] /\ draft'[w].order = draft[w].order
             Fine == \/ draft'[w].order = NoRow
                     \/ Same
                     \/ req'[w].op # "submit"
                     \/ draft'[w].order \in OrderRow /\ Justified(draft'[w].order)
  <1>1. TypeOK /\ Sessions /\ [Next]_vars
    BY DEF Audited, IInv, Next
  <1>2. UNCHANGED <<orders, idem>> /\ Fine => Refusals'
    <2> SUFFICES ASSUME UNCHANGED <<orders, idem>>, Fine PROVE Refusals'
      OBVIOUS
    <2>1. ASSUME NEW v \in Workers, v # w
          PROVE  req'[v] = req[v] /\ draft'[v].order = draft[v].order
      BY <1>1, <2>1, OthersLeftAlone
    <2>2. \A v \in Workers : req'[v].op = "submit" /\ draft'[v].order # NoRow =>
              \/ req'[v] = req[v] /\ draft'[v].order = draft[v].order
              \/ draft'[v].order \in OrderRow /\ Justified(draft'[v].order)
      BY <2>1
    <2>. QED BY <1>1, <2>2, RefusalsStand
  <1>3. UNCHANGED <<orders, idem>>
    BY <1>1, StatementsStutter DEF tables
  <1> SUFFICES Fine
    BY <1>2, <1>3
  <1>4. ASSUME NEW next, NEW d, NEW ls, Proceed(w, next, d, ls)
        PROVE  req'[w] = req[w] /\ draft'[w] = d
    BY <1>1, <1>4, ProceedSelf
  <1>5. EndTransaction(w) => Fine
    BY <1>1, BlankFields DEF EndTransaction, TypeOK
  <1>6. \A code : Fail(w, code) => Fine
    BY <1>5 DEF Fail
  <1>7. CASE Abort(w)
    BY <1>5, <1>7 DEF Abort
  <1>8. CASE Answer(w) \/ (\E r \in Requests : Begin(w, r))
    <2>1. draft[w] = Blank /\ draft' = draft
      BY <1>1, <1>8 DEF Answer, Begin, Sessions, Session
    <2>. QED BY <2>1, BlankFields
  <1>9. CASE LockProduct(w) \/ CheckCutoff(w)
    BY <1>4, <1>6, <1>9 DEF LockProduct, CheckCutoff
  <1>10. CASE LockIdempotency(w)
    <2>1. \A r : [draft[w] EXCEPT !.idem = r].order = draft[w].order
      BY <1>1 DEF TypeOK, Draft
    <2>. QED BY <1>4, <1>6, <1>10, <2>1 DEF LockIdempotency
  <1>11. CASE LockOrder(w)
    <2>1. pc[w] = "order" /\ req[w].op \in {"confirm", "cancel"}
      BY <1>1, <1>11 DEF LockOrder, Sessions, Session
    <2>. QED BY <1>4, <1>6, <1>11, <2>1 DEF LockOrder
  <1>12. CASE CancelOrder(w) \/ ReleaseQuota(w)
    <2>1. req[w].op = "cancel"
      BY <1>1, <1>12 DEF CancelOrder, ReleaseQuota, Sessions, Session, Cancelling
    <2>. QED BY <1>4, <1>12, <2>1 DEF CancelOrder, ReleaseQuota
  <1>13. CASE InsertOrder(w)
    <2> DEFINE d == Inserted(draft[w], RowToInsert(w))
    <2>1. /\ d.order \in OrderRow /\ Justified(d.order)
          /\ Finalized(d).order \in OrderRow /\ Justified(Finalized(d).order)
      BY <1>13, InsertedJustly
    <2>. QED BY <1>4, <1>6, <1>13, <2>1 DEF InsertOrder, RowToInsert
  <1>14. CASE ReserveQuota(w)
    <2> DEFINE u == Updated(draft[w], "REJECTED")
    <2>1. CASE Refused(AllocationFor(draft[w].order))
      <3>1. /\ u.order \in OrderRow /\ Justified(u.order)
            /\ req[w].op = "submit" => Finalized(u).order = u.order
        BY <1>14, <2>1, TurnedDownJustly
      <3>2. Proceed(w, "commit", Finalized(u), {}) /\ req[w].op = "submit" => Fine
        BY <1>4, <3>1
      <3>3. Proceed(w, "commit", u, {}) => Fine
        BY <1>4, <3>1
      <3>. QED BY <1>14, <2>1, <3>2, <3>3 DEF ReserveQuota
    <2>2. CASE ~Refused(AllocationFor(draft[w].order))
      <3>1. \A d : d = Reserved(draft[w]) => d.order = draft[w].order
        BY <1>1 DEF TypeOK, Draft, Reserved
      <3>. QED BY <1>4, <1>6, <1>14, <2>2, <3>1 DEF ReserveQuota
    <2>. QED BY <2>1, <2>2
  <1>15. CASE ConfirmOrder(w)
    <2> DEFINE d == ConfirmPosted(Updated(draft[w], "CONFIRMED"))
    <2>1. CASE req[w].op = "submit"
      <3>1. Finalized(d).order \in OrderRow /\ Justified(Finalized(d).order)
        BY <1>15, <2>1, ConfirmedJustly
      <3>. QED BY <1>4, <1>6, <1>15, <2>1, <3>1 DEF ConfirmOrder
    <2>2. CASE req[w].op # "submit"
      BY <1>4, <1>6, <1>15, <2>2 DEF ConfirmOrder
    <2>. QED BY <2>1, <2>2
  <1>. QED BY <1>7, <1>8, <1>9, <1>10, <1>11, <1>12, <1>13, <1>14, <1>15 DEF Step

\* COMMIT: the refusals on record stay as they are, and the one it publishes
\* was in its hands.
LEMMA CommitRefusals ==
    ASSUME Audited, Refusals, NEW w \in Workers, Commit(w)
    PROVE  Refusals'
  <1>1. TypeOK /\ Sessions /\ IInv /\ Books!IInv /\ [Next]_vars
    BY DEF Audited, IInv, Next, Step
  <1>2. /\ Session(w)
        /\ LocksFit(w)
        /\ req[w].key \in Keys
        /\ pc[w] = "commit"
        /\ draft'[w] = Blank
    BY <1>1, Running, CommitTables DEF Statements, EndTransaction, TypeOK
  <1>3. ASSUME NEW k \in Keys, orders'[k] # NoRow, idem'[k] # NoRow
        PROVE  Justified(orders[k])'
    <2>1. PICK o : o = orders'[k]
      OBVIOUS
    <2>2. o \in OrderRow
      <3>1. TypeOK'
        BY <1>1, NextIInv DEF IInv
      <3>. QED BY <1>3, <2>1, <3>1 DEF TypeOK
    <2>3. CASE idem[k] # NoRow
      <3>1. orders[k] # NoRow /\ orders[k].status # "PENDING"
        BY <1>1, <2>3, BookFacts
      <3>2. o = orders[k] \/ o.status # "REJECTED"
        BY <1>1, <2>1, <3>1, HistoryOfKey DEF Follows
      <3>3. Justified(o)
        BY <2>3, <3>1, <3>2 DEF Refusals, Justified
      <3>. QED BY <1>1, <2>1, <2>2, <3>3, StandsForRow
    <2>4. CASE idem[k] = NoRow
      <3>1. k = req[w].key /\ req[w].op = "submit"
        <4>1. CASE Holds(w, IdemLock(req[w].key))
          <5>1. /\ idem' = [idem EXCEPT ![req[w].key] = draft[w].idem]
                /\ req[w].op = "submit"
            BY <1>1, <1>2, <4>1, CommitIdem
          <5>. QED BY <1>1, <1>3, <2>4, <5>1 DEF TypeOK
        <4>2. CASE ~Holds(w, IdemLock(req[w].key))
          <5>1. UNCHANGED idem
            BY <1>1, <1>2, <4>2, CommitIdem
          <5>. QED BY <1>3, <2>4, <5>1
        <4>. QED BY <4>1, <4>2
      <3>2. ~Replaying(w) /\ ~ChangingNothing(w) /\ ~CancellingDone(w)
        BY <2>4, <3>1 DEF Replaying, ChangingNothing, Reading, CancellingDone, Cancelling
      <3>3. Submitting(w)
        BY <1>1, <1>2, <3>1, <3>2, DecidingFacts
        DEF Session, TurningDown, TakingEffect, BeingLate
      <3>4. draft[w].order # NoRow /\ o = draft[w].order
        BY <1>1, <1>2, <2>1, <3>1, <3>3, CommitRows DEF Submitting, TypeOK
      <3>5. Justified(o)
        BY <3>1, <3>4 DEF Refusals
      <3>. QED BY <1>1, <2>1, <2>2, <3>5, StandsForRow
    <2>. QED BY <2>3, <2>4
  <1>4. ASSUME NEW v \in Workers, req'[v].op = "submit", draft'[v].order # NoRow
        PROVE  Justified(draft[v].order)'
    <2>1. v # w
      BY <1>2, <1>4, BlankFields
    <2>2. req'[v] = req[v] /\ draft'[v] = draft[v]
      BY <1>1, <2>1, OthersLeftAlone DEF Step
    <2>3. PICK o : o = draft[v].order
      OBVIOUS
    <2>4. o \in OrderRow /\ Justified(o)
      BY <1>1, <1>4, <2>2, <2>3, DraftFields DEF Refusals, TypeOK
    <2>. QED BY <1>1, <2>2, <2>3, <2>4, StandsInHand
  <1>. QED BY <1>3, <1>4 DEF Refusals

LEMMA RefusalsKept ==
    ASSUME Audited, Refusals, [Next]_vars
    PROVE  Refusals'
  <1>1. ASSUME NEW w \in Workers,
               Step(w) \/ Abort(w) \/ (\E r \in Requests : Begin(w, r))
        PROVE  Refusals'
    BY <1>1, StatementRefusals, CommitRefusals
  <1>2. CASE Tick \/ UNCHANGED vars
    <2>1. UNCHANGED <<orders, idem, req, draft>>
      BY <1>2 DEF Tick, vars, tables
    <2>. QED BY <2>1, RefusalsStand
  <1>. QED BY <1>1, <1>2 DEF Next

\* A submission is only turned down for quota when its amount did not fit
\* beside what had been allocated that day, whoever gave quota back between
\* its refused UPDATE and its COMMIT.
THEOREM RefusalsAlwaysJustified == Spec => []RefusalsAreJustified
  <1>1. Init => Books!Accounts
    BY InitRefines, DeskHolds, Books!InitAccounts
  <1>2. IInv /\ Books!Accounts /\ [Next]_vars => Books!Accounts'
    BY AccountsStep DEF Audited
  <1>3. Init => Refusals
    BY BlankFields DEF Init, Refusals
  <1>4. IInv /\ Books!Accounts /\ Refusals /\ [Next]_vars => Refusals'
    BY RefusalsKept DEF Audited
  <1>5. Refusals => RefusalsAreJustified
    <2>1. \A q : EverAllocated(q) = Books!Allocated(q)
      BY DEF EverAllocated, Books!Allocated, Books!AllocatedKeys, Books!AmountOf,
             Books!QuotaRowOf, QuotaRowOf, MapThenSumSet, MapThenFoldSet,
             Books!MapThenSumSet, Books!MapThenFoldSet
    <2>. QED BY <2>1 DEF Refusals, Justified, Asking, RefusalsAreJustified
  <1>. QED BY <1>1, <1>2, <1>3, <1>4, <1>5, Invariance, PTL DEF Spec
====
