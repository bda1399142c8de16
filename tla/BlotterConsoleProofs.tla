---- MODULE BlotterConsoleProofs ----
(***************************************************************************)
(* Proofs about BlotterConsole, for every set of orders, filters, page     *)
(* size, limit of an answer and number of requests in flight: unless one   *)
(* of the mishaps happened, a row that is out of date is still due an      *)
(* event.                                                                  *)
(***************************************************************************)
EXTENDS BlotterConsole, StatusFeedProofs
----
(***************************************************************************)
(* The inductive invariant.  Its first part holds always: every number the *)
(* console has stands for something the database committed.                *)
(***************************************************************************)
Seen(n) == n = 0 \/ \E k \in Orders : \E e \in events[k] : n <= e

ViewShape ==
    /\ filter \in Filters
    /\ rows \in [Orders -> Nat]
    /\ \A k \in Orders : rows[k] <= Row(k)
    /\ eventCursor \in Nat
    /\ Seen(eventCursor)
    /\ offset \in Nat
    /\ hasMore \in BOOLEAN

StreamShape ==
    /\ stream \in [at : {"open", "lost", "off"}, filter : Filters \cup {Nothing},
                   sent : Nat]
    /\ Seen(stream.sent)
    /\ Notices(queue)
    /\ due \in {"no", "followed", "turned"}
    /\ syncMode \in {"sse", "polling"}
    /\ streamFailures \in 0 .. Patience
    /\ syncMode = "sse" => streamFailures < Patience
    /\ stream.at = "open" =>
          /\ stream.filter \in Filters
          /\ syncMode = "sse"
          /\ due # "turned" => online
          /\ \A i \in DOMAIN queue : queue[i].id <= stream.sent
    /\ stream.at # "open" => queue = <<>>

Pages == [rows : [Orders -> Nat], more : BOOLEAN]
Requests ==
    [kind : {"load", "page", "poll"}, filter : Filters, arg : Nat, old : BOOLEAN,
     reply : {Nothing} \cup Seq(Notice) \cup Pages]
ReplyOK(x) ==
    IF x.kind = "poll"
    THEN Notices(x.reply) /\ \A i \in DOMAIN x.reply : x.arg < x.reply[i].id
    ELSE x.reply \in Pages /\ \A k \in Orders : x.reply.rows[k] <= Row(k)
FlightsShape ==
    /\ flights \in [Slots -> {Nothing} \cup Requests]
    /\ \A s \in Slots :
          flights[s] # Nothing /\ flights[s].reply # Nothing => ReplyOK(flights[s])

Actions == [at : {"sent", "running", "confirmed", "failed"}, shown : Nat, row : Nat]
ActsShape ==
    /\ acts \in [Orders -> {Nothing} \cup Actions]
    /\ \A k \in Orders : acts[k] # Nothing =>
          acts[k].shown <= Row(k) /\ acts[k].row <= Row(k)

Shape ==
    /\ FeedOK
    /\ ViewShape
    /\ StreamShape
    /\ FlightsShape
    /\ ActsShape
    /\ mishaps \subseteq Mishaps
----
(***************************************************************************)
(* Its second part holds as long as there was no mishap: what is on its    *)
(* way to the console, on the stream or in an answer that is still asked   *)
(* for, will not let it skip the last event of an order.                   *)
(***************************************************************************)
\* A row of an order whose last event is not ahead of the cursor is the current
\* one, or on a page that is still to be asked for.
RowsCurrent ==
    \A k \in Matching(filter) : Row(k) <= eventCursor =>
        \/ rows[k] = Row(k)
        \/ rows[k] = 0 /\ hasMore /\ Place(filter, k) > offset

\* Between the cursor and what the stream has sent, the queue has the last event
\* of every order, unless the effect is about to open another stream.
StreamComplete ==
    stream.at = "open" /\ due # "turned" =>
        /\ stream.filter = filter
        /\ eventCursor <= stream.sent
        /\ \A i \in DOMAIN queue : eventCursor < queue[i].id
        /\ \A k \in Matching(filter) :
              eventCursor < Row(k) /\ Row(k) <= stream.sent => Told(queue, k)

\* A poll goes on from a cursor the console has reached.
PollComplete(x) ==
    x.kind = "poll" =>
        /\ x.arg <= eventCursor
        /\ x.reply # Nothing =>
              \A k \in Matching(filter), i \in DOMAIN x.reply :
                  x.arg < Row(k) /\ Row(k) <= x.reply[i].id => Told(x.reply, k)

\* The answer has the row of an order, or knows of a later page with it.
Covered(x, k) ==
    \/ x.reply.rows[k] = Row(k)
    \/ x.reply.rows[k] = 0 /\ x.reply.more /\ Place(filter, k) > x.arg + PageSize

\* A page will not leave out a row that is neither shown nor due an event.
Unseen(k) == Row(k) <= eventCursor /\ rows[k] = 0
PageComplete(x) ==
    x.kind = "page" =>
        \A k \in Matching(filter) : Unseen(k) =>
            /\ x.reply = Nothing => Place(filter, k) > x.arg
            /\ x.reply # Nothing => Covered(x, k)

\* A load sets the cursor to the newest of its rows, and covers every order up
\* to there.
LoadComplete(x) ==
    x.kind = "load" =>
        /\ x.arg = 0
        /\ x.reply # Nothing =>
              \A k \in Matching(filter), j \in Orders :
                  Row(k) <= x.reply.rows[j] => Covered(x, k)

Complete(x) ==
    x.filter = filter /\ PollComplete(x) /\ PageComplete(x) /\ LoadComplete(x)
FlightsComplete ==
    \A s \in Slots : flights[s] # Nothing /\ ~flights[s].old => Complete(flights[s])

IInv == Shape /\ (mishaps = {} => RowsCurrent /\ StreamComplete /\ FlightsComplete)
----
(***************************************************************************)
(* What the invariant says.                                                *)
(***************************************************************************)
LEMMA FilterIs == \A f \in Filters : f.orders \subseteq Orders
  BY ConsoleAssumption

\* The cursor is within the ids drawn.
LEMMA SeenIs == ASSUME FeedOK, NEW n \in Nat, Seen(n) PROVE n \in 0 .. lastId
  <1>1. CASE n = 0
    BY <1>1 DEF FeedOK
  <1>2. CASE n # 0
    <2>1. PICK k \in Orders : \E e \in events[k] : n <= e
      BY <1>2 DEF Seen
    <2>2. PICK e \in events[k] : n <= e
      BY <2>1
    <2>. QED BY <2>2 DEF FeedOK
  <1>. QED BY <1>1, <1>2

LEMMA ShapeTypes == Shape => TypeOK
  <1> SUFFICES ASSUME Shape PROVE TypeOK
    OBVIOUS
  <1>1. rows \in [Orders -> 0 .. lastId]
    <2>1. \A k \in Orders : rows[k] \in Nat /\ rows[k] <= Row(k) /\ Row(k) \in 0 .. lastId
      BY RowIs DEF Shape, ViewShape
    <2>2. \A k \in Orders : rows[k] \in 0 .. lastId
      BY <2>1 DEF Shape, FeedOK
    <2>. QED BY <2>2 DEF Shape, ViewShape
  <1>2. eventCursor \in 0 .. lastId
    BY SeenIs DEF Shape, ViewShape
  <1>. QED BY <1>1, <1>2 DEF TypeOK, Shape, ViewShape, StreamShape

LEMMA CurrentRowsAreDue == IInv => StaleRowsAreDue
  <1> SUFFICES ASSUME IInv, mishaps = {}, NEW k \in Matching(filter), Stale(k)
               PROVE  \E e \in events[k] : e > eventCursor
    BY DEF StaleRowsAreDue
  <1>1. k \in Orders /\ events[k] # {}
    BY FilterIs, MatchingIs DEF IInv, Shape, ViewShape
  <1>2. Row(k) \in events[k] /\ Row(k) \in Nat /\ eventCursor \in Nat
    BY <1>1, RowIs DEF IInv, Shape, ViewShape
  <1>3. ~(Row(k) <= eventCursor)
    BY DEF IInv, RowsCurrent, Stale
  <1>. QED BY <1>2, <1>3
----
(***************************************************************************)
(* The start: the seeded orders have an event each, numbered in their      *)
(* order.                                                                  *)
(***************************************************************************)
UpTo(k) == {j \in Seeded : j <= k}

LEMMA SeededRanks ==
    /\ Cardinality(Seeded) \in Nat
    /\ \A k \in Seeded : Cardinality(UpTo(k)) \in 1 .. Cardinality(Seeded)
    /\ \A i, j \in Seeded : i # j => Cardinality(UpTo(i)) # Cardinality(UpTo(j))
  <1>1. IsFiniteSet(Seeded) /\ Seeded \subseteq Nat
    BY FS_Subset, FeedAssumption, ConsoleAssumption
  <1>2. \A k : IsFiniteSet(UpTo(k)) /\ UpTo(k) \subseteq Seeded
    BY <1>1, FS_Subset DEF UpTo
  <1>3. \A k \in Seeded : k \in UpTo(k)
    BY <1>1 DEF UpTo
  <1>4. Cardinality(Seeded) \in Nat
    BY <1>1, FS_CardinalityType
  <1>5. \A k \in Seeded : Cardinality(UpTo(k)) \in 1 .. Cardinality(Seeded)
    <2> TAKE k \in Seeded
    <2>1. Cardinality(UpTo(k)) \in Nat /\ Cardinality(UpTo(k)) # 0
      BY <1>2, <1>3, FS_CardinalityType, FS_EmptySet
    <2>2. Cardinality(UpTo(k)) <= Cardinality(Seeded)
      BY <1>1, <1>2, FS_Subset
    <2>. QED BY <1>4, <2>1, <2>2
  <1>6. ASSUME NEW i \in Seeded, NEW j \in Seeded, i < j
        PROVE  Cardinality(UpTo(i)) # Cardinality(UpTo(j))
    <2>1. i \in Nat /\ j \in Nat
      BY <1>1
    <2>2. UpTo(i) \subseteq UpTo(j) /\ j \notin UpTo(i)
      <3>1. ASSUME NEW e \in Seeded, e <= i PROVE e <= j
        BY <1>1, <1>6, <2>1, <3>1
      <3>2. ~(j <= i)
        BY <1>6, <2>1
      <3>. QED BY <3>1, <3>2 DEF UpTo
    <2>3. UpTo(i) # UpTo(j)
      BY <1>3, <2>2
    <2>. QED BY <1>2, <2>2, <2>3, FS_Subset
  <1>7. \A i, j \in Seeded : i # j => i < j \/ j < i
    BY <1>1
  <1>. QED BY <1>4, <1>5, <1>6, <1>7

LEMMA NoNotices == Notices(<<>>)
  BY DEF Notices

LEMMA Starts == Init => IInv
  <1> SUFFICES ASSUME Init PROVE IInv
    OBVIOUS
  <1>1. /\ lastId = Cardinality(Seeded)
        /\ events = [k \in Orders |->
              IF k \in Seeded THEN {Cardinality(UpTo(k))} ELSE {}]
        /\ open = [k \in Orders |-> {}]
    BY DEF Init, UpTo
  <1>2. FeedOK
    <2>1. \A k \in Orders : events[k] =
             IF k \in Seeded THEN {Cardinality(UpTo(k))} ELSE {}
      BY <1>1
    <2>2. \A k \in Orders : events[k] \subseteq 1 .. lastId /\ open[k] = {}
      BY <1>1, <2>1, SeededRanks
    <2>3. lastId \in Nat
      BY <1>1, SeededRanks
    <2>4. \A k, j \in Orders : k # j => Drawn(k) \cap Drawn(j) = {}
      BY <2>1, <2>2, SeededRanks DEF Drawn
    <2>5. open \in [Orders -> SUBSET (1 .. lastId)]
          /\ events \in [Orders -> SUBSET (1 .. lastId)]
      BY <1>1, <2>2
    <2>. QED BY <2>2, <2>3, <2>4, <2>5 DEF FeedOK
  <1>3. \A k \in Orders : Row(k) \in Nat /\ (events[k] # {} => Row(k) >= 1)
    BY <1>2, RowIs DEF FeedOK
  <1>4. ViewShape
    <2>1. rows = [k \in Orders |-> 0] /\ eventCursor = 0 /\ offset = 0
          /\ hasMore = FALSE /\ filter \in Filters
      BY DEF Init
    <2>2. rows \in [Orders -> Nat] /\ \A k \in Orders : rows[k] <= Row(k)
      BY <1>3, <2>1
    <2>. QED BY <2>1, <2>2 DEF ViewShape, Seen
  <1>5. StreamShape
    BY NoNotices, ConsoleAssumption DEF StreamShape, Init, Opened, Seen
  <1>6. FlightsShape /\ FlightsComplete
    <2>1. Flight("load", filter, 0) \in Requests
          /\ Flight("load", filter, 0).reply = Nothing
          /\ Flight("load", filter, 0).kind = "load"
          /\ Flight("load", filter, 0).filter = filter
          /\ Flight("load", filter, 0).arg = 0
      BY DEF Flight, Requests, Init
    <2>2. flights = [s \in Slots |->
             IF s = Min(Slots) THEN Flight("load", filter, 0) ELSE Nothing]
      BY DEF Init
    <2>3. FlightsShape
      BY <2>1, <2>2 DEF FlightsShape
    <2>4. FlightsComplete
      BY <2>1, <2>2 DEF FlightsComplete, Complete, PollComplete, PageComplete,
                        LoadComplete
    <2>. QED BY <2>3, <2>4
  <1>7. ActsShape
    BY DEF ActsShape, Init
  <1>8. RowsCurrent
    BY <1>3, FilterIs, MatchingIs DEF RowsCurrent, Init
  <1>9. StreamComplete
    BY <1>3, FilterIs, MatchingIs DEF StreamComplete, Init, Opened
  <1>. QED BY <1>2, <1>4, <1>5, <1>6, <1>7, <1>8, <1>9 DEF IInv, Shape, Init
----
(***************************************************************************)
(* Steps that leave alone what a part of the invariant is about.           *)
(***************************************************************************)
LEMMA SameEvents ==
    ASSUME events' = events
    PROVE  /\ \A k : Row(k)' = Row(k)
           /\ \A f : Matching(f)' = Matching(f)
           /\ \A f, k : Place(f, k)' = Place(f, k)
           /\ \A n : Seen(n)' = Seen(n)
           /\ \A q : Notices(q)' = Notices(q)
           /\ \A q, k : Told(q, k)' = Told(q, k)
           /\ \A x : ReplyOK(x)' = ReplyOK(x)
  <1>1. \A k : Row(k)' = Row(k)
    BY DEF Row
  <1>2. \A f : Matching(f)' = Matching(f)
    BY DEF Matching
  <1>3. \A f, k : Place(f, k)' = Place(f, k)
    BY <1>2 DEF Place
  <1>4. \A n : Seen(n)' = Seen(n)
    BY DEF Seen
  <1>5. \A q : Notices(q)' = Notices(q)
    BY <1>1 DEF Notices
  <1>6. \A q, k : Told(q, k)' = Told(q, k)
    BY <1>1 DEF Told
  <1>7. \A x : ReplyOK(x)' = ReplyOK(x)
    BY <1>1, <1>5 DEF ReplyOK
  <1>. QED BY <1>1, <1>2, <1>3, <1>4, <1>5, <1>6, <1>7

LEMMA SameView ==
    ASSUME ViewShape, events' = events,
           UNCHANGED <<filter, rows, eventCursor, offset, hasMore>>
    PROVE  ViewShape' /\ (RowsCurrent => RowsCurrent')
  <1>1. ViewShape'
    BY SameEvents DEF ViewShape
  <1>2. RowsCurrent => RowsCurrent'
    BY SameEvents DEF RowsCurrent
  <1>. QED BY <1>1, <1>2

\* The stream's part also survives when its effect is to run again.
LEMMA SameStream ==
    ASSUME StreamShape, events' = events,
           UNCHANGED <<stream, queue, syncMode, streamFailures, online>>,
           due' = due \/ due' = "turned"
    PROVE  /\ StreamShape'
           /\ \/ due' = "turned"
              \/ UNCHANGED <<filter, eventCursor>> /\ StreamComplete
              => StreamComplete'
  <1>1. StreamShape'
    BY SameEvents DEF StreamShape
  <1>2. CASE due' = "turned"
    BY <1>1, <1>2 DEF StreamComplete
  <1>3. ASSUME UNCHANGED <<filter, eventCursor, due>>, StreamComplete
        PROVE  StreamComplete'
    BY <1>3, SameEvents DEF StreamComplete
  <1>. QED BY <1>1, <1>2, <1>3

LEMMA SameFlights ==
    ASSUME FlightsShape, events' = events, UNCHANGED flights
    PROVE  FlightsShape'
  BY SameEvents DEF FlightsShape

LEMMA SameActs ==
    ASSUME ActsShape, events' = events, UNCHANGED acts
    PROVE  ActsShape'
  BY SameEvents DEF ActsShape

\* A request stays complete when the cursor moves up, if no row becomes unseen.
LEMMA StaysComplete ==
    ASSUME events' = events, filter' = filter, NEW x \in Requests, Complete(x),
           eventCursor \in Nat, eventCursor' \in Nat,
           x.kind = "poll" => eventCursor <= eventCursor',
           x.kind = "page" => \A k \in Matching(filter) : Unseen(k)' => Unseen(k)
    PROVE  Complete(x)'
  <1>1. x.arg \in Nat
    BY DEF Requests
  <1>2. PollComplete(x)'
    BY <1>1, SameEvents DEF Complete, PollComplete
  <1>3. \A k : Covered(x, k)' = Covered(x, k)
    BY SameEvents DEF Covered
  <1>4. PageComplete(x)'
    BY <1>3, SameEvents DEF Complete, PageComplete
  <1>5. LoadComplete(x)'
    BY <1>3, SameEvents DEF Complete, LoadComplete
  <1>. QED BY <1>2, <1>4, <1>5 DEF Complete
----
(***************************************************************************)
(* Transactions.  Without a mishap a commit only adds a row that is newer  *)
(* than anything the console was told of.                                  *)
(***************************************************************************)
LEMMA CommitKeepsShape ==
    ASSUME Shape, NEW k \in Orders, CommitOrder(k)
    PROVE  Shape'
  <1> USE DEF Shape
  <1>1. /\ Commit(k) /\ FeedOK
        /\ UNCHANGED <<filter, rows, eventCursor, offset, hasMore, syncMode,
                       streamFailures, online, stream, queue, due, flights>>
    BY DEF CommitOrder
  <1>2. FeedOK' /\ \A j \in Orders : events[j] \subseteq events'[j]
    BY <1>1, Commits
  <1>3. \A j \in Orders : Row(j) \in Nat /\ Row(j)' \in Nat /\ Row(j) <= Row(j)'
    <2>1. \A j \in Orders : Row(j) <= Row(j)' /\ (j # k => Row(j)' = Row(j))
      BY <1>1, Commits
    <2>2. \A j \in Orders : Row(j) \in Nat
      BY <1>1, RowIs DEF FeedOK
    <2>3. Row(k)' \in Nat
      <3>1. {0} \cup events'[k] \subseteq 0 .. lastId' /\ lastId' \in Nat
        BY <1>2 DEF FeedOK
      <3>2. {0} \cup events'[k] # {}
        OBVIOUS
      <3>. QED BY <3>1, <3>2, Greatest DEF Row
    <2>. QED BY <2>1, <2>2, <2>3
  <1>4. \A n : Seen(n) => Seen(n)'
    BY <1>2 DEF Seen
  <1>5. \A q : Notices(q) => Notices(q)'
    <2> SUFFICES ASSUME NEW q, Notices(q) PROVE Notices(q)'
      OBVIOUS
    <2>1. ASSUME NEW i \in DOMAIN q
          PROVE  q[i].id \in events'[q[i].order] /\ q[i].row <= Row(q[i].order)'
      <3>1. q[i] \in Notice
        BY DEF Notices
      <3>2. q[i].order \in Orders /\ q[i].row \in Nat
        BY <3>1 DEF Notice
      <3>. QED BY <1>2, <1>3, <3>2 DEF Notices
    <2>. QED BY <2>1 DEF Notices
  <1>6. \A x : ReplyOK(x) => ReplyOK(x)'
    <2> SUFFICES ASSUME NEW x, ReplyOK(x) PROVE ReplyOK(x)'
      OBVIOUS
    <2>1. CASE x.kind = "poll"
      BY <1>5, <2>1 DEF ReplyOK
    <2>2. CASE x.kind # "poll"
      <3>1. x.reply \in Pages /\ \A j \in Orders : x.reply.rows[j] <= Row(j)
        BY <2>2 DEF ReplyOK
      <3>2. \A j \in Orders : x.reply.rows[j] \in Nat
        BY <3>1 DEF Pages
      <3>3. \A j \in Orders : x.reply.rows[j] <= Row(j)'
        BY <3>1, <3>2, <1>3
      <3>. QED BY <2>2, <3>1, <3>3 DEF ReplyOK
    <2>. QED BY <2>1, <2>2
  <1>7. ViewShape'
    <2>1. \A j \in Orders : rows[j] <= Row(j)'
      BY <1>3 DEF ViewShape
    <2>. QED BY <1>1, <1>4, <2>1 DEF ViewShape
  <1>8. StreamShape'
    BY <1>1, <1>4, <1>5 DEF StreamShape
  <1>9. FlightsShape'
    BY <1>1, <1>6 DEF FlightsShape
  <1>10. ActsShape'
    <2>1. \A j \in Orders : acts[j] # Nothing =>
             acts[j].shown <= Row(j)' /\ acts[j].row <= Row(j)'
      <3> TAKE j \in Orders
      <3> HAVE acts[j] # Nothing
      <3>1. acts[j] \in Actions /\ acts[j].shown <= Row(j) /\ acts[j].row <= Row(j)
        BY DEF ActsShape
      <3>2. acts[j].shown \in Nat /\ acts[j].row \in Nat
        BY <3>1 DEF Actions
      <3>. QED BY <1>3, <3>1, <3>2
    <2>2. CASE acts' = acts
      BY <2>1, <2>2 DEF ActsShape
    <2>3. CASE Running(k) /\ \E at \in {"confirmed", "failed"} :
                 acts' = [acts EXCEPT ![k].at = at, ![k].row = Row(k)']
      <3>1. PICK at \in {"confirmed", "failed"} :
               acts' = [acts EXCEPT ![k].at = at, ![k].row = Row(k)']
        BY <2>3
      <3>2. acts[k] \in Actions /\ acts[k] # Nothing
        BY <2>3 DEF Running, ActsShape
      <3>3. acts'[k] = [at |-> at, shown |-> acts[k].shown, row |-> Row(k)']
        BY <3>1, <3>2 DEF Actions, ActsShape
      <3>4. acts'[k] \in Actions /\ acts'[k].shown <= Row(k)' /\ acts'[k].row <= Row(k)'
        BY <3>2, <3>3, <2>1, <1>3 DEF Actions
      <3>5. \A j \in Orders : j # k => acts'[j] = acts[j]
        BY <3>1 DEF ActsShape
      <3>6. acts' \in [Orders -> {Nothing} \cup Actions]
        <4>1. DOMAIN acts' = Orders /\ acts' = [j \in Orders |-> acts'[j]]
          BY <3>1 DEF ActsShape
        <4>2. \A j \in Orders : acts'[j] \in {Nothing} \cup Actions
          BY <3>4, <3>5 DEF ActsShape
        <4>. QED BY <4>1, <4>2
      <3>. QED BY <3>4, <3>5, <3>6, <2>1 DEF ActsShape
    <2>. QED BY <2>2, <2>3 DEF CommitOrder
  <1>11. mishaps' \subseteq Mishaps
    BY DEF CommitOrder, Mishaps
  <1>. QED BY <1>2, <1>7, <1>8, <1>9, <1>10, <1>11

LEMMA CommitKeepsCompleteness ==
    ASSUME IInv, NEW k \in Orders, CommitOrder(k), mishaps' = {}
    PROVE  RowsCurrent' /\ StreamComplete' /\ FlightsComplete'
  <1>1. /\ mishaps = {} /\ ~Overtaken(k)
        /\ k \in Matching(filter) => k \in Matching(filter)'
    BY DEF CommitOrder
  <1>2. Shape /\ RowsCurrent /\ StreamComplete /\ FlightsComplete
    BY <1>1 DEF IInv
  <1>3. /\ Commit(k) /\ FeedOK /\ filter.orders \subseteq Orders
        /\ UNCHANGED <<filter, rows, eventCursor, offset, hasMore, stream, queue,
                       due, flights>>
    BY <1>2, FilterIs DEF CommitOrder, Shape, ViewShape
  <1>4. /\ Matching(filter)' \subseteq Matching(filter) \cup {k}
        /\ \A j \in Matching(filter) : Place(filter, j) <= Place(filter, j)'
        /\ Matching(filter) \subseteq Matching(filter)'
        /\ Matching(filter)' \subseteq Orders
    <2>1. PICK f : f = filter
      OBVIOUS
    <2>2. k \in Matching(f) => k \in Matching(f)'
      BY <1>1, <1>3, <2>1
    <2>3. /\ Matching(f) \subseteq Matching(f)'
          /\ Matching(f)' \subseteq Matching(f) \cup {k}
          /\ \A j \in Matching(f) : Place(f, j) <= Place(f, j)'
      BY <1>3, <2>1, <2>2, CommitsMatch
    <2>4. Matching(f) \subseteq Orders
      BY <1>3, <2>1, MatchingIs
    <2>. QED BY <1>3, <2>1, <2>3, <2>4
  <1>5. \A j \in Orders : j # k => Row(j)' = Row(j)
    BY <1>3, Commits
  <1>6. \A n \in Nat : Seen(n) => ~(Row(k)' <= n)
    <2>1. \A j \in Orders : \A e \in events[j] : e < Row(k)' /\ e \in Nat
      BY <1>1, <1>3, CommitsLast DEF FeedOK
    <2>2. Row(k)' \in Nat /\ Row(k)' >= 1
      <3>1. PICK e \in open[k] : TRUE
        BY <1>3, Commits
      <3>2. e \in Nat /\ e >= 1 /\ e <= Row(k)'
        BY <1>3, Commits
      <3>3. FeedOK'
        BY <1>3, Commits
      <3>4. {0} \cup events'[k] \subseteq 0 .. lastId' /\ lastId' \in Nat
        BY <3>3 DEF FeedOK
      <3>5. {0} \cup events'[k] # {}
        OBVIOUS
      <3>6. Row(k)' \in Nat
        BY <3>4, <3>5, Greatest DEF Row
      <3>. QED BY <3>2, <3>6
    <2> TAKE n \in Nat
    <2> HAVE Seen(n)
    <2>3. n = 0 \/ \E e \in Nat : n <= e /\ e < Row(k)'
      BY <2>1 DEF Seen
    <2>. QED BY <2>2, <2>3
  <1>7. eventCursor \in Nat /\ Seen(eventCursor) /\ stream.sent \in Nat /\ Seen(stream.sent)
        /\ offset \in Nat
    BY <1>2 DEF Shape, ViewShape, StreamShape
  <1>8. \A j \in Matching(filter) : Place(filter, j) \in Nat /\ Place(filter, j)' \in Nat
    <2> TAKE j \in Matching(filter)
    <2>1. Place(filter, j) \in Nat
      BY <1>3, PlaceIs
    <2>2. Place(filter, j)' \in Nat
      <3>1. {i \in Matching(filter)' : i >= j} \in SUBSET Orders
        BY <1>4
      <3>2. IsFiniteSet({i \in Matching(filter)' : i >= j})
        BY <3>1, FS_Subset, FeedAssumption
      <3>. QED BY <3>2, FS_CardinalityType DEF Place
    <2>. QED BY <2>1, <2>2
  <1>9. RowsCurrent'
    <2> SUFFICES ASSUME NEW j \in Matching(filter)', Row(j)' <= eventCursor
                 PROVE  \/ rows[j] = Row(j)'
                        \/ rows[j] = 0 /\ hasMore /\ Place(filter, j)' > offset
      BY <1>3 DEF RowsCurrent
    <2>1. j # k
      BY <1>6, <1>7
    <2>2. j \in Matching(filter) /\ Row(j)' = Row(j)
      BY <2>1, <1>4, <1>5
    <2>. QED BY <1>2, <1>4, <1>7, <1>8, <2>2 DEF RowsCurrent
  <1>10. StreamComplete'
    <2> SUFFICES ASSUME stream.at = "open", due # "turned"
                 PROVE  \A j \in Matching(filter)' :
                           eventCursor < Row(j)' /\ Row(j)' <= stream.sent =>
                           Told(queue, j)'
      BY <1>2, <1>3 DEF StreamComplete
    <2> TAKE j \in Matching(filter)'
    <2> HAVE eventCursor < Row(j)' /\ Row(j)' <= stream.sent
    <2>1. j # k
      BY <1>6, <1>7
    <2>2. j \in Matching(filter) /\ Row(j)' = Row(j)
      BY <2>1, <1>4, <1>5
    <2>. QED BY <1>2, <1>3, <2>2 DEF StreamComplete, Told
  <1>11. FlightsComplete'
    <2> SUFFICES ASSUME NEW s \in Slots, NEW x, x = flights[s], x # Nothing, ~x.old
                 PROVE  Complete(x)'
      BY <1>3 DEF FlightsComplete
    <2>1. Complete(x) /\ x \in Requests /\ (x.reply # Nothing => ReplyOK(x))
      BY <1>2 DEF FlightsComplete, Shape, FlightsShape
    <2>2. PollComplete(x)'
      <3> SUFFICES ASSUME x.kind = "poll", x.reply # Nothing,
                          NEW j \in Matching(filter)', NEW i \in DOMAIN x.reply,
                          x.arg < Row(j)', Row(j)' <= x.reply[i].id
                   PROVE  Told(x.reply, j)'
        BY <1>3, <2>1 DEF Complete, PollComplete
      <3>1. x.reply[i] \in Notice /\ x.reply[i].id \in events[x.reply[i].order]
        BY <2>1 DEF ReplyOK, Notices
      <3>2. x.reply[i].id \in Nat /\ Seen(x.reply[i].id)
        BY <3>1 DEF Notice, Seen
      <3>3. j # k
        BY <1>6, <3>2
      <3>4. j \in Matching(filter) /\ Row(j)' = Row(j)
        BY <3>3, <1>4, <1>5
      <3>. QED BY <2>1, <3>4 DEF Complete, PollComplete, Told
    <2>3. \A j \in Matching(filter) : j # k /\ Covered(x, j) => Covered(x, j)'
      <3>1. x.arg \in Nat /\ PageSize \in Nat
        BY <2>1, FeedAssumption DEF Requests
      <3>. QED BY <1>3, <1>4, <1>5, <1>8, <3>1 DEF Covered
    <2>4. PageComplete(x)'
      <3> SUFFICES ASSUME x.kind = "page", NEW j \in Matching(filter)', Unseen(j)'
                   PROVE  /\ x.reply = Nothing => Place(filter, j)' > x.arg
                          /\ x.reply # Nothing => Covered(x, j)'
        BY DEF PageComplete
      <3>1. j # k
        BY <1>3, <1>6, <1>7 DEF Unseen
      <3>2. j \in Matching(filter) /\ Row(j)' = Row(j)
        BY <3>1, <1>4, <1>5
      <3>3. Unseen(j)
        BY <3>2, <1>3 DEF Unseen
      <3>4. x.arg \in Nat
        BY <2>1 DEF Requests
      <3>. QED BY <1>4, <1>8, <2>1, <2>3, <3>1, <3>2, <3>3, <3>4
               DEF Complete, PageComplete
    <2>5. LoadComplete(x)'
      <3> SUFFICES ASSUME x.kind = "load", x.reply # Nothing,
                          NEW j \in Matching(filter)', NEW i \in Orders,
                          Row(j)' <= x.reply.rows[i]
                   PROVE  Covered(x, j)'
        BY <2>1 DEF Complete, LoadComplete
      <3>1. x.reply.rows[i] \in Nat /\ x.reply.rows[i] <= Row(i)
        BY <2>1 DEF ReplyOK, Pages
      <3>2. Seen(x.reply.rows[i])
        BY <1>3, <3>1, RowIs DEF Seen, FeedOK
      <3>3. j # k
        BY <1>6, <3>1, <3>2
      <3>4. j \in Matching(filter) /\ Row(j)' = Row(j)
        BY <3>3, <1>4, <1>5
      <3>. QED BY <2>1, <2>3, <3>3, <3>4 DEF Complete, LoadComplete
    <2>. QED BY <1>3, <2>1, <2>2, <2>4, <2>5 DEF Complete
  <1>. QED BY <1>9, <1>10, <1>11

LEMMA OthersWork ==
    ASSUME IInv, FeedOK', events' = events, ActsShape', mishaps' = mishaps,
           UNCHANGED <<filter, rows, eventCursor, offset, hasMore, syncMode,
                       streamFailures, online, stream, queue, due, flights>>
    PROVE  IInv'
  <1>1. Shape
    BY DEF IInv
  <1>2. ViewShape' /\ (RowsCurrent => RowsCurrent')
    BY <1>1, SameView DEF Shape
  <1>3. StreamShape' /\ (StreamComplete => StreamComplete')
    BY <1>1, SameStream DEF Shape
  <1>4. FlightsShape'
    BY <1>1, SameFlights DEF Shape
  <1>5. FlightsComplete => FlightsComplete'
    <2> SUFFICES ASSUME FlightsComplete, NEW s \in Slots, NEW x, x = flights[s],
                        x # Nothing, ~x.old
                 PROVE  Complete(x)'
      BY DEF FlightsComplete
    <2>1. x \in Requests /\ Complete(x) /\ eventCursor \in Nat
      BY <1>1 DEF FlightsComplete, Shape, FlightsShape, ViewShape
    <2>2. \A k : Unseen(k)' => Unseen(k)
      BY SameEvents DEF Unseen
    <2>. QED BY <2>1, <2>2, StaysComplete
  <1>. QED BY <1>1, <1>2, <1>3, <1>4, <1>5 DEF IInv, Shape

LEMMA EmitKeeps == ASSUME IInv, NEW k \in Orders, Emit(k) PROVE IInv'
  <1>1. FeedOK' /\ events' = events
    BY Draws DEF IInv, Shape, Emit
  <1>2. ActsShape'
    BY <1>1, SameActs DEF IInv, Shape, Emit, console
  <1>. QED BY <1>1, <1>2, OthersWork DEF Emit, console

LEMMA CommitKeeps == ASSUME IInv, NEW k \in Orders, CommitOrder(k) PROVE IInv'
  BY CommitKeepsShape, CommitKeepsCompleteness DEF IInv

\* What acts become, when one of them changes.
LEMMA OneAct ==
    ASSUME ActsShape, events' = events, NEW k \in Orders, NEW a,
           a \in {Nothing} \cup Actions,
           a # Nothing => a.shown <= Row(k) /\ a.row <= Row(k),
           acts' = [acts EXCEPT ![k] = a]
    PROVE  ActsShape'
  <1>1. acts' \in [Orders -> {Nothing} \cup Actions]
    BY DEF ActsShape
  <1>2. \A j \in Orders : acts'[j] = IF j = k THEN a ELSE acts[j]
    BY DEF ActsShape
  <1>. QED BY <1>1, <1>2, SameEvents DEF ActsShape

LEMMA ActIs ==
    ASSUME ActsShape, NEW k \in Orders, acts[k] # Nothing
    PROVE  /\ acts[k] \in Actions
           /\ acts[k].shown \in Nat /\ acts[k].shown <= Row(k)
           /\ acts[k].row \in Nat /\ acts[k].row <= Row(k)
           /\ \A at : [acts EXCEPT ![k].at = at] =
                 [acts EXCEPT ![k] = [at |-> at, shown |-> acts[k].shown,
                                      row |-> acts[k].row]]
           /\ \A at, r : [acts EXCEPT ![k].at = at, ![k].row = r] =
                 [acts EXCEPT ![k] = [at |-> at, shown |-> acts[k].shown, row |-> r]]
  <1>1. /\ acts[k] \in Actions
        /\ acts[k].shown <= Row(k) /\ acts[k].row <= Row(k)
    BY DEF ActsShape
  <1>2. acts[k].shown \in Nat /\ acts[k].row \in Nat
    BY <1>1 DEF Actions
  <1>3. \A at : [acts[k] EXCEPT !.at = at] =
           [at |-> at, shown |-> acts[k].shown, row |-> acts[k].row]
    BY <1>1 DEF Actions
  <1>4. \A at, r : [[acts[k] EXCEPT !.at = at] EXCEPT !.row = r] =
           [at |-> at, shown |-> acts[k].shown, row |-> r]
    <2> TAKE at, r
    <2> DEFINE b == [at |-> at, shown |-> acts[k].shown, row |-> acts[k].row]
    <2>1. [acts[k] EXCEPT !.at = at] = b
      BY <1>3
    <2>2. [b EXCEPT !.row = r] = [at |-> at, shown |-> acts[k].shown, row |-> r]
      OBVIOUS
    <2> HIDE DEF b
    <2>. QED BY <2>1, <2>2
  <1>5. k \in DOMAIN acts
    BY DEF ActsShape
  <1>. QED BY <1>1, <1>2, <1>3, <1>4, <1>5

LEMMA RollbackKeeps == ASSUME IInv, NEW k \in Orders, RollbackOrder(k) PROVE IInv'
  <1>1. FeedOK' /\ events' = events
    BY Rollbacks DEF IInv, Shape, RollbackOrder
  <1>2. ActsShape'
    <2>1. CASE Running(k)
      <3>1. acts' = [acts EXCEPT ![k].at = "failed"] /\ acts[k] # Nothing
        BY <2>1 DEF RollbackOrder, Running
      <3> DEFINE a == [at |-> "failed", shown |-> acts[k].shown, row |-> acts[k].row]
      <3>2. acts' = [acts EXCEPT ![k] = a]
        BY <3>1, ActIs DEF IInv, Shape
      <3>3. a \in Actions /\ a.shown <= Row(k) /\ a.row <= Row(k)
        BY <3>1, ActIs DEF IInv, Shape, Actions
      <3> HIDE DEF a
      <3>. QED BY <1>1, <3>2, <3>3, OneAct DEF IInv, Shape
    <2>2. CASE ~Running(k)
      BY <1>1, <2>2, SameActs DEF IInv, Shape, RollbackOrder
    <2>. QED BY <2>1, <2>2
  <1>. QED BY <1>1, <1>2, OthersWork DEF RollbackOrder

----
(***************************************************************************)
(* Actions of the operator.                                                *)
(***************************************************************************)
LEMMA RunActionKeeps == ASSUME IInv, NEW k \in Orders, RunAction(k) PROVE IInv'
  <1> DEFINE a == [at |-> "sent", shown |-> rows[k], row |-> 0]
  <1>1. acts' = [acts EXCEPT ![k] = a] /\ events' = events /\ UNCHANGED feed
    BY DEF RunAction, feed
  <1>2. a \in Actions /\ a.shown <= Row(k) /\ a.row <= Row(k)
    <2>1. rows[k] \in Nat /\ rows[k] <= Row(k) /\ Row(k) \in 0 .. lastId
      BY RowIs DEF IInv, Shape, ViewShape
    <2>. QED BY <2>1 DEF Actions
  <1> HIDE DEF a
  <1>3. ActsShape'
    BY <1>1, <1>2, OneAct DEF IInv, Shape
  <1>4. FeedOK'
    BY <1>1 DEF IInv, Shape, feed, FeedOK, Drawn
  <1>. QED BY <1>1, <1>3, <1>4, OthersWork DEF RunAction

LEMMA ActionRunsKeeps == ASSUME IInv, NEW k \in Orders, ActionRuns(k) PROVE IInv'
  <1>1. FeedOK' /\ events' = events
    BY Draws DEF IInv, Shape, ActionRuns
  <1>2. acts' = [acts EXCEPT ![k].at = "running"] /\ acts[k] # Nothing
    BY DEF ActionRuns
  <1> DEFINE a == [at |-> "running", shown |-> acts[k].shown, row |-> acts[k].row]
  <1>3. acts' = [acts EXCEPT ![k] = a]
    BY <1>2, ActIs DEF IInv, Shape
  <1>4. a \in Actions /\ a.shown <= Row(k) /\ a.row <= Row(k)
    BY <1>2, ActIs DEF IInv, Shape, Actions
  <1> HIDE DEF a
  <1>5. ActsShape'
    BY <1>1, <1>3, <1>4, OneAct DEF IInv, Shape
  <1>. QED BY <1>1, <1>5, OthersWork DEF ActionRuns

LEMMA ActionReplaysKeeps ==
    ASSUME IInv, NEW k \in Orders, ActionReplays(k) PROVE IInv'
  <1>1. events' = events /\ UNCHANGED feed /\ acts[k] # Nothing
        /\ acts' = [acts EXCEPT ![k].at = "confirmed", ![k].row = Row(k)]
    BY DEF ActionReplays, feed
  <1> DEFINE a == [at |-> "confirmed", shown |-> acts[k].shown, row |-> Row(k)]
  <1>2. acts' = [acts EXCEPT ![k] = a]
    BY <1>1, ActIs DEF IInv, Shape
  <1>3. a \in Actions /\ a.shown <= Row(k) /\ a.row <= Row(k)
    <2>1. Row(k) \in Nat
      BY RowIs DEF IInv, Shape, FeedOK
    <2>. QED BY <1>1, <2>1, ActIs DEF IInv, Shape, Actions
  <1> HIDE DEF a
  <1>4. ActsShape'
    BY <1>1, <1>2, <1>3, OneAct DEF IInv, Shape
  <1>5. FeedOK'
    BY <1>1 DEF IInv, Shape, feed, FeedOK, Drawn
  <1>. QED BY <1>1, <1>4, <1>5, OthersWork DEF ActionReplays

LEMMA ActionFailsKeeps == ASSUME IInv, NEW k \in Orders, ActionFails(k) PROVE IInv'
  <1>1. events' = events /\ UNCHANGED feed /\ acts[k] # Nothing
        /\ acts' = [acts EXCEPT ![k].at = "failed"]
    BY DEF ActionFails, feed
  <1> DEFINE a == [at |-> "failed", shown |-> acts[k].shown, row |-> acts[k].row]
  <1>2. acts' = [acts EXCEPT ![k] = a]
    BY <1>1, ActIs DEF IInv, Shape
  <1>3. a \in Actions /\ a.shown <= Row(k) /\ a.row <= Row(k)
    BY <1>1, ActIs DEF IInv, Shape, Actions
  <1> HIDE DEF a
  <1>4. ActsShape'
    BY <1>1, <1>2, <1>3, OneAct DEF IInv, Shape
  <1>5. FeedOK'
    BY <1>1 DEF IInv, Shape, feed, FeedOK, Drawn
  <1>. QED BY <1>1, <1>4, <1>5, OthersWork DEF ActionFails

\* The row that is written is no older than the one it replaces, or it puts one
\* back.
LEMMA ActionAnsweredKeeps ==
    ASSUME IInv, NEW k \in Orders, ActionAnswered(k) PROVE IInv'
  <1> DEFINE w == IF acts[k].at = "confirmed" THEN acts[k].row ELSE acts[k].shown
  <1>1. /\ Shape /\ UNCHANGED feed /\ events' = events
        /\ acts[k] # Nothing
        /\ rows' = [rows EXCEPT ![k] = w]
        /\ acts' = [acts EXCEPT ![k] = Nothing]
        /\ UNCHANGED <<filter, eventCursor, offset, hasMore, syncMode,
                       streamFailures, online, stream, queue, due, flights>>
        /\ mishaps' = mishaps \cup (IF PutsBack(k, w) THEN {"regressed"} ELSE {})
    BY DEF IInv, ActionAnswered, feed
  <1>2. w \in Nat /\ w <= Row(k)
    BY <1>1, ActIs DEF Shape
  <1> HIDE DEF w
  <1>3. FeedOK'
    BY <1>1 DEF Shape, feed, FeedOK, Drawn
  <1>4. ActsShape'
    BY <1>1, OneAct DEF Shape
  <1>5. \A j \in Orders : rows'[j] = IF j = k THEN w ELSE rows[j]
    BY <1>1 DEF Shape, ViewShape
  <1>6. ViewShape'
    <2>1. rows' \in [Orders -> Nat]
      BY <1>1, <1>2 DEF Shape, ViewShape
    <2>2. \A j \in Orders : rows'[j] <= Row(j)
      <3> TAKE j \in Orders
      <3>1. rows[j] <= Row(j)
        BY <1>1 DEF Shape, ViewShape
      <3>. QED BY <1>2, <1>5, <3>1
    <2>. QED BY <1>1, <2>1, <2>2, SameEvents DEF Shape, ViewShape
  <1>7. StreamShape' /\ (StreamComplete => StreamComplete')
    BY <1>1, SameStream DEF Shape
  <1>8. FlightsShape'
    BY <1>1, SameFlights DEF Shape
  <1>9. mishaps' \subseteq Mishaps
    BY <1>1 DEF Shape, Mishaps
  <1>10. ASSUME mishaps' = {}
         PROVE  RowsCurrent' /\ StreamComplete' /\ FlightsComplete'
    <2>1. mishaps = {} /\ ~PutsBack(k, w)
      BY <1>1, <1>10
    <2>2. RowsCurrent /\ StreamComplete /\ FlightsComplete
      BY <2>1 DEF IInv
    <2>3. rows[k] # 0 /\ w # 0 /\ rows[k] <= w
      BY <1>2, <2>1 DEF PutsBack, Shape, ViewShape, IInv
    <2>4. RowsCurrent'
      <3> SUFFICES ASSUME NEW j \in Matching(filter), Row(j) <= eventCursor
                   PROVE  \/ rows'[j] = Row(j)
                          \/ rows'[j] = 0 /\ hasMore /\ Place(filter, j) > offset
        BY <1>1, SameEvents DEF RowsCurrent
      <3>1. j \in Orders
        BY <1>1, FilterIs, MatchingIs DEF Shape, ViewShape
      <3>2. \/ rows[j] = Row(j)
            \/ rows[j] = 0 /\ hasMore /\ Place(filter, j) > offset
        BY <2>2 DEF RowsCurrent
      <3>3. CASE j = k
        <4>1. rows[k] = Row(k)
          BY <2>3, <3>2, <3>3
        <4>2. Row(k) \in Nat
          BY <1>1, RowIs DEF Shape, FeedOK
        <4>. QED BY <1>2, <1>5, <2>3, <3>3, <4>1, <4>2
      <3>4. CASE j # k
        BY <1>5, <3>1, <3>2, <3>4
      <3>. QED BY <3>3, <3>4
    <2>5. FlightsComplete'
      <3> SUFFICES ASSUME NEW s \in Slots, NEW x, x = flights[s], x # Nothing, ~x.old
                   PROVE  Complete(x)'
        BY <1>1 DEF FlightsComplete
      <3>1. x \in Requests /\ Complete(x) /\ eventCursor \in Nat
        BY <1>1, <2>2 DEF FlightsComplete, Shape, FlightsShape, ViewShape
      <3>2. \A j \in Matching(filter) : Unseen(j)' => Unseen(j)
        <4>1. Matching(filter) \subseteq Orders
          BY <1>1, FilterIs, MatchingIs DEF Shape, ViewShape
        <4>. QED BY <1>1, <1>5, <2>3, <4>1, SameEvents DEF Unseen
      <3>. QED BY <1>1, <3>1, <3>2, StaysComplete
    <2>. QED BY <1>7, <2>2, <2>4, <2>5
  <1>. QED BY <1>3, <1>4, <1>6, <1>7, <1>8, <1>9, <1>10 DEF IInv, Shape

----
(***************************************************************************)
(* The stream.                                                             *)
(***************************************************************************)
\* The parts that a step of the stream which shows nothing leaves alone.
LEMMA StreamWorks ==
    ASSUME IInv, UNCHANGED feed, StreamShape', StreamComplete => StreamComplete',
           UNCHANGED <<filter, rows, eventCursor, offset, hasMore, flights, acts,
                       mishaps>>
    PROVE  IInv'
  <1>1. Shape /\ events' = events /\ FeedOK'
    BY DEF IInv, Shape, feed, FeedOK, Drawn
  <1>2. ViewShape' /\ (RowsCurrent => RowsCurrent')
    BY <1>1, SameView DEF Shape
  <1>3. FlightsShape' /\ ActsShape'
    BY <1>1, SameFlights, SameActs DEF Shape
  <1>4. FlightsComplete => FlightsComplete'
    <2> SUFFICES ASSUME FlightsComplete, NEW s \in Slots, NEW x, x = flights[s],
                        x # Nothing, ~x.old
                 PROVE  Complete(x)'
      BY DEF FlightsComplete
    <2>1. x \in Requests /\ Complete(x) /\ eventCursor \in Nat
      BY <1>1 DEF FlightsComplete, Shape, FlightsShape, ViewShape
    <2>2. \A k : Unseen(k)' => Unseen(k)
      BY <1>1, SameEvents DEF Unseen
    <2>. QED BY <1>1, <2>1, <2>2, StaysComplete
  <1>. QED BY <1>1, <1>2, <1>3, <1>4 DEF IInv, Shape

LEMMA GoOfflineKeeps == ASSUME IInv, GoOffline PROVE IInv'
  <1>1. StreamShape' /\ (StreamComplete => StreamComplete')
    BY SameEvents DEF IInv, Shape, GoOffline, feed, StreamShape, StreamComplete
  <1>. QED BY <1>1, StreamWorks DEF GoOffline

LEMMA GoOnlineKeeps == ASSUME IInv, GoOnline PROVE IInv'
  <1>1. StreamShape' /\ (StreamComplete => StreamComplete')
    BY SameEvents DEF IInv, Shape, GoOnline, feed, StreamShape, StreamComplete
  <1>. QED BY <1>1, StreamWorks DEF GoOnline

LEMMA StreamFailsKeeps == ASSUME IInv, StreamFails PROVE IInv'
  <1>1. /\ stream' = [at |-> "lost", filter |-> Nothing, sent |-> 0] /\ queue' = <<>>
        /\ events' = events /\ UNCHANGED feed
        /\ stream.at = "open" /\ streamFailures' = streamFailures + 1
        /\ syncMode' = IF streamFailures' >= Patience THEN "polling" ELSE syncMode
        /\ due' = IF syncMode' # syncMode THEN "turned" ELSE due
    BY DEF StreamFails, Closed, feed
  <1>2. /\ streamFailures \in Nat /\ streamFailures < Patience /\ Patience \in Nat
        /\ syncMode = "sse"
        /\ due \in {"no", "followed", "turned"}
    BY <1>1, ConsoleAssumption DEF IInv, Shape, StreamShape
  <1>3. streamFailures' \in 0 .. Patience
        /\ syncMode' \in {"sse", "polling"}
        /\ (syncMode' = "sse" => streamFailures' < Patience)
    BY <1>1, <1>2
  <1>4. stream' \in [at : {"open", "lost", "off"}, filter : Filters \cup {Nothing},
                     sent : Nat]
        /\ stream'.sent = 0 /\ stream'.at = "lost"
    BY <1>1
  <1>5. Notices(queue)' /\ Seen(stream.sent)'
    <2>1. Notices(<<>>)'
      BY <1>1, NoNotices, SameEvents
    <2>. QED BY <1>1, <1>4, <2>1 DEF Seen
  <1>6. StreamShape'
    BY <1>1, <1>2, <1>3, <1>4, <1>5 DEF StreamShape
  <1>7. StreamComplete'
    BY <1>4 DEF StreamComplete
  <1>. QED BY <1>1, <1>6, <1>7, StreamWorks DEF StreamFails

\* The new stream starts from the cursor.
LEMMA RunEffectKeeps == ASSUME IInv, RunEffect PROVE IInv'
  <1>1. /\ events' = events /\ UNCHANGED feed /\ queue' = <<>> /\ due' = "no"
        /\ UNCHANGED <<filter, eventCursor, syncMode, online, streamFailures>>
    BY DEF RunEffect, feed
  <1>2. /\ eventCursor \in Nat /\ Seen(eventCursor) /\ filter \in Filters
        /\ FeedOK /\ StreamShape
    BY DEF IInv, Shape, ViewShape
  <1>3. Notices(queue)'
    <2>1. Notices(<<>>)'
      BY <1>1, NoNotices, SameEvents
    <2>. QED BY <1>1, <2>1
  <1>4. CASE StreamWanted
    <2>1. stream' = [at |-> "open", filter |-> filter, sent |-> eventCursor]
          /\ syncMode = "sse" /\ online
      BY <1>4 DEF RunEffect, Opened, StreamWanted
    <2>2. stream' \in [at : {"open", "lost", "off"}, filter : Filters \cup {Nothing},
                       sent : Nat]
          /\ stream'.sent = eventCursor /\ stream'.at = "open"
          /\ stream'.filter = filter
      BY <1>2, <2>1
    <2>3. Seen(stream.sent)'
      BY <1>1, <1>2, <2>2, SameEvents DEF Seen
    <2>4. StreamShape'
      BY <1>1, <1>2, <1>3, <2>1, <2>2, <2>3 DEF StreamShape
    <2>5. \A k \in Matching(filter) : Row(k) \in Nat
      BY <1>2, FilterIs, MatchingIs, RowIs DEF FeedOK
    <2>6. StreamComplete'
      BY <1>1, <1>2, <2>2, <2>5, SameEvents DEF StreamComplete
    <2>. QED BY <1>1, <2>4, <2>6, StreamWorks DEF RunEffect
  <1>5. CASE ~StreamWanted
    <2>1. stream' = [at |-> "off", filter |-> Nothing, sent |-> 0]
      BY <1>5 DEF RunEffect, Closed
    <2>2. stream' \in [at : {"open", "lost", "off"}, filter : Filters \cup {Nothing},
                       sent : Nat]
          /\ stream'.sent = 0 /\ stream'.at = "off"
      BY <2>1
    <2>3. StreamShape'
      BY <1>1, <1>2, <1>3, <2>2 DEF StreamShape, Seen
    <2>4. StreamComplete'
      BY <2>2 DEF StreamComplete
    <2>. QED BY <1>1, <2>3, <2>4, StreamWorks DEF RunEffect
  <1>. QED BY <1>4, <1>5

\* The last id of what was told is the greatest.
LEMMA LastIdIs ==
    ASSUME FeedOK, NEW q, Notices(q), q # <<>>
    PROVE  /\ LastId(q) \in Nat /\ Seen(LastId(q))
           /\ \A i \in DOMAIN q : q[i].id <= LastId(q)
           /\ \E i \in DOMAIN q : q[i].id = LastId(q)
  <1> DEFINE S == {q[i].id : i \in DOMAIN q}
  <1>1. 1 \in DOMAIN q /\ \A i \in DOMAIN q : q[i] \in Notice
    BY NoticesIn
  <1>2. \A i \in DOMAIN q : /\ q[i].order \in Orders /\ q[i].id \in events[q[i].order]
                            /\ q[i].id \in 0 .. lastId
    BY <1>1 DEF Notice, Notices, FeedOK
  <1>3. S \subseteq 0 .. lastId /\ S # {} /\ lastId \in Nat
    BY <1>1, <1>2 DEF FeedOK
  <1>4. LastId(q) = Max(S)
    BY DEF LastId
  <1>5. Max(S) \in S /\ \A e \in S : e <= Max(S)
    BY <1>3, Greatest
  <1>6. PICK i \in DOMAIN q : q[i].id = Max(S)
    BY <1>5
  <1> HIDE DEF S
  <1>7. LastId(q) \in Nat
    BY <1>2, <1>3, <1>4, <1>6
  <1>8. Seen(LastId(q))
    BY <1>2, <1>4, <1>6, <1>7 DEF Seen
  <1>. QED BY <1>4, <1>5, <1>6, <1>7, <1>8 DEF S

\* A round goes on from the last event that was sent.
LEMMA StreamRoundKeeps == ASSUME IInv, StreamRound PROVE IInv'
  <1> DEFINE found == Updates(stream.filter, stream.sent)
  <1>1. /\ stream.at = "open" /\ found # <<>> /\ queue' = queue \o found
        /\ stream' = [stream EXCEPT !.sent = LastId(found)]
        /\ events' = events /\ UNCHANGED feed
        /\ UNCHANGED <<filter, eventCursor, syncMode, online, streamFailures, due>>
    BY DEF StreamRound, feed
  <1>2. FeedOK /\ StreamShape /\ eventCursor \in Nat
    BY DEF IInv, Shape, ViewShape
  <1>3. stream.sent \in Nat /\ stream.filter.orders \subseteq Orders
        /\ stream.filter \in Filters
    BY <1>1, <1>2, FilterIs DEF StreamShape
  <1>4. /\ Notices(found)
        /\ \A i \in DOMAIN found : stream.sent < found[i].id
        /\ \A k \in Matching(stream.filter), i \in DOMAIN found :
              stream.sent < Row(k) /\ Row(k) <= found[i].id => Told(found, k)
    BY <1>2, <1>3, UpdatesTell
  <1> HIDE DEF found
  <1>5. /\ LastId(found) \in Nat /\ Seen(LastId(found))
        /\ \A i \in DOMAIN found : found[i].id <= LastId(found)
        /\ \E i \in DOMAIN found : found[i].id = LastId(found)
    BY <1>1, <1>2, <1>4, LastIdIs
  <1>6. stream.sent < LastId(found)
    BY <1>4, <1>5
  <1>7. /\ Notices(queue)
        /\ \A i \in DOMAIN queue : queue[i].id \in Nat /\ queue[i].id <= stream.sent
    BY <1>1, <1>2, NoticeIs DEF StreamShape
  <1>8. \A i \in DOMAIN found : found[i].id \in Nat
    BY <1>4, NoticeIs
  <1>9. \A i \in DOMAIN queue, j \in DOMAIN found : queue[i].id < found[j].id
    BY <1>3, <1>4, <1>7, <1>8
  <1>10. /\ Notices(queue \o found)
         /\ \A i \in DOMAIN (queue \o found) :
               \/ \E j \in DOMAIN queue : (queue \o found)[i] = queue[j]
               \/ \E j \in DOMAIN found : (queue \o found)[i] = found[j]
         /\ \A k : Told(queue, k) \/ Told(found, k) => Told(queue \o found, k)
    BY <1>4, <1>7, <1>9, NoticesJoin
  <1>11. /\ stream'.sent = LastId(found) /\ stream'.at = "open"
         /\ stream'.filter = stream.filter
         /\ stream' \in [at : {"open", "lost", "off"}, filter : Filters \cup {Nothing},
                         sent : Nat]
    BY <1>1, <1>2, <1>5 DEF StreamShape
  <1>12. StreamShape'
    <2>1. \A i \in DOMAIN queue' : queue'[i].id <= stream'.sent
      <3> TAKE i \in DOMAIN queue'
      <3>1. CASE \E j \in DOMAIN queue : queue'[i] = queue[j]
        BY <1>3, <1>5, <1>6, <1>7, <1>11, <3>1
      <3>2. CASE \E j \in DOMAIN found : queue'[i] = found[j]
        BY <1>5, <1>11, <3>2
      <3>. QED BY <1>1, <1>10, <3>1, <3>2
    <2>2. Notices(queue)' /\ Seen(stream.sent)'
      BY <1>1, <1>5, <1>10, <1>11, SameEvents
    <2>. QED BY <1>1, <1>2, <1>3, <1>11, <2>1, <2>2 DEF StreamShape
  <1>13. ASSUME StreamComplete PROVE StreamComplete'
    <2> SUFFICES ASSUME due # "turned"
                 PROVE  /\ stream'.filter = filter
                        /\ eventCursor <= stream'.sent
                        /\ \A i \in DOMAIN queue' : eventCursor < queue'[i].id
                        /\ \A k \in Matching(filter) :
                              eventCursor < Row(k) /\ Row(k) <= stream'.sent
                              => Told(queue', k)
      BY <1>1, SameEvents DEF StreamComplete
    <2>1. /\ stream.filter = filter
          /\ eventCursor <= stream.sent
          /\ \A i \in DOMAIN queue : eventCursor < queue[i].id
          /\ \A k \in Matching(filter) :
                eventCursor < Row(k) /\ Row(k) <= stream.sent => Told(queue, k)
      BY <1>1, <1>13 DEF StreamComplete
    <2>2. eventCursor <= stream'.sent
      BY <1>2, <1>3, <1>5, <1>6, <1>11, <2>1
    <2>3. ASSUME NEW i \in DOMAIN queue' PROVE eventCursor < queue'[i].id
      <3>1. CASE \E j \in DOMAIN queue : queue'[i] = queue[j]
        BY <2>1, <3>1
      <3>2. CASE \E j \in DOMAIN found : queue'[i] = found[j]
        BY <1>2, <1>3, <1>4, <1>8, <2>1, <3>2
      <3>. QED BY <1>1, <1>10, <3>1, <3>2
    <2>4. ASSUME NEW k \in Matching(filter), eventCursor < Row(k), Row(k) <= stream'.sent
          PROVE  Told(queue', k)
      <3>1. Row(k) \in Nat
        BY <1>2, <1>3, <2>1, MatchingIs, RowIs DEF FeedOK
      <3>2. CASE Row(k) <= stream.sent
        BY <1>1, <1>10, <2>1, <2>4, <3>2
      <3>3. CASE stream.sent < Row(k)
        <4>1. PICK i \in DOMAIN found : found[i].id = LastId(found)
          BY <1>5
        <4>2. Told(found, k)
          BY <1>4, <1>11, <2>1, <2>4, <3>3, <4>1
        <4>. QED BY <1>1, <1>10, <4>2
      <3>. QED BY <1>3, <3>1, <3>2, <3>3
    <2>. QED BY <1>11, <2>1, <2>2, <2>3, <2>4
  <1>. QED BY <1>1, <1>12, <1>13, StreamWorks DEF StreamRound

\* The event that is taken is the next one of any order; its row is the current
\* one if it is the last of its order.
LEMMA DeliverKeeps == ASSUME IInv, Deliver PROVE IInv'
  <1> DEFINE event == Head(queue)
             o == event.order
             e == event.id
  <1>1. /\ queue # <<>> /\ queue' = Tail(queue) /\ events' = events /\ UNCHANGED feed
        /\ rows' = [rows EXCEPT ![o] = event.row]
        /\ eventCursor' = Max({eventCursor, e})
        /\ due' = IF due = "no" THEN "followed" ELSE due
        /\ mishaps' = mishaps \cup (IF due = "turned" THEN {"crossed"} ELSE {})
        /\ UNCHANGED <<filter, offset, hasMore, syncMode, streamFailures, online,
                       stream, flights, acts>>
    BY DEF Deliver, feed
  <1>2. Shape /\ FeedOK /\ FeedOK'
    BY <1>1 DEF IInv, Shape, feed, FeedOK, Drawn
  <1>3. /\ Notices(queue) /\ stream.at = "open"
        /\ stream.sent \in Nat /\ eventCursor \in Nat
        /\ filter.orders \subseteq Orders
        /\ \A i \in DOMAIN queue : queue[i].id <= stream.sent
    BY <1>1, <1>2, FilterIs DEF Shape, StreamShape, ViewShape
  <1>4. /\ 1 \in DOMAIN queue /\ event = queue[1]
        /\ Notices(queue')
        /\ \A i \in DOMAIN queue' : /\ i + 1 \in DOMAIN queue
                                    /\ queue'[i] = queue[i + 1]
                                    /\ e < queue'[i].id
        /\ \A k : Told(queue, k) => Told(queue', k) \/ (e = Row(k) /\ o = k)
    BY <1>1, <1>3, NoticesTaken
  <1>5. /\ o \in Orders /\ e \in Nat /\ event.row \in Nat
        /\ e \in events[o] /\ e <= event.row /\ event.row <= Row(o)
        /\ e >= 1 /\ e <= stream.sent
    <2>1. /\ o \in Orders /\ e \in Nat /\ event.row \in Nat
          /\ e \in events[o] /\ e <= event.row /\ event.row <= Row(o)
      BY <1>3, <1>4, NoticeIs
    <2>2. e >= 1
      BY <1>2, <2>1, RowIs DEF FeedOK
    <2>. QED BY <1>3, <1>4, <2>1, <2>2
  <1>6. eventCursor' \in {eventCursor, e} /\ eventCursor <= eventCursor'
        /\ e <= eventCursor'
    <2>1. {eventCursor, e} \subseteq 0 .. eventCursor + e /\ {eventCursor, e} # {}
          /\ eventCursor + e \in Nat
      BY <1>3, <1>5
    <2>. QED BY <1>1, <2>1, Greatest
  <1> DEFINE r == event.row
  <1>7. rows' = [rows EXCEPT ![o] = r]
    BY <1>1
  <1>8. r \in Nat /\ r >= 1 /\ e <= r /\ r <= Row(o)
    BY <1>5
  <1> HIDE DEF event, o, e, r
  <1>9. \A k \in Orders : rows'[k] = IF k = o THEN r ELSE rows[k]
    BY <1>2, <1>7 DEF Shape, ViewShape
  <1>10. \A k \in Orders : Row(k) \in Nat
    BY <1>2, RowIs DEF FeedOK
  <1>11. ViewShape'
    <2>1. rows' \in [Orders -> Nat]
      BY <1>2, <1>7, <1>8 DEF Shape, ViewShape
    <2>2. \A k \in Orders : rows'[k] <= Row(k)
      <3> TAKE k \in Orders
      <3>1. rows[k] <= Row(k)
        BY <1>2 DEF Shape, ViewShape
      <3>. QED BY <1>8, <1>9, <3>1
    <2>3. Seen(eventCursor') /\ eventCursor' \in Nat
      BY <1>2, <1>3, <1>5, <1>6 DEF Seen, Shape, ViewShape
    <2>. QED BY <1>1, <1>2, <2>1, <2>2, <2>3, SameEvents DEF Shape, ViewShape
  <1>12. StreamShape'
    <2>1. \A i \in DOMAIN queue' : queue'[i].id <= stream.sent
      BY <1>3, <1>4
    <2>2. due' \in {"no", "followed", "turned"} /\ (due' # "turned" => due # "turned")
      BY <1>1, <1>2 DEF Shape, StreamShape
    <2>. QED BY <1>1, <1>2, <1>3, <1>4, <2>1, <2>2, SameEvents DEF Shape, StreamShape
  <1>13. FlightsShape' /\ ActsShape'
    BY <1>1, <1>2, SameFlights, SameActs DEF Shape
  <1>14. mishaps' \subseteq Mishaps
    BY <1>1, <1>2 DEF Shape, Mishaps
  <1>15. ASSUME mishaps' = {}
         PROVE  RowsCurrent' /\ StreamComplete' /\ FlightsComplete'
    <2>1. mishaps = {} /\ due # "turned"
      BY <1>1, <1>15
    <2>2. /\ RowsCurrent /\ FlightsComplete
          /\ stream.filter = filter
          /\ \A i \in DOMAIN queue : eventCursor < queue[i].id
          /\ \A k \in Matching(filter) :
                eventCursor < Row(k) /\ Row(k) <= stream.sent => Told(queue, k)
      BY <1>3, <2>1 DEF IInv, StreamComplete
    <2>3. eventCursor < e /\ eventCursor' = e
      <3>1. eventCursor < e
        BY <1>4, <2>2 DEF e, event
      <3>. QED BY <1>3, <1>5, <1>6, <3>1
    <2>4. Matching(filter) \subseteq Orders
      BY <1>3, MatchingIs
    <2>5. ASSUME NEW k \in Matching(filter), Row(k) <= e, k # o
          PROVE  Row(k) <= eventCursor
      <3> SUFFICES ASSUME eventCursor < Row(k) PROVE FALSE
        BY <1>3, <1>10, <2>4
      <3>1. Told(queue, k)
        <4>1. Row(k) \in Nat
          BY <1>10, <2>4
        <4>2. Row(k) <= stream.sent
          BY <1>3, <1>5, <2>5, <4>1
        <4>. QED BY <2>2, <4>2
      <3>2. Told(queue', k)
        BY <1>4, <2>5, <3>1
      <3>3. PICK i \in DOMAIN queue' : queue'[i].id = Row(k)
        BY <3>2 DEF Told
      <3>. QED BY <1>4, <1>5, <1>10, <2>4, <2>5, <3>3
    <2>6. Row(o) <= e => r = Row(o)
      <3>1. e <= Row(o) /\ Row(o) \in Nat
        BY <1>2, <1>5, <1>10, RowIs
      <3>. QED BY <1>5, <1>8, <3>1
    <2>7. RowsCurrent'
      <3> SUFFICES ASSUME NEW k \in Matching(filter), Row(k) <= e
                   PROVE  \/ rows'[k] = Row(k)
                          \/ rows'[k] = 0 /\ hasMore /\ Place(filter, k) > offset
        BY <1>1, <2>3, SameEvents DEF RowsCurrent
      <3>1. CASE k = o
        BY <1>9, <2>4, <2>6, <3>1
      <3>2. CASE k # o
        BY <1>9, <2>2, <2>4, <2>5, <3>2 DEF RowsCurrent
      <3>. QED BY <3>1, <3>2
    <2>8. StreamComplete'
      <3>1. ASSUME NEW k \in Matching(filter), e < Row(k), Row(k) <= stream.sent
            PROVE  Told(queue', k)
        <4>1. eventCursor < Row(k) /\ e # Row(k)
          <5>1. Row(k) \in Nat
            BY <1>10, <2>4
          <5>. QED BY <1>3, <1>5, <2>3, <3>1, <5>1
        <4>2. Told(queue, k)
          BY <2>2, <3>1, <4>1
        <4>. QED BY <1>4, <4>1, <4>2
      <3>. QED BY <1>1, <1>4, <1>5, <2>2, <2>3, <3>1, SameEvents DEF StreamComplete
    <2>9. FlightsComplete'
      <3> SUFFICES ASSUME NEW s \in Slots, NEW x, x = flights[s], x # Nothing, ~x.old
                   PROVE  Complete(x)'
        BY <1>1 DEF FlightsComplete
      <3>1. x \in Requests /\ Complete(x)
        BY <1>2, <2>2 DEF FlightsComplete, Shape, FlightsShape
      <3>2. \A k \in Matching(filter) : Unseen(k)' => Unseen(k)
        <4> SUFFICES ASSUME NEW k \in Matching(filter), Row(k) <= e, rows'[k] = 0
                     PROVE  Unseen(k)
          BY <1>1, <2>3, SameEvents DEF Unseen
        <4>1. k # o /\ rows[k] = 0
          BY <1>8, <1>9, <2>4
        <4>. QED BY <2>5, <4>1 DEF Unseen
      <3>3. eventCursor' \in Nat
        BY <1>5, <2>3
      <3>. QED BY <1>1, <1>3, <1>6, <3>1, <3>2, <3>3, StaysComplete
    <2>. QED BY <2>7, <2>8, <2>9
  <1>. QED BY <1>2, <1>11, <1>12, <1>13, <1>14, <1>15 DEF IInv, Shape

----
(***************************************************************************)
(* Requests in flight.                                                     *)
(***************************************************************************)
LEMMA FlightIs ==
    ASSUME NEW kind \in {"load", "page", "poll"}, NEW f \in Filters, NEW arg \in Nat,
           NEW x, x = Flight(kind, f, arg)
    PROVE  /\ x \in Requests /\ x.kind = kind /\ x.filter = f /\ x.arg = arg
           /\ x.reply = Nothing
  BY DEF Flight, Requests

LEMMA OutdatedIs ==
    ASSUME NEW x \in Requests, NEW y, y = Outdated(x)
    PROVE  /\ y \in Requests /\ y.old = TRUE
           /\ y.kind = x.kind /\ y.arg = x.arg /\ y.reply = x.reply
           /\ ReplyOK(x) => ReplyOK(y)
  <1>1. /\ y \in Requests /\ y.old = TRUE
        /\ y.kind = x.kind /\ y.arg = x.arg /\ y.reply = x.reply
    BY DEF Outdated, Requests
  <1>. QED BY <1>1 DEF ReplyOK

\* What requests become, when others and their answers are added.
LEMMA NewFlights ==
    ASSUME FlightsShape, events' = events,
           flights' \in [Slots -> {Nothing} \cup Requests],
           \A s \in Slots : \/ flights'[s] = Nothing
                            \/ flights'[s] = flights[s]
                            \/ flights'[s].reply = Nothing
                            \/ ReplyOK(flights'[s])
    PROVE  FlightsShape'
  <1> SUFFICES ASSUME NEW s \in Slots, flights'[s] # Nothing,
                      flights'[s].reply # Nothing
               PROVE  ReplyOK(flights[s])'
    BY DEF FlightsShape
  <1>1. ReplyOK(flights'[s])
    BY DEF FlightsShape
  <1>. QED BY <1>1, SameEvents

\* Steps that only ask, serve or give up.
LEMMA FlightsWork ==
    ASSUME IInv, UNCHANGED feed, FlightsShape',
           RowsCurrent /\ FlightsComplete => FlightsComplete',
           UNCHANGED <<filter, rows, eventCursor, offset, hasMore, syncMode,
                       streamFailures, online, stream, queue, due, acts, mishaps>>
    PROVE  IInv'
  <1>1. Shape /\ events' = events /\ FeedOK'
    BY DEF IInv, Shape, feed, FeedOK, Drawn
  <1>2. ViewShape' /\ (RowsCurrent => RowsCurrent')
    BY <1>1, SameView DEF Shape
  <1>3. StreamShape' /\ (StreamComplete => StreamComplete')
    BY <1>1, SameStream DEF Shape
  <1>4. ActsShape'
    BY <1>1, SameActs DEF Shape
  <1>. QED BY <1>1, <1>2, <1>3, <1>4 DEF IInv, Shape

\* A step that changes no row and not the cursor.
LEMMA StillComplete ==
    ASSUME Shape, FlightsComplete, events' = events,
           UNCHANGED <<filter, rows, eventCursor>>,
           NEW s \in Slots, flights[s] # Nothing, ~flights[s].old,
           NEW x, x = flights[s]
    PROVE  Complete(x)'
  <1>1. x \in Requests /\ Complete(x) /\ eventCursor \in Nat
    BY DEF FlightsComplete, Shape, FlightsShape, ViewShape
  <1>2. \A k : Unseen(k)' => Unseen(k)
    BY SameEvents DEF Unseen
  <1>. QED BY <1>1, <1>2, StaysComplete

LEMMA LoadMoreKeeps == ASSUME IInv, LoadMore PROVE IInv'
  <1>0. PICK x : x = Flight("page", filter, offset)
    OBVIOUS
  <1>1. /\ Shape /\ events' = events /\ UNCHANGED feed
        /\ flights' = Sent(flights, x)
        /\ UNCHANGED <<filter, rows, eventCursor, offset, hasMore>>
        /\ filter \in Filters /\ offset \in Nat
    BY <1>0 DEF IInv, LoadMore, feed, Shape, ViewShape
  <1>2. /\ x \in Requests /\ x.kind = "page" /\ x.filter = filter
        /\ x.arg = offset /\ x.reply = Nothing
    BY <1>0, <1>1, FlightIs
  <1>3. /\ flights' \in [Slots -> {Nothing} \cup Requests]
        /\ \A s \in Slots : flights'[s] = flights[s] \/ flights'[s] = x
    <2>1. flights \in [Slots -> {Nothing} \cup Requests] /\ x \in {Nothing} \cup Requests
      BY <1>1, <1>2 DEF Shape, FlightsShape
    <2>. QED BY <1>1, <2>1 DEF Sent
  <1>4. FlightsShape'
    BY <1>1, <1>2, <1>3, NewFlights DEF Shape
  <1>5. ASSUME RowsCurrent, FlightsComplete PROVE FlightsComplete'
    <2>1. Complete(x)'
      <3>1. \A k \in Matching(filter) : Unseen(k) => Place(filter, k) > offset
        <4> SUFFICES ASSUME NEW k \in Matching(filter), Unseen(k)
                     PROVE  Place(filter, k) > offset
          OBVIOUS
        <4>1. Row(k) >= 1 /\ Row(k) \in Nat
          BY <1>1, FilterIs, MatchingIs, RowIs DEF Shape, ViewShape, FeedOK
        <4>. QED BY <1>5, <4>1 DEF RowsCurrent, Unseen
      <3>2. \A k : Unseen(k)' = Unseen(k)
        BY <1>1, SameEvents DEF Unseen
      <3>3. PageComplete(x)'
        BY <1>1, <1>2, <3>1, <3>2, SameEvents DEF PageComplete
      <3>. QED BY <1>1, <1>2, <3>3 DEF Complete, PollComplete, LoadComplete
    <2> SUFFICES ASSUME NEW s \in Slots, flights'[s] # Nothing, ~flights'[s].old
                 PROVE  Complete(flights[s])'
      BY DEF FlightsComplete
    <2>2. CASE flights'[s] = x
      BY <2>1, <2>2
    <2>3. CASE flights'[s] = flights[s]
      <3>1. PICK y : y = flights[s]
        OBVIOUS
      <3>2. Complete(y)'
        BY <1>1, <1>5, <2>3, <3>1, StillComplete
      <3>. QED BY <2>3, <3>1, <3>2
    <2>. QED BY <1>3, <2>2, <2>3
  <1>. QED BY <1>1, <1>4, <1>5, FlightsWork DEF LoadMore

LEMMA PollTickKeeps == ASSUME IInv, PollTick PROVE IInv'
  <1>0. PICK x : x = Flight("poll", filter, eventCursor)
    OBVIOUS
  <1>1. /\ Shape /\ events' = events /\ UNCHANGED feed
        /\ flights' = Sent(flights, x)
        /\ UNCHANGED <<filter, rows, eventCursor>>
        /\ filter \in Filters /\ eventCursor \in Nat
    BY <1>0 DEF IInv, PollTick, feed, Shape, ViewShape
  <1>2. /\ x \in Requests /\ x.kind = "poll" /\ x.filter = filter
        /\ x.arg = eventCursor /\ x.reply = Nothing
    BY <1>0, <1>1, FlightIs
  <1>3. /\ flights' \in [Slots -> {Nothing} \cup Requests]
        /\ \A s \in Slots : flights'[s] = flights[s] \/ flights'[s] = x
    <2>1. flights \in [Slots -> {Nothing} \cup Requests] /\ x \in {Nothing} \cup Requests
      BY <1>1, <1>2 DEF Shape, FlightsShape
    <2>. QED BY <1>1, <2>1 DEF Sent
  <1>4. FlightsShape'
    BY <1>1, <1>2, <1>3, NewFlights DEF Shape
  <1>5. ASSUME RowsCurrent, FlightsComplete PROVE FlightsComplete'
    <2>1. Complete(x)'
      BY <1>1, <1>2 DEF Complete, PollComplete, PageComplete, LoadComplete
    <2> SUFFICES ASSUME NEW s \in Slots, flights'[s] # Nothing, ~flights'[s].old
                 PROVE  Complete(flights[s])'
      BY DEF FlightsComplete
    <2>2. CASE flights'[s] = x
      BY <2>1, <2>2
    <2>3. CASE flights'[s] = flights[s]
      <3>1. PICK y : y = flights[s]
        OBVIOUS
      <3>2. Complete(y)'
        BY <1>1, <1>5, <2>3, <3>1, StillComplete
      <3>. QED BY <2>3, <3>1, <3>2
    <2>. QED BY <1>3, <2>2, <2>3
  <1>. QED BY <1>1, <1>4, <1>5, FlightsWork DEF PollTick

LEMMA FlightFailsKeeps == ASSUME IInv, NEW s \in Slots, FlightFails(s) PROVE IInv'
  <1>1. /\ Shape /\ events' = events /\ UNCHANGED feed
        /\ flights' = [flights EXCEPT ![s] = Nothing]
        /\ UNCHANGED <<filter, rows, eventCursor>>
    BY DEF IInv, FlightFails, feed
  <1>2. /\ flights' \in [Slots -> {Nothing} \cup Requests]
        /\ \A t \in Slots : flights'[t] = flights[t] \/ flights'[t] = Nothing
    BY <1>1 DEF Shape, FlightsShape
  <1>3. FlightsShape'
    BY <1>1, <1>2, NewFlights DEF Shape
  <1>4. ASSUME RowsCurrent, FlightsComplete PROVE FlightsComplete'
    <2> SUFFICES ASSUME NEW t \in Slots, flights'[t] # Nothing, ~flights'[t].old
                 PROVE  Complete(flights[t])'
      BY DEF FlightsComplete
    <2>1. PICK y : y = flights[t]
      OBVIOUS
    <2>2. flights'[t] = y
      BY <1>2, <2>1
    <2>3. Complete(y)'
      BY <1>1, <1>4, <2>1, <2>2, StillComplete
    <2>. QED BY <2>2, <2>3
  <1>. QED BY <1>1, <1>3, <1>4, FlightsWork DEF FlightFails

\* An answer says what the database holds when it is served.
LEMMA ServeKeeps == ASSUME IInv, NEW s \in Slots, Serve(s) PROVE IInv'
  <1>1. PICK x : x = flights[s]
    OBVIOUS
  <1> DEFINE r == IF x.kind = "poll" THEN Updates(x.filter, x.arg)
                                     ELSE Blotter(x.filter, x.arg)
  <1>2. /\ Shape /\ FeedOK /\ events' = events /\ UNCHANGED feed
        /\ flights' = [flights EXCEPT ![s].reply = r]
        /\ x # Nothing /\ x.reply = Nothing
        /\ UNCHANGED <<filter, rows, eventCursor>>
    BY <1>1 DEF IInv, Serve, feed, Shape
  <1>3. /\ x \in Requests /\ x.arg \in Nat /\ x.filter \in Filters
        /\ x.filter.orders \subseteq Orders
    BY <1>1, <1>2, FilterIs DEF Shape, FlightsShape, Requests
  <1>4. ASSUME x.kind = "poll"
        PROVE  /\ r = Updates(x.filter, x.arg)
               /\ Notices(r) /\ r \in Seq(Notice)
               /\ \A i \in DOMAIN r : x.arg < r[i].id
               /\ \A k \in Matching(x.filter), i \in DOMAIN r :
                     x.arg < Row(k) /\ Row(k) <= r[i].id => Told(r, k)
    <2>1. r = Updates(x.filter, x.arg)
      BY <1>4
    <2> HIDE DEF r
    <2>. QED BY <1>2, <1>3, <2>1, UpdatesTell DEF Notices
  <1>5. ASSUME x.kind # "poll"
        PROVE  /\ r \in Pages
               /\ \A k \in Orders : r.rows[k] <= Row(k)
               /\ \A k \in Matching(x.filter) : Place(x.filter, k) > x.arg =>
                     \/ r.rows[k] = Row(k)
                     \/ r.rows[k] = 0 /\ r.more /\ Place(x.filter, k) > x.arg + PageSize
    <2>1. r = Blotter(x.filter, x.arg)
      BY <1>5
    <2> HIDE DEF r
    <2>2. r \in [rows : [Orders -> Nat], more : BOOLEAN]
      BY <1>2, <1>3, <2>1, BlotterTells
    <2>3. \A k \in Orders : r.rows[k] <= Row(k)
      <3>1. PICK b : b = r
        OBVIOUS
      <3>2. \A k \in Orders : b.rows[k] <= Row(k)
        BY <1>2, <1>3, <2>1, <3>1, BlotterTells
      <3>. QED BY <3>1, <3>2
    <2>4. ASSUME NEW k \in Matching(x.filter), Place(x.filter, k) > x.arg
          PROVE  \/ r.rows[k] = Row(k)
                 \/ r.rows[k] = 0 /\ r.more /\ Place(x.filter, k) > x.arg + PageSize
      BY <1>2, <1>3, <2>1, <2>4, BlotterTells
    <2>. QED BY <2>2, <2>3, <2>4 DEF Pages
  <1> HIDE DEF r
  <1>y. PICK y : y = [x EXCEPT !.reply = r]
    OBVIOUS
  <1>6. /\ y \in Requests /\ y.reply = r
        /\ y.kind = x.kind /\ y.filter = x.filter /\ y.arg = x.arg /\ y.old = x.old
    <2>1. r \in {Nothing} \cup Seq(Notice) \cup Pages
      BY <1>4, <1>5
    <2>. QED BY <1>3, <1>y, <2>1 DEF Requests
  <1>7. flights' = [flights EXCEPT ![s] = y]
    BY <1>1, <1>2, <1>y DEF Shape, FlightsShape
  <1>8. ReplyOK(y)
    <2>1. \A k \in Orders : Row(k) \in Nat
      BY <1>2, RowIs DEF FeedOK
    <2>2. CASE x.kind = "poll"
      BY <1>4, <1>6, <2>2 DEF ReplyOK
    <2>3. CASE x.kind # "poll"
      BY <1>5, <1>6, <2>1, <2>3 DEF ReplyOK
    <2>. QED BY <2>2, <2>3
  <1>9. /\ flights' \in [Slots -> {Nothing} \cup Requests]
        /\ \A t \in Slots : flights'[t] = IF t = s THEN y ELSE flights[t]
    BY <1>2, <1>6, <1>7 DEF Shape, FlightsShape
  <1>10. FlightsShape'
    BY <1>2, <1>8, <1>9, NewFlights DEF Shape
  <1>11. ASSUME RowsCurrent, FlightsComplete PROVE FlightsComplete'
    <2>1. ASSUME ~x.old PROVE Complete(y)
      <3>1. Complete(x)
        BY <1>1, <1>2, <1>11, <2>1 DEF FlightsComplete
      <3>2. x.filter = filter
        BY <3>1 DEF Complete
      <3>3. PollComplete(y)
        BY <1>4, <1>6, <3>1, <3>2 DEF Complete, PollComplete
      <3>4. ASSUME x.kind # "poll", NEW k \in Matching(filter), Place(filter, k) > x.arg
            PROVE  Covered(y, k)
        BY <1>5, <1>6, <3>2, <3>4 DEF Covered
      <3>5. PageComplete(y)
        <4> SUFFICES ASSUME x.kind = "page", NEW k \in Matching(filter), Unseen(k)
                     PROVE  Place(filter, k) > x.arg
          BY <1>6, <3>4 DEF PageComplete
        <4>. QED BY <1>2, <3>1 DEF Complete, PageComplete
      <3>6. LoadComplete(y)
        <4> SUFFICES ASSUME x.kind = "load" PROVE LoadComplete(y)
          BY <1>6 DEF LoadComplete
        <4>1. x.arg = 0
          BY <3>1 DEF Complete, LoadComplete
        <4>2. ASSUME NEW k \in Matching(filter) PROVE Place(filter, k) > x.arg
          <5>1. Place(filter, k) \in 1 .. Cardinality(Matching(filter))
                /\ Cardinality(Matching(filter)) \in Nat
            BY <1>3, <3>2, PlaceIs
          <5>. QED BY <4>1, <5>1
        <4>. QED BY <1>6, <3>4, <4>1, <4>2 DEF LoadComplete
      <3>. QED BY <1>6, <3>2, <3>3, <3>5, <3>6 DEF Complete
    <2>2. ASSUME ~x.old PROVE Complete(y)'
      <3>1. \A k : Unseen(k)' => Unseen(k)
        BY <1>2, SameEvents DEF Unseen
      <3>2. eventCursor \in Nat
        BY <1>2 DEF Shape, ViewShape
      <3>. QED BY <1>2, <1>6, <2>1, <2>2, <3>1, <3>2, StaysComplete
    <2> SUFFICES ASSUME NEW t \in Slots, flights'[t] # Nothing, ~flights'[t].old
                 PROVE  Complete(flights[t])'
      BY DEF FlightsComplete
    <2>3. CASE t = s
      BY <1>6, <1>9, <2>2, <2>3
    <2>4. CASE t # s
      <3>1. PICK z : z = flights[t]
        OBVIOUS
      <3>2. flights'[t] = z
        BY <1>9, <2>4, <3>1
      <3>3. Complete(z)'
        BY <1>2, <1>11, <3>1, <3>2, StillComplete
      <3>. QED BY <3>2, <3>3
    <2>. QED BY <2>3, <2>4
  <1>. QED BY <1>2, <1>10, <1>11, FlightsWork DEF Serve

\* A load is asked for; of the others that are in flight only loads of the same
\* filter are still what is asked.
LEMMA ResetAndLoadKeeps == ASSUME IInv, NEW f \in Filters, ResetAndLoad(f) PROVE IInv'
  <1>0. PICK x : x = Flight("load", f, 0)
    OBVIOUS
  <1> DEFINE kept(y) == y = Nothing \/ (y.kind = "load" /\ y.filter = f)
  <1>g. PICK g : g = [s \in Slots |-> IF kept(flights[s]) THEN flights[s]
                                      ELSE Outdated(flights[s])]
    OBVIOUS
  <1>1. /\ Shape /\ FeedOK /\ events' = events /\ UNCHANGED feed
        /\ filter' = f /\ eventCursor' = 0
        /\ due' = IF f # filter \/ eventCursor' # eventCursor THEN "turned" ELSE due
        /\ flights' = Sent(g, x)
        /\ UNCHANGED <<rows, offset, hasMore, syncMode, streamFailures, online,
                       stream, queue, acts, mishaps>>
    BY <1>0, <1>g DEF IInv, ResetAndLoad, feed, Shape
  <1>2. /\ x \in Requests /\ x.kind = "load" /\ x.filter = f
        /\ x.arg = 0 /\ x.reply = Nothing
    BY <1>0, FlightIs
  <1>3. ASSUME NEW s \in Slots
        PROVE  /\ g[s] \in {Nothing} \cup Requests
               /\ \/ g[s] = flights[s] /\ kept(flights[s])
                  \/ /\ g[s] \in Requests /\ g[s].old = TRUE
                     /\ g[s].reply = Nothing \/ ReplyOK(g[s])
    <2>1. PICK y : y = flights[s]
      OBVIOUS
    <2>2. /\ y \in {Nothing} \cup Requests
          /\ y # Nothing /\ y.reply # Nothing => ReplyOK(y)
          /\ g[s] = IF kept(y) THEN y ELSE Outdated(y)
      BY <1>1, <1>g, <2>1 DEF Shape, FlightsShape
    <2>3. CASE kept(y)
      BY <2>1, <2>2, <2>3
    <2>4. CASE ~kept(y)
      <3>1. y \in Requests /\ y # Nothing
        BY <2>2, <2>4
      <3>2. PICK z : z = Outdated(y)
        OBVIOUS
      <3>3. z \in Requests /\ z.old = TRUE /\ z.reply = y.reply
            /\ (ReplyOK(y) => ReplyOK(z))
        BY <3>1, <3>2, OutdatedIs
      <3>. QED BY <2>2, <2>4, <3>1, <3>2, <3>3
    <2>. QED BY <2>3, <2>4
  <1> HIDE DEF kept
  <1>4. /\ flights' \in [Slots -> {Nothing} \cup Requests]
        /\ \A s \in Slots : flights'[s] = g[s] \/ flights'[s] = x
    <2>1. g \in [Slots -> {Nothing} \cup Requests] /\ x \in {Nothing} \cup Requests
      BY <1>2, <1>3, <1>g
    <2>. QED BY <1>1, <2>1 DEF Sent
  <1>5. FlightsShape'
    <2>1. \A s \in Slots : \/ flights'[s] = Nothing
                           \/ flights'[s] = flights[s]
                           \/ flights'[s].reply = Nothing
                           \/ ReplyOK(flights'[s])
      <3> TAKE s \in Slots
      <3>1. CASE flights'[s] = x
        BY <1>2, <3>1
      <3>2. CASE flights'[s] = g[s]
        <4>1. PICK z : z = g[s]
          OBVIOUS
        <4>2. z = flights[s] \/ z.reply = Nothing \/ ReplyOK(z)
          BY <1>3, <4>1
        <4>. QED BY <3>2, <4>1, <4>2
      <3>. QED BY <1>4, <3>1, <3>2
    <2>. QED BY <1>1, <1>4, <2>1, NewFlights DEF Shape
  <1>6. ViewShape'
    BY <1>1, SameEvents DEF Shape, ViewShape, Seen
  <1>7. StreamShape' /\ (StreamComplete => StreamComplete')
    BY <1>1, SameStream DEF Shape
  <1>8. ActsShape' /\ FeedOK'
    BY <1>1, SameActs DEF Shape, feed, FeedOK, Drawn
  <1>9. RowsCurrent'
    <2>1. \A k \in Matching(f) : Row(k) \in Nat /\ Row(k) >= 1
      BY <1>1, FilterIs, MatchingIs, RowIs DEF FeedOK
    <2>. QED BY <1>1, <2>1, SameEvents DEF RowsCurrent
  <1>10. ASSUME FlightsComplete PROVE FlightsComplete'
    <2>1. Complete(x)'
      BY <1>1, <1>2 DEF Complete, PollComplete, PageComplete, LoadComplete
    <2> SUFFICES ASSUME NEW s \in Slots, flights'[s] # Nothing, ~flights'[s].old
                 PROVE  Complete(flights[s])'
      BY DEF FlightsComplete
    <2>2. CASE flights'[s] = x
      BY <2>1, <2>2
    <2>3. CASE flights'[s] = g[s]
      <3>1. PICK y : y = flights[s]
        OBVIOUS
      <3>2. flights'[s] = y /\ y # Nothing /\ y.kind = "load" /\ y.filter = f
        BY <1>3, <2>3, <3>1 DEF kept
      <3>3. y \in Requests /\ Complete(y)
        BY <1>1, <1>10, <3>1, <3>2 DEF FlightsComplete, Shape, FlightsShape
      <3>4. filter' = filter /\ eventCursor \in Nat /\ eventCursor' \in Nat
        BY <1>1, <3>2, <3>3 DEF Complete, Shape, ViewShape
      <3>5. Complete(y)'
        BY <1>1, <3>2, <3>3, <3>4, StaysComplete
      <3>. QED BY <3>2, <3>5
    <2>. QED BY <1>4, <2>2, <2>3
  <1>. QED BY <1>1, <1>5, <1>6, <1>7, <1>8, <1>9, <1>10 DEF IInv, Shape
----
(***************************************************************************)
(* Answers.                                                                *)
(***************************************************************************)
\* Of the other requests, those go on that are still what is asked.
LEMMA AnswerIs ==
    ASSUME Shape, events' = events, NEW s \in Slots, NEW kind, NEW x, x = flights[s],
           Answered(s, kind, eventCursor')
    PROVE  /\ x \in Requests /\ x.kind = kind /\ x.reply # Nothing /\ ReplyOK(x)
           /\ FlightsShape'
           /\ \A t \in Slots : flights'[t] # Nothing /\ ~flights'[t].old =>
                 /\ flights'[t] = flights[t]
                 /\ flights[t].kind = "page" => kind # "load"
                 /\ flights[t].kind # "load" => ~(eventCursor' < eventCursor)
           /\ due' = "turned" \/ (due' = due /\ eventCursor' = eventCursor)
  <1> DEFINE passed(y) == \/ y.kind = "page" /\ kind = "load"
                          \/ y.kind # "load" /\ eventCursor' < eventCursor
  <1>1. /\ x # Nothing /\ x.kind = kind /\ x.reply # Nothing
        /\ due' = IF eventCursor' # eventCursor THEN "turned" ELSE due
        /\ flights' = [t \in Slots |->
               IF t = s THEN Nothing
               ELSE IF flights[t] # Nothing /\ passed(flights[t])
               THEN Outdated(flights[t]) ELSE flights[t]]
    BY DEF Answered
  <1>2. x \in Requests /\ ReplyOK(x)
    BY <1>1 DEF Shape, FlightsShape
  <1>3. ASSUME NEW t \in Slots
        PROVE  /\ flights'[t] \in {Nothing} \cup Requests
               /\ \/ flights'[t] = Nothing
                  \/ flights'[t] = flights[t] /\ ~passed(flights[t])
                  \/ /\ flights'[t].old = TRUE
                     /\ flights'[t].reply = Nothing \/ ReplyOK(flights'[t])
    <2>1. PICK y : y = flights[t]
      OBVIOUS
    <2>2. /\ y \in {Nothing} \cup Requests
          /\ y # Nothing /\ y.reply # Nothing => ReplyOK(y)
          /\ flights'[t] = IF t = s THEN Nothing
                           ELSE IF y # Nothing /\ passed(y) THEN Outdated(y) ELSE y
      BY <1>1, <2>1 DEF Shape, FlightsShape
    <2>3. CASE t = s \/ y = Nothing \/ ~passed(y)
      BY <2>1, <2>2, <2>3
    <2>4. CASE t # s /\ y # Nothing /\ passed(y)
      <3>1. PICK z : z = Outdated(y)
        OBVIOUS
      <3>2. z \in Requests /\ z.old = TRUE /\ z.reply = y.reply
            /\ (ReplyOK(y) => ReplyOK(z))
        BY <2>2, <2>4, <3>1, OutdatedIs
      <3>3. flights'[t] = z
        BY <2>2, <2>4, <3>1
      <3>4. z.reply = Nothing \/ ReplyOK(z)
        BY <2>2, <2>4, <3>2
      <3>. QED BY <3>2, <3>3, <3>4
    <2>. QED BY <2>3, <2>4
  <1>4. FlightsShape'
    <2>1. flights' \in [Slots -> {Nothing} \cup Requests]
      BY <1>1, <1>3
    <2>2. \A t \in Slots : \/ flights'[t] = Nothing
                           \/ flights'[t] = flights[t]
                           \/ flights'[t].reply = Nothing
                           \/ ReplyOK(flights'[t])
      BY <1>3
    <2>. QED BY <2>1, <2>2, NewFlights DEF Shape
  <1>5. ASSUME NEW t \in Slots, flights'[t] # Nothing, ~flights'[t].old
        PROVE  flights'[t] = flights[t] /\ ~passed(flights[t])
    BY <1>3, <1>5
  <1>. QED BY <1>1, <1>2, <1>4, <1>5

\* The cursor moves to the newest of the rows that a load brings: an order that
\* is not among them has its last event above it, or is on a later page.
LEMMA LoadAnsweredKeeps == ASSUME IInv, NEW s \in Slots, LoadAnswered(s) PROVE IInv'
  <1>1. PICK x : x = flights[s]
    OBVIOUS
  <1>b. PICK b : b = x.reply
    OBVIOUS
  <1>2. /\ Shape /\ FeedOK /\ events' = events /\ UNCHANGED feed
        /\ Answered(s, "load", eventCursor')
        /\ eventCursor' = Max({0} \cup {b.rows[k] : k \in Orders})
        /\ rows' = b.rows /\ offset' = (IF b.more THEN PageSize ELSE 0)
        /\ hasMore' = b.more
        /\ mishaps' = mishaps \cup (IF x.old THEN {"crossed"} ELSE {})
        /\ UNCHANGED <<filter, syncMode, streamFailures, online, stream, queue, acts>>
    BY <1>1, <1>b DEF IInv, LoadAnswered, Answered, feed, Shape
  <1>3. /\ x \in Requests /\ x.kind = "load" /\ x.reply # Nothing /\ ReplyOK(x)
        /\ FlightsShape'
        /\ \A t \in Slots : flights'[t] # Nothing /\ ~flights'[t].old =>
              /\ flights'[t] = flights[t]
              /\ flights[t].kind # "page"
              /\ flights[t].kind # "load" => ~(eventCursor' < eventCursor)
        /\ due' = "turned" \/ (due' = due /\ eventCursor' = eventCursor)
    BY <1>1, <1>2, AnswerIs
  <1>4. /\ b \in Pages
        /\ \A k \in Orders : b.rows[k] \in Nat /\ b.rows[k] <= Row(k)
    BY <1>b, <1>3 DEF ReplyOK, Pages
  <1>5. \A k \in Orders : Row(k) \in 0 .. lastId /\ lastId \in Nat
    BY <1>2, RowIs DEF FeedOK
  <1>6. /\ eventCursor' \in Nat
        /\ eventCursor' # 0 => \E j \in Orders : eventCursor' = b.rows[j]
    <2> DEFINE S == {0} \cup {b.rows[k] : k \in Orders}
    <2>1. lastId \in Nat
      BY <1>2 DEF FeedOK
    <2>2. S \subseteq 0 .. lastId /\ S # {}
      BY <1>4, <1>5, <2>1
    <2>3. Max(S) \in S
      BY <2>1, <2>2, Greatest
    <2>. QED BY <1>2, <1>4, <2>3
  <1>7. Seen(eventCursor')
    <2> SUFFICES ASSUME eventCursor' # 0 PROVE Seen(eventCursor')
      BY DEF Seen
    <2>1. PICK j \in Orders : eventCursor' = b.rows[j]
      BY <1>6
    <2>2. Row(j) \in events[j]
      BY <1>2, <1>4, <1>5, <1>6, <2>1, RowIs
    <2>. QED BY <1>4, <2>1, <2>2 DEF Seen
  <1>8. ViewShape'
    <2>1. rows' \in [Orders -> Nat] /\ hasMore' \in BOOLEAN /\ offset' \in Nat
      BY <1>2, <1>4, FeedAssumption DEF Pages
    <2>. QED BY <1>2, <1>4, <1>6, <1>7, <2>1, SameEvents DEF Shape, ViewShape
  <1>9. StreamShape' /\ (StreamComplete => StreamComplete')
    BY <1>2, <1>3, SameStream DEF Shape
  <1>10. ActsShape' /\ FeedOK'
    BY <1>2, SameActs DEF Shape, feed, FeedOK, Drawn
  <1>11. mishaps' \subseteq Mishaps
    BY <1>2 DEF Shape, Mishaps
  <1>12. ASSUME mishaps' = {} PROVE RowsCurrent' /\ StreamComplete' /\ FlightsComplete'
    <2>1. StreamComplete /\ FlightsComplete /\ ~x.old
      BY <1>2, <1>12 DEF IInv
    <2>2. Complete(x)
      BY <1>1, <1>2, <2>1 DEF FlightsComplete, Answered
    <2>3. x.arg = 0 /\ \A k \in Matching(filter), j \in Orders :
                          Row(k) <= b.rows[j] => Covered(x, k)
      BY <1>b, <1>3, <2>2 DEF Complete, LoadComplete
    <2>4. RowsCurrent'
      <3> SUFFICES ASSUME NEW k \in Matching(filter), Row(k) <= eventCursor'
                   PROVE  \/ rows'[k] = Row(k)
                          \/ rows'[k] = 0 /\ hasMore' /\ Place(filter, k) > offset'
        BY <1>2, SameEvents DEF RowsCurrent
      <3>1. Row(k) >= 1 /\ Row(k) \in Nat
        BY <1>2, FilterIs, MatchingIs, RowIs DEF Shape, ViewShape, FeedOK
      <3>2. PICK j \in Orders : eventCursor' = b.rows[j]
        BY <1>6, <3>1
      <3>3. Covered(x, k)
        BY <2>3, <3>2
      <3>4. \/ b.rows[k] = Row(k)
            \/ b.rows[k] = 0 /\ b.more /\ Place(filter, k) > PageSize
        BY <1>b, <2>3, <3>3, FeedAssumption DEF Covered
      <3>. QED BY <1>2, <3>4
    <2>5. FlightsComplete'
      <3> SUFFICES ASSUME NEW t \in Slots, flights'[t] # Nothing, ~flights'[t].old
                   PROVE  Complete(flights[t])'
        BY DEF FlightsComplete
      <3>1. PICK y : y = flights[t]
        OBVIOUS
      <3>2. /\ flights'[t] = y /\ y # Nothing /\ ~y.old /\ y.kind # "page"
            /\ y.kind # "load" => ~(eventCursor' < eventCursor)
        BY <1>3, <3>1
      <3>3. y \in Requests /\ Complete(y) /\ eventCursor \in Nat
        BY <1>2, <2>1, <3>1, <3>2 DEF FlightsComplete, Shape, FlightsShape, ViewShape
      <3>4. y.kind = "poll" => eventCursor <= eventCursor'
        BY <1>6, <3>2, <3>3
      <3>5. Complete(y)'
        BY <1>2, <1>6, <3>2, <3>3, <3>4, StaysComplete
      <3>. QED BY <3>2, <3>5
    <2>. QED BY <1>9, <2>1, <2>4, <2>5
  <1>. QED BY <1>2, <1>3, <1>8, <1>9, <1>10, <1>11, <1>12 DEF IInv, Shape

\* A page changes no row for an older one and leaves out none that is not shown.
LEMMA PageAnsweredKeeps == ASSUME IInv, NEW s \in Slots, PageAnswered(s) PROVE IInv'
  <1>1. PICK x : x = flights[s]
    OBVIOUS
  <1>b. PICK b : b = x.reply
    OBVIOUS
  <1>2. /\ Shape /\ FeedOK /\ events' = events /\ UNCHANGED feed
        /\ Answered(s, "page", eventCursor') /\ eventCursor' = eventCursor
        /\ rows' = Overlaid(rows, b.rows)
        /\ offset' = x.arg + (IF b.more THEN PageSize ELSE 0)
        /\ hasMore' = b.more
        /\ mishaps' = mishaps
              \cup (IF x.old THEN {"crossed"} ELSE {})
              \cup (IF \E k \in Orders : rows'[k] < rows[k] THEN {"regressed"} ELSE {})
        /\ UNCHANGED <<filter, syncMode, streamFailures, online, stream, queue, acts>>
    BY <1>1, <1>b DEF IInv, PageAnswered, Answered, feed, Shape
  <1>3. /\ x \in Requests /\ x.kind = "page" /\ x.reply # Nothing /\ ReplyOK(x)
        /\ FlightsShape'
        /\ \A t \in Slots : flights'[t] # Nothing /\ ~flights'[t].old =>
              flights'[t] = flights[t]
        /\ due' = "turned" \/ (due' = due /\ eventCursor' = eventCursor)
    BY <1>1, <1>2, AnswerIs
  <1>4. /\ b \in Pages /\ x.arg \in Nat
        /\ \A k \in Orders : b.rows[k] \in Nat /\ b.rows[k] <= Row(k)
    BY <1>b, <1>3 DEF ReplyOK, Pages, Requests
  <1>5. \A k \in Orders : Row(k) \in Nat
    BY <1>2, RowIs DEF FeedOK
  <1>6. \A k \in Orders : /\ rows[k] \in Nat /\ rows[k] <= Row(k)
                          /\ rows'[k] = IF b.rows[k] = 0 THEN rows[k] ELSE b.rows[k]
    BY <1>2 DEF Overlaid, Shape, ViewShape
  <1>7. ViewShape'
    <2>1. rows' \in [Orders -> Nat]
      BY <1>2, <1>4, <1>6 DEF Overlaid
    <2>2. \A k \in Orders : rows'[k] <= Row(k)
      BY <1>4, <1>6
    <2>3. hasMore' \in BOOLEAN /\ offset' \in Nat
      BY <1>2, <1>4, FeedAssumption DEF Pages
    <2>. QED BY <1>2, <2>1, <2>2, <2>3, SameEvents DEF Shape, ViewShape
  <1>8. StreamShape' /\ (StreamComplete => StreamComplete')
    BY <1>2, <1>3, SameStream DEF Shape
  <1>9. ActsShape' /\ FeedOK'
    BY <1>2, SameActs DEF Shape, feed, FeedOK, Drawn
  <1>10. mishaps' \subseteq Mishaps
    BY <1>2 DEF Shape, Mishaps
  <1>11. ASSUME mishaps' = {} PROVE RowsCurrent' /\ StreamComplete' /\ FlightsComplete'
    <2>1. /\ RowsCurrent /\ StreamComplete /\ FlightsComplete /\ ~x.old
          /\ \A k \in Orders : ~(rows'[k] < rows[k])
      BY <1>2, <1>11 DEF IInv
    <2>2. Complete(x)
      BY <1>1, <1>2, <2>1 DEF FlightsComplete, Answered
    <2>3. \A k \in Matching(filter) : Unseen(k) => Covered(x, k)
      BY <1>3, <2>2 DEF Complete, PageComplete
    <2>4. RowsCurrent'
      <3> SUFFICES ASSUME NEW k \in Matching(filter), Row(k) <= eventCursor
                   PROVE  \/ rows'[k] = Row(k)
                          \/ rows'[k] = 0 /\ hasMore' /\ Place(filter, k) > offset'
        BY <1>2, SameEvents DEF RowsCurrent
      <3>1. k \in Orders /\ Row(k) >= 1
        BY <1>2, FilterIs, MatchingIs, RowIs DEF Shape, ViewShape
      <3>2. CASE rows[k] = Row(k)
        BY <1>4, <1>5, <1>6, <2>1, <3>1, <3>2
      <3>3. CASE rows[k] = 0
        <4>1. Covered(x, k)
          BY <2>3, <3>3 DEF Unseen
        <4>2. \/ b.rows[k] = Row(k)
              \/ b.rows[k] = 0 /\ b.more /\ Place(filter, k) > x.arg + PageSize
          BY <1>b, <4>1 DEF Covered
        <4>3. rows'[k] = b.rows[k]
          BY <1>6, <3>1, <3>3
        <4>. QED BY <1>2, <4>2, <4>3
      <3>. QED BY <2>1, <3>2, <3>3 DEF RowsCurrent
    <2>5. FlightsComplete'
      <3> SUFFICES ASSUME NEW t \in Slots, flights'[t] # Nothing, ~flights'[t].old
                   PROVE  Complete(flights[t])'
        BY DEF FlightsComplete
      <3>1. PICK y : y = flights[t]
        OBVIOUS
      <3>2. flights'[t] = y /\ y # Nothing /\ ~y.old
        BY <1>3, <3>1
      <3>3. y \in Requests /\ Complete(y) /\ eventCursor \in Nat /\ eventCursor' \in Nat
        BY <1>2, <2>1, <3>1, <3>2 DEF FlightsComplete, Shape, FlightsShape, ViewShape
      <3>4. \A k \in Matching(filter) : Unseen(k)' => Unseen(k)
        <4> SUFFICES ASSUME NEW k \in Matching(filter), Unseen(k)'
                     PROVE  Unseen(k)
          OBVIOUS
        <4>1. k \in Orders
          BY <1>2, FilterIs, MatchingIs DEF Shape, ViewShape
        <4>2. Row(k) <= eventCursor /\ rows'[k] = 0
          BY <1>2, SameEvents DEF Unseen
        <4>. QED BY <1>6, <4>1, <4>2 DEF Unseen
      <3>5. Complete(y)'
        BY <1>2, <3>2, <3>3, <3>4, StaysComplete
      <3>. QED BY <3>2, <3>5
    <2>. QED BY <1>8, <2>1, <2>4, <2>5
  <1>. QED BY <1>2, <1>3, <1>7, <1>8, <1>9, <1>10, <1>11 DEF IInv, Shape

\* Merging keeps a row, or gives it the one of its last notice.
LEMMA MergedIs ==
    ASSUME FeedOK, NEW q, Notices(q), NEW old, NEW r, r = Merged(old, q)
    PROVE  \A k \in Orders :
              \/ /\ r[k] = old[k]
                 /\ \A i \in DOMAIN q : q[i].order # k
              \/ \E i \in DOMAIN q :
                    /\ r[k] = q[i].row /\ q[i].order = k
                    /\ \A j \in DOMAIN q : q[j].order = k => q[j].id <= q[i].id
  <1> TAKE k \in Orders
  <1> DEFINE own == {i \in DOMAIN q : q[i].order = k}
  <1>1. r[k] = IF own = {} THEN old[k] ELSE q[Max(own)].row
    BY DEF Merged
  <1>2. CASE own = {}
    BY <1>1, <1>2
  <1>3. CASE own # {}
    <2>1. Len(q) \in Nat /\ DOMAIN q = 1 .. Len(q)
      BY DEF Notices
    <2>2. own \subseteq 0 .. Len(q)
      BY <2>1
    <2>3. PICK m : m = Max(own)
      OBVIOUS
    <2>4. m \in own /\ \A j \in own : j <= m
      <3> HIDE DEF own
      <3>. QED BY <1>3, <2>1, <2>2, <2>3, Greatest
    <2>5. ASSUME NEW j \in DOMAIN q, q[j].order = k PROVE q[j].id <= q[m].id
      <3>1. j <= m /\ j \in Nat /\ m \in Nat /\ m \in DOMAIN q
        BY <2>1, <2>4, <2>5
      <3>2. q[j].id \in Nat /\ q[m].id \in Nat
        BY <2>5, <3>1, NoticeIs
      <3>3. CASE j = m
        BY <3>2, <3>3
      <3>4. CASE j < m
        BY <2>5, <3>1, <3>2, <3>4 DEF Notices
      <3>. QED BY <3>1, <3>3, <3>4
    <2>. QED BY <1>1, <1>3, <2>3, <2>4, <2>5
  <1>. QED BY <1>2, <1>3

\* So the last event of an order brings its current row.
LEMMA ToldRowIs ==
    ASSUME FeedOK, NEW q, Notices(q), NEW old, NEW r, r = Merged(old, q)
    PROVE  /\ \A k \in Orders : Told(q, k) => r[k] = Row(k)
           /\ \A k \in Orders : \/ r[k] = old[k]
                                \/ r[k] \in Nat /\ 1 <= r[k] /\ r[k] <= Row(k)
           /\ \A k \in Orders : (\A i \in DOMAIN q : Row(k) < q[i].id) => r[k] = old[k]
  <1>1. ASSUME NEW k \in Orders, Told(q, k) PROVE r[k] = Row(k)
    <2>1. PICK j \in DOMAIN q : q[j].id = Row(k) /\ q[j].order = k
      BY <1>1 DEF Told
    <2>2. PICK i \in DOMAIN q : /\ r[k] = q[i].row /\ q[i].order = k
                                /\ q[j].id <= q[i].id
      BY <2>1, MergedIs
    <2>3. q[i].id <= q[i].row /\ q[i].row <= Row(k) /\ q[i].id \in Nat /\ q[i].row \in Nat
      BY <2>2, NoticeIs
    <2>4. Row(k) \in Nat
      BY RowIs DEF FeedOK
    <2>. QED BY <2>1, <2>2, <2>3, <2>4
  <1>2. ASSUME NEW k \in Orders, r[k] # old[k]
        PROVE  \E i \in DOMAIN q : /\ r[k] = q[i].row /\ q[i].order = k
                                   /\ r[k] \in Nat /\ 1 <= r[k] /\ r[k] <= Row(k)
                                   /\ q[i].id <= Row(k)
    <2>1. PICK i \in DOMAIN q : r[k] = q[i].row /\ q[i].order = k
      BY <1>2, MergedIs
    <2>2. /\ q[i].id \in Nat /\ q[i].row \in Nat /\ q[i].id \in events[k]
          /\ q[i].id <= q[i].row /\ q[i].row <= Row(k)
      BY <2>1, NoticeIs
    <2>3. q[i].id >= 1 /\ q[i].id <= Row(k)
      BY <2>2, RowIs DEF FeedOK
    <2>4. 1 <= q[i].row
      BY <2>2, <2>3
    <2>. QED BY <2>1, <2>2, <2>3, <2>4
  <1>3. ASSUME NEW k \in Orders, \A i \in DOMAIN q : Row(k) < q[i].id
        PROVE  r[k] = old[k]
    <2> SUFFICES ASSUME r[k] # old[k] PROVE FALSE
      OBVIOUS
    <2>1. PICK i \in DOMAIN q : q[i].id <= Row(k)
      BY <1>2
    <2>2. Row(k) \in Nat /\ q[i].id \in Nat
      BY RowIs, NoticeIs DEF FeedOK
    <2>. QED BY <1>3, <2>1, <2>2
  <1>. QED BY <1>1, <1>2, <1>3

\* An answer to a poll brings the current row of every order whose last event is
\* between the cursors; one without news changes nothing.
LEMMA PollAnsweredKeeps == ASSUME IInv, NEW s \in Slots, PollAnswered(s) PROVE IInv'
  <1>1. PICK x : x = flights[s]
    OBVIOUS
  <1>q. PICK q : q = x.reply
    OBVIOUS
  <1>2. /\ Shape /\ FeedOK /\ events' = events /\ UNCHANGED feed
        /\ Answered(s, "poll", eventCursor')
        /\ eventCursor' = IF q # <<>> THEN LastId(q) ELSE eventCursor
        /\ rows' = Merged(rows, q)
        /\ mishaps' = mishaps \cup (IF q # <<>> /\ x.old THEN {"crossed"} ELSE {})
        /\ UNCHANGED <<filter, offset, hasMore, syncMode, streamFailures, online,
                       stream, queue, acts>>
    BY <1>1, <1>q DEF IInv, PollAnswered, Answered, PollCursor, feed, Shape
  <1>3. /\ x \in Requests /\ x.kind = "poll" /\ x.reply # Nothing /\ ReplyOK(x)
        /\ FlightsShape'
        /\ \A t \in Slots : flights'[t] # Nothing /\ ~flights'[t].old =>
              /\ flights'[t] = flights[t]
              /\ flights[t].kind # "load" => ~(eventCursor' < eventCursor)
        /\ due' = "turned" \/ (due' = due /\ eventCursor' = eventCursor)
    BY <1>1, <1>2, AnswerIs
  <1>4. /\ Notices(q) /\ x.arg \in Nat
        /\ \A i \in DOMAIN q : x.arg < q[i].id /\ q[i].id \in Nat
    BY <1>q, <1>3, NoticeIs DEF ReplyOK, Requests
  <1>5. \A k \in Orders : Row(k) \in Nat
    BY <1>2, RowIs DEF FeedOK
  <1>6. /\ \A k \in Orders : Told(q, k) => rows'[k] = Row(k)
        /\ \A k \in Orders : \/ rows'[k] = rows[k]
                             \/ rows'[k] \in Nat /\ 1 <= rows'[k] /\ rows'[k] <= Row(k)
        /\ \A k \in Orders : (\A i \in DOMAIN q : Row(k) < q[i].id) => rows'[k] = rows[k]
    <2>1. PICK r : r = rows'
      OBVIOUS
    <2>2. PICK o : o = rows
      OBVIOUS
    <2>3. r = Merged(o, q)
      BY <1>2, <2>1, <2>2
    <2>4. /\ \A k \in Orders : Told(q, k) => r[k] = Row(k)
          /\ \A k \in Orders : \/ r[k] = o[k]
                               \/ r[k] \in Nat /\ 1 <= r[k] /\ r[k] <= Row(k)
          /\ \A k \in Orders : (\A i \in DOMAIN q : Row(k) < q[i].id) => r[k] = o[k]
      BY <1>2, <1>4, <2>3, ToldRowIs
    <2>. QED BY <2>1, <2>2, <2>4
  <1>7. \A k \in Orders : rows[k] \in Nat /\ rows[k] <= Row(k)
    BY <1>2 DEF Shape, ViewShape
  <1>8. /\ eventCursor' \in Nat /\ Seen(eventCursor') /\ eventCursor \in Nat
        /\ q # <<>> => /\ \E i \in DOMAIN q : q[i].id = eventCursor'
                       /\ x.arg < eventCursor'
    <2>1. CASE q = <<>>
      BY <1>2, <2>1 DEF Shape, ViewShape
    <2>2. CASE q # <<>>
      BY <1>2, <1>4, <2>2, LastIdIs DEF Shape, ViewShape
    <2>. QED BY <2>1, <2>2
  <1>9. ViewShape'
    <2>1. rows' = [k \in Orders |-> rows'[k]]
      BY <1>2 DEF Merged
    <2>2. \A k \in Orders : rows'[k] \in Nat /\ rows'[k] <= Row(k)
      BY <1>6, <1>7
    <2>3. rows' \in [Orders -> Nat]
      BY <2>1, <2>2
    <2>. QED BY <1>2, <1>8, <2>2, <2>3, SameEvents DEF Shape, ViewShape
  <1>10. StreamShape' /\ (StreamComplete => StreamComplete')
    BY <1>2, <1>3, SameStream DEF Shape
  <1>11. ActsShape' /\ FeedOK'
    BY <1>2, SameActs DEF Shape, feed, FeedOK, Drawn
  <1>12. mishaps' \subseteq Mishaps
    BY <1>2 DEF Shape, Mishaps
  <1>13. ASSUME mishaps' = {} PROVE RowsCurrent' /\ StreamComplete' /\ FlightsComplete'
    <2>1. /\ RowsCurrent /\ StreamComplete /\ FlightsComplete
          /\ q # <<>> => ~x.old
      BY <1>2, <1>13 DEF IInv
    <2>2. Matching(filter) \subseteq Orders
      BY <1>2, FilterIs, MatchingIs DEF Shape, ViewShape
    \* An order whose last event is not ahead of the new cursor.
    <2>3. ASSUME NEW k \in Matching(filter), Row(k) <= eventCursor'
          PROVE  rows'[k] = Row(k) \/ (Row(k) <= eventCursor /\ rows'[k] = rows[k])
      <3>1. CASE q = <<>>
        <4>1. \A i \in DOMAIN q : FALSE
          BY <3>1
        <4>. QED BY <1>2, <1>6, <2>2, <2>3, <3>1, <4>1
      <3>2. CASE q # <<>>
        <4>1. Complete(x)
          BY <1>1, <1>2, <2>1, <3>2 DEF FlightsComplete, Answered
        <4>2. /\ x.arg <= eventCursor
              /\ \A j \in Matching(filter), i \in DOMAIN q :
                    x.arg < Row(j) /\ Row(j) <= q[i].id => Told(q, j)
          BY <1>3, <1>q, <4>1 DEF Complete, PollComplete
        <4>3. CASE x.arg < Row(k)
          BY <1>6, <1>8, <2>2, <2>3, <3>2, <4>2, <4>3
        <4>4. CASE Row(k) <= x.arg
          <5>1. \A i \in DOMAIN q : Row(k) < q[i].id
            BY <1>4, <1>5, <2>2, <4>4
          <5>2. Row(k) <= eventCursor
            BY <1>4, <1>5, <1>8, <2>2, <4>2, <4>4
          <5>. QED BY <1>6, <2>2, <5>1, <5>2
        <4>. QED BY <1>4, <1>5, <2>2, <4>3, <4>4
      <3>. QED BY <3>1, <3>2
    <2>4. RowsCurrent'
      <3> SUFFICES ASSUME NEW k \in Matching(filter), Row(k) <= eventCursor'
                   PROVE  \/ rows'[k] = Row(k)
                          \/ rows'[k] = 0 /\ hasMore /\ Place(filter, k) > offset
        BY <1>2, SameEvents DEF RowsCurrent
      <3>. QED BY <2>1, <2>3 DEF RowsCurrent
    <2>5. FlightsComplete'
      <3> SUFFICES ASSUME NEW t \in Slots, flights'[t] # Nothing, ~flights'[t].old
                   PROVE  Complete(flights[t])'
        BY DEF FlightsComplete
      <3>1. PICK y : y = flights[t]
        OBVIOUS
      <3>2. /\ flights'[t] = y /\ y # Nothing /\ ~y.old
            /\ y.kind # "load" => ~(eventCursor' < eventCursor)
        BY <1>3, <3>1
      <3>3. y \in Requests /\ Complete(y)
        BY <1>2, <2>1, <3>1, <3>2 DEF FlightsComplete, Shape, FlightsShape
      <3>4. y.kind = "poll" => eventCursor <= eventCursor'
        BY <1>8, <3>2
      <3>5. \A k \in Matching(filter) : Unseen(k)' => Unseen(k)
        <4> SUFFICES ASSUME NEW k \in Matching(filter), Unseen(k)'
                     PROVE  Unseen(k)
          OBVIOUS
        <4>1. Row(k) <= eventCursor' /\ rows'[k] = 0
          BY <1>2, SameEvents DEF Unseen
        <4>2. Row(k) >= 1
          BY <1>2, FilterIs, MatchingIs, RowIs DEF Shape, ViewShape
        <4>3. Row(k) <= eventCursor /\ rows[k] = 0
          BY <1>5, <2>2, <2>3, <4>1, <4>2
        <4>. QED BY <4>3 DEF Unseen
      <3>6. Complete(y)'
        BY <1>2, <1>8, <3>2, <3>3, <3>4, <3>5, StaysComplete
      <3>. QED BY <3>2, <3>6
    <2>. QED BY <1>10, <2>1, <2>4, <2>5
  <1>. QED BY <1>2, <1>3, <1>9, <1>10, <1>11, <1>12, <1>13 DEF IInv, Shape
----
(***************************************************************************)
(* The theorems.                                                           *)
(***************************************************************************)
\* A step that only counts leaves all of it.
LEMMA StutterKeeps == ASSUME IInv, UNCHANGED vars PROVE IInv'
  <1>1. /\ Shape /\ events' = events /\ UNCHANGED feed
        /\ UNCHANGED <<filter, rows, eventCursor, offset, hasMore, syncMode,
                       streamFailures, online, stream, queue, due, flights, acts,
                       mishaps>>
    BY DEF IInv, vars, console, feed
  <1>2. FlightsShape'
    BY <1>1, SameFlights DEF Shape
  <1>3. FlightsComplete => FlightsComplete'
    <2> SUFFICES ASSUME FlightsComplete, NEW s \in Slots, flights[s] # Nothing,
                        ~flights[s].old, NEW x, x = flights[s]
                 PROVE  Complete(x)'
      BY <1>1 DEF FlightsComplete
    <2>. QED BY <1>1, StillComplete
  <1>. QED BY <1>1, <1>2, <1>3, FlightsWork

LEMMA StepKeeps == ASSUME IInv, [Next]_vars PROVE IInv'
  <1>1. ASSUME NEW k \in Orders, Emit(k) PROVE IInv'
    BY <1>1, EmitKeeps
  <1>2. ASSUME NEW k \in Orders, CommitOrder(k) PROVE IInv'
    BY <1>2, CommitKeeps
  <1>3. ASSUME NEW k \in Orders, RollbackOrder(k) PROVE IInv'
    BY <1>3, RollbackKeeps
  <1>4. ASSUME NEW k \in Orders, RunAction(k) PROVE IInv'
    BY <1>4, RunActionKeeps
  <1>5. ASSUME NEW k \in Orders, ActionRuns(k) PROVE IInv'
    BY <1>5, ActionRunsKeeps
  <1>6. ASSUME NEW k \in Orders, ActionReplays(k) PROVE IInv'
    BY <1>6, ActionReplaysKeeps
  <1>7. ASSUME NEW k \in Orders, ActionFails(k) PROVE IInv'
    BY <1>7, ActionFailsKeeps
  <1>8. ASSUME NEW k \in Orders, ActionAnswered(k) PROVE IInv'
    BY <1>8, ActionAnsweredKeeps
  <1>9. ASSUME NEW f \in Filters, ResetAndLoad(f) PROVE IInv'
    BY <1>9, ResetAndLoadKeeps
  <1>10. ASSUME NEW s \in Slots, Serve(s) PROVE IInv'
    BY <1>10, ServeKeeps
  <1>11. ASSUME NEW s \in Slots, FlightFails(s) PROVE IInv'
    BY <1>11, FlightFailsKeeps
  <1>12. ASSUME NEW s \in Slots, LoadAnswered(s) PROVE IInv'
    BY <1>12, LoadAnsweredKeeps
  <1>13. ASSUME NEW s \in Slots, PageAnswered(s) PROVE IInv'
    BY <1>13, PageAnsweredKeeps
  <1>14. ASSUME NEW s \in Slots, PollAnswered(s) PROVE IInv'
    BY <1>14, PollAnsweredKeeps
  <1>15. CASE LoadMore \/ RunEffect \/ StreamRound \/ Deliver
    BY <1>15, LoadMoreKeeps, RunEffectKeeps, StreamRoundKeeps, DeliverKeeps
  <1>16. CASE StreamFails \/ PollTick \/ GoOffline \/ GoOnline
    BY <1>16, StreamFailsKeeps, PollTickKeeps, GoOfflineKeeps, GoOnlineKeeps
  <1>17. CASE UNCHANGED vars
    BY <1>17, StutterKeeps
  <1>. QED BY <1>1, <1>2, <1>3, <1>4, <1>5, <1>6, <1>7, <1>8, <1>9, <1>10, <1>11,
              <1>12, <1>13, <1>14, <1>15, <1>16, <1>17 DEF Next

\* The inductive invariant holds in every reachable state: what the stream, the
\* polls, the loads and the pages of App.tsx still bring, as long as they are
\* asked for, has the last event of every order or its row.
THEOREM Invariance == Spec => []IInv
  <1>. QED BY Starts, StepKeeps, PTL DEF Spec

\* Rows and cursor never run ahead of what the database committed, the errors
\* counted never pass the limit, and a stream is open only when it is wanted
\* (lines 60-251 of App.tsx).
THEOREM TypeCorrect == Spec => []TypeOK
  <1>1. IInv => TypeOK
    BY ShapeTypes DEF IInv
  <1>. QED BY <1>1, Invariance, PTL

\* Without a mishap no row of the blotter that is shown, or should be, is out of
\* date for good: an event of its order is still above the cursor that stream
\* and polls go on from.
THEOREM StaleRowsAlwaysDue == Spec => []StaleRowsAreDue
  <1>. QED BY CurrentRowsAreDue, Invariance, PTL
====
