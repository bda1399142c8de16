---- MODULE BlotterConsole ----
(***************************************************************************)
(* One operations console (App.tsx) over the status feed: it loads pages   *)
(* of the blotter, follows the stream or polls, and confirms or cancels    *)
(* orders, while other people's transactions go on.  Every request is sent,*)
(* served and answered in three steps; answers arrive in any order or not  *)
(* at all.  mishaps is a history variable: the ways in which a view can go *)
(* wrong for good (see below).                                             *)
(***************************************************************************)
EXTENDS StatusFeed

CONSTANTS
    Seeded,      \* the orders there are at the start, each with one event
    Filters,     \* what the operator may select
    Slots,       \* bound on the requests in flight (numbers)
    Patience,    \* errors of the stream after which the console polls: 3
    Gestures,    \* bound on what the operator and the network do on their own
    Nothing      \* no request, no answer

ASSUME ConsoleAssumption ==
    /\ Seeded \subseteq Orders
    /\ Filters \subseteq [orders : SUBSET Orders, fresh : BOOLEAN]
    /\ Patience \in Nat \ {0}

VARIABLES
    filter,      \* baseFilters
    rows,        \* rows, by order
    eventCursor,
    offset,      \* cursor: where the next page begins
    hasMore,
    loading,
    syncMode,
    streamFailures,
    online,
    stream,      \* the EventSource (see Opened)
    queue,       \* events sent on it that the listener has not seen
    due,         \* whether the effect on the stream is to run again, because its
                 \* events were "followed" or because something else "turned"
    flights,     \* fetchOrders and fetchUpdates in flight
    acts,        \* confirmOrder and cancelOrder in flight
    gestures,    \* how much of Gestures is spent
    mishaps

console == <<filter, rows, eventCursor, offset, hasMore, loading, syncMode,
             streamFailures, online, stream, queue, due, flights, acts>>
vars == <<feed, console, gestures, mishaps>>

Mishaps ==
    {"overtaken",   \* a commit put an event below one that was visible
     "left",        \* an order left the filter under an offset paging
     "crossed",     \* an answer or an event was applied of what is no longer asked
     "regressed"}   \* a page or an action's answer put back an older row
----
(***************************************************************************)
(* Rows and cursors.                                                       *)
(***************************************************************************)
\* mergeRows: the last arrival wins.
Merged(shown, incoming) ==
    [k \in Orders |->
        LET own == {i \in DOMAIN incoming : incoming[i].order = k}
        IN  IF own = {} THEN shown[k] ELSE incoming[Max(own)].row]

Overlaid(shown, page) ==
    [k \in Orders |-> IF page[k] = 0 THEN shown[k] ELSE page[k]]

\* What is written replaces a newer row, or one that a load has left out.
PutsBack(k, row) == row < rows[k] \/ rows[k] = 0

LastId(batch) == Max({batch[i].id : i \in DOMAIN batch})

\* The stream is "open", "lost" (closed by onerror) or "off"; its server asks
\* with the filter it was opened with, from the last event it sent.
Opened(f, since) == [at |-> "open", filter |-> f, sent |-> since]
Closed(why) == [at |-> why, filter |-> Nothing, sent |-> 0]

Flight(kind, f, arg) ==
    [kind |-> kind, filter |-> f, arg |-> arg, old |-> FALSE, reply |-> Nothing]
FreeSlots == {s \in Slots : flights[s] = Nothing}
Sent(fs, flight) == [fs EXCEPT ![Min(FreeSlots)] = flight]
\* What is asked in x is no longer what the console goes on from.
Outdated(x) == [x EXCEPT !.old = TRUE]

Spend ==
    /\ gestures < Gestures
    /\ gestures' = gestures + 1
----
Init ==
    /\ lastId = Cardinality(Seeded)
    /\ events = [k \in Orders |->
                    IF k \in Seeded THEN {Cardinality({j \in Seeded : j <= k})} ELSE {}]
    /\ open = [k \in Orders |-> {}]
    /\ filter \in Filters
    /\ rows = [k \in Orders |-> 0]
    /\ eventCursor = 0
    /\ offset = 0
    /\ hasMore = FALSE
    /\ loading = TRUE
    /\ syncMode = "sse"
    /\ streamFailures = 0
    /\ online = TRUE
    /\ stream = Opened(filter, 0)
    /\ queue = <<>>
    /\ due = "no"
    /\ flights = [s \in Slots |->
                     IF s = Min(Slots) THEN Flight("load", filter, 0) ELSE Nothing]
    /\ acts = [k \in Orders |-> Nothing]
    /\ gestures = 0
    /\ mishaps = {}
----
(***************************************************************************)
(* Other transactions, and the server's side of an action of this console. *)
(***************************************************************************)
Running(k) == acts[k] # Nothing /\ acts[k].at = "running"

Emit(k) ==
    /\ Draw(k)
    /\ UNCHANGED <<console, gestures, mishaps>>

\* An action that runs ends with its transaction: answered by the row it
\* committed, or by an error, also when a rejection was committed with it.
CommitOrder(k) ==
    /\ Commit(k)
    /\ IF Running(k)
       THEN \E at \in {"confirmed", "failed"} :
               acts' = [acts EXCEPT ![k].at = at, ![k].row = Row(k)']
       ELSE UNCHANGED acts
    /\ UNCHANGED <<filter, rows, eventCursor, offset, hasMore, loading, syncMode,
                   streamFailures, online, stream, queue, due, flights, gestures>>
    /\ mishaps' = mishaps
          \cup (IF Overtaken(k) THEN {"overtaken"} ELSE {})
          \cup (IF k \in Matching(filter) /\ k \notin Matching(filter)'
                THEN {"left"} ELSE {})

RollbackOrder(k) ==
    /\ Rollback(k)
    /\ acts' = IF Running(k) THEN [acts EXCEPT ![k].at = "failed"] ELSE acts
    /\ UNCHANGED <<filter, rows, eventCursor, offset, hasMore, loading, syncMode,
                   streamFailures, online, stream, queue, due, flights, gestures,
                   mishaps>>
----
(***************************************************************************)
(* Loading.                                                                *)
(***************************************************************************)
\* resetAndLoad, after a change of filter or of sorting: what is in flight goes
\* on.  A load sets the cursor together with the rows: only its filter matters.
ResetAndLoad(f) ==
    /\ Spend
    /\ FreeSlots # {}
    /\ filter' = f
    /\ eventCursor' = 0
    /\ loading' = TRUE
    /\ LET reloads(x) == x.kind = "load" /\ x.filter = f IN
       flights' = Sent([s \in Slots |->
                           IF flights[s] = Nothing \/ reloads(flights[s])
                           THEN flights[s] ELSE Outdated(flights[s])],
                       Flight("load", f, 0))
    /\ due' = IF f # filter \/ eventCursor' # eventCursor THEN "turned" ELSE due
    /\ UNCHANGED <<feed, rows, offset, hasMore, syncMode, streamFailures, online,
                   stream, queue, acts, mishaps>>

LoadMore ==
    /\ Spend
    /\ FreeSlots # {}
    /\ ~loading
    /\ hasMore
    /\ loading' = TRUE
    /\ flights' = Sent(flights, Flight("page", filter, offset))
    /\ UNCHANGED <<feed, filter, rows, eventCursor, offset, hasMore, syncMode,
                   streamFailures, online, stream, queue, due, acts, mishaps>>

\* The API reads the committed tables in one statement.
Serve(s) ==
    /\ flights[s] # Nothing
    /\ flights[s].reply = Nothing
    /\ LET x == flights[s] IN
       flights' = [flights EXCEPT ![s].reply =
           IF x.kind = "poll" THEN Updates(x.filter, x.arg)
                              ELSE Blotter(x.filter, x.arg)]
    /\ UNCHANGED <<feed, filter, rows, eventCursor, offset, hasMore, loading,
                   syncMode, streamFailures, online, stream, queue, due, acts,
                   gestures, mishaps>>

\* An answer is taken, and the cursor set.  When that moves it back, what was
\* asked from the old one is outdated; so is a page of the rows that a load
\* replaces.
Answered(s, kind, newCursor) ==
    /\ flights[s] # Nothing
    /\ flights[s].kind = kind
    /\ flights[s].reply # Nothing
    /\ eventCursor' = newCursor
    /\ due' = IF eventCursor' # eventCursor THEN "turned" ELSE due
    /\ LET passed(x) == \/ x.kind = "page" /\ kind = "load"
                        \/ x.kind # "load" /\ eventCursor' < eventCursor
       IN  flights' = [t \in Slots |->
               IF t = s THEN Nothing
               ELSE IF flights[t] # Nothing /\ passed(flights[t])
               THEN Outdated(flights[t]) ELSE flights[t]]

LoadAnswered(s) ==
    LET reply == flights[s].reply IN
    /\ Answered(s, "load", Max({0} \cup {reply.rows[k] : k \in Orders}))
    /\ rows' = reply.rows
    /\ offset' = IF reply.more THEN PageSize ELSE 0
    /\ hasMore' = reply.more
    /\ loading' = FALSE
    /\ mishaps' = mishaps \cup
          (IF flights[s].old THEN {"crossed"} ELSE {})
    /\ UNCHANGED <<feed, filter, syncMode, streamFailures, online, stream, queue,
                   acts, gestures>>

PageAnswered(s) ==
    LET reply == flights[s].reply IN
    /\ Answered(s, "page", eventCursor)
    /\ rows' = Overlaid(rows, reply.rows)
    /\ offset' = flights[s].arg + (IF reply.more THEN PageSize ELSE 0)
    /\ hasMore' = reply.more
    /\ loading' = FALSE
    /\ mishaps' = mishaps
          \cup (IF flights[s].old THEN {"crossed"} ELSE {})
          \cup (IF \E k \in Orders : rows'[k] < rows[k] THEN {"regressed"} ELSE {})
    /\ UNCHANGED <<feed, filter, syncMode, streamFailures, online, stream, queue,
                   acts, gestures>>

\* Timeout, network failure or an error of the server (whether it was served
\* makes no difference: these requests only read).
FlightFails(s) ==
    /\ flights[s] # Nothing
    /\ flights[s].reply = Nothing
    /\ flights' = [flights EXCEPT ![s] = Nothing]
    /\ loading' = (loading /\ flights[s].kind = "poll")
    /\ UNCHANGED <<feed, filter, rows, eventCursor, offset, hasMore, syncMode,
                   streamFailures, online, stream, queue, due, acts, gestures, mishaps>>
----
(***************************************************************************)
(* The stream and its fallback.                                            *)
(***************************************************************************)
\* A slip: the fallback does not end the stream.
StreamWantedOnline == online
StreamWanted == syncMode = "sse" /\ online

\* The effect on [syncMode, online, eventCursor, baseFilters], some time after
\* one of them changed: it closes the stream, with what is queued on it, and
\* opens another from the cursor.
RunEffect ==
    /\ due # "no"
    /\ due' = "no"
    /\ stream' = IF StreamWanted THEN Opened(filter, eventCursor) ELSE Closed("off")
    /\ queue' = <<>>
    /\ UNCHANGED <<feed, filter, rows, eventCursor, offset, hasMore, loading,
                   syncMode, streamFailures, online, flights, acts, gestures,
                   mishaps>>

\* One round of event_generator: the events above its own cursor.
StreamRound ==
    LET found == Updates(stream.filter, stream.sent) IN
    /\ stream.at = "open"
    /\ found # <<>>
    /\ queue' = queue \o found
    /\ stream' = [stream EXCEPT !.sent = LastId(found)]
    /\ UNCHANGED <<feed, filter, rows, eventCursor, offset, hasMore, loading,
                   syncMode, streamFailures, online, due, flights, acts,
                   gestures, mishaps>>

\* The listener merges the row of one event and moves the cursor up.
Deliver ==
    LET event == Head(queue) IN
    /\ queue # <<>>
    /\ queue' = Tail(queue)
    /\ rows' = [rows EXCEPT ![event.order] = event.row]
    /\ eventCursor' = Max({eventCursor, event.id})
    /\ due' = IF due = "no" THEN "followed" ELSE due
    /\ mishaps' = mishaps \cup (IF due = "turned" THEN {"crossed"} ELSE {})
    /\ UNCHANGED <<feed, filter, offset, hasMore, loading, syncMode,
                   streamFailures, online, stream, flights, acts, gestures>>

\* onerror closes the stream and counts; the third error switches the mode.
StreamFails ==
    /\ stream.at = "open"
    /\ streamFailures' = streamFailures + 1
    /\ syncMode' = IF streamFailures' >= Patience THEN "polling" ELSE syncMode
    /\ due' = IF syncMode' # syncMode THEN "turned" ELSE due
    /\ stream' = Closed("lost")
    /\ queue' = <<>>
    /\ UNCHANGED <<feed, filter, rows, eventCursor, offset, hasMore, loading,
                   online, flights, acts, gestures, mishaps>>

\* The interval of the polling effect, which runs with the other one (a tick
\* with the cursor of an old closure is a tick before the cursor moved).
PollTick ==
    /\ due = "no"
    /\ syncMode = "polling"
    /\ online
    /\ FreeSlots # {}
    /\ flights' = Sent(flights, Flight("poll", filter, eventCursor))
    /\ UNCHANGED <<feed, filter, rows, eventCursor, offset, hasMore, loading,
                   syncMode, streamFailures, online, stream, queue, due, acts,
                   gestures, mishaps>>

\* A slip: the cursor only ever advances, as the stream's listener does it.
PollCursorAdvanced(reply) == Max({eventCursor, LastId(reply)})
PollCursor(reply) == LastId(reply)

PollAnswered(s) ==
    LET reply == flights[s].reply
        news == reply # <<>>
    IN
    /\ Answered(s, "poll", IF news THEN PollCursor(reply) ELSE eventCursor)
    /\ rows' = Merged(rows, reply)
    /\ mishaps' = mishaps \cup
          (IF news /\ flights[s].old THEN {"crossed"} ELSE {})
    /\ UNCHANGED <<feed, filter, offset, hasMore, loading, syncMode,
                   streamFailures, online, stream, queue, acts, gestures>>

GoOffline ==
    /\ Spend
    /\ online
    /\ online' = FALSE
    /\ due' = "turned"
    /\ UNCHANGED <<feed, filter, rows, eventCursor, offset, hasMore, loading,
                   syncMode, streamFailures, stream, queue, flights, acts,
                   mishaps>>

GoOnline ==
    /\ ~online
    /\ online' = TRUE
    /\ due' = "turned"
    /\ UNCHANGED <<feed, filter, rows, eventCursor, offset, hasMore, loading,
                   syncMode, streamFailures, stream, queue, flights, acts,
                   gestures, mishaps>>
----
(***************************************************************************)
(* Actions of the operator.                                                *)
(***************************************************************************)
\* runAction; shown is the row it would restore.
RunAction(k) ==
    /\ Spend
    /\ online
    /\ rows[k] # 0
    /\ acts[k] = Nothing
    /\ acts' = [acts EXCEPT ![k] =
          [at |-> "sent", shown |-> rows[k], row |-> 0]]
    /\ UNCHANGED <<feed, filter, rows, eventCursor, offset, hasMore, loading,
                   syncMode, streamFailures, online, stream, queue, due, flights,
                   mishaps>>

\* The server takes the order's row and updates it, or refuses.
ActionRuns(k) ==
    /\ acts[k] # Nothing
    /\ acts[k].at = "sent"
    /\ open[k] = {}
    /\ Draw(k)
    /\ acts' = [acts EXCEPT ![k].at = "running"]
    /\ UNCHANGED <<filter, rows, eventCursor, offset, hasMore, loading, syncMode,
                   streamFailures, online, stream, queue, due, flights, gestures,
                   mishaps>>

\* An order that already is what was asked is answered as it is.
ActionReplays(k) ==
    /\ acts[k] # Nothing
    /\ acts[k].at = "sent"
    /\ open[k] = {}
    /\ acts' = [acts EXCEPT ![k].at = "confirmed", ![k].row = Row(k)]
    /\ UNCHANGED <<feed, filter, rows, eventCursor, offset, hasMore, loading,
                   syncMode, streamFailures, online, stream, queue, due, flights,
                   gestures, mishaps>>

\* Refused by the server, or given up by the client after ten seconds while
\* the server may go on.
ActionFails(k) ==
    /\ acts[k] # Nothing
    /\ acts[k].at \in {"sent", "running"}
    /\ acts' = [acts EXCEPT ![k].at = "failed"]
    /\ UNCHANGED <<feed, filter, rows, eventCursor, offset, hasMore, loading,
                   syncMode, streamFailures, online, stream, queue, due, flights,
                   gestures, mishaps>>

ActionAnswered(k) ==
    LET a == acts[k]
        written == IF a.at = "confirmed" THEN a.row ELSE a.shown
    IN  /\ a # Nothing
        /\ a.at \in {"confirmed", "failed"}
        /\ rows' = [rows EXCEPT ![k] = written]
        /\ acts' = [acts EXCEPT ![k] = Nothing]
        /\ mishaps' = mishaps
              \cup (IF PutsBack(k, written) THEN {"regressed"} ELSE {})
        /\ UNCHANGED <<feed, filter, eventCursor, offset, hasMore, loading,
                       syncMode, streamFailures, online, stream, queue, due, flights,
                       gestures>>
----
Next ==
    \/ \E k \in Orders :
          \/ Emit(k) \/ CommitOrder(k) \/ RollbackOrder(k)
          \/ RunAction(k) \/ ActionRuns(k) \/ ActionReplays(k) \/ ActionFails(k)
          \/ ActionAnswered(k)
    \/ \E f \in Filters : ResetAndLoad(f)
    \/ \E s \in Slots :
          \/ Serve(s) \/ FlightFails(s)
          \/ LoadAnswered(s) \/ PageAnswered(s) \/ PollAnswered(s)
    \/ LoadMore \/ RunEffect \/ StreamRound \/ Deliver \/ StreamFails \/ PollTick
    \/ GoOffline \/ GoOnline

Spec == Init /\ [][Next]_vars

\* The browser runs the effect, the listener and the interval, the API serves
\* the stream, and a network over which requests are sent again and again lets
\* some of them be served and answered.  Nothing says that transactions end.
ServeSome == \E s \in Slots : Serve(s)
AnswerSome ==
    \E s \in Slots : LoadAnswered(s) \/ PageAnswered(s) \/ PollAnswered(s)

FairSpec ==
    /\ Spec
    /\ WF_vars(RunEffect \/ StreamRound \/ Deliver)
    /\ WF_vars(PollTick)
    /\ SF_vars(ServeSome)
    /\ WF_vars(AnswerSome)
----
(***************************************************************************)
(* Properties.                                                             *)
(***************************************************************************)
\* Every part of the console has its shape, and the stream and the fallback
\* are never at work together.
TypeOK ==
    /\ filter \in Filters
    /\ rows \in [Orders -> 0 .. lastId]
    /\ eventCursor \in 0 .. lastId
    /\ offset \in Nat
    /\ syncMode \in {"sse", "polling"}
    /\ streamFailures \in 0 .. Patience
    /\ stream.at = "open" /\ due # "turned" => online /\ syncMode = "sse"
    /\ stream.at # "open" => queue = <<>>
    /\ mishaps \subseteq Mishaps

\* A row that is shown, or should be, and is not the current one.
Stale(k) == rows[k] # Row(k) /\ (rows[k] = 0 => ~hasMore)

\* Unless one of the mishaps happened, no row the operator looks at is out of
\* date for good: whatever was lost, reordered, dropped with a closed stream
\* or overwritten by an overlapping poll, a newer event of the order is still
\* ahead of the cursor.
StaleRowsAreDue ==
    mishaps = {} =>
        \A k \in Matching(filter) : Stale(k) => \E e \in events[k] : e > eventCursor

\* Without mishap, a console whose stream or poll is at work shows in the end
\* every order of its filter as it is.
Live == online /\ (syncMode = "polling" \/ stream.at = "open")
LiveViewsConverge ==
    \/ <>(mishaps # {})
    \/ []<>~Live
    \/ <>[](\A k \in Matching(filter) : ~Stale(k))

\* "SSE with polling fallback - keeps the UI close to real time"
\* (DECISIONS.md:24): a console that lost its stream gets it back or polls.
LostStreamFallsBack == stream.at = "lost" ~> stream.at # "lost"
====
