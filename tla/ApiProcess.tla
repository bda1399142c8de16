---- MODULE ApiProcess ----
(***************************************************************************)
(* One process of the API: request threads, the event loop with the SSE    *)
(* generator on it, the connection pool, and the tables and trigger of the *)
(* status events that the first transaction to need them sets up           *)
(* (_ensure_order_status_events_infra).                                    *)
(*                                                                         *)
(* A request that writes ends its transaction in its thread.  One that     *)
(* reads leaves it open until get_db_session closes the session, which the *)
(* event loop has to start; the generator closes its own in place, but     *)
(* blocks the loop until then.                                             *)
(***************************************************************************)
EXTENDS Integers, FiniteSets

CONSTANTS
    Readers,     \* requests for a page, updates or a poll
    Writers,     \* submissions, confirmations, cancellations
    Stream,      \* the SSE generator
    PoolSize     \* pool_size and max_overflow together

ASSUME ProcessAssumption ==
    /\ Readers \cap Writers = {}
    /\ Stream \notin Readers \cup Writers
    /\ PoolSize \in Nat \ {0}

Requests == Readers \cup Writers
Sessions == Requests \cup {Stream}

VARIABLES
    ready,       \* _ORDER_EVENTS_READY
    installed,   \* table, function and trigger are committed
    at,          \* the next step of each session
    pool,        \* sessions that hold a connection
    held,        \* the locks of each session's transaction
    lost,        \* history: a setup was rolled back after ready was set
    unrecorded   \* history: an order was committed without its event

vars == <<ready, installed, at, pool, held, lost, unrecorded>>

Steps == {"new", "queued", "check", "create", "share", "replace", "flag", "work",
          "event", "commit", "leaving", "done"}
----
(***************************************************************************)
(* Locks of PostgreSQL.                                                    *)
(***************************************************************************)
\* "create": the names of the new table and function, and orders, which gets a
\* foreign key and a trigger;
\* "share": CREATE INDEX IF NOT EXISTS locks the table before it looks;
\* "replace": the function's row in the catalogue, rewritten every time;
\* "work": rows of orders written; "event": rows of order_status_events.
Locks == {"create", "share", "replace", "work", "event"}
Conflicts ==
    {<<"create", "create">>, <<"create", "work">>, <<"work", "create">>,
     <<"share", "event">>, <<"event", "share">>, <<"replace", "replace">>}

\* What the next statement of t has to lock.
Wants(t) ==
    IF \/ at[t] = "work" /\ t \notin Writers
       \/ at[t] = "create" /\ installed
    THEN {}
    ELSE {at[t]} \cap Locks

WaitsFor(t, u) == t # u /\ (Wants(t) \X held[u]) \cap Conflicts # {}
Blocked(t) == \E u \in Sessions : WaitsFor(t, u)

\* t waits for u, perhaps through others.
WaitsThrough(t, u) ==
    \A behind \in SUBSET Sessions :
        (\A v \in behind \cup {t}, x \in Sessions : WaitsFor(v, x) => x \in behind)
            => u \in behind

\* The event objects as t sees them.
Sees(t) == installed \/ "create" \in held[t]
----
\* The generator's database calls run on the loop.
LoopFree == at[Stream] \in {"new", "done"}

Go(t, step) == at' = [at EXCEPT ![t] = step]
Lock(t) == held' = [held EXCEPT ![t] = @ \cup Wants(t)]

\* A slip: the flag is set on the way in.
SetsReadyFirst(step) == step = "check"
SetsReady(step) == step = "flag"

\* A slip: a session that failed is not closed.
KeepsFailed(t) == t \notin Writers
Keeps(t) == t \in Readers

\* The transaction of t is over: its connection goes back to the pool.
Release(t) ==
    /\ pool' = pool \ {t}
    /\ held' = [held EXCEPT ![t] = {}]
RollBack(t) ==
    /\ Release(t)
    /\ lost' = (lost \/ (ready /\ "create" \in held[t]))
    /\ UNCHANGED <<ready, installed, unrecorded>>

\* An error of the database has undone the transaction.  The endpoints that
\* write roll back at once, a reader's session waits to be closed, the
\* generator closes its own and ends.
Fail(t) ==
    /\ Go(t, IF t = Stream THEN "done" ELSE "leaving")
    /\ pool' = IF Keeps(t) THEN pool ELSE pool \ {t}
    /\ held' = [held EXCEPT ![t] = {}]
    /\ lost' = (lost \/ (ready /\ "create" \in held[t]))
    /\ UNCHANGED <<ready, installed, unrecorded>>

Init ==
    /\ ready = FALSE
    /\ installed \in BOOLEAN
    /\ at = [t \in Sessions |-> "new"]
    /\ pool = {}
    /\ held = [t \in Sessions |-> {}]
    /\ lost = FALSE
    /\ unrecorded = FALSE
----
(***************************************************************************)
(* Connections.                                                            *)
(***************************************************************************)
\* A request arrives, or the generator wakes up for a round.
Arrive(t) ==
    /\ LoopFree
    /\ at[t] = "new"
    /\ Go(t, "queued")
    /\ UNCHANGED <<ready, installed, pool, held, lost, unrecorded>>

\* A slip: one connection too many.
RoomAtTheLimit == Cardinality(pool) <= PoolSize
Room == Cardinality(pool) < PoolSize

CheckOut(t) ==
    /\ at[t] = "queued"
    /\ Room
    /\ pool' = pool \cup {t}
    /\ Go(t, "check")
    /\ UNCHANGED <<ready, installed, held, lost, unrecorded>>

\* The pool's timeout of thirty seconds.
GiveUp(t) ==
    /\ at[t] = "queued"
    /\ ~Room
    /\ Go(t, IF t = Stream THEN "done" ELSE "leaving")
    /\ UNCHANGED <<ready, installed, pool, held, lost, unrecorded>>
----
(***************************************************************************)
(* The setup.                                                              *)
(***************************************************************************)
Check(t) ==
    /\ at[t] = "check"
    /\ Go(t, IF ready THEN "work" ELSE "create")
    /\ ready' = (ready \/ SetsReady("check"))
    /\ UNCHANGED <<installed, pool, held, lost, unrecorded>>

\* Where the table exists its creation is skipped; indexes and function are
\* created all the same.  What this transaction creates only it can lock.
SetUp(t) ==
    /\ \/ at[t] = "create" /\ Go(t, IF installed THEN "share" ELSE "flag")
       \/ at[t] = "share" /\ Go(t, "replace")
       \/ at[t] = "replace" /\ Go(t, "flag")
    /\ ~Blocked(t)
    /\ Lock(t)
    /\ UNCHANGED <<ready, installed, pool, lost, unrecorded>>

Flag(t) ==
    /\ at[t] = "flag"
    /\ Go(t, "work")
    /\ ready' = (ready \/ SetsReady("flag"))
    /\ UNCHANGED <<installed, pool, held, lost, unrecorded>>
----
(***************************************************************************)
(* The work.                                                               *)
(***************************************************************************)
\* A query of a reader or of the generator.
Query(t) ==
    /\ at[t] = "work"
    /\ t \notin Writers
    /\ IF Sees(t)
       THEN /\ Go(t, "leaving")
            /\ UNCHANGED <<ready, installed, pool, held, lost, unrecorded>>
       ELSE Fail(t)

\* The order's row is written; the trigger, where there is one, inserts the
\* event.
WriteOrder(t) ==
    /\ at[t] = "work"
    /\ t \in Writers
    /\ ~Blocked(t)
    /\ Lock(t)
    /\ Go(t, IF Sees(t) THEN "event" ELSE "commit")
    /\ UNCHANGED <<ready, installed, pool, lost, unrecorded>>

WriteEvent(t) ==
    /\ at[t] = "event"
    /\ ~Blocked(t)
    /\ Lock(t)
    /\ Go(t, "commit")
    /\ UNCHANGED <<ready, installed, pool, lost, unrecorded>>

\* Statements that wait for a name or a row of the catalogue fail when it is
\* committed; those not yet sent do not.
Commit(t) ==
    /\ at[t] = "commit"
    /\ installed' = Sees(t)
    /\ unrecorded' = (unrecorded \/ "event" \notin held[t])
    /\ \E overtaken \in SUBSET {u \in Sessions :
                            WaitsFor(u, t) /\ at[u] \in {"create", "replace"}} :
          /\ at' = [u \in Sessions |->
                      IF u \notin overtaken \cup {t} THEN at[u]
                      ELSE IF u = Stream THEN "done" ELSE "leaving"]
          /\ pool' = (pool \ {t}) \ {u \in overtaken : ~Keeps(u)}
          /\ held' = [u \in Sessions |->
                        IF u \in overtaken \cup {t} THEN {} ELSE held[u]]
    /\ UNCHANGED <<ready, lost>>

\* A request refused for its own reasons (see OrderTransactions).
Refuse(t) ==
    /\ at[t] \in {"work", "commit"}
    /\ t \in Writers
    /\ Go(t, "leaving")
    /\ RollBack(t)

\* PostgreSQL ends one of the transactions that wait for each other.
BreakDeadlock(t) ==
    /\ WaitsThrough(t, t)
    /\ Fail(t)
----
\* A slip: the generator leaves its session to the loop it runs on.
ClosedByLoopAlways(t) == TRUE
ClosedByLoop(t) == t # Stream

\* The response is sent and the session closed, by the loop; the generator
\* closes its own and sleeps until the next round.
Leave(t) ==
    /\ at[t] = "leaving"
    /\ ClosedByLoop(t) => LoopFree
    /\ Go(t, IF t = Stream THEN "new" ELSE "done")
    /\ RollBack(t)

\* A console opens the stream again.
Reopen ==
    /\ at[Stream] = "done"
    /\ Go(Stream, "new")
    /\ UNCHANGED <<ready, installed, pool, held, lost, unrecorded>>

\* The process dies and is started again.
Restart ==
    /\ ready' = FALSE
    /\ at' = [t \in Sessions |-> IF at[t] = "new" THEN "new" ELSE "done"]
    /\ pool' = {}
    /\ held' = [t \in Sessions |-> {}]
    /\ lost' = FALSE
    /\ unrecorded' = FALSE
    /\ UNCHANGED installed
----
Step(t) ==
    \/ CheckOut(t) \/ Check(t) \/ SetUp(t) \/ Flag(t) \/ Query(t) \/ WriteOrder(t)
    \/ WriteEvent(t) \/ Commit(t) \/ Leave(t)
Aborted(t) == GiveUp(t) \/ BreakDeadlock(t)

Next ==
    \/ \E t \in Sessions : Arrive(t) \/ Step(t) \/ Aborted(t) \/ Refuse(t)
    \/ Reopen \/ Restart

Spec == Init /\ [][Next]_vars

\* Threads run, PostgreSQL and the pool serve their waiters in turn, the loop
\* gets to every callback between two rounds, and the timeout of the pool and
\* the deadlock check are timers.
FairSpec ==
    /\ Spec
    /\ \A t \in Sessions : SF_vars(Step(t)) /\ WF_vars(Aborted(t))
----
(***************************************************************************)
(* Properties.                                                             *)
(***************************************************************************)
\* Every variable has its type, connections are never more than the pool's,
\* and no two transactions hold locks that exclude each other.
TypeOK ==
    /\ ready \in BOOLEAN
    /\ installed \in BOOLEAN
    /\ at \in [Sessions -> Steps]
    /\ pool \subseteq Sessions
    /\ held \in [Sessions -> SUBSET Locks]
    /\ lost \in BOOLEAN
    /\ unrecorded \in BOOLEAN
    /\ Cardinality(pool) <= PoolSize
    /\ \A t, u \in Sessions : t # u => (held[t] \X held[u]) \cap Conflicts = {}

\* However a request or a round ended (answered, refused, failed in the setup,
\* picked as a deadlock's victim, given up waiting for a connection), it leaves
\* no connection and no lock behind.
IdleHoldsNothing ==
    \A t \in Sessions :
        /\ at[t] \in {"new", "queued", "done"} => t \notin pool
        /\ t \notin pool => held[t] = {}

\* _ORDER_EVENTS_READY tells the truth unless a setup was rolled back after it
\* was set: the objects are there, or in an open transaction.
ReadyMeansInstalled ==
    ready /\ ~lost => installed \/ \E t \in Sessions : "create" \in held[t]

\* Every order that is committed has its event, also while the setup of
\* another request is not yet committed, unless a setup was rolled back so.
CommittedWritesAreRecorded == unrecorded => lost

\* The generator waits for a lock of a reader whose session only the loop can
\* close.  PostgreSQL sees no circle in that.
Hung == \E r \in Readers : at[r] = "leaving" /\ WaitsFor(Stream, r)

\* Every request ends, whatever waits on locks, connections and the loop,
\* unless the process hangs in that one way.
EveryRequestEnds ==
    \A r \in Requests : at[r] = "queued" ~> at[r] = "done" \/ Hung
====
