# A verification project for the ETF trade system

The trade system takes ETF creation and redemption orders from participating
dealers (PDs), reserves a daily QDII quota for products that have one, posts
the cash legs of confirmed orders to a double-entry ledger, and shows the day's
orders and the coming settlement cash to an operations desk. Everything that
matters happens in short PostgreSQL transactions run by concurrent API
requests. This directory holds TLA+ specifications of those transactions, the
TLC runs that check them on small desks, and proofs checked by TLAPS that hold
for every desk.

Paths below are relative to the repository; `services/` and `repositories/`
stand for `app/services/` and `app/repositories/`.

## Inventory

| Component | State | Operations | What is hard | What makes it correct |
|---|---|---|---|---|
| Order submission (`services/order_submission_service.py`, `POST /orders`) | `orders`, `order_idempotency`, and through the services below quota and ledger | one transaction: lock product, lock idempotency record, check cutoff, insert, reserve, confirm, finalize | two readings of the clock, retries and other payloads under one key, a crash at any statement | takes effect once or not at all; live orders beat the cutoff |
| Order confirmation (`services/order_confirmation_service.py`) | the order's row | lock order, lock product, reserve, confirm; commits a rejection it reports as an error | lock order differs from submission's; races with cancel | only a pending order is confirmed; a refusal is final |
| Order cancellation (`services/order_cancellation_service.py`) | the order's row, its allocation | lock order, cancel, release, reverse | repeated and concurrent cancels | quota and cash given back exactly once |
| Idempotency (`services/idempotency_service.py`) | `order_idempotency` | upsert and lock, compare fingerprint, finalize | a record seen while incomplete | what was answered stands |
| Daily quota (`services/quota_service.py`) | `product_daily_quota`, `quota_allocations` | ensure row, conditional update, allocate, release once, decrement | updates that wait, updates refused without a lock | used quota is the sum of open allocations and never exceeds the total |
| Ledger (`services/ledger_service.py`) | `cash_movements`, `ledger_entries` | post a confirmation, post its reversal | zero amounts | postings tell the order's story |
| Triggers (`schema.sql`) | - | product consistency, cutoff, zero sum, status event | fire inside the statements above and abort them | - |
| Status feed (`list_order_status_events`, SSE loop in `api/endpoints.py`) | `order_status_events`, a cursor per reader | poll above a cursor | ids are drawn before commit; filters look at the current row | every reader ends up with the current rows |
| Event infrastructure (`_ensure_order_status_events_infra`) | a process-wide flag | DDL inside the first transaction | rollback after the flag is set; transactions that set up at the same time | table and trigger exist whenever the flag is set |
| Blotter query (`services/order_blotter_service.py`) | - | page of the day's orders | offset paging over a moving table | - |
| Operations console (`frontend/operations-console/src`) | rows, cursor, mode, pending actions | load, stream, poll, act | answers out of order, stale restores, ten-second abort | the view converges to the books |
| Cash ladder (`services/cash_ladder_service.py`, `derive_settlement_date_from_db_time`) | `orders.settlement_date`, `holiday_calendars` | T+2 derivation at submission and in the query, date spine, totals | weekends and holidays, rows with and without a date, two time zones, two readings of the clock | every confirmed order is counted once, on its second business day |
| Sessions (`app/db/session.py`) | connection pool | one session per request, one per SSE round | blocking calls on the event loop | requests get a connection in the end |

Requests interact only through the database: rows, row locks, unique keys and
one clock (`statement_timestamp()`). Submission and confirmation call the quota
and ledger services inside their own transaction; triggers run inside the
statement that fires them; the feed and the console read what was committed.
`PROJECT.json` lists the hazards line by line under `hazards`.

## Plan

1. **The write path** (done): `TradeDesk` (shared vocabulary), `AtomicOrders`
   (the abstract promise), `OrderTransactions` (three endpoints, statement by
   statement), refinement of the first by the second, proofs about the promise.
2. **StatusFeed** (done): events with ids drawn at insert and visible at commit,
   the blotter's query and the query above a cursor, page limit, filters.
3. **BlotterConsole** (done): rows, cursor, mode switch after three failures,
   loads that answer out of order, actions that fail, time out or restore a
   stale row, over a StatusFeed with other people's transactions.
4. **ApiProcess** (done): the process-wide flag, its DDL in transactions that
   commit, roll back or are closed unread, the connection pool and the event
   loop.
5. **CashLadder** (done): T+2 derivation and ladder over a small calendar while
   orders come and go, against a definition by counting business days; the seed
   script's derivation as a third.
6. **Proofs of ApiProcess** (done): its safety invariants for any number of
   requests.
7. **Proofs of OrderTransactions** (done): an inductive invariant, from it the
   refinement of `AtomicOrders` step by step, and with that all theorems of the
   promise for the transactions; ranks against circular waits; answers, event
   trails and refusals. The quota sum, by the lemmas of `RowSums`.
8. **Proofs of CashLadder** (done): settlement dates, the two derivations, the
   totals.
9. **Proofs of StatusFeed and BlotterConsole** (done): what the queries return, an
   inductive invariant of the console over the feed.
10. Open: nothing that the prover can reach among the runs' invariants; further
    action properties of the console and the process.

Proof modules stay free of RECURSIVE operators; sums use the fold operators of
the community modules.

## Modules

**TradeDesk** holds the constants of a desk (products, which have a quota,
totals, cutoffs, the offset of the market's clock from the session's, keys,
payloads, seeded orders), the shape of a row of each table and the two readings
of the clock: `LocalTime`, compared with the cutoff, and `QuotaDay`, the day the
quota is kept by (`server_received_at.date()`). Amounts are naturals: the code's
four-decimal fixed-point amounts, scaled. An idempotency key is a pair
(PD, client order id); it also names the order, since `orders` is unique on it.
What can be wrong with a payload is its `form`.

**AtomicOrders** is the abstract specification: the committed tables and one
transition per request that changes them. A submission takes effect, is turned
down as late, or is turned down for quota; a confirm takes effect or is turned
down; a cancel gives back what is held. It allows a quota refusal at any time,
because the code's refusal is decided before it is committed and a cancel may
come between the two; that refusals are justified is stated of the transactions
(`RefusalsAreJustified`).

**OrderTransactions** is the implementation. Each worker runs one request as one
transaction. One action per group of statements between two points where another
transaction can be noticed:

| Action | Code |
|---|---|
| `Begin` | the endpoint receives a request and opens its session |
| `LockProduct` | `get_pd`, `get_product_for_update`, in submit and confirm |
| `LockIdempotency` | `lock_idempotency_record`, replay, conflict, `parse_units`, `parse_price` |
| `CheckCutoff` | `is_before_cutoff`, the two validations after it |
| `InsertOrder` | either `insert_order`, with its three triggers and the unique key |
| `ReserveQuota` | `reserve_quota_for_order` and the handling of its refusal |
| `ConfirmOrder` | `update_order_status`, `post_confirm_entries`, `finalize_idempotency` |
| `LockOrder` | lookup, `get_order_by_id_for_update`, the decision on the status |
| `CancelOrder` | `update_order_status`, `release_quota_allocation_once` |
| `ReleaseQuota` | `decrement_used_quota`, `post_cancel_entries` |
| `Commit`, `Answer` | `session.commit()` and the response |
| `Abort` | process or connection dies before the commit |
| `Tick` | the database clock |

A transaction keeps the rows it wrote in `draft` and publishes them in `Commit`
for the rows whose locks it `owner`s. `Needs(w, l)` says whether the next statement
of `w` waits for lock `l`. Two subtleties of READ COMMITTED matter and are modelled: a
unique-key check waits for an uncommitted insert or update of the row but not for
a mere FOR UPDATE; and an UPDATE whose WHERE clause rejects the committed row
neither waits for a transaction that is changing it nor locks it. A reservation
meets both: the INSERT of `ensure_daily_quota_row` waits for a cancel that is
giving quota back, refused or not; the refused UPDATE after it does not, and
leaves the row to the next. `ReserveQuota` is both statements in one step, which
loses nothing: the first writes nothing where the row exists, and should
a cancel take the row in between, the refusal reads what it would have read
just before that. A first
reservation of a day creates the quota row; a missing row counts as used 0,
which is all a reader can tell, because submissions and confirmations of a
product hold its row lock and cancels only touch rows that were committed with
their allocation. Queries without locks other than the ones above are reads of
committed rows and change nothing.

Definitions named `...Without...`, `...Never`, `...Only...` and the like stand
just before the definition they resemble: they are the slips that show which
property would notice (`mutants` in `PROJECT.json`). No specification uses them.

**CashLadder** is about dates and money by date, and therefore keeps of a
submission only the steps that read the clock: `CheckCutoff`
(`is_before_cutoff`), `DeriveDate` (`derive_settlement_date_from_db_time`),
`InsertOrder` (the row's timestamp, the cutoff trigger, and the outcome
committed), and `RejectLate`, the REJECTED row of the late branch, which has no
date. `ConfirmOrder` and `CancelOrder` change the status and leave the date. The
query is the operator `Totals(asOf, horizon)` over `Ladder`, evaluated in every
state; its sums are folds over the rows of a set (`Cash`) or over a function
(`SumFunction`). `SecondBusinessDay` is the SQL derivation (twenty days, OFFSET 1),
`BusinessDaysAfter` the seed script's loop, `SettlesOn` the definition by
counting that they are held against. Quota, locks and keys are absent here: any
interleaving they would forbid is allowed, which can only make the invariants
harder to keep. The clock may tick any number of times between two steps of a
submission, and nothing in the schema keeps a cutoff from lying next to midnight,
so a submission may have its date and be inserted on a later day of its market,
before that day's cutoff. The history variable `lapsed` remembers such orders:
`OnlyMidnightMovesDates` says of all others that they settle on T+2 of the day
they are stamped with, and of these that they settle early, never late. That none
exists is what the contract says, and is refuted (`midnight_submission`).

`plans/api-contract.md:150` says that the ladder includes orders whose
`settlement_date IS NOT NULL`. The query puts that condition on the effective
date, stored or derived; `DECISIONS.md:210-212` describes it so, and
`tests/integration/test_cash_ladder_endpoint.py` counts rows without a stored
date. `EveryOrderCountedOnce` counts them too.

**StatusFeed** holds what readers of the events can tell apart. A row of `orders`
is abstracted to the id of its last event (`Row`): each change of a row draws a
new id, so a newer row is a greater number. `Draw` is the trigger's insert, which
takes the next id; `Commit` makes the ids of a transaction visible; ids therefore
become visible in another order than they were drawn. `Blotter` is
`get_orders_blotter` (an offset, one row more than the page), `Updates` is
`get_order_updates` (ids above the cursor, each with the row its order has *now*,
under the filter its order meets *now*). ORDER BY is `Place`, the number of
matching orders down to one, for pages, and `Ascending`, the listing of a set of
ids that increases, for events: both say what the order is and not how it is
computed, which is what proofs can use.

**BlotterConsole** is the single-page console over that feed. Its variables are
the React state (`filter`, `rows`, `eventCursor`, `offset` for `cursor`,
`hasMore`, `loading`, `syncMode`, `streamFailures`, `online`), the EventSource
with the events sent on it and not yet seen, and the requests in flight. A
request is sent, served and answered in three steps, or fails.

| Action | Code |
|---|---|
| `ResetAndLoad`, `LoadMore` | `resetAndLoad`, `loadMore` up to the await |
| `LoadAnswered`, `PageAnswered`, `FlightFails` | the rest of them; `catch` |
| `RunEffect` | the effect on `[syncMode, online, eventCursor, baseFilters]`: close the stream, open another from the cursor |
| `StreamRound`, `Deliver`, `StreamFails` | a round of `event_generator`, the listener, `onerror` with the switch at three failures |
| `PollTick`, `PollAnswered` | the interval of the polling effect |
| `RunAction`, `ActionAnswered` | `runAction` before and after its await |
| `ActionRuns`, `ActionReplays`, `ActionFails` | the server's side of an action, refusals, the ten-second abort |
| `Emit`, `CommitOrder`, `RollbackOrder` | other transactions |

A console can go wrong for good in the code as it is. The history variable
`mishaps` names how, and the properties say that *nothing else* does it:

- *overtaken*: a commit made an event visible below one that already was
  (`order_repository.py:349` asks for ids above the cursor only);
- *left*: an order left the status filter, whose events then skip the view
  (`order_repository.py:353`) and whose absence shifts the pages (307);
- *crossed*: an answer or event was applied of something no longer asked: a load
  for another filter than the present one, or in flight while the filter changed
  there and back (`App.tsx:139`), a page asked for before a reload or before
  another load answered (164), an event of a stream that the pending effect is
  about to close (183-188), a poll that asked from a cursor which has moved back
  since (215-221). A request carries in `old` that this happened to it;
- *regressed*: a page (165) or the end of an action (264, 266) put back an older
  row than the one shown, without its event being due again.

Each is needed: without any one of the four the run finds a stale row that stays.
That nothing else is needed is proved (`StaleRowsAlwaysDue`); the proof attempt is
what showed that a page which crosses the answer of a load belongs to *crossed*:
it merges its rows into a list that begins again, and the page between is never
asked for, although the cursor has passed its events. It takes three orders on
three pages, one more than the run has.

**ApiProcess** is one process of the API. Each session goes through the steps
`queued`, `check`, the statements of the setup, `flag`, `work`, `event`, `commit`,
`leaving`. Locks are those of PostgreSQL that the setup and the writes take:
creating the table (which also locks `orders` for its foreign key and trigger),
the index statements' share lock on the events, the function's row in the
catalogue, the rows written. A request that writes ends its transaction itself
(`session.commit()`, `session.rollback()`); one that reads leaves it open until
the dependency's `finally` closes the session, which the event loop has to start;
and the SSE generator runs its queries on that same loop (`LoopFree`).
`lost` and `unrecorded` are history variables: a setup that was rolled back after
the flag was set, and a commit of an order without its event. A process has one
event loop, so one generator at a time runs its query: `Stream` stands for all of
them.

**MCDesk**, **MCOrderTransactions**, **MCAtomicOrders**, **MCCashLadder**,
**MCBlotterConsole**, **MCApiProcess** give the constants small values.
**AtomicOrdersProofs**, **OrderTransactionsProofs**, **OrderAnswersProofs**,
**CashLadderProofs**, **ApiProcessProofs**, **StatusFeedProofs** and
**BlotterConsoleProofs** hold the proofs, **RowSums** the lemmas about sums they
share.

## Runs

The runs of the write path use two keys, a day of three instants whose cutoff is the third, one
product `qdii` with a quota of 2 and, where given, one product `plain` without.

| Run | Desk | Shows |
|---|---|---|
| `quota_race` | 3 workers, product `qdii`, amounts 1 and 2, clock to 2 | the quota is the sum of open allocations, never over-issued, refusals justified, records complete, no live order after the cutoff |
| `operations_desk` | 2 workers, both products, seeded orders, clock to 3, market of `qdii` one instant ahead of the session | order, allocation, ledger and event trail agree; history is kept; no circular wait; the committed tables implement `AtomicOrders` |
| `bad_submissions` | 2 workers, every form of payload, zero amounts, clock to 2 | every answer is true of the books |
| `requests_end` | 2 workers, both products, seeded orders, still clock, no symmetry | every request ends |
| `atomic_orders` | every payload, seeded orders, clock to 4 (two days) | the promise itself, whose theorems follow |
| `cash_ladder` | two orders, three products in two currencies and two markets, one market an instant ahead of the session, four pairs of holiday calendars, submissions on a Thursday, a Friday, a Saturday and from one to the next, three queries | stored dates are T+2 of the trade's market day unless midnight moved them, and then earlier; the two derivations agree; the totals count every confirmed order once |
| `console` | two orders, one seeded, on pages of one; filters for all and for fresh orders; two requests in flight | unless a mishap happened no row is stale without a newer event ahead of the cursor, and a live view converges to the committed rows |
| `api_process` | one reader, two writers, the stream, a pool of two, restarts, a database with and without the event objects | flag, objects and events agree unless a setup was lost; nothing is leaked; every request ends or the process hangs in the one way below |
| `cutoff_race` | as `quota_race` with 2 workers | a disagreement, below |
| `late_bad_units` | as `bad_submissions` | a disagreement, below |
| `midnight_submission` | as `cash_ladder` | a disagreement, below |
| `stream_lost` | as `console`, one request in flight, three errors to the fallback | a disagreement, below |

Why the bounds are enough. Workers finish a request and take another, so two
workers already give every sequence of requests; three are used where a third
party matters (one refused, one cancelling, one waiting). A circle of two takes one
submission and one confirm; longer ones are excluded by the theorem
`NeverDeadlocked` for any number of workers.
Two keys give contention on one order and on one quota row by two orders;
amounts 1 and 2 against a quota of 2 include exact fit, fit after a cancel and
refusal beside a partial use. Three instants put the clock on either side of the
cutoff between any two statements; a fourth starts the next quota day. A still
clock loses nothing where it is used: locks and waiting depend on the clock only
through the branch a submission takes, and the late branch waits for less than
the other. Keys and workers are interchangeable in every definition, so the
safety runs use their symmetry; the liveness run does not. Deadlock is checked
in all runs of the transactions (a worker can always begin a request, so it is
`NoWaitCycle` that speaks of waiting); `atomic_orders` may stop when every order
has reached a terminal status and the clock its bound, and says so. That no
quota is over-issued and no late order lives is a guard of one step there; it is
checked where it can fail, on the transactions (`quota_race`).

In `cash_ladder` the holidays lie before the weekend, after it, on both of the
settlement days and on every day up to the last two the query looks at; the
queries cut through the settlement days on either side and take a single day.
Two products share a currency and two a market, so sums over the products of a
currency and their separation both happen. Four steps of the clock let a
submission be refused by the cutoff trigger, or outlast the evening and its
market's midnight and pass it. A market closed for
longer than the twenty days would leave the order without a date and out of the
ladder; no calendar of the run goes that far. The run may stop when its clock is
at the bound and its orders are terminal, and says so.

In `console`, `MaxId` bounds the event ids: three give the second order's two
(created and decided in one transaction) beside the seeded one's, or two changes
of the seeded order, in either order of drawing and committing. `Slots` bounds the requests in
flight: two are what can cross. `Gestures` bounds what the operator does and how
often the network goes away: with one, each is combined with everything the feed,
the stream and the fallback do. The invariants, and the inductive invariant of
the proof, were also checked with three orders and three gestures (2 million
states), where a page can cross two loads; the theorems say them for any number.
`Patience` is 3 in the code
and 2 here, which keeps one error that changes nothing and one that switches.
An order has at most three events and one action in flight. The run may stop
where ids and gestures are spent, and says so. In `api_process`, two writers give
one that sets up and one that writes beside it, the reader and the stream give
two sessions that do not commit, and a pool of two makes the four compete; the
theorems say the safety part for any number. Each request is made once per
behaviour (the stream comes back for ever), so that the run may stop.

Fairness. `FairSpec` of the transactions asks strong fairness of each worker's steps. Weak fairness
would not do: a row lock may be taken again by somebody else each time it is
released, and it is PostgreSQL's queue of waiters that reaches everyone. The
code adds nothing of its own (no NOWAIT, no lock timeout, no retries). No
fairness is asked of new requests, of crashes or of the clock.

`FairSpec` of the console: the browser runs the effect, the listener and the
interval (weak fairness: once due they stay due), the server's generator keeps
its rounds, and of the requests a console sends again and again some are served
and some answered (strong and weak fairness of the disjunction over the slots: a
single request may fail, a network that fails them all is `GoOffline`). Nothing
says that anybody's transaction ends, that the operator does anything, or that
the network comes back.

`FairSpec` of the process: strong fairness of each session's steps (threads run,
PostgreSQL and the pool serve in turn, the loop reaches each callback between two
rounds), weak fairness of the pool's timeout and of PostgreSQL's deadlock check,
which are timers. None for arrivals and restarts.

## What the runs found

*The cutoff between check and insert* (`cutoff_race`). `DECISIONS.md:136` says
"Orders crossing cutoff are rejected." When the cutoff passes after
`is_before_cutoff` and before the insert, the cutoff trigger refuses the row:
the books stay right (`ActiveOrdersBeatCutoff` holds) but the client gets a
server error, no order and no record instead of a rejection. The key stays free,
so a retry is then rejected in the ordinary way.

*Bad units after the cutoff* (`late_bad_units`). `DECISIONS.md:137` says
"Adversarial unit values are rejected." Units and currency are validated only on
the branch before the cutoff, while the consistency trigger also judges the
REJECTED row of the other branch: such a submission ends in a server error.

*The stream that is lost once* (`stream_lost`). `DECISIONS.md:24` describes
"SSE with polling fallback", which "keeps the UI close to real time".
`onerror` closes the stream and counts a failure (`App.tsx:192-195`), but the
effect that would open another does not depend on the count (201), and polling
starts only at three (204). After one error the console follows nothing and still
says "Live via SSE" (291), until the operator changes a filter, a reload
moves the cursor or the network goes away and comes back.

*The submission that outlives its day* (`midnight_submission`).
`plans/api-contract.md:202` says "Settlement date must be derived from trade date
using market holiday calendars." `submit_order` derives the date by the clock of
one statement (`order_submission_service.py:104`) and the row is stamped by that
of a later one (106). If the market's midnight passes between the two, the cutoff
trigger lets the row in, since it compares the time of day only, and the order
settles one business day after its trade. It takes the time from the cutoff to
midnight, which is one second with the cutoff of 23:59:59 that the tests use.

Noted in the console and the API process, and part of the models: the four
mishaps above, among them three overlapping polls of which the oldest answers
last and moves the cursor back while the rows it carries are older, and a late
load that moves the cursor back while events of the superseded stream still
arrive; a setup that is rolled back after its flag was set (a refused
submission, or the close of a reading session, which never commits) leaves a
process that never creates table and trigger, so that orders are committed
without events and readers fail, until it is restarted; and in a cold start a
reading request can hold the locks of its setup while the stream's query, on the
event loop, waits for them: only the loop can close that reader's session, so
the process hangs and PostgreSQL sees no circle (`Hung`). The answer of an action
has no `estimatedPrice`, `updatedAt` or `lastEventId` and replaces the row that
had them, which the models leave out with the other fields.

Also noted, and part of the model though no document contradicts it:
cancelling a confirmed order of a product without quota posts no reversal, since
`post_cancel_entries` runs only when a quota allocation was released
(`BooksAgree` states exactly that); a price that rounds to a zero cash amount
ends in a server error through the CHECKs of `quota_allocations` and
`ledger_entries`; a submission under the key of a seeded order, which has no
idempotency record, ends in a server error through the unique key.

## Proofs

`AtomicOrdersProofs` proves of `AtomicOrders`, for every set of products, keys,
payloads and seeded orders and for any totals, cutoffs and offsets that satisfy
`DeskAssumption` (the schema's constraints, and that the cutoff trigger also
judged the seeded rows):

| Theorem | Property |
|---|---|
| `TypeCorrect` | `TypeOK` |
| `BooksAlwaysAgree` | `BooksAgree` |
| `RecordsAlwaysComplete` | `RecordsComplete` |
| `QuotaAlwaysMatches` | `QuotaMatchesAllocations` |
| `HistoryAlwaysKept` | `HistoryIsKept` |

It also proves `CutoffAlwaysKept` and `QuotaNeverExceeded`, which are near the
guards there and are cited where they say something, of the transactions. The
inductive invariant `IInv` is the conjunction of `TypeOK`, `BooksAgree`,
`RecordsComplete`, `ActiveOrdersBeatCutoff` and `QuotaNeverOverIssued`. They need
one another: that a cancel leaves a record complete needs `BooksAgree` (its
order's postings exist), that a confirm starts from an empty ledger and no
allocation needs `BooksAgree` of a pending order, that confirming a pending
order keeps the cutoff needs `ActiveOrdersBeatCutoff` before. The proof looks at
one key at a time: each action writes the rows of one key, `OtherKeys` shows the
rest undisturbed, `TakeEffectBooks` and `TurnDownBooks` give the written key its
new story, and `SubmitInv`, `ConfirmInv` and `CancelInv` put the two together.
`StepHistory` then gives the action property from the same invariant.

`QuotaAlwaysMatches` is about a sum over the keys of a quota row. What
`MapThenSumSet` returns is a recursive function's value, so `RowSums` first shows
that the function exists on the subsets of a finite set, that any row may be
added first, that sums of disjoint sets add up, and that rows summed group by
group are summed once. The library's induction theorems take an operator and
cannot be used here; each lemma is instead proved from a smallest counterexample
(`SmallestSubset`: of a set of subsets of a finite set, one has no proper subset
in it). The keys need not be finite: the invariant `Accounts` carries that only
finitely many of a day were ever allocated, beside the sum.

`OrderTransactionsProofs` proves, for every set of workers and every desk, that
the requests are atomic and what follows from it:

| Theorem | Property |
|---|---|
| `TypeCorrect` | `TypeOK` |
| `RequestsAtomic` | `RequestsAreAtomic`: the committed tables implement `AtomicOrders` |
| `BooksAlwaysAgree`, `RecordsAlwaysComplete`, `CutoffAlwaysKept`, `QuotaNeverExceeded`, `QuotaAlwaysMatches` | the invariants of `AtomicOrders`, of the committed tables |
| `HistoryAlwaysKept` | `HistoryIsKept` |
| `NeverDeadlocked` | `NoWaitCycle` |

The inductive invariant says, for each worker and statement, what its transaction
knows (`Session`): a submission past `LockIdempotency` owns a key nothing is
recorded for (`Claiming`), a request that decides has a pending order in hand
that is the committed one or its own uncommitted one (`Deciding`), a reservation
has added its amount to the committed quota (`Reserving`), a cancel holds the
rows as they are (`Cancelling`), and at COMMIT there are six possibilities, from
`Replaying` to `CancellingDone`. `LocksFit` ties each lock to the statements that
may hold it. What a transaction knows is about rows it has locked, so nobody
else's step disturbs it (`UndisturbedSession`, proved once); every statement then
has one lemma for its own transaction. `CommitRefines` takes the six cases of
COMMIT to one step of `AtomicOrders` each (a replay and a request that changes
nothing to a stutter), `StatementsStutter` all other statements to a stutter, and
the theorems of the promise are cited for the committed tables through
`Books == INSTANCE AtomicOrdersProofs`. Against circular waits, `Rank` places
each waiting statement by the lock it asks for, with order rows in front of
products for the requests that lock them first and behind them for the
submissions that find them taken; a transaction waits only for one of higher
rank.

`OrderAnswersProofs` continues from that invariant:

| Theorem | Property |
|---|---|
| `AnswersAlwaysTrue` | `AnswersMatchTheBooks` |
| `TrailAlwaysExplains` | `TrailExplainsStatus` |
| `RefusalsAlwaysJustified` | `RefusalsAreJustified` |

An answer was true when its transaction ended and `AnswersStand` keeps it so, since
later requests only take the order forward (`HistoryOfKey`). `Trails` says that
the trail a transaction holds is a legal path to the status of the order it
holds, after every statement. `Refusals` says that a transaction which turns its
order down did so when the amount did not fit; between that and the commit only
what was ever allocated counts, which no release takes back (`RefusalStands`).

`CashLadderProofs` proves of `CashLadder`, for any products, orders, markets,
holiday calendars, cutoffs and offsets, any clock, any delays and any queries:

| Theorem | Property |
|---|---|
| `TypeCorrect` | `TypeOK` |
| `OnlyMidnightEverMovesDates` | `OnlyMidnightMovesDates` |
| `DerivationsAlwaysAgree` | `DerivationsAgree` |
| `EveryOrderAlwaysCountedOnce` | `EveryOrderCountedOnce` |

Its assumptions are three. `LadderAssumption`: the tables have their types.
`CalendarAssumption`: two of the next twenty days are business days, for the
calendars that may be loaded (the statement is false without it: such an order
has no date and leaves the ladder). `SeedAssumption`: a dated loaded row was
submitted on the same day of session and market. `QueryCounts` shows that the day
the query finds has two business days up to it, `OneSettlementDay` that no other
day has, `LoopAgrees` that the loop of the seed script stops there too. The
invariant adds to the stored dates what a submission in progress knows: its date
is that of some instant up to now, on the market's present day unless midnight
overtook it (`DateOfItsDay`), and an order that midnight overtook has a date
(`LapsedHaveDates`). `EarlierDaySettlesEarly` shows what such a date is worth on
the later day that stamps the row. For the totals, `CountsWhenItSettles` replaces the
effective date by the definition by counting, and `DayTotal` and `WindowTotal`
sum first over the products of a currency, then over the days (`SumByGroup`).

`ApiProcessProofs` proves of `ApiProcess`, for every set of readers and writers
and every pool size (`ProcessAssumption`: readers, writers and the stream are
different sessions, and the pool has room for one):

| Theorem | Property |
|---|---|
| `TypeCorrect` | `TypeOK` (types, exclusion of locks, the pool's limit) |
| `NothingIsLeaked` | `IdleHoldsNothing` |
| `FlagTellsTheTruth` | `ReadyMeansInstalled` |
| `EveryWriteIsRecorded` | `CommittedWritesAreRecorded` |

The four are not inductive by themselves: a step only does the right thing
because of what the steps before it left behind. `StepsInOrder` says that, per
step: an index is only asked for where the table exists; no session holds the
lock of a creation before it has created; the flag is set in front of objects the
session sees; work comes after the flag; a writer about to commit holds its
event's lock, unless a setup was lost. The interesting step is the insert of an
order by a process whose flag was set by a transaction not yet committed:
`WriterSees` shows that either the objects are visible or the creator's lock on
`orders` would have blocked the insert, or the setup was lost. One lemma per
conjunct (`TypeStep`, `IdleStep`, `OrderStep`, `ReadyStep`, `RecordedStep`) goes
through the actions; `LockKeepsExclusive` and `ReleaseKeepsExclusive` are shared.

`StatusFeedProofs` holds what the queries of the feed return, for any orders, page
size and limit: that a finite set of ids can be listed in ascending order
(`Listed`), that a page has the row of every order past its offset or knows of a
later page (`BlotterTells`), that an answer above a cursor skips the last event of
no order on its way to a later one (`UpdatesTell`), that a commit which overtakes
nothing gives its order a row newer than every visible event (`CommitsLast`), and
how sequences of events join and are taken off (`NoticesJoin`, `NoticesTaken`).
`BlotterConsoleProofs` builds on it:

| Theorem | Property |
|---|---|
| `Invariance` | the inductive invariant `IInv` |
| `TypeCorrect` | `TypeOK` |
| `StaleRowsAlwaysDue` | `StaleRowsAreDue` |

for any orders, filters, page size, limit, patience and number of requests in
flight (`FeedAssumption`: there are finitely many orders, whatever their number,
and page and limit have room for one; `ConsoleAssumption`: filters select orders,
the fallback waits for at least one error). `StaleRowsAreDue` speaks of what is
shown; to be inductive it needs to say what is still on its way. `IInv` has two
parts. `Shape` holds always: whatever is shown, sent, queued or answered stands for
a committed event and is not newer than the row its order has. The other part
holds until a mishap: a row whose last event the cursor has passed is current or
on a later page (`RowsCurrent`); the queue of the stream has the last event of
each order between the cursor and what was sent (`StreamComplete`); and of the
requests that are still asked, a poll asked from at or below the cursor and skips
no last event, a page leaves out no row that is neither shown nor due, and a load
covers all rows up to the newest it brings (`FlightsComplete`). One lemma per
action shows its step; `StaysComplete` is the argument they share, that a request
remains good while the cursor only moves up and no row is lost from view, and
`AnswerIs` says which requests remain after an answer.

Every invariant that a run checks is now a theorem, and so are the refinement and
the action property. Only model-checked: liveness (`EveryRequestEnds`,
`LiveViewsConverge`), since fairness and ENABLED are outside the prover's reach;
and the four disagreements, which are traces.

## Not modelled

The quota view (`GET /products/{id}/quota`) is a read nothing depends on: it looks
for the row of the API host's date, where submissions use the session's. In the
feed: status filters other than "as created", sort orders other than the time of
submission, and the `Last-Event-ID` header, which an EventSource sends when it
reconnects by itself and this console never lets it. In the console: the cutoff
countdown, row errors and banners, virtual scrolling. In the process: several
processes at once (their flags are separate, their locks the same), and the
setup's locks inside the transactions of `OrderTransactions`, which run with the
objects in place; `NoWaitCycle` speaks of those. Left out for
good: response shapes, error texts, logging, routing, containers, the bulk load
and the benchmark (no state of their own); the arithmetic of `decimal_rules.py`
beyond "parses or not" and "zero or positive"; lock conflicts of foreign-key
checks, which only ever meet locks of their own transaction here; PostgreSQL's
own correctness.
