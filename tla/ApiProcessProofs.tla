---- MODULE ApiProcessProofs ----
(***************************************************************************)
(* Proofs about ApiProcess for every set of requests and every pool size.  *)
(***************************************************************************)
EXTENDS ApiProcess, FiniteSetTheorems, TLAPS

\* What each step of a session has behind it: indexes and function are only
\* asked for where the table exists, nothing of a setup is done before its
\* first statement, the flag is about to be set or set in front of the
\* objects, the work comes after the flag, and a writer that is about to
\* commit has inserted its event or runs in a process that lost a setup.  From
\* its first step to its last a session has a connection.
Behind(t) ==
    /\ at[t] \notin {"new", "queued", "leaving", "done"} => t \in pool
    /\ at[t] \in {"share", "replace"} => installed
    /\ at[t] \in {"check", "create", "share", "replace"} => "create" \notin held[t]
    /\ at[t] = "flag" => Sees(t)
    /\ at[t] = "work" => ready
    /\ at[t] = "commit" => "event" \in held[t] \/ lost
StepsInOrder == \A t \in Sessions : Behind(t)

\* The inductive invariant.
IInv ==
    /\ TypeOK
    /\ IsFiniteSet(pool)
    /\ IdleHoldsNothing
    /\ ReadyMeansInstalled
    /\ CommittedWritesAreRecorded
    /\ StepsInOrder

\* No two transactions hold locks that exclude each other: a part of TypeOK.
Exclusive == \A t, u \in Sessions : t # u => (held[t] \X held[u]) \cap Conflicts = {}

\* Locks exclude each other both ways.
LEMMA ConflictsSymmetric ==
    \A a, b : <<a, b>> \in Conflicts => <<b, a>> \in Conflicts
  BY DEF Conflicts

\* Taking what a statement wants, when nobody is in its way, keeps locks that
\* exclude each other apart.
LEMMA LockKeepsExclusive ==
    ASSUME Exclusive, held \in [Sessions -> SUBSET Locks],
           NEW t \in Sessions, Lock(t), ~Blocked(t)
    PROVE  /\ held' \in [Sessions -> SUBSET Locks]
           /\ Exclusive'
  <1>1. Wants(t) \subseteq Locks
    BY DEF Wants
  <1>2. held' \in [Sessions -> SUBSET Locks]
    BY <1>1 DEF Lock
  <1>3. ASSUME NEW u \in Sessions, u # t
        PROVE  (Wants(t) \X held[u]) \cap Conflicts = {}
    BY <1>3 DEF Blocked, WaitsFor
  <1>4. SUFFICES ASSUME NEW u \in Sessions, NEW v \in Sessions, u # v,
                        NEW a \in held'[u], NEW b \in held'[v], <<a, b>> \in Conflicts
                 PROVE  FALSE
    BY <1>2 DEF Exclusive
  <1>5. ~(a \in held[u] /\ b \in held[v])
    BY <1>4 DEF Exclusive
  <1>6. CASE u = t
    BY <1>3, <1>4, <1>5, <1>6 DEF Lock
  <1>7. CASE v = t
    BY <1>3, <1>4, <1>5, <1>7, ConflictsSymmetric DEF Lock
  <1>8. CASE u # t /\ v # t
    BY <1>4, <1>5, <1>8 DEF Lock
  <1>. QED BY <1>6, <1>7, <1>8

\* Giving locks up keeps locks that exclude each other apart.
LEMMA ReleaseKeepsExclusive ==
    ASSUME Exclusive, held \in [Sessions -> SUBSET Locks],
           held' \in [Sessions -> SUBSET Locks],
           \A t \in Sessions : held'[t] \subseteq held[t]
    PROVE  Exclusive'
  BY DEF Exclusive

\* A pool that only loses connections stays within its limit.
LEMMA SmallerPool ==
    ASSUME IsFiniteSet(pool), pool \subseteq Sessions, Cardinality(pool) <= PoolSize,
           pool' \subseteq pool
    PROVE  /\ IsFiniteSet(pool')
           /\ pool' \subseteq Sessions
           /\ Cardinality(pool') <= PoolSize
  BY FS_Subset, FS_CardinalityType, ProcessAssumption

\* TypeOK in the parts the steps are proved by.
LEMMA TypeParts ==
    TypeOK <=>
      /\ ready \in BOOLEAN /\ installed \in BOOLEAN
      /\ lost \in BOOLEAN /\ unrecorded \in BOOLEAN
      /\ at \in [Sessions -> Steps]
      /\ held \in [Sessions -> SUBSET Locks]
      /\ pool \subseteq Sessions
      /\ Cardinality(pool) <= PoolSize
      /\ Exclusive
  BY DEF TypeOK, Exclusive

\* A step that leaves locks and pool alone keeps every type.
LEMMA QuietTypes ==
    ASSUME TypeOK, IsFiniteSet(pool), UNCHANGED <<pool, held>>,
           ready' \in BOOLEAN, installed' \in BOOLEAN,
           lost' \in BOOLEAN, unrecorded' \in BOOLEAN,
           at' \in [Sessions -> Steps]
    PROVE  TypeOK' /\ IsFiniteSet(pool')
  BY DEF TypeOK

\* So does one that only gives up locks and connections.
LEMMA DropTypes ==
    ASSUME TypeOK, IsFiniteSet(pool), pool' \subseteq pool,
           held' \in [Sessions -> SUBSET Locks],
           \A t \in Sessions : held'[t] \subseteq held[t],
           ready' \in BOOLEAN, installed' \in BOOLEAN,
           lost' \in BOOLEAN, unrecorded' \in BOOLEAN,
           at' \in [Sessions -> Steps]
    PROVE  TypeOK' /\ IsFiniteSet(pool')
  <1>1. Exclusive'
    BY TypeParts, ReleaseKeepsExclusive
  <1>2. IsFiniteSet(pool') /\ pool' \subseteq Sessions /\ Cardinality(pool') <= PoolSize
    BY SmallerPool DEF TypeOK
  <1>. QED BY <1>1, <1>2 DEF TypeOK, Exclusive

\* And one that takes locks that nobody denies.
LEMMA LockTypes ==
    ASSUME TypeOK, IsFiniteSet(pool), NEW t \in Sessions, Lock(t), ~Blocked(t),
           UNCHANGED <<ready, installed, pool, lost, unrecorded>>,
           at' \in [Sessions -> Steps]
    PROVE  TypeOK' /\ IsFiniteSet(pool')
  <1>1. held' \in [Sessions -> SUBSET Locks] /\ Exclusive'
    BY TypeParts, LockKeepsExclusive
  <1>. QED BY <1>1 DEF TypeOK, Exclusive

\* An error of the database keeps every type.
LEMMA FailTypes ==
    ASSUME TypeOK, IsFiniteSet(pool), NEW t \in Sessions, Fail(t)
    PROVE  TypeOK' /\ IsFiniteSet(pool')
  <1>1. at' \in [Sessions -> Steps]
    BY DEF Fail, Go, TypeOK, Steps
  <1>2. /\ pool' \subseteq pool
        /\ held' \in [Sessions -> SUBSET Locks]
        /\ \A u \in Sessions : held'[u] \subseteq held[u]
    BY DEF Fail, TypeOK
  <1>3. /\ ready' \in BOOLEAN /\ installed' \in BOOLEAN
        /\ lost' \in BOOLEAN /\ unrecorded' \in BOOLEAN
    BY DEF Fail, TypeOK
  <1>. QED BY <1>1, <1>2, <1>3, DropTypes

\* A rollback keeps every type.
LEMMA RollBackTypes ==
    ASSUME TypeOK, IsFiniteSet(pool), NEW t \in Sessions, RollBack(t),
           at' \in [Sessions -> Steps]
    PROVE  TypeOK' /\ IsFiniteSet(pool')
  <1>1. /\ pool' \subseteq pool
        /\ held' \in [Sessions -> SUBSET Locks]
        /\ \A u \in Sessions : held'[u] \subseteq held[u]
    BY DEF RollBack, Release, TypeOK
  <1>2. /\ ready' \in BOOLEAN /\ installed' \in BOOLEAN
        /\ lost' \in BOOLEAN /\ unrecorded' \in BOOLEAN
    BY DEF RollBack, TypeOK
  <1>. QED BY <1>1, <1>2, DropTypes

\* Every step keeps every type.
LEMMA TypeStep ==
    ASSUME TypeOK, IsFiniteSet(pool), [Next]_vars
    PROVE  TypeOK' /\ IsFiniteSet(pool')
  <1>1. CASE UNCHANGED vars
    BY <1>1 DEF vars, TypeOK
  <1>2. ASSUME NEW t \in Sessions, Arrive(t) PROVE TypeOK' /\ IsFiniteSet(pool')
    BY <1>2, QuietTypes DEF Arrive, Go, TypeOK, Steps
  <1>3. ASSUME NEW t \in Sessions, CheckOut(t) PROVE TypeOK' /\ IsFiniteSet(pool')
    <2>3. pool' = pool \cup {t} /\ Cardinality(pool) < PoolSize
      BY <1>3 DEF CheckOut, Room
    <2>1. IsFiniteSet(pool') /\ Cardinality(pool') <= PoolSize
      <3>1. Cardinality(pool) \in Nat
        BY FS_CardinalityType
      <3>2. /\ IsFiniteSet(pool \cup {t})
            /\ Cardinality(pool \cup {t}) \in {Cardinality(pool), Cardinality(pool) + 1}
        BY FS_AddElement
      <3>. QED BY <2>3, <3>1, <3>2, ProcessAssumption
    <2>2. at' \in [Sessions -> Steps] /\ pool' \subseteq Sessions
      BY <1>3 DEF CheckOut, Go, TypeOK, Steps
    <2>. QED BY <1>3, <2>1, <2>2 DEF CheckOut, TypeOK
  <1>4. ASSUME NEW t \in Sessions, GiveUp(t) PROVE TypeOK' /\ IsFiniteSet(pool')
    BY <1>4, QuietTypes DEF GiveUp, Go, TypeOK, Steps
  <1>5. ASSUME NEW t \in Sessions, Check(t) PROVE TypeOK' /\ IsFiniteSet(pool')
    BY <1>5, QuietTypes DEF Check, SetsReady, Go, TypeOK, Steps
  <1>6. ASSUME NEW t \in Sessions, SetUp(t) PROVE TypeOK' /\ IsFiniteSet(pool')
    <2>1. at' \in [Sessions -> Steps]
      BY <1>6 DEF SetUp, Go, TypeOK, Steps
    <2>. QED BY <1>6, <2>1, LockTypes DEF SetUp
  <1>7. ASSUME NEW t \in Sessions, Flag(t) PROVE TypeOK' /\ IsFiniteSet(pool')
    BY <1>7, QuietTypes DEF Flag, SetsReady, Go, TypeOK, Steps
  <1>8. ASSUME NEW t \in Sessions, Query(t) PROVE TypeOK' /\ IsFiniteSet(pool')
    <2>1. CASE Sees(t)
      BY <1>8, <2>1, QuietTypes DEF Query, Go, TypeOK, Steps
    <2>2. CASE ~Sees(t)
      BY <1>8, <2>2, FailTypes DEF Query
    <2>. QED BY <2>1, <2>2
  <1>9. ASSUME NEW t \in Sessions, WriteOrder(t) PROVE TypeOK' /\ IsFiniteSet(pool')
    <2>1. at' \in [Sessions -> Steps]
      BY <1>9 DEF WriteOrder, Go, TypeOK, Steps
    <2>. QED BY <1>9, <2>1, LockTypes DEF WriteOrder
  <1>10. ASSUME NEW t \in Sessions, WriteEvent(t) PROVE TypeOK' /\ IsFiniteSet(pool')
    <2>1. at' \in [Sessions -> Steps]
      BY <1>10 DEF WriteEvent, Go, TypeOK, Steps
    <2>. QED BY <1>10, <2>1, LockTypes DEF WriteEvent
  <1>11. ASSUME NEW t \in Sessions, Commit(t) PROVE TypeOK' /\ IsFiniteSet(pool')
    <2>1. at' \in [Sessions -> Steps]
      BY <1>11 DEF Commit, TypeOK, Steps
    <2>2. /\ pool' \subseteq pool
          /\ held' \in [Sessions -> SUBSET Locks]
          /\ \A u \in Sessions : held'[u] \subseteq held[u]
      BY <1>11 DEF Commit, TypeOK
    <2>3. /\ ready' \in BOOLEAN /\ installed' \in BOOLEAN
          /\ lost' \in BOOLEAN /\ unrecorded' \in BOOLEAN
      BY <1>11 DEF Commit, Sees, TypeOK
    <2>. QED BY <2>1, <2>2, <2>3, DropTypes
  <1>12. ASSUME NEW t \in Sessions, Refuse(t) PROVE TypeOK' /\ IsFiniteSet(pool')
    <2>1. at' \in [Sessions -> Steps]
      BY <1>12 DEF Refuse, Go, TypeOK, Steps
    <2>. QED BY <1>12, <2>1, RollBackTypes DEF Refuse
  <1>13. ASSUME NEW t \in Sessions, BreakDeadlock(t) PROVE TypeOK' /\ IsFiniteSet(pool')
    BY <1>13, FailTypes DEF BreakDeadlock
  <1>14. ASSUME NEW t \in Sessions, Leave(t) PROVE TypeOK' /\ IsFiniteSet(pool')
    <2>1. at' \in [Sessions -> Steps]
      BY <1>14 DEF Leave, Go, TypeOK, Steps
    <2>. QED BY <1>14, <2>1, RollBackTypes DEF Leave
  <1>15. CASE Reopen
    BY <1>15, QuietTypes DEF Reopen, Go, TypeOK, Steps
  <1>16. CASE Restart
    <2>1. at' \in [Sessions -> Steps]
      BY <1>16 DEF Restart, TypeOK, Steps
    <2>. QED BY <1>16, <2>1, DropTypes DEF Restart, TypeOK
  <1>. QED BY <1>1, <1>2, <1>3, <1>4, <1>5, <1>6, <1>7, <1>8, <1>9, <1>10, <1>11,
              <1>12, <1>13, <1>14, <1>15, <1>16 DEF Next, Step, Aborted

\* Sessions that are idle hold nothing after any step either: a session takes
\* locks only between its first step and its last, and every way out of them
\* gives up the locks and, unless it only reads, the connection.
LEMMA IdleStep ==
    ASSUME TypeOK, IdleHoldsNothing, StepsInOrder, [Next]_vars
    PROVE  IdleHoldsNothing'
  <1>1. CASE UNCHANGED vars
    BY <1>1, ProcessAssumption
    DEF vars, IdleHoldsNothing, TypeOK, StepsInOrder, Behind
  <1>2. ASSUME NEW t \in Sessions, Arrive(t) PROVE IdleHoldsNothing'
    BY <1>2, ProcessAssumption
    DEF Arrive, Go, IdleHoldsNothing, TypeOK, StepsInOrder, Behind
  <1>3. ASSUME NEW t \in Sessions, CheckOut(t) PROVE IdleHoldsNothing'
    BY <1>3, ProcessAssumption
    DEF CheckOut, Go, IdleHoldsNothing, TypeOK, StepsInOrder, Behind
  <1>4. ASSUME NEW t \in Sessions, GiveUp(t) PROVE IdleHoldsNothing'
    BY <1>4, ProcessAssumption
    DEF GiveUp, Go, IdleHoldsNothing, TypeOK, StepsInOrder, Behind
  <1>5. ASSUME NEW t \in Sessions, Check(t) PROVE IdleHoldsNothing'
    BY <1>5, ProcessAssumption
    DEF Check, Go, IdleHoldsNothing, TypeOK, StepsInOrder, Behind
  <1>6. ASSUME NEW t \in Sessions, SetUp(t) PROVE IdleHoldsNothing'
    BY <1>6, ProcessAssumption
    DEF SetUp, Lock, Go, IdleHoldsNothing, TypeOK, StepsInOrder, Behind
  <1>7. ASSUME NEW t \in Sessions, Flag(t) PROVE IdleHoldsNothing'
    BY <1>7, ProcessAssumption
    DEF Flag, Go, IdleHoldsNothing, TypeOK, StepsInOrder, Behind
  <1>8. ASSUME NEW t \in Sessions, Query(t) PROVE IdleHoldsNothing'
    BY <1>8, ProcessAssumption
    DEF Query, Fail, Keeps, Go, IdleHoldsNothing, TypeOK, StepsInOrder, Behind
  <1>9. ASSUME NEW t \in Sessions, WriteOrder(t) PROVE IdleHoldsNothing'
    BY <1>9, ProcessAssumption
    DEF WriteOrder, Lock, Go, IdleHoldsNothing, TypeOK, StepsInOrder, Behind
  <1>10. ASSUME NEW t \in Sessions, WriteEvent(t) PROVE IdleHoldsNothing'
    BY <1>10, ProcessAssumption
    DEF WriteEvent, Lock, Go, IdleHoldsNothing, TypeOK, StepsInOrder, Behind
  <1>11. ASSUME NEW t \in Sessions, Commit(t) PROVE IdleHoldsNothing'
    BY <1>11, ProcessAssumption
    DEF Commit, Keeps, IdleHoldsNothing, TypeOK, StepsInOrder, Behind
  <1>12. ASSUME NEW t \in Sessions, Refuse(t) PROVE IdleHoldsNothing'
    BY <1>12, ProcessAssumption
    DEF Refuse, RollBack, Release, Go, IdleHoldsNothing, TypeOK, StepsInOrder, Behind
  <1>13. ASSUME NEW t \in Sessions, BreakDeadlock(t) PROVE IdleHoldsNothing'
    BY <1>13, ProcessAssumption
    DEF BreakDeadlock, Fail, Keeps, Go, IdleHoldsNothing, TypeOK, StepsInOrder, Behind
  <1>14. ASSUME NEW t \in Sessions, Leave(t) PROVE IdleHoldsNothing'
    BY <1>14, ProcessAssumption
    DEF Leave, RollBack, Release, Go, IdleHoldsNothing, TypeOK, StepsInOrder, Behind
  <1>15. CASE Reopen
    BY <1>15, ProcessAssumption
    DEF Reopen, Go, IdleHoldsNothing, TypeOK, StepsInOrder, Behind
  <1>16. CASE Restart
    BY <1>16, ProcessAssumption
    DEF Restart, IdleHoldsNothing, TypeOK, StepsInOrder, Behind
  <1>. QED BY <1>1, <1>2, <1>3, <1>4, <1>5, <1>6, <1>7, <1>8, <1>9, <1>10, <1>11, <1>12, <1>13, <1>14, <1>15, <1>16
           DEF Next, Step, Aborted

\* A process whose flag is set and that lost no setup writes an order where
\* the trigger is: as long as another transaction has it uncommitted, the
\* table of orders is locked.
LEMMA WriterSees ==
    ASSUME ReadyMeansInstalled, NEW t \in Writers, at[t] = "work", ready, ~Blocked(t)
    PROVE  Sees(t) \/ lost
  <1>1. Wants(t) = {"work"} /\ t \in Sessions
    BY DEF Wants, Locks, Sessions, Requests
  <1>2. ASSUME NEW u \in Sessions, u # t PROVE "create" \notin held[u]
    BY <1>1, <1>2 DEF Blocked, WaitsFor, Conflicts
  <1>. QED BY <1>1, <1>2 DEF ReadyMeansInstalled, Sees

\* Every step leaves each session with what its next step relies on.
LEMMA OrderStep ==
    ASSUME TypeOK, IdleHoldsNothing, ReadyMeansInstalled, StepsInOrder, [Next]_vars
    PROVE  StepsInOrder'
  <1>1. CASE UNCHANGED vars
    BY <1>1 DEF vars, Sees, IdleHoldsNothing, TypeOK, StepsInOrder, Behind
  <1>2. ASSUME NEW t \in Sessions, Arrive(t) PROVE StepsInOrder'
    BY <1>2
    DEF Arrive, Go, Sees, IdleHoldsNothing, TypeOK, StepsInOrder, Behind
  <1>3. ASSUME NEW t \in Sessions, CheckOut(t) PROVE StepsInOrder'
    BY <1>3
    DEF CheckOut, Go, Sees, IdleHoldsNothing, TypeOK, StepsInOrder, Behind
  <1>4. ASSUME NEW t \in Sessions, GiveUp(t) PROVE StepsInOrder'
    BY <1>4
    DEF GiveUp, Go, Sees, IdleHoldsNothing, TypeOK, StepsInOrder, Behind
  <1>5. ASSUME NEW t \in Sessions, Check(t) PROVE StepsInOrder'
    BY <1>5
    DEF Check, SetsReady, Go, Sees, IdleHoldsNothing, TypeOK, StepsInOrder, Behind
  <1>6. ASSUME NEW t \in Sessions, SetUp(t) PROVE StepsInOrder'
    <2>1. ASSUME NEW u \in Sessions, u # t PROVE Behind(u)'
      BY <1>6, <2>1 DEF SetUp, Lock, Go, Sees, TypeOK, StepsInOrder, Behind
    <2>2. CASE at[t] = "create" /\ ~installed
      <3>1. "create" \in Wants(t)
        BY <2>2 DEF Wants, Locks
      <3>2. Behind(t)'
        BY <1>6, <2>2, <3>1 DEF SetUp, Lock, Go, Sees, TypeOK, StepsInOrder, Behind
      <3>. QED BY <2>1, <3>2 DEF StepsInOrder
    <2>3. CASE installed /\ at[t] \in {"create", "share", "replace"}
      <3>1. "create" \notin Wants(t)
        BY <2>3 DEF Wants
      <3>2. Behind(t)'
        BY <1>6, <2>3, <3>1 DEF SetUp, Lock, Go, Sees, TypeOK, StepsInOrder, Behind
      <3>. QED BY <2>1, <3>2 DEF StepsInOrder
    <2>. QED BY <1>6, <2>2, <2>3 DEF SetUp, StepsInOrder, Behind
  <1>7. ASSUME NEW t \in Sessions, Flag(t) PROVE StepsInOrder'
    BY <1>7
    DEF Flag, SetsReady, Go, Sees, IdleHoldsNothing, TypeOK, StepsInOrder, Behind
  <1>8. ASSUME NEW t \in Sessions, Query(t) PROVE StepsInOrder'
    BY <1>8
    DEF Query, Fail, Keeps, Go, Sees, IdleHoldsNothing, TypeOK, StepsInOrder, Behind
  <1>9. ASSUME NEW t \in Sessions, WriteOrder(t) PROVE StepsInOrder'
    <2>1. ready /\ (Sees(t) \/ lost)
      BY <1>9, WriterSees DEF WriteOrder, StepsInOrder, Behind
    <2>. QED BY <1>9, <2>1
      DEF WriteOrder, Lock, Go, Sees, TypeOK, StepsInOrder, Behind
  <1>10. ASSUME NEW t \in Sessions, WriteEvent(t) PROVE StepsInOrder'
    BY <1>10
    DEF WriteEvent, Lock, Wants, Locks, Go, Sees, IdleHoldsNothing, TypeOK, StepsInOrder, Behind
  <1>11. ASSUME NEW t \in Sessions, Commit(t) PROVE StepsInOrder'
    BY <1>11
    DEF Commit, Keeps, Sees, IdleHoldsNothing, TypeOK, StepsInOrder, Behind
  <1>12. ASSUME NEW t \in Sessions, Refuse(t) PROVE StepsInOrder'
    BY <1>12
    DEF Refuse, RollBack, Release, Go, Sees, IdleHoldsNothing, TypeOK, StepsInOrder, Behind
  <1>13. ASSUME NEW t \in Sessions, BreakDeadlock(t) PROVE StepsInOrder'
    BY <1>13
    DEF BreakDeadlock, Fail, Keeps, Go, Sees, IdleHoldsNothing, TypeOK, StepsInOrder, Behind
  <1>14. ASSUME NEW t \in Sessions, Leave(t) PROVE StepsInOrder'
    BY <1>14
    DEF Leave, RollBack, Release, Go, Sees, IdleHoldsNothing, TypeOK, StepsInOrder, Behind
  <1>15. CASE Reopen
    BY <1>15 DEF Reopen, Go, Sees, IdleHoldsNothing, TypeOK, StepsInOrder, Behind
  <1>16. CASE Restart
    BY <1>16 DEF Restart, Sees, IdleHoldsNothing, TypeOK, StepsInOrder, Behind
  <1>. QED BY <1>1, <1>2, <1>3, <1>4, <1>5, <1>6, <1>7, <1>8, <1>9, <1>10, <1>11, <1>12, <1>13, <1>14, <1>15, <1>16
           DEF Next, Step, Aborted

\* Every step keeps the flag true to the tables, or counts a lost setup.
LEMMA ReadyStep ==
    ASSUME TypeOK, ReadyMeansInstalled, StepsInOrder, [Next]_vars
    PROVE  ReadyMeansInstalled'
  <1>1. CASE UNCHANGED vars
    BY <1>1 DEF vars, Sees, ReadyMeansInstalled, TypeOK, StepsInOrder, Behind
  <1>2. ASSUME NEW t \in Sessions, Arrive(t) PROVE ReadyMeansInstalled'
    BY <1>2
    DEF Arrive, Go, Sees, ReadyMeansInstalled, TypeOK, StepsInOrder, Behind
  <1>3. ASSUME NEW t \in Sessions, CheckOut(t) PROVE ReadyMeansInstalled'
    BY <1>3
    DEF CheckOut, Go, Sees, ReadyMeansInstalled, TypeOK, StepsInOrder, Behind
  <1>4. ASSUME NEW t \in Sessions, GiveUp(t) PROVE ReadyMeansInstalled'
    BY <1>4
    DEF GiveUp, Go, Sees, ReadyMeansInstalled, TypeOK, StepsInOrder, Behind
  <1>5. ASSUME NEW t \in Sessions, Check(t) PROVE ReadyMeansInstalled'
    BY <1>5
    DEF Check, SetsReady, Go, Sees, ReadyMeansInstalled, TypeOK, StepsInOrder, Behind
  <1>6. ASSUME NEW t \in Sessions, SetUp(t) PROVE ReadyMeansInstalled'
    BY <1>6
    DEF SetUp, Lock, Wants, Go, Sees, ReadyMeansInstalled, TypeOK, StepsInOrder, Behind
  <1>7. ASSUME NEW t \in Sessions, Flag(t) PROVE ReadyMeansInstalled'
    BY <1>7
    DEF Flag, SetsReady, Go, Sees, ReadyMeansInstalled, TypeOK, StepsInOrder, Behind
  <1>8. ASSUME NEW t \in Sessions, Query(t) PROVE ReadyMeansInstalled'
    BY <1>8
    DEF Query, Fail, Keeps, Go, Sees, ReadyMeansInstalled, TypeOK, StepsInOrder, Behind
  <1>9. ASSUME NEW t \in Sessions, WriteOrder(t) PROVE ReadyMeansInstalled'
    BY <1>9
    DEF WriteOrder, Lock, Go, Sees, ReadyMeansInstalled, TypeOK, StepsInOrder, Behind
  <1>10. ASSUME NEW t \in Sessions, WriteEvent(t) PROVE ReadyMeansInstalled'
    BY <1>10
    DEF WriteEvent, Lock, Wants, Locks, Go, Sees, ReadyMeansInstalled, TypeOK, StepsInOrder, Behind
  <1>11. ASSUME NEW t \in Sessions, Commit(t) PROVE ReadyMeansInstalled'
    BY <1>11
    DEF Commit, Keeps, Sees, ReadyMeansInstalled, TypeOK, StepsInOrder, Behind
  <1>12. ASSUME NEW t \in Sessions, Refuse(t) PROVE ReadyMeansInstalled'
    BY <1>12
    DEF Refuse, RollBack, Release, Go, Sees, ReadyMeansInstalled, TypeOK, StepsInOrder, Behind
  <1>13. ASSUME NEW t \in Sessions, BreakDeadlock(t) PROVE ReadyMeansInstalled'
    BY <1>13
    DEF BreakDeadlock, Fail, Keeps, Go, Sees, ReadyMeansInstalled, TypeOK, StepsInOrder, Behind
  <1>14. ASSUME NEW t \in Sessions, Leave(t) PROVE ReadyMeansInstalled'
    BY <1>14
    DEF Leave, RollBack, Release, Go, Sees, ReadyMeansInstalled, TypeOK, StepsInOrder, Behind
  <1>15. CASE Reopen
    BY <1>15 DEF Reopen, Go, Sees, ReadyMeansInstalled, TypeOK, StepsInOrder, Behind
  <1>16. CASE Restart
    BY <1>16 DEF Restart, Sees, ReadyMeansInstalled, TypeOK, StepsInOrder, Behind
  <1>. QED BY <1>1, <1>2, <1>3, <1>4, <1>5, <1>6, <1>7, <1>8, <1>9, <1>10, <1>11, <1>12, <1>13, <1>14, <1>15, <1>16
           DEF Next, Step, Aborted

\* Every step that commits an order has its event or follows a lost setup.
LEMMA RecordedStep ==
    ASSUME TypeOK, CommittedWritesAreRecorded, StepsInOrder, [Next]_vars
    PROVE  CommittedWritesAreRecorded'
  <1>1. CASE UNCHANGED vars
    BY <1>1 DEF vars, CommittedWritesAreRecorded, TypeOK, StepsInOrder, Behind
  <1>2. ASSUME NEW t \in Sessions, Arrive(t) PROVE CommittedWritesAreRecorded'
    BY <1>2
    DEF Arrive, Go, CommittedWritesAreRecorded, TypeOK, StepsInOrder, Behind
  <1>3. ASSUME NEW t \in Sessions, CheckOut(t) PROVE CommittedWritesAreRecorded'
    BY <1>3
    DEF CheckOut, Go, CommittedWritesAreRecorded, TypeOK, StepsInOrder, Behind
  <1>4. ASSUME NEW t \in Sessions, GiveUp(t) PROVE CommittedWritesAreRecorded'
    BY <1>4
    DEF GiveUp, Go, CommittedWritesAreRecorded, TypeOK, StepsInOrder, Behind
  <1>5. ASSUME NEW t \in Sessions, Check(t) PROVE CommittedWritesAreRecorded'
    BY <1>5
    DEF Check, SetsReady, Go, CommittedWritesAreRecorded, TypeOK, StepsInOrder, Behind
  <1>6. ASSUME NEW t \in Sessions, SetUp(t) PROVE CommittedWritesAreRecorded'
    BY <1>6
    DEF SetUp, Lock, Wants, Go, CommittedWritesAreRecorded, TypeOK, StepsInOrder, Behind
  <1>7. ASSUME NEW t \in Sessions, Flag(t) PROVE CommittedWritesAreRecorded'
    BY <1>7
    DEF Flag, SetsReady, Go, CommittedWritesAreRecorded, TypeOK, StepsInOrder, Behind
  <1>8. ASSUME NEW t \in Sessions, Query(t) PROVE CommittedWritesAreRecorded'
    BY <1>8
    DEF Query, Fail, Keeps, Go, CommittedWritesAreRecorded, TypeOK, StepsInOrder, Behind
  <1>9. ASSUME NEW t \in Sessions, WriteOrder(t) PROVE CommittedWritesAreRecorded'
    BY <1>9
    DEF WriteOrder, Lock, Go, CommittedWritesAreRecorded, TypeOK, StepsInOrder, Behind
  <1>10. ASSUME NEW t \in Sessions, WriteEvent(t) PROVE CommittedWritesAreRecorded'
    BY <1>10
    DEF WriteEvent, Lock, Wants, Locks, Go, CommittedWritesAreRecorded, TypeOK, StepsInOrder, Behind
  <1>11. ASSUME NEW t \in Sessions, Commit(t) PROVE CommittedWritesAreRecorded'
    BY <1>11
    DEF Commit, Keeps, CommittedWritesAreRecorded, TypeOK, StepsInOrder, Behind
  <1>12. ASSUME NEW t \in Sessions, Refuse(t) PROVE CommittedWritesAreRecorded'
    BY <1>12
    DEF Refuse, RollBack, Release, Go, CommittedWritesAreRecorded, TypeOK, StepsInOrder, Behind
  <1>13. ASSUME NEW t \in Sessions, BreakDeadlock(t) PROVE CommittedWritesAreRecorded'
    BY <1>13
    DEF BreakDeadlock, Fail, Keeps, Go, CommittedWritesAreRecorded, TypeOK, StepsInOrder, Behind
  <1>14. ASSUME NEW t \in Sessions, Leave(t) PROVE CommittedWritesAreRecorded'
    BY <1>14
    DEF Leave, RollBack, Release, Go, CommittedWritesAreRecorded, TypeOK, StepsInOrder, Behind
  <1>15. CASE Reopen
    BY <1>15 DEF Reopen, Go, CommittedWritesAreRecorded, TypeOK, StepsInOrder, Behind
  <1>16. CASE Restart
    BY <1>16 DEF Restart, CommittedWritesAreRecorded, TypeOK, StepsInOrder, Behind
  <1>. QED BY <1>1, <1>2, <1>3, <1>4, <1>5, <1>6, <1>7, <1>8, <1>9, <1>10, <1>11, <1>12, <1>13, <1>14, <1>15, <1>16
           DEF Next, Step, Aborted

\* The invariant holds at the start.
LEMMA Initially == Init => IInv
  <1>1. SUFFICES ASSUME Init PROVE IInv
    OBVIOUS
  <1>2. /\ pool = {} /\ ~ready /\ ~lost /\ ~unrecorded /\ installed \in BOOLEAN
        /\ ready \in BOOLEAN /\ lost \in BOOLEAN /\ unrecorded \in BOOLEAN
    BY <1>1 DEF Init
  <1>3. \A t \in Sessions : at[t] = "new" /\ held[t] = {}
    BY <1>1 DEF Init
  <1>4. IsFiniteSet(pool) /\ Cardinality(pool) = 0
    BY <1>2, FS_EmptySet
  <1>5. at \in [Sessions -> Steps] /\ held \in [Sessions -> SUBSET Locks]
    BY <1>1 DEF Init, Steps
  <1>6. TypeOK
    BY <1>2, <1>3, <1>4, <1>5, ProcessAssumption DEF TypeOK
  <1>7. IdleHoldsNothing
    BY <1>2, <1>3 DEF IdleHoldsNothing
  <1>8. StepsInOrder
    BY <1>3 DEF StepsInOrder, Behind
  <1>9. ReadyMeansInstalled /\ CommittedWritesAreRecorded
    BY <1>2 DEF ReadyMeansInstalled, CommittedWritesAreRecorded
  <1>. QED BY <1>4, <1>6, <1>7, <1>8, <1>9 DEF IInv

\* Every step keeps the invariant.
LEMMA Inductive == IInv /\ [Next]_vars => IInv'
  BY TypeStep, IdleStep, OrderStep, ReadyStep, RecordedStep DEF IInv

\* So it holds in every state of every behaviour.
LEMMA Always == Spec => []IInv
  BY Initially, Inductive, PTL DEF Spec

\* No two transactions of a process ever hold locks that exclude each other,
\* and its pool is never exceeded, whatever the number of its requests.
THEOREM TypeCorrect == Spec => []TypeOK
  BY Always, PTL DEF IInv

\* No session leaves a connection or a lock behind, however it ends.
THEOREM NothingIsLeaked == Spec => []IdleHoldsNothing
  BY Always, PTL DEF IInv

\* The flag stands for the tables and the trigger, unless a setup was lost.
THEOREM FlagTellsTheTruth == Spec => []ReadyMeansInstalled
  BY Always, PTL DEF IInv

\* No order is committed without its event, unless a setup was lost.
THEOREM EveryWriteIsRecorded == Spec => []CommittedWritesAreRecorded
  BY Always, PTL DEF IInv
====
