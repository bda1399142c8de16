\* A cold start: requests and the stream set up the events at the same time.
CONSTANTS
    r1 = r1
    w1 = w1
    w2 = w2
    Readers = {r1}
    Writers = {w1, w2}
    Stream = stream
    PoolSize = 2
SPECIFICATION FairSpec
CHECK_DEADLOCK FALSE
INVARIANTS
    TypeOK
    IdleHoldsNothing
    ReadyMeansInstalled
    CommittedWritesAreRecorded
PROPERTIES
    EveryRequestEnds
