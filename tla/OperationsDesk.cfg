\* Seeded orders, confirms and cancels, a market day that is not the quota's day.
CONSTANTS
    qdii = qdii
    plain = plain
    k1 = k1
    k2 = k2
    w1 = w1
    w2 = w2
    w3 = w3
    Nobody = Nobody
    Workers = {w1, w2}
    NoRow = NoRow
    Keys <- MCKeys
    Products <- MCBoth
    QdiiProducts <- MCQdii
    DailyTotal <- MCTotal
    Cutoff <- MCCutoff
    MarketOffset <- MCAhead
    DayLength = 3
    MaxTime = 3
    Payloads <- MCDeskPayloads
    SeedOrders <- MCSeeds
SYMMETRY MCSymmetry
SPECIFICATION Spec
INVARIANTS
    BooksAgree
    TrailExplainsStatus
    NoWaitCycle
PROPERTIES
    HistoryIsKept
    RequestsAreAtomic
