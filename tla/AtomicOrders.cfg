\* The promise itself, over two days and both products.
CONSTANTS
    qdii = qdii
    plain = plain
    k1 = k1
    k2 = k2
    NoRow = NoRow
    Keys <- MCKeys
    Products <- MCBoth
    QdiiProducts <- MCQdii
    DailyTotal <- MCTotal
    Cutoff <- MCCutoff
    MarketOffset <- MCAhead
    DayLength = 3
    MaxTime = 4
    Payloads <- MCBookPayloads
    SeedOrders <- MCSeeds
SYMMETRY MCKeySymmetry
SPECIFICATION Spec
CHECK_DEADLOCK FALSE
INVARIANTS
    TypeOK
    QuotaMatchesAllocations
    BooksAgree
    RecordsComplete
PROPERTIES
    HistoryIsKept
