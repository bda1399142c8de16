\* Every malformed payload, zero amounts, and several payloads under one key.
CONSTANTS
    qdii = qdii
    plain = plain
    k1 = k1
    k2 = k2
    w1 = w1
    w2 = w2
    w3 = w3
    Nobody = Nobody
    Workers = {w1, w2}
    NoRow = NoRow
    Keys <- MCKeys
    Products <- MCBoth
    QdiiProducts <- MCQdii
    DailyTotal <- MCTotal
    Cutoff <- MCCutoff
    MarketOffset <- MCOffset
    DayLength = 3
    MaxTime = 2
    Payloads <- MCFormPayloads
    SeedOrders <- MCNoSeeds
SYMMETRY MCSymmetry
SPECIFICATION Spec
INVARIANTS
    AnswersMatchTheBooks
