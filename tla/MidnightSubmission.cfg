\* A submission that outlives its market's day.
CONSTANTS
    near = near
    twin = twin
    far = far
    o1 = o1
    o2 = o2
    NoRow = NoRow
    NoDate = NoDate
    Products <- MCProducts
    Market <- MCMarket
    Currency <- MCCurrency
    Cutoff <- MCCutoff
    MarketOffset <- MCOffset
    DayLength = 3
    Start = 10
    MaxTime = 14
    Calendars <- MCCalendars
    Ids = {o1, o2}
    Amounts = {1}
    Loaded <- MCLoaded
    Queries <- MCQueries
SPECIFICATION Spec
SYMMETRY Same
CHECK_DEADLOCK FALSE
INVARIANTS
    SettlementFromTradeDate
