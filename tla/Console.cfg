\* One console, its stream and its polls, over other people's transactions.
CONSTANTS
    Orders <- MCOrders
    Seeded = {1}
    MaxId = 3
    PageSize = 1
    Limit = 2
    Filters <- MCFilters
    Slots = {1, 2}
    Patience = 2
    Gestures = 1
    Nothing = Nothing
SPECIFICATION FairSpec
CHECK_DEADLOCK FALSE
INVARIANTS
    TypeOK
    StaleRowsAreDue
PROPERTIES
    LiveViewsConverge
