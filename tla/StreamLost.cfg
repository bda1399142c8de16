\* A console whose stream broke off: is it followed by another, or by polls?
CONSTANTS
    Orders <- MCOrders
    Seeded = {1}
    MaxId = 2
    PageSize = 1
    Limit = 2
    Filters <- MCFilters
    Slots = {1}
    Patience = 3
    Gestures = 1
    Nothing = Nothing
SPECIFICATION FairSpec
CHECK_DEADLOCK FALSE
PROPERTIES
    LostStreamFallsBack
