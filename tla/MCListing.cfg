SPECIFICATION ListingSpec
CONSTANTS
    Row = {1, 2, 3, 4}
    Limit = {1, 2}
    PerMillisecond = 2
    MaxTime = 3
INVARIANT NothingListedTwice
INVARIANT SteadyRowsListed
PROPERTY PagesAdvance
CHECK_DEADLOCK FALSE
