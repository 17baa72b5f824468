\* Three rows in three milliseconds, pages of two.
SPECIFICATION FairSpec
CONSTANTS
    Ids = {1, 2, 3}
    PageSize = 2
    TicksPerMs = 2
    Retention = 3
    BatchSize = 1
    MaxTime = 5
INVARIANTS
    TypeOK
    WalkComplete
PROPERTIES
    RepeatsWithinMillisecond
    FollowPrintsAll
\* A walk ends, and no more rows may come.
CHECK_DEADLOCK FALSE
