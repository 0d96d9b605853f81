SPECIFICATION Spec
CONSTANTS
    HistorySize = 3
    Values <- MCValues
    Entered <- MCEntered
    MaxTime = 3
INVARIANTS
    TypeOK
    HistoryInOrder
    ShownIsFresh
PROPERTY
    ImplementsSlidingWindow
CHECK_DEADLOCK FALSE
