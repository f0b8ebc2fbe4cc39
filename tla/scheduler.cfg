SPECIFICATION FairSpec
CONSTANTS
    PlanLength = 4
    MaxConcurrency = 2
INVARIANTS
    BuildsOnDone
    ExactCascade
    SortableReturns
PROPERTIES
    SlotsAreFilled
\* schedule() returns or raises.
CHECK_DEADLOCK FALSE
