SPECIFICATION Spec
CONSTANTS
    t1 = t1
    t2 = t2
    s1 = s1
    Nobody = Nobody
    Visual = Visual
    Docs = Docs
    Task = {t1, t2}
    Spare = {}
    Plans <- MCPlans
    Modes = {"agentic"}
    MaxAttempts = 1
    MaxConcurrency = 2
    ReplanRounds = 0
    FixRounds = 1
    MaxAsked = 0
    MaxStale = 0
    MaxRuns = 2
    Limit = 2
    Reserve = 1
    MaxCost = 1
INVARIANTS
    ResumableWork
PROPERTIES
    ImplementsLedger
\* The operator need not start the feature again.
CHECK_DEADLOCK FALSE
