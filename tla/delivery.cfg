SPECIFICATION FairSpec
CONSTANTS
    t1 = t1
    t2 = t2
    s1 = s1
    Nobody = Nobody
    Visual = Visual
    Docs = Docs
    Task = {t1, t2}
    Spare = {s1}
    Plans <- MCPlans
    Modes = {"agentic", "worktree", "described"}
    MaxAttempts = 1
    MaxConcurrency = 2
    ReplanRounds = 1
    FixRounds = 0
    MaxAsked = 1
    MaxStale = 1
    MaxRuns = 1
    Limit = 3
    Reserve = 2
    MaxCost = 1
INVARIANTS
    OnlyGatedWork
    SpendingBounded
    PopsOwn
PROPERTIES
    RunsEnd
\* The operator need not start the feature again.
CHECK_DEADLOCK FALSE
