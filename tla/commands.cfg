SPECIFICATION FairSpec
CONSTANTS
    e1 = e1
    d1 = d1
    d2 = d2
    c1 = c1
    v1 = v1
    v2 = v2
    v3 = v3
    t1 = t1
    t2 = t2
    Caller <- MCCaller
    JsonRetries = 1
    Limit = 2
    Reserve = 0
    MaxCost = 1
    Attempts = 2
    Human = Human
    Engineer = e1
    Check = {k1}
    FixRounds = 2
    MaxPolls = 2
    Path = {p1, p2}
    Product = {p1}
    Missing = Missing
    Inventory = "inventory"
    Deep = {d1, d2}
    Conventions = "conventions"
    Component = {c1}
    Recommendation = "recommendation"
    Summary = "summary"
    Voter = {v1, v2, v3}
    Agent = e1
    Task = {t1, t2}
    Graphs <- MCGraphs
    Revisions = 1
    Triage = e1
    Handoffs = 2
    Lines <- MCLines
    MaxJobs = 2
    Audits <- MCAudits
    MaxRestarts = 2
    Trees <- MCTrees
    MaxDependencies = 2
    MaxExpansions = 12
    Services <- MCServices
INVARIANTS
    AllOrReviewed
    LeavesNothing
    ZeroMeansPublished
    FindingsAgree
    HonestScan
PROPERTIES
    HumanWorkKept
    Honoured
    SuccessSticks
    StopsGracefully
    CommandEnds
\* The program ends, and a human need not answer.
CHECK_DEADLOCK FALSE
