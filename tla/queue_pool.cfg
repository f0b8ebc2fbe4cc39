SPECIFICATION Spec
CONSTANTS
    a1 = a1
    a2 = a2
    a3 = a3
    b1 = b1
    w1 = w1
    w2 = w2
    w3 = w3
    RepoA = RepoA
    RepoB = RepoB
    NoJob = NoJob
    Shutdown = Shutdown
    Jobs <- SameJobs
    Cancellable <- SameJobs
    Repos <- SameRepos
    RepoOf <- SameRepoOf
    Workers = {w1, w2, w3}
    QueueCap = 3
SYMMETRY Alike
INVARIANTS
    RepoExclusive
    NoJobLost
PROPERTIES
    NoOvertaking
    ImplementsLifecycle
\* The service may stop, or wait for a submission nobody makes.
CHECK_DEADLOCK FALSE
