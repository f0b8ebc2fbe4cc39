SPECIFICATION FairSpec
CONSTANTS
    a1 = a1
    a2 = a2
    a3 = a3
    b1 = b1
    w1 = w1
    w2 = w2
    w3 = w3
    RepoA = RepoA
    RepoB = RepoB
    NoJob = NoJob
    Shutdown = Shutdown
    Jobs <- MixedJobs
    Cancellable <- MixedCancellable
    Repos <- MixedRepos
    RepoOf <- MixedRepoOf
    Workers = {w1, w2}
    QueueCap = 2
PROPERTIES
    EveryJobEnds
    PoolDrains
\* The service may stop, or wait for a submission nobody makes.
CHECK_DEADLOCK FALSE
