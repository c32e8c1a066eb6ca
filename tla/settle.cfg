\* One task of two retries, two loops, every fault once, and a shutdown at any moment.
SPECIFICATION FairSpec
CONSTANTS
    w1 = w1
    w2 = w2
    email = email
    k1 = k1
    NoKey = NoKey
    NoTask = NoTask
    Task <- OneTask
    Queue <- SameQueue
    Priority <- NoPriority
    MaxRetries <- TwoRetries
    Delay <- OneTick
    DedupKey <- NoKeys
    VisibilityTimeout = 1
    RetentionDelivered = 1
    RetentionDead = 1
    Worker <- TwoWorkers
    QueueOf <- MCQueueOf
    InboxWorker = {w1}
    Extensions = {2}
    ReaperBatch = 1
    LongestTx = 1
    MaxCrashes = 1
    MaxDbErrors = 1
    MaxOverruns = 1
    MaxRevivals = 1
    MayShutdown = TRUE
CHECK_DEADLOCK FALSE
INVARIANTS
    OrphansNeedFaults
PROPERTIES
    Settles ShutdownCompletes
