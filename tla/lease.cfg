\* One task, two loops with an inbox, and every fault: overlap and staleness.
SPECIFICATION Spec
CONSTANTS
    w1 = w1
    w2 = w2
    email = email
    k1 = k1
    NoKey = NoKey
    NoTask = NoTask
    Task <- OneTask
    Queue <- SameQueue
    Priority <- NoPriority
    MaxRetries <- TwoRetries
    Delay <- NoDelay
    DedupKey <- NoKeys
    VisibilityTimeout = 2
    RetentionDelivered = 1
    RetentionDead = 1
    Worker <- TwoWorkers
    QueueOf <- MCQueueOf
    InboxWorker = {w1, w2}
    Extensions = {1, 3}
    ReaperBatch = 1
    LongestTx = 0
    MaxCrashes = 1
    MaxDbErrors = 1
    MaxOverruns = 1
    MaxRevivals = 1
    MayShutdown = FALSE
SYMMETRY Loops
INVARIANTS
    TypeOK AtLeastOnce Lease AttemptsBounded
    DeadOnlyWhenExhausted RepeatsNeedFaults InboxShields
PROPERTIES
    DeliveredIsFinalInTime KeepsPromises
