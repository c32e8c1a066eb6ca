\* Two loops with an inbox whose rows outlive every lease, and a crash.
SPECIFICATION Spec
CONSTANTS
    w1 = w1
    w2 = w2
    email = email
    k1 = k1
    NoKey = NoKey
    NoTask = NoTask
    Task <- OneTask
    Queue <- SameQueue
    Priority <- NoPriority
    MaxRetries <- OneRetry
    Delay <- NoDelay
    DedupKey <- NoKeys
    VisibilityTimeout = 1
    RetentionDelivered = 3
    RetentionDead = 1
    Worker <- TwoWorkers
    QueueOf <- MCQueueOf
    InboxWorker = {w1, w2}
    Extensions = {}
    ReaperBatch = 1
    LongestTx = 0
    MaxCrashes = 1
    MaxDbErrors = 0
    MaxOverruns = 0
    MaxRevivals = 0
    MayShutdown = FALSE
INVARIANTS
    InboxSkipsHandled
