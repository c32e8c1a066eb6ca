\* Two tasks of one key, a client and a handler, and the operator's commands.
SPECIFICATION Spec
CONSTANTS
    c1 = c1
    c2 = c2
    email = email
    k1 = k1
    NoKey = NoKey
    NoTask = NoTask
    NoReport = NoReport
    Task <- TwoTasks
    Queue <- SameQueue
    Priority <- MCPriority
    MaxRetries <- MCMaxRetries
    Delay <- NoDelay
    DedupKey <- SameKey
    VisibilityTimeout = 1
    RetentionDelivered = 0
    RetentionDead = 0
    Client <- TwoClients
    Handler = {c2}
    QueueOf <- MCQueueOf
    Extensions = {1}
    Reports <- BelowAndAbove
    ListLimit = 2
    MaxFaults = 1
    MaxCommands = 1
\* Every row may be gone, and then nothing is left to do.
CHECK_DEADLOCK FALSE
INVARIANTS
    TypeOK DedupUnique OneRunPerKey ResultCurrent ResultEarned ProgressCurrent RetryAllTruthful
