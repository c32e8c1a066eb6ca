\* Two transactions commit against the order of their ids.
SPECIFICATION Spec
CONSTANTS
    p1 = p1
    p2 = p2
    order42 = order42
    order43 = order43
    user7 = user7
    order = order
    user = user
    indexer = indexer
    i1 = i1
    i2 = i2
    r1 = r1
    r2 = r2
    NoEntity = NoEntity
    Publisher = {p1, p2}
    Entity = {order42}
    TypeOf <- MCTypeOf
    LastId = 3
    Subscriber = {indexer}
    EntityType <- MCEntityType
    Loop = {i1}
    SubscriberOf <- MCSubscriberOf
    BatchSize = 2
    Relay = {}
    RelayBatch = 2
    MaxCrashes = 0
    MaxDbErrors = 0
    MaxRefusals = 0
    MaxReplays = 0
    MayShutdown = FALSE
INVARIANTS
    NothingSkipped
