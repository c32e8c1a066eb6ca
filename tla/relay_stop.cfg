\* One event, and a relay that stops once.
SPECIFICATION Spec
CONSTANTS
    p1 = p1
    p2 = p2
    order42 = order42
    order43 = order43
    user7 = user7
    order = order
    user = user
    indexer = indexer
    i1 = i1
    i2 = i2
    r1 = r1
    r2 = r2
    NoEntity = NoEntity
    Publisher = {p1}
    Entity = {order42}
    TypeOf <- MCTypeOf
    LastId = 1
    Subscriber = {indexer}
    EntityType <- MCEntityType
    Loop = {}
    SubscriberOf <- MCSubscriberOf
    BatchSize = 2
    Relay = {r1}
    RelayBatch = 1
    MaxCrashes = 1
    MaxDbErrors = 0
    MaxRefusals = 0
    MaxReplays = 0
    MayShutdown = FALSE
INVARIANTS
    RelayLosesNothing
