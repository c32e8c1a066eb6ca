\* Everything published arrives, whatever fails once; two relays, a shutdown at
\* any moment.
SPECIFICATION FairSpec
CONSTANTS
    p1 = p1
    p2 = p2
    order42 = order42
    order43 = order43
    user7 = user7
    order = order
    user = user
    indexer = indexer
    i1 = i1
    i2 = i2
    r1 = r1
    r2 = r2
    NoEntity = NoEntity
    Publisher = {p1, p2}
    Entity = {order42}
    TypeOf <- MCTypeOf
    LastId = 2
    Subscriber = {indexer}
    EntityType <- MCEntityType
    Loop = {i1}
    SubscriberOf <- MCSubscriberOf
    BatchSize = 2
    Relay = {r1, r2}
    RelayBatch = 2
    MaxCrashes = 1
    MaxDbErrors = 1
    MaxRefusals = 1
    MaxReplays = 0
    MayShutdown = TRUE
CHECK_DEADLOCK FALSE
INVARIANTS
    RedeliveryHasCause RelayedOnce RelayKeeps
PROPERTIES
    Arrives ShutdownCompletes
