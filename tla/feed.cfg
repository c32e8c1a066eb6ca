\* Two transactions, two loops of one subscriber: crashes, refusals, replays.
SPECIFICATION Spec
CONSTANTS
    p1 = p1
    p2 = p2
    order42 = order42
    order43 = order43
    user7 = user7
    order = order
    user = user
    indexer = indexer
    i1 = i1
    i2 = i2
    r1 = r1
    r2 = r2
    NoEntity = NoEntity
    Publisher = {p1, p2}
    Entity = {order42, user7}
    TypeOf <- MCTypeOf
    LastId = 3
    Subscriber = {indexer}
    EntityType <- MCEntityType
    Loop = {i1, i2}
    SubscriberOf <- MCSubscriberOf
    BatchSize = 2
    Relay = {}
    RelayBatch = 2
    MaxCrashes = 1
    MaxDbErrors = 0
    MaxRefusals = 1
    MaxReplays = 1
    MayShutdown = FALSE
SYMMETRY Twins
INVARIANTS
    TypeOK NoSkip InOrder QuietReplayHonoured SnapshotAgrees
PROPERTIES
    KeepsOrder
