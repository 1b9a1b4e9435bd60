SPECIFICATION FairSpec
CONSTANTS
    Clients = {c1, c2}
    Posters = {c1}
    AsyncPosters = {c1}
    Owners = {c2}
    Closers = {c2}
    Subjects <- MCSubjects
    Uses <- MCUses
    Durable = {d}
    Live = {l}
    Wants <- MCWants
    BufferSize = 2
    AsyncBufferSize = 1
    MaxCalls = 3
    MaxSubscriptions = 1
CHECK_DEADLOCK FALSE
INVARIANTS TypeOK ExactlyOnePlace PublisherOrder SnapshotFirst AsyncAccounted
PROPERTIES DurableDelivered CloseReturns
