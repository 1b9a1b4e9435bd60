SPECIFICATION Spec
CONSTANTS
    Clients = {c1, c2}
    Posters = {c1, c2}
    AsyncPosters = {}
    Owners = {c1}
    Closers = {}
    Subjects <- MCOneSubject
    Uses <- MCUses
    Durable = {d}
    Live = {}
    Wants <- MCWants
    BufferSize = 1
    AsyncBufferSize = 1
    MaxCalls = 2
    MaxSubscriptions = 1
CHECK_DEADLOCK FALSE
INVARIANTS DurableInPublishOrder
