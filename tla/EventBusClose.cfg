SPECIFICATION Spec
CONSTANTS
    Clients = {c1, c2}
    Posters = {}
    AsyncPosters = {c1}
    Owners = {}
    Closers = {c2}
    Subjects <- MCOneSubject
    Uses <- MCUses
    Durable = {d}
    Live = {}
    Wants <- MCWants
    BufferSize = 1
    AsyncBufferSize = 1
    MaxCalls = 2
    MaxSubscriptions = 1
CHECK_DEADLOCK FALSE
INVARIANTS CloseLosesNothing
