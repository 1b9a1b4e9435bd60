SPECIFICATION FairSpec
CONSTANTS
    Tasks = {t1}
    Callers = {c1, c2}
    MaxAttempts = 2
    MaxRetries = 1
    MaxUpdates = 1
    NoEnvelope = NoEnvelope
CHECK_DEADLOCK FALSE
INVARIANTS NothingSilentlyLost DeadLettersExact
PROPERTIES TerminalIsFinal CallReturns
