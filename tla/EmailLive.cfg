\* Progress with crashes, losses and a member at work.
SPECIFICATION LiveSpec
CONSTANTS
    u1 = u1
    m1 = m1
    m2 = m2
    w1 = w1
    w2 = w2
    Users = {u1}
    Messages = {m1}
    Owner <- OwnerAll
    Workers = {w1, w2}
    NoMessage = NoMessage
    BatchSize = 1
    MaxAttempts = 2
    Lease = 1
    Window = 3
    ProviderWindow = 4
    Flight = 1
    Backoff <- ShortBackoff
    MaxJitter = 1
    Restless = {u1}
    EventTypes = {}
    MaxEvents = 0
    MaxToken = 2
    MaxAddress = 1
    MaxTime = 6
PROPERTIES
    EveryMessageSettles
\* The clock is bounded, so a state after the last tick may have no step.
CHECK_DEADLOCK FALSE
