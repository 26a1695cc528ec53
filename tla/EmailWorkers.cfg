\* One member who opts out and in, moves address, withdraws and is sent back
\* to the terms while two workers deliver a message and its events come in.
SPECIFICATION Spec
CONSTANTS
    u1 = u1
    m1 = m1
    m2 = m2
    w1 = w1
    w2 = w2
    Users = {u1}
    Messages = {m1}
    Owner <- OwnerAll
    Workers = {w1, w2}
    NoMessage = NoMessage
    BatchSize = 1
    MaxAttempts = 2
    Lease = 2
    Window = 2
    ProviderWindow = 3
    Flight = 1
    Backoff <- ShortBackoff
    MaxJitter = 0
    Restless = {u1}
    EventTypes = {"bounced", "complained"}
    MaxEvents = 2
    MaxToken = 2
    MaxAddress = 2
    MaxTime = 4
SYMMETRY Workers2
INVARIANTS
    TypeOK
    AtMostOneEmail
    NeverMismatchedKey
    OneLeaseHolder
    StatusFollowsEvents
    SuppressionFollowsEvents
    FeedbackCorrelates
PROPERTIES
    DeliversOnce
    UnsubscribeTakesEffect
    SettledIsFinal
\* The clock is bounded, so a state after the last tick may have no step.
CHECK_DEADLOCK FALSE
