\* Two invocations and one message of a member who moves the LINE account, leaves
\* the allowlist, and may be deleted.
SPECIFICATION Spec
CONSTANTS
    u1 = u1
    m1 = m1
    m2 = m2
    a1 = a1
    a2 = a2
    Users = {u1}
    Messages = {m1}
    Owner <- OneOwner
    Accounts = {a1, a2}
    NoAccount = NoAccount
    Workers = {w1, w2}
    NoMessage = NoMessage
    Modes = {"allowlist"}
    Canary = u1
    MaxListed = 1
    QuotaLimit = 3
    BatchSize = 1
    MaxAttempts = 2
    Lease = 2
    Window = 2
    ProviderWindow = 3
    Flight = 1
    Backoff <- DoubleEachTime
    Restless = {u1}
    MaxTime = 5
SYMMETRY Interchangeable
INVARIANTS TypeOK QueueKeepsToAllowlist
PROPERTIES DeliversOnce PushInScope
CHECK_DEADLOCK FALSE
