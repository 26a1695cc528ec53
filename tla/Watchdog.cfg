\* Two overlapping invocations; a dispatched run may carry the title or not.
SPECIFICATION Spec
CONSTANTS
    i1 = i1
    i2 = i2
    Invocations = {i1, i2}
    StaleAfter = 4
    SnapshotAge = 1
    Lease = 2
    Cooldown = 3
    Deadline = 1
    Service <- Closes
    FallbackMarks = {TRUE, FALSE}
    Nobody = Nobody
    MaxRuns = 3
    MaxTime = 9
SYMMETRY Calls
INVARIANTS
    TypeOK
    CooldownHolds
    OneClaimHolder
PROPERTIES
    DispatchIsNeeded
\* The clock is bounded, so a state after the last tick may have no step.
CHECK_DEADLOCK FALSE
