\* One member, two slots of which one is of a facility that is not listed, batches
\* of one, requests that land a day late.
SPECIFICATION Spec
CONSTANTS
    u1 = u1
    u2 = u2
    s1 = s1
    s2 = s2
    r1 = r1
    r2 = r2
    Users = {u1}
    Slots = {s1, s2}
    Rules = {r1}
    RuleOwner <- OwnerOfRule
    DateOf <- SlotDays
    Unknown = {s2}
    Horizon = 2
    Lateness = 1
    Retention = 3
    MaxBatch = 1
    CleanupBatch = 1
    Restless = {u1}
    MaxTime = 5
INVARIANTS
    TypeOK
    SlotNotifiedOnce
    OpenMessageHasItems
PROPERTIES
    NotifiedWhileOffered
    NotifiedAsAsked
\* The clock is bounded, so a state after the last tick may have no step.
CHECK_DEADLOCK FALSE
