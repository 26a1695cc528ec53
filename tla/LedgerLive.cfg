\* Two slots in batches of one; runs fail half way.
SPECIFICATION FairSpec
CONSTANTS
    u1 = u1
    u2 = u2
    s1 = s1
    s2 = s2
    r1 = r1
    r2 = r2
    Users = {u1}
    Slots = {s1, s2}
    Rules = {r1}
    RuleOwner <- OwnerOfRule
    DateOf <- SlotDays
    Unknown = {}
    Horizon = 3
    Lateness = 0
    Retention = 1
    MaxBatch = 1
    CleanupBatch = 1
    Restless = {}
    MaxTime = 2
PROPERTIES
    EveryMatchNotified
\* The clock is bounded, so a state after the last tick may have no step.
CHECK_DEADLOCK FALSE
