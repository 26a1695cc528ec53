\* Overlapping logins, unlinks and the login identity of one member.
SPECIFICATION Spec
CONSTANTS
    u1 = u1
    u2 = u2
    a1 = a1
    a2 = a2
    s1 = s1
    s2 = s2
    c1 = c1
    c2 = c2
    Users = {u1, u2}
    NoUser = NoUser
    Accounts = {a1, a2}
    NoAccount = NoAccount
    Identity <- OneIdentity
    Sessions = {s1, s2}
    Calls = {c1, c2}
    Lifetime = 1
    MaxEvents = 0
    MaxTime = 2
SYMMETRY LoginSymmetry
INVARIANTS
    TypeOK
    AcceptedOnce
PROPERTIES
    EndedLoginsStayEnded
    FoundLinksKept
CHECK_DEADLOCK FALSE
