\* The login identity is linked while a callback of the same member is writing.
SPECIFICATION Spec
CONSTANTS
    u1 = u1
    u2 = u2
    a1 = a1
    a2 = a2
    s1 = s1
    s2 = s2
    c1 = c1
    c2 = c2
    Users = {u1}
    NoUser = NoUser
    Accounts = {a1, a2}
    NoAccount = NoAccount
    Identity <- OneIdentity
    Sessions = {s1}
    Calls = {c1}
    Lifetime = 4
    MaxEvents = 0
    MaxTime = 1
SYMMETRY LoginSymmetry
PROPERTIES
    AccountPreserved
CHECK_DEADLOCK FALSE
