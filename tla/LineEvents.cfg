\* Follows, unfollows and their webhooks, late, repeated and lost, around logins and unlinks.
SPECIFICATION Spec
CONSTANTS
    u1 = u1
    u2 = u2
    a1 = a1
    a2 = a2
    s1 = s1
    s2 = s2
    c1 = c1
    c2 = c2
    Users = {u1}
    NoUser = NoUser
    Accounts = {a1}
    NoAccount = NoAccount
    Identity <- OneIdentity
    Sessions = {s1, s2}
    Calls = {c1}
    Lifetime = 1
    MaxEvents = 3
    MaxTime = 3
SYMMETRY LoginSymmetry
INVARIANTS
    LinkFollowsNewestEvent
CHECK_DEADLOCK FALSE
