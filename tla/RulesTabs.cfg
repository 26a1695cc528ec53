\* Two tabs and a limit of one rule, so that each new rule is a race.
SPECIFICATION Spec
CONSTANTS
    Tabs = {t1, t2}
    Ids = {r1, r2}
    NoId = NoId
    MaxRules = 1
    Starts = {8, 9}
    Ends = {10, 11}
    Lengths = {2, 3}
    Opens = 8
    Closes = 11
    MinWindow = 2
    DefaultLength = 2
    Lossy = TRUE
    MaxStray = 1
    MaxCommits = 2
SYMMETRY RulesInterchangeable
INVARIANTS TypeOK RuleLimit OneRuleCall ActsOnFreshList FormIsStorable
CHECK_DEADLOCK FALSE
