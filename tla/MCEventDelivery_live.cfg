SPECIFICATION FairSpec
CONSTANTS
    Sessions = {s1, s2}
    NoSession = NoSession
    MaxBoot = 1
    MaxPress = 2
    Budgets <- LiveBudgets
CHECK_DEADLOCK FALSE
PROPERTIES
    Served
