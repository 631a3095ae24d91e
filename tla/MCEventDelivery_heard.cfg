SPECIFICATION Spec
CONSTANTS
    Sessions = {s1}
    NoSession = NoSession
    MaxBoot = 1
    MaxPress = 1
    Budgets <- NoFaults
CHECK_DEADLOCK FALSE
INVARIANTS
    ForgottenWereHeard
