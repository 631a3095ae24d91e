SPECIFICATION Spec
CONSTANTS
    Sessions = {s1, s2}
    NoSession = NoSession
    MaxBoot = 2
    MaxPress = 2
    Budgets <- SafetyBudgets
SYMMETRY Symmetry
CHECK_DEADLOCK FALSE
INVARIANTS
    TypeOK
    CountsAreHandled
    NothingRepeated
    DeliveryInv
PROPERTIES
    ImplementsDelivery
