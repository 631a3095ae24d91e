SPECIFICATION Spec
CONSTANTS
    Handlers = {h1, h2}
    Starter = Starter
    NoCoro = NoCoro
    Setups <- SafetySetups
    Strays <- SetupStrays
    MaxQueue = 2
SYMMETRY Symmetry
CHECK_DEADLOCK FALSE
INVARIANTS
    TypeOK
    SessionInv
    NoSpuriousFailure
    RefusesOnlyGaps
    AckedWereDelivered
    ReadyIsDecided
    CredentialsConfirmed
PROPERTIES
    EventsInOrder
    ReadyNotSpurious
    ImplementsOutcome
