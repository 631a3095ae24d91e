SPECIFICATION Spec
CONSTANTS
    Clients = {c1, c2}
    Tasks = {t1, t2}
    NoClient = NoClient
    NoTask = NoTask
SYMMETRY Symmetry
INVARIANTS
    TypeOK
    SingleFlight
    NoForgottenAdvertisement
    NoLeakedConnection
    UnloadedIsQuiet
    IInv
