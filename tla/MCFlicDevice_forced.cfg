SPECIFICATION FairSpec
CONSTANTS
    Clients = {c1, c2}
    Tasks = {t1, t2}
    NoClient = NoClient
    NoTask = NoTask
PROPERTY
    ForcedDropIsStale
