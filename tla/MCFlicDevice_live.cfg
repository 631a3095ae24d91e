SPECIFICATION FairSpec
CONSTANTS
    Clients = {c1}
    Tasks = {t1, t2}
    NoClient = NoClient
    NoTask = NoTask
PROPERTIES
    PendingServed
    AttemptsEnd
    StopCompletes
    DeadClientForgotten
