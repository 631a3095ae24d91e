SPECIFICATION FairSpec
CONSTANTS
    Handlers = {h1, h2}
    Starter = Starter
    NoCoro = NoCoro
    Setups <- LiveSetups
    Strays <- SetupStrays
    MaxQueue = 2
CHECK_DEADLOCK FALSE
PROPERTY
    SessionDecided
