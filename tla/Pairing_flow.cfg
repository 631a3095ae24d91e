SPECIFICATION FairSpec
CONSTANTS
    Flows = {f1, f2}
    NoFlow = NoFlow
    Abandoned = Abandoned
    MaxAttempts = 2
CHECK_DEADLOCK FALSE
INVARIANTS
    TypeOK
    LinkReleased
    EntryComplete
    ErrorFitsProgress
PROPERTIES
    EntryNeverReplaced
    SubmitAnswered
