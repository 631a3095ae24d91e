SPECIFICATION Spec
CONSTANTS
    Flows = {f1}
    NoFlow = NoFlow
    Abandoned = Abandoned
    MaxAttempts = 1
CHECK_DEADLOCK FALSE
INVARIANTS
    TimeoutMeansSilence
