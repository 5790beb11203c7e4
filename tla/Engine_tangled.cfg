SPECIFICATION FairSpec
CONSTANTS
    Inputs <- OneInput
    Derived <- TangledDerived
    Values = {0, 1}
    Bottom = bottom
    None = none
    InputDur <- OneInputDur
    Routed = {"y"}
    Profiled = {"z"}
    Body <- TangledBody
    MaxReads = 2
    OrphanThreshold = 1
    MaxRev = 3
    CanCancel = TRUE
INVARIANTS
    InputsAreAuthoritative
    TypeOK
    MemoIsReplayable
    StackIsSimple
    RunningIsAccounted
    NoRunningBetweenRequests
PROPERTIES
    VerifiedIsFinal
    CallsReturn
