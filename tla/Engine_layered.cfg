SPECIFICATION Spec
CONSTANTS
    Inputs <- MCInputs
    Derived <- LayeredDerived
    Values = {0, 1}
    Bottom = bottom
    None = none
    InputDur <- MCInputDur
    Routed = {"items"}
    Profiled = {"ast"}
    Body <- LayeredBody
    MaxReads = 2
    OrphanThreshold = 1
    MaxRev = 3
    CanCancel = FALSE
INVARIANTS
    LiveSlotIsCurrent
PROPERTIES
    AnswersAreFromScratch
