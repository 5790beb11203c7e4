SPECIFICATION SccFairSpec
CONSTANTS
    Inputs <- TwoInputs
    Derived <- TwoDerived
    Values <- EditValues
    Bottom <- NoRow
    None = none
    InputDur <- TwoDur
    Signatures <- TwoSigs
    Bodies <- TwoBods
    TextsOf <- EditTexts
    Routed = {}
    Profiled = {}
    Body <- EffectBody
    MaxReads = 3
    OrphanThreshold = 8
    MaxRev = 2
    CanCancel = FALSE
INVARIANTS
    SccEndsWithItsCall
    ProvisionalIsRunning
PROPERTIES
    SccCallsReturn
