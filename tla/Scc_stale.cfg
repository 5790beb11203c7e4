SPECIFICATION SccSpec
CONSTANTS
    Inputs <- OneInput1
    Derived <- OneDerived
    Values <- SelfValues
    Bottom <- NoRow
    None = none
    InputDur <- OneDur
    Signatures <- OneSigs
    Bodies <- OneBods
    TextsOf <- SelfTexts
    Routed = {}
    Profiled = {}
    Body <- EffectBody
    MaxReads = 2
    OrphanThreshold = 8
    MaxRev = 2
    CanCancel = FALSE
INVARIANTS
    LiveSlotIsCurrent
