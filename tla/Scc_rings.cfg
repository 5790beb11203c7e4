SPECIFICATION SccSpec
CONSTANTS
    Inputs <- TwoInputs
    Derived <- TwoDerived
    Values <- RingValues
    Bottom <- NoRow
    None = none
    InputDur <- TwoDur
    Signatures <- TwoSigs
    Bodies <- TwoBods
    TextsOf <- RingsOf2
    Routed = {}
    Profiled = {}
    Body <- EffectBody
    MaxReads = 2
    OrphanThreshold = 8
    MaxRev = 1
    CanCancel = TRUE
INVARIANTS
    LiveSlotIsCurrent
    DriveConverges
