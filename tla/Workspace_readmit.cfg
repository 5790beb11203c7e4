SPECIFICATION WSpec
CONSTANTS
    Inputs <- WInputs
    Derived <- WDerived
    Values <- WValues
    Bottom = null
    None = none
    InputDur <- WInputDur
    Routed = {}
    Profiled = {}
    Body <- WorkspaceBody
    MaxReads = 3
    OrphanThreshold = 8
    MaxRev = 4
    CanCancel = FALSE
    Files <- Both
    Texts <- TwoTexts
    TextsOf <- LibChanges
    ImportOf <- MainImportsLib
    MaxEvents = 2
INVARIANTS
    ReadmittedFileExports
VIEW View
