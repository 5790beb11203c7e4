SPECIFICATION Spec
CONSTANTS
    Files <- Both
    Texts <- AllTexts
    TextsOf <- AB
    None = none
    MaxVersion <- Edits
    Watched = {"b"}
INVARIANTS
    PublishedIsCurrent
    NudgeCoversChange
    NoOlderEditWins
CHECK_DEADLOCK FALSE
