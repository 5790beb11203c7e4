SPECIFICATION Spec
CONSTANTS
    Texts <- MCTexts
    Spellings <- MCSpellings
    Columns = 3
    LAYOUT_MAX_FRAMES = 4
    Sources <- MCSources
    PARSE_FIX_CAP = 3
    Trees <- MCTrees
INVARIANTS
    LexingIsLossless
    LayoutBalances
    ParserStaysBalanced
    OperandBinds
    TreeWalksAgree
PROPERTIES
    ParseEnds
