SPECIFICATION Spec
CONSTANTS
    PartsRun = {"rows", "flow", "eval", "scopes", "infer", "map", "strings", "arena", "intern"}
    Labels = {1, 2}
    Callees <- MCCallees
    MaxVars = 3
    MaxSteps = 4
    HOPS = 4
    SharedRows <- MCSharedRows
    WORD = 4
    Sources <- MCSources
    Operands = {0, 1, 7, 15}
    Annotations <- MCAnnotations
    Signatures <- MCSignatures
    ArgTypes <- MCArgTypes
    Aggregates <- MCAggregates
    LAYOUT_CYCLE_STACK_MAX = 2
    MaxTypeVars = 2
    MaxMoves = 3
    Programs <- MCAllPrograms
    EVAL_CYCLE_DEPTH_MAX = 4
    EVAL_BRANCH_QUOTA = 5
    FRAME_CAP = 3
    BodyTrees <- MCBodyTrees
    TopNames = {"a", "t", "c", "p"}
    Exempt = {"p"}
    PreludeNames = {"b"}
    MaxEdits = 2
    Functions <- MCFunctions
    MapKeys = {1, 2, 3, 4, 5, 6}
    hash_u64 <- MCHashU64
    MapValues = {NULL, v}
    NULL = NULL
    HASHMAP_MIN_CAPACITY = 4
    MaxCapacity = 16
    Strings = {"", "a", "b", "c", "ab", "ba", "abc"}
    strlen <- MCStrlen
    hash_bytes <- MCHashBytes
    POOL_SLOTS = 4
    MaxSlots = 16
    Batches = {2, 5}
    CHUNK_WORDS = 2
    AllocSizes = {1, 3}
    MaxGenerations = 3
    MaxWords = 6
    Primitives = 3
    Keys <- MCKeys
    IpHash <- MCIpHash
    INITIAL_BUCKETS = 8
    MaxItems = 13
    MaxFreshVars = 1
INVARIANTS
    EffectsAccounted
    ConstantsAreExact
    CoercionIsSafe
    FoldsAsMeant
    NamesResolveLexically
    TerminationSound
    SwitchCoverage
    HashMapIsAMap
    StrIdsAreNames
    OffsetsResolve
    IndexIsIdentity
PROPERTIES
    EvalEnds
CHECK_DEADLOCK FALSE
