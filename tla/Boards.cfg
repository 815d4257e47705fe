SPECIFICATION Spec
CONSTANTS
    None = None
    LengthSpan = 16
    MaxRuns = 2
    POLL_LIMIT = 2
    Depth = 2
    Words = {0, 1, 2}
    Operand = 4
    AccSpan = 16
    WordSpan = 8
    MAX_VARS = 3
    AssignSpan = 8
    MAX_CLAUSES = 2
    CLAUSE_LEN = 2
    VarSpan = 4
    ClauseSpan = 4
    CycleSpan = 4
    TILE = 2
    Codes = 8
    M = 2
    K1 = 2
    K2 = 4
    N = 2
    Problems <- MCProblems
    SdkProblems <- MCSdkProblems
    Plans <- MCPlans
    EchoCalls <- MCEchoCalls
    MacCalls <- MCMacCalls
    Designs = {"echo", "mac", "sat", "ffn"}
INVARIANTS
    CoreTypeOK
    CoreRight
    VerdictRight
    FfnExact
    SameTiming
PROPERTIES
    EchoesInOrder
    AccumulatesOnce
    ComputeEnds
