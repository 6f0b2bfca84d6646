SPECIFICATION FairSupSpec
CONSTANTS
    Specialists = {"research", "data"}
    Analysts = {"data"}
    Plans <- Shapes
    Graphs = 2
    MaxDelegations = 4
    MaxReviews = 1
    MaxRedelegations = 1
    MaxTools = 2
    MaxLlm = 3
    Headroom = 1
    PreCalls = {1}
    MaxAttempts = 2
    MaxEvents = 1
CONSTRAINT ScopeIsSmall
INVARIANTS
    BudgetIsKept
    NothingIsSkipped
    ExecutionsAreNotReplayed
    MemoryIsExtractedOnce
PROPERTIES
    ResultsAreFinal
    CancelledIsLeftAlone
    GraphsEnd
CHECK_DEADLOCK FALSE
