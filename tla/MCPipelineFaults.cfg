CONSTANTS
    PlanId = {"mine"}
    ReflexId = {}
    FarmId = {}
    EscapeId = {}
    ControlId = {}
    DriftId = {}
    Retreat = {}
    Priority <- MCPriority
    Key <- MCKey
    Budget <- Faults
    NoTask = NoTask
    NoItem = NoItem
    NoCtx = NoCtx
    Background = Background
    NoReason = NoReason
    Ctx = {1}
    MaxThreads = 1
    MaxOutbox = 3
    MaxCopies = 2
SPECIFICATION FairSpec
INVARIANTS RetryPerStart
PROPERTIES EndUnblocksQueue
CHECK_DEADLOCK FALSE
