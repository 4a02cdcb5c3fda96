CONSTANTS
    PlanId = {"mine"}
    ReflexId = {}
    FarmId = {}
    EscapeId = {}
    ControlId = {}
    DriftId = {}
    Retreat = {}
    Priority <- MCPriority
    Key <- MCKey
    Budget <- PlanAndFailure
    NoTask = NoTask
    NoItem = NoItem
    NoCtx = NoCtx
    Background = Background
    NoReason = NoReason
    Ctx = {1, 2}
    MaxThreads = 1
    MaxOutbox = 3
    MaxCopies = 2
SPECIFICATION FairSpec
PROPERTIES StuckTaskCleared
CHECK_DEADLOCK FALSE
