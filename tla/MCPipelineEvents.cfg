CONSTANTS
    PlanId = {"mine", "retreat"}
    ReflexId = {"reflex"}
    FarmId = {"farm"}
    EscapeId = {"escape"}
    ControlId = {"control"}
    DriftId = {"drift"}
    Retreat = {"retreat", "escape"}
    Priority <- MCPriority
    Key <- MCKey
    Budget <- TwoEvents
    NoTask = NoTask
    NoItem = NoItem
    NoCtx = NoCtx
    Background = Background
    NoReason = NoReason
    Ctx = {1}
    MaxThreads = 2
    MaxOutbox = 2
    MaxCopies = 2
SPECIFICATION Spec
INVARIANTS TypeOK OnlyApproved
PROPERTIES SpentOnceDispatched
CHECK_DEADLOCK FALSE
