CONSTANTS
    Task <- MCTask
    Drift = {"idle1"}
    Kind <- MCKind
    DeclaredPriority <- MCDeclaredPriority
    Cause <- MCCause
    NoTask = NoTask
    DangerFeed = FALSE
    MaxRetries = 2
    InitialBackoff = 1
    MaxBackoff = 2
    PanicCooldown = 2
    SurvivalTimeout = 2
    SurvivalMinHold = 1
    NormalTimeout = 2
    AgeCap = 3
    MaxFailures = 2
SPECIFICATION Spec
PROPERTIES CompletionEndsLease
