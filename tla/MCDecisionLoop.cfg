CONSTANTS
    Objective = {wood}
    Tag = {1, 2, 3, 4}
    ModelTag = 0
    Item = {}
    MaxTasks = 2
    MaxMail = 1
    NoPlan = NoPlan
    NoEntry = NoEntry
    NoTask = NoTask
SPECIFICATION FairSpec
INVARIANTS TypeOK OneEvaluation
PROPERTIES NewPlanNewIDs PlannerKeepsTrying
