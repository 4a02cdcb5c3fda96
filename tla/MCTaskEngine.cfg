CONSTANTS
    Id = {a, b}
    NoTask = NoTask
    MaxThreads = 2
    Ctx = {c1}
    Background = Background
    Reason = {"plan_invalidated"}
    NoReason = NoReason
    MaxOutbox = 1
SPECIFICATION Spec
INVARIANTS InFlightWatched
