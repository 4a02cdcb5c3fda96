CONSTANTS
    Item <- MCItem
    Curiosity <- MCCuriosity
    NoItem = NoItem
    DedupKey <- MCDedupKey
    Ctx = {c1, c2}
    NoCtx = NoCtx
    DangerSafe = TRUE
    MaxCopies = 1
SPECIFICATION FairSpec
INVARIANTS TypeOK NoLostWakeup ContextsAccountedFor PoppedOutranksActive
PROPERTIES PoppedNotForgotten QueueServed
