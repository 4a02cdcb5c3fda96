CONSTANTS
    Id = {a, b, c, d}
    Capacity = 3
    TTL = 3
    Cell = {a, b}
    Here = a
    Chunk = {x, y}
    MaxZones = 2
    MaxTicks = 2
    MaxEnds = 1
    Event = {1, 2, 3, 4}
    Sent <- MCSent
    TaskOf <- MCTaskOf
    Worker = {w1, w2}
    ChanCap = 1
    BufferCap = 2
    BatchSize = 2
    MaxFaults = 1
    Client = {c1, c2}
    QueueCap = 1
    SendCap = 1
    Caller = {w1, w2}
    Limit = 3
    Key = {a, b}
    Value = {0, 1}
    Broken = Broken
    MaxWrites = 3
SPECIFICATION FairSpec
INVARIANTS TypeOK MemoryBounded StatsNeverOvercount NoPanic SignalNotLost DangerFollowed
PROPERTIES NoEarlyRepeat ExpiredPasses ForgetsOnlyByOverlap LogSpec AcceptedSettled BrokenReleased OpenSilent KillsOnlyStarved
CHECK_DEADLOCK FALSE
