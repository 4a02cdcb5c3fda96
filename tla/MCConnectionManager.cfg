CONSTANTS
    Conn = {c1, c2}
    NoConn = NoConn
    Action = {a}
    MaxSent = 2
    MaxRecord = 4
SPECIFICATION FairSpec
INVARIANTS DeliveredInOrder
PROPERTIES ReplacedGetsNoNews BrokenForgotten
CHECK_DEADLOCK FALSE
