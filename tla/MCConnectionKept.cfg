CONSTANTS
    Conn = {c1, c2, c3}
    NoConn = NoConn
    Action = {a}
    MaxSent = 0
    MaxRecord = 4
SPECIFICATION Spec
PROPERTIES LiveConnectionKept
