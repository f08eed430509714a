SPECIFICATION LiveSpec
CONSTANTS
    p1 = p1
    p2 = p2
    None = None
    Spots = {p1, p2}
    Buffers = {}
    Conditions = { {"broker"} }
    MaxPending = 1
PROPERTY LedRecovers
CHECK_DEADLOCK FALSE
