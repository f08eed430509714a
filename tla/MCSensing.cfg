SPECIFICATION LiveSpec
CONSTANTS
    p1 = p1
    p2 = p2
    None = None
    Spots = {p1, p2}
    Buffers = {}
    Conditions = { {}, {"broker", "board"} }
    MaxPending = 3
INVARIANTS
    TablesFollow
PROPERTIES
    LedFollows
CHECK_DEADLOCK FALSE
