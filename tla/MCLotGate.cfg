SPECIFICATION LiveSpec
CONSTANTS
    c1 = c1
    c2 = c2
    c3 = c3
    p1 = p1
    p2 = p2
    p3 = p3
    b1 = b1
    None = None
    CarOrder <- ThreeCars
    SpotOrder <- TwoSpots
    BufferOrder <- OneBuffer
    DefaultBuffer = b1
    MaxHours = 0
    MaxStates = 1000
    MaxLevels = 20
    Installations <- WholeGate
    Valets = 1
    Prompt = TRUE
    Patient = TRUE
PROPERTY ArrivalAnswered
CHECK_DEADLOCK FALSE
