SPECIFICATION Spec
CONSTANTS
    c1 = c1
    c2 = c2
    c3 = c3
    p1 = p1
    p2 = p2
    p3 = p3
    b1 = b1
    None = None
    CarOrder <- ThreeCars
    SpotOrder <- ThreeSpots
    BufferOrder <- OneBuffer
    DefaultBuffer = b1
    MaxHours = 0
    MaxStates = 1000
    MaxLevels = 20
    Installations <- NoneOrExit
    Valets = 1
    Prompt = TRUE
    Patient = TRUE
INVARIANT BayPromisedOnce
