SPECIFICATION Spec
CONSTANTS
    CarOrder <- TwoCars
    SpotOrder <- TwoSpots
    BufferOrder <- OneBuffer
    MaxStates = 19
    MaxLevels = 18
INVARIANTS
    PlanIsExecutable
    PlanIsShortest
    SearchIsComplete
CHECK_DEADLOCK FALSE
