SPECIFICATION LiveSpec
CONSTANTS
    MaxOpens = 3
    None = None
INVARIANTS
    OpenIsTimed
    ServoIsWatched
PROPERTIES
    GateCloses
