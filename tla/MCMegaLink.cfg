SPECIFICATION LinkLiveSpec
CONSTANT NoPort = NoPort
INVARIANTS
    DroppedOnlyIfDisturbed
PROPERTIES
    LinkSettles
    SendHealsReader
    ReaderStops
CHECK_DEADLOCK FALSE
