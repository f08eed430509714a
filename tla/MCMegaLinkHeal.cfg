SPECIFICATION LinkLiveSpec
CONSTANT NoPort = NoPort
PROPERTY ReaderHeals
CHECK_DEADLOCK FALSE
