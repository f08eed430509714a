SPECIFICATION LiveSpec
CONSTANTS
    Commands <- GateCommands
    Bytes = {"g", "o", "c", "s", "r", "e"}
    Devices = {"gate"}
    Return = "r"
    Eol = "e"
    RingSize = 6
    LineMax = 6
    MaxSent = 3
    MaxResets = 1
INVARIANTS
    TypeOK
    RingIsQueue
    WholeObeyed
    NoOtherObeyed
PROPERTIES
    LastWins
CHECK_DEADLOCK FALSE
