SPECIFICATION Spec
CONSTANTS
    MaxOpens = 2
    None = None
PROPERTIES
    ClosesAfterDelay
