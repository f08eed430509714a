SPECIFICATION Spec
CONSTANTS
    u1 = u1
    u2 = u2
    Uids = {u1, u2}
    None = None
    Debounce = 3
    MinMinutes = 20
    MaxMinutes = 40
    MaxTicks = 3
    MaxHeld = 7
    MaxEvents = 1
INVARIANT LcdIsUsed
