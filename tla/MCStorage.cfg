SPECIFICATION Spec
CONSTANTS
    Cards = {a, b}
    Spots = {p1}
    Buffers = {b1}
    None = None
    MaxHours = 0
SYMMETRY CardSymmetry
INVARIANTS
    RecordConsistent
    CheckoutActedOn
PROPERTIES
    LocationConfirmed
    DepartureConfirmed
    DepartureNotMissed
