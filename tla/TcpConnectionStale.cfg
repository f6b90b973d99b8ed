SPECIFICATION Spec
CONSTANTS
    a = a
    b = b
    NoRadio = NoRadio
    Radios = {a, b}
    Local = {a, b}
    Encrypted = {}
    MaxTaps = 2
INVARIANTS ConnectedAsAsked
CHECK_DEADLOCK FALSE
