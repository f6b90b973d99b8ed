SPECIFICATION FairSpec
CONSTANTS
    a = a
    b = b
    c = c
    NoRadio = NoRadio
    Radios = {a, b, c}
    Local = {c}
    Encrypted = {b, c}
    MaxTaps = 4
INVARIANTS ConnectedIsLive UiAgrees AddressedAsAsked
PROPERTIES Settles
CHECK_DEADLOCK FALSE
