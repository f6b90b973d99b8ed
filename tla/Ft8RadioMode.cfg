SPECIFICATION FairSpec
CONSTANTS
    usb = usb
    data = data
    a = a
    b = b
    None = None
    Modes = {usb, data}
    DataModes = {data}
    Data = data
    Subs = {a, b}
    SubA = a
    MaxOpens = 2
    MaxEvents = 2
INVARIANTS SetsOffAir RestoresEntry
PROPERTIES ReturnsToDataA
CHECK_DEADLOCK FALSE
