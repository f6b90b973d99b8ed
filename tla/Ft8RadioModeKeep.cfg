SPECIFICATION FairSpec
CONSTANTS
    usb = usb
    data = data
    a = a
    b = b
    None = None
    Modes = {usb, data}
    DataModes = {data}
    Data = data
    Subs = {a, b}
    SubA = a
    MaxOpens = 1
    MaxEvents = 2
PROPERTIES KeepsDataA
CHECK_DEADLOCK FALSE
