SPECIFICATION LiveDevicesSpec
CONSTANTS
    cw = cw
    ctr2 = ctr2
    Devices = {cw, ctr2}
    Debounced = {cw}
    Contacts = {"left"}
    MaxEdges = 4
    MaxOpens = 3
    MaxLosses = 2
    MaxModes = 1
INVARIANTS InputsMatchMode
PROPERTIES BrokenContactReleases
CHECK_DEADLOCK FALSE
