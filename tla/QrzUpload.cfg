SPECIFICATION FairSpec
CONSTANTS
    None = None
    w1 = w1
    Calls = {w1}
    MaxContacts = 2
    MaxSends = 2
    MaxEdits = 1
    MaxSetups = 2
    MaxFaults = 1
    MaxRestarts = 1
INVARIANTS PostedWhenAsked CheckedWasInserted
PROPERTIES CheckedIsLocked UploadsEnd
CHECK_DEADLOCK FALSE
