SPECIFICATION LiveSpec
CONSTANTS
    cw = cw
    ctr2 = ctr2
    Sources = {cw, ctr2}
    FirstMode = "B"
    MaxPresses = 2
    MaxClears = 1
    MaxSettings = 1
INVARIANTS DownPaddleKeys
PROPERTIES ElementsAreDue DownPaddleGetsElement FallsSilent
CHECK_DEADLOCK FALSE
