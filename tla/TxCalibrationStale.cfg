SPECIFICATION Spec
CONSTANTS
    MaxStarts = 2
    MaxLosses = 0
    MaxToggles = 0
INVARIANTS SavedIsRestored
CHECK_DEADLOCK FALSE
