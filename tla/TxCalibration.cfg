SPECIFICATION FairSpec
CONSTANTS
    MaxStarts = 2
    MaxLosses = 1
    MaxToggles = 1
INVARIANTS KeyedInTest NothingLeftBehind RestoresTest
PROPERTIES ComesToRest
CHECK_DEADLOCK FALSE
