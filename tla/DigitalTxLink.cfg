SPECIFICATION FairSpec
CONSTANTS
    MaxStarts = 2
    MaxLosses = 1
    Frames = 2
INVARIANTS HaltedStaysShut AudioInItsOwnOver CompletedWasHeard NothingLeftBehind
PROPERTIES HaltRefuses StopWins GateSpec ComesToRest
CHECK_DEADLOCK FALSE
