SPECIFICATION FairSpec
CONSTANTS
    MaximumGain = 1
    CalibrationStartGain = 1
    MeterTimeout = 2
    HighTimeout = 2
    Settle = 1
    CalibrationSettle = 1
    Stable = 1
    AudioGap = 1
    CalibrationLimit = 3
    CalibrationAudio = 3
    ScheduledStart = 1
    ScheduledGap = 1
    SampleGap = 1
    MinimumHighSamples = 2
    MaxGeneration = 2
INVARIANTS FailClosed
PROPERTIES CalibratedOnEvidence HighOnlyWhenSustained SilenceStops DriveNeverRises FaultsStayInTheirGeneration GateSpec
CHECK_DEADLOCK FALSE
