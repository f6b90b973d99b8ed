SPECIFICATION FairSpec
CONSTANTS
    None = None
    a = a
    b = b
    Stations = {a, b}
    r1 = r1
    r2 = r2
    Reports = {r1, r2}
    Usual = r1
    MaxRetries = 3
    CallFirst = {a, b}
    UseRr73 = {b}
    Opener = a
    MaxTaps = 3
    MaxUpsets = 2
INVARIANTS ReportsExchanged
PROPERTIES SettledStays StopsCalling CleanAirCompletes
CHECK_DEADLOCK FALSE
