\* A cycle of the calendar by days, one day by seconds; the constants of the code.
SPECIFICATION Spec
CONSTANTS
    Bin <- MCBin
    PERIOD_SECS = 30
    DRIFT_STEPS = 1
    Modulus = 1000000
    Malformed = Malformed
    DetailDays = 1
    WholeDays = 24855
INVARIANTS
    PrintsTheCalendar
    AcceptsWithinDrift
