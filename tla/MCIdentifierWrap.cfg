SPECIFICATION IdSpec
CONSTANTS
    PerTick = 3
    Wrap = 4
    Retention = 2
    MaxClock = 7
    MaxGiven = 2
    MaxBacks = 0
    MaxCleanups = 1
PROPERTY OutputsStay
CHECK_DEADLOCK FALSE
