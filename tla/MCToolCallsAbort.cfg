SPECIFICATION FairTools
CONSTANTS
    c1 = c1
    c2 = c2
    Calls = {c1, c2}
    MaxAttempts = 2
    Reusable = {c1}
    BreakOnReject = TRUE
PROPERTY
    AbortedToolsStay
CHECK_DEADLOCK FALSE
