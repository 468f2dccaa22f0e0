SPECIFICATION FlockSpec
CONSTANTS
    Procs = {q1, q2, q3, q4}
    MaxCrashes = 2
    MaxDelays = 0
    NoProc = NoProc
SYMMETRY Symmetry
INVARIANT OneCleansUp
CHECK_DEADLOCK FALSE
