SPECIFICATION FairSpec
CONSTANTS
    w1 = w1
    f1 = f1
    home = home
    away = away
    Dbs = {home, away}
    Procs = {w1, f1}
    DbOf <- MCDbOf
    Up <- MCUp
    Writers = {w1}
    Sessions = {s1}
    Loops = {l1, l2}
    Nothing = Nothing
    Recording = TRUE
    Forms = {"bare", "payload"}
    MaxOps = 2
    MaxEvents = 2
    MaxBreaks = 1
CONSTRAINT OneKind
PROPERTIES
    AbortedLoopEnds
    LoopReconnects
    NextIsReplayed
INVARIANTS
    LoopIsKnown
    ConnectedIsTrue
CHECK_DEADLOCK FALSE
