SPECIFICATION FairSpec
CONSTANTS
    w1 = w1
    f1 = f1
    home = home
    away = away
    Dbs = {home, away}
    Procs = {w1, f1}
    DbOf <- MCDbOf
    Up <- MCUp
    Writers = {w1}
    Sessions = {s1}
    Loops = {l1}
    Nothing = Nothing
    Recording = TRUE
    Forms = {"bare"}
    MaxOps = 1
    MaxEvents = 2
    MaxBreaks = 0
PROPERTY FollowersCatchUp
CHECK_DEADLOCK FALSE
