SPECIFICATION MCSpec
CONSTANTS
    Prompts = {p1, p2}
    Commands = {p2}
    Brings = {p1}
    Summaries = {s1}
    Reverts = {k1}
    Skew = 0
    MaxSteps = 2
    MaxStops = 1
    None = None
    Dirs = {d1, d2}
    Requests = {r1, r2}
    Disposals = {x1}
    Alls = {a1, a2}
    Questions = {q1}
    MaxBoots = 3
    MaxStates = 2
    NoDir = NoDir
    w1 = w1
    w2 = w2
    f1 = f1
    f2 = f2
    near = near
    far = far
    Dbs = {near, far}
    Procs = {w1, w2, f1, f2}
    DbOf <- MCDbOf
    Writers = {w1, w2}
    Sessions = {z1}
    Nothing = Nothing
    Recording = TRUE
    MaxEvents = 4
SYMMETRY Symmetry
CONSTRAINTS
    Few
    FewInstances
INVARIANTS
    NothingForgotten
    QuestionsAreReachable
    StatesFollowInstance
    DisposeAllIsThorough
    LogIsWhole
    TablesFollowLog
    GoneStaysGone
PROPERTIES
    ExitHasRead
    StepsHaveWork
    IsLogCopies
CHECK_DEADLOCK FALSE
