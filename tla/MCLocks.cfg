SPECIFICATION MCSpec
CONSTANTS
    NoProc = NoProc
    Procs = {q1, q2, q3}
    MaxCrashes = 2
    MaxDelays = 1
    Runners = {r1}
    Prompts = {p1, p2}
    Shells = {sh1}
    Cancels = {k1, k2}
    None = None
    Calls = {t1, t2}
    Session = z1
    Directory = d1
    Path = f1
    Nobody = Nobody
INVARIANT
    OneOwner
PROPERTIES
    LockComes
    CancelReturns
    EveryCallReturns
    FilesComeFree
CHECK_DEADLOCK FALSE
