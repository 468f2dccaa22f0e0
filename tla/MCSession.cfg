SPECIFICATION MCSpec
CONSTANTS
    Runners = {r1, r2, r3}
    Prompts = {p1, p2}
    Shells = {s1, s2}
    Cancels = {c1, c2}
    Checks = {k1}
    None = None
    Skipped = Skipped
    Preemptive = FALSE
    PerTick = 3
    Wrap = 4
    Retention = 2
    MaxClock = 4
    MaxGiven = 3
    MaxBacks = 1
    MaxCleanups = 1
    f1 = f1
    f2 = f2
    d1 = d1
    Calls = {t1, t2}
    Users = {u1}
    Directories = {d1}
    Sessions = {z1, z2}
    DirOf <- MCDirOf
    Readers = {z1}
    Checking = TRUE
    MaxDisposals = 1
    Files = {f1, f2}
    Patches <- MCPatches
    Nobody = Nobody
SYMMETRY FewerSymmetry
INVARIANTS
    NoOrphanWork
    NoStrandedWaiter
    CancelOutlivesTarget
    QuietMeansIdle
    OneWorkPerSession
    IdsRise
PROPERTIES
    DroppedNeverStarts
    IsSingleFlight
    FreeMeansNobodyWorks
    NewsIsKept
    EditsKeepEdits
CHECK_DEADLOCK FALSE
