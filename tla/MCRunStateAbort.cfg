SPECIFICATION Spec
CONSTANTS
    Runners = {r1, r2, r3}
    Prompts = {p1, p2, p3, p4}
    Shells = {}
    Cancels = {c1, c2, c3}
    Checks = {}
    None = None
    Skipped = Skipped
    Preemptive = FALSE
SYMMETRY Symmetry
PROPERTIES
    AbortStopsProcessing
CHECK_DEADLOCK FALSE
