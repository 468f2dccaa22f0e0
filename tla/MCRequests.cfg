SPECIFICATION MCSpec
CONSTANTS
    a1 = a1
    a2 = a2
    a3 = a3
    s1 = s1
    s2 = s2
    main = main
    env = env
    Asks = {a1, a2, a3}
    NoAsk = NoAsk
    Replies = {r1, r2}
    Sessions = {s1, s2}
    Things = {main, env}
    SessionOf <- MCSessionOf
    Wants <- MCWants
    Always <- MCAlways
    Ruleset <- MCRuleset
    Stored <- MCStored
    Interruptible = {a1}
    MaxDisposals = 1
    c1 = c1
    c2 = c2
    Calls = {c1, c2}
    MaxAttempts = 2
    Reusable = {c1}
    BreakOnReject = TRUE
INVARIANTS
    NothingGoesUnasked
    NoPeerLeftBehind
    AnswersAreHeard
    NothingLeftOpen
    RejectionsStop
PROPERTIES
    AskReturns
    VerdictsStand
    AbortsEnd
CHECK_DEADLOCK FALSE
