SPECIFICATION FairSpec
CONSTANTS
    a1 = a1
    a2 = a2
    a3 = a3
    s1 = s1
    s2 = s2
    main = main
    env = env
    Asks = {a1, a2, a3}
    NoAsk = NoAsk
    Replies = {r1, r2}
    Sessions = {s1, s2}
    Things = {main, env}
    SessionOf <- MCSessionOf
    Wants <- MCWants
    Always <- MCAlways
    Ruleset <- MCRuleset
    Stored <- MCStored
    Interruptible = {a1}
    MaxDisposals = 1
INVARIANT
    AlwaysLastsUntilRestart
CHECK_DEADLOCK FALSE
