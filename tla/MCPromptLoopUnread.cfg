SPECIFICATION FairSpec
CONSTANTS
    Prompts = {p1, p2}
    Commands = {}
    Brings = {}
    Summaries = {}
    Reverts = {}
    Skew = 0
    MaxSteps = 0
    MaxStops = 0
    None = None
PROPERTY PromptsAreRead
CHECK_DEADLOCK FALSE
