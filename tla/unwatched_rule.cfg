SPECIFICATION Spec
CONSTANTS
    w1 = w1 w2 = w2
    Rules = {w1}
    Kinds <- MCKinds
    Values = {v1}
    NoMatch = NoMatch
    UnchangedMinutes = 1
    Cooldown = 1
    Threshold = 2
    MaxClock = 1
    MaxTicks = 2
    MaxPatches = 2
    MaxRuntimes = 1
INVARIANTS ScheduledIsWatched
CHECK_DEADLOCK FALSE
