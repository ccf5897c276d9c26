SPECIFICATION Spec
CONSTANTS
    w1 = w1 w2 = w2
    Rules = {w1, w2}
    Kinds <- MCKinds
    Values = {v1, v2}
    NoMatch = NoMatch
    UnchangedMinutes = 1
    Cooldown = 1
    Threshold = 1
    MaxClock = 1
    MaxTicks = 2
    MaxPatches = 2
    MaxRuntimes = 2
INVARIANTS WatchTypeOK WatchCounts ScheduleAgrees OneSampleAtATime AlarmsOnce
CHECK_DEADLOCK FALSE
