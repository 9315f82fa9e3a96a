CONSTANTS
    near = near
    Policies = {}
    Enabled <- EnabledOf
    Recent <- RecentOf
    Instances = {}
    NoOne = NoOne
    NoRun = NoRun
    NoCall = NoCall
    Starts = {c1}
    Calls = {c1, c2}
    Stops = {s1}
    LastMonth = 2
    Days = {1, 2}
    MaxRuns = 9
    MaxLosses = 1
    MaxFaults = 1
    MaxOthers = 0
    MaxRequests = 3
    MaxDay = 1
SPECIFICATION BackfillSpec
INVARIANTS
    CheckpointsCovered
    StopReachesRun
PROPERTIES
    BackfillImplementsOwnership
CHECK_DEADLOCK FALSE
