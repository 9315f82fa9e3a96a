CONSTANTS
    near = near
    upcoming = upcoming
    Policies = {near, upcoming}
    Enabled <- EnabledOf
    Recent <- RecentOf
    Instances = {i1, i2}
    NoOne = NoOne
    NoRun = NoRun
    Days = {1}
    MaxRuns = 9
    MaxRequests = 6
    MaxFaults = 1
    MaxOthers = 1
    MaxDay = 2
SPECIFICATION SlotsSpec
INVARIANT
    LatestWindowKept
CHECK_DEADLOCK FALSE
