CONSTANTS
    near = near
    Policies = {near}
    Enabled <- EnabledOf
    Recent <- RecentOf
    Instances = {i1}
    NoOne = NoOne
    NoRun = NoRun
    NoCall = NoCall
    Starts = {c1}
    Calls = {c1}
    Stops = {s1}
    LastMonth = 2
    Days = {1, 2}
    MaxRuns = 9
    MaxLosses = 0
    MaxFaults = 0
    MaxOthers = 0
    MaxRequests = 3
    MaxDay = 1
SPECIFICATION BackfillFairSpec
PROPERTIES
    WorkersEnd
    StopSettled
    WindowsServed
CHECK_DEADLOCK FALSE
