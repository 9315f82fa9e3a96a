\* Two runs competing for the provider, one Game: the second call is scheduled, refused while
\* the first run lasts, and any run may end, fail, stall or crash at any point.
CONSTANTS
    r1 = r1
    r2 = r2
    NoRun = NoRun
    Runs = {r1, r2}
    Repairs = {}
    Deferred = {r2}
    LastGame = 1
    PageSize = 1
    Days = {1, 2}
    Window <- TwoWindows
    AbandonAfter = 1
    RetainedRuns = 1
    MaxLag = 1
SPECIFICATION FairSpec
INVARIANTS
    OwnerIsLatest
    WriterOwnsRun
PROPERTIES
    ImplementsOwnership
    RunsEnd
    DeferredCallsRun
CHECK_DEADLOCK FALSE
