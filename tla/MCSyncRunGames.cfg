\* An interval run over two pages and a repair of single Games compete.
CONSTANTS
    r1 = r1
    r2 = r2
    NoRun = NoRun
    Runs = {r1, r2}
    Repairs = {r2}
    Deferred = {}
    LastGame = 2
    PageSize = 1
    Days = {1, 2}
    Window <- TwoWindows
    AbandonAfter = 1
    RetainedRuns = 1
    MaxLag = 0
SPECIFICATION Spec
INVARIANTS
    CoverageIsAccounted
    CountedIsPublished
    AtMostOneGameAfterStop
CHECK_DEADLOCK FALSE
