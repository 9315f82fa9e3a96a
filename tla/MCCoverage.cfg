CONSTANTS
    FirstDay = 1
    LastDay = 6
    Revisions = {1, 2}
    MaxCovers = 3
    MaxCoveredIntervals = 2
    NoScan = NoScan
SPECIFICATION Spec
INVARIANTS
    CoveredIsEveryDay
    AnswersAreExact
PROPERTY
    ImplementsLatestScan
