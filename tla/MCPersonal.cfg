SPECIFICATION FairSpec
CONSTANTS
    Users = {"u1", "u2"}
    Sessions = {"s1", "s2"}
    Browsers <- OneOrTwoUsers
    Leaving = {"u1"}
    Executors = {"e1", "e2"}
    Rated = {"u1"}
    Versions = 2
    MaxFaults = 1
INVARIANTS ErasedStaysErased ScoreIsCurrent
PROPERTIES NoWriteOnceSettled NoLostUpdate CompletionIsFinal DeletionCompletes
CHECK_DEADLOCK FALSE
