SPECIFICATION FairSpec
CONSTANTS
    Copies = {1, 2}
    MaxTime = 3
    MaxReviews = 2
    MaxFaults = 2
    MaxRestores = 1
INVARIANTS SourceOrProof
PROPERTIES HoldIsHonoured DestructionResumes SealResumes
CHECK_DEADLOCK FALSE
