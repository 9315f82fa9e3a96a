\* Two captures and two upload attempts; an owner who fences once.
CONSTANTS
    Files = {"dumps"}
    MaxUploads = 1
    Window = 1
    Lock = 1
    MaxTime = 1
    MaxCaptures = 2
    MaxReopenAttempts = 2
    MaxFences = 1
    MaxDeaths = 1
    MaxFaults = 2
    Late = {c1}
SPECIFICATION CycleFairSpec
INVARIANTS
    OwnersFenceStands
    LastUploadIsRecoverable
    ReceiptFindsItsFiles
PROPERTIES
    CycleConverges
CHECK_DEADLOCK FALSE
