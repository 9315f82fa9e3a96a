\* Three services, two of which ask the gate first, and three faults anywhere.
CONSTANTS
    Services = {"database", "application", "edge"}
    Guarded = {"database", "application"}
    MaxFaults = 3
SPECIFICATION InstallationFairSpec
INVARIANTS
    UnpreparedGateIsHeld
    ConfirmedIsFinal
PROPERTIES
    OpenGateSettles
CHECK_DEADLOCK FALSE
