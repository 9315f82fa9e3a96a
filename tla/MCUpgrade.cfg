CONSTANTS
    Targets <- MCTargets
    Migrations <- MCSame
    MaxBackups = 2
    MaxFaults = 3
SPECIFICATION FairSpec
INVARIANTS  OpenGateFindsItsSchema 
PROPERTIES  UpgradeSettles
CHECK_DEADLOCK FALSE
