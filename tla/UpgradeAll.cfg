SPECIFICATION FairSpec
CONSTANTS
    z1 = z1  z2 = z2  z3 = z3
    AllZones <- MCZones
    Last = 3
    Plans <- MCPlans
    Faults <- MCAllFaults
    MaxFaults = 3
INVARIANTS TypeOK ScriptsInStep OneZoneDown RecordedIsRun ParametersRestored
PROPERTIES KeepsPromise UpgradeEnds
CHECK_DEADLOCK FALSE
