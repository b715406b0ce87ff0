SPECIFICATION FairSpec
CONSTANTS
    configserver = configserver  oceanbase = oceanbase  obproxy = obproxy
    prometheus = prometheus  alertmanager = alertmanager  express = express  obbinlog = obbinlog
    z1 = z1  z2 = z2  z3 = z3
    ZoneNames <- MCZoneNames
    Kinds <- MCKinds
    Plans <- MCPlans
    MaxFaults = 1
INVARIANTS TypeOK DependenciesSorted NeedsMet SuccessMeansDone
PROPERTIES InstancesStoppedFirst SortEnds
CHECK_DEADLOCK FALSE
