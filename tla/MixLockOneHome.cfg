SPECIFICATION FairSpec
CONSTANTS
    p1 = p1  p2 = p2  p3 = p3  g = g  d = d  inner = inner  main = main
    Procs <- MCThree
    Paths <- MCBothPaths
    Global = g
    DeployPaths <- MCDeploy
    Homes <- MCOneHome
    Main = main
    DevProcs <- MCNone
    Settings <- MCUnset
    Forever <- MCForever
    TryTimes = 1
    MaxHeld = 3
    MaxShared = 3
    MaxLaunches = 1
INVARIANT TypeOK
PROPERTIES KeepsPromise EscalationEnds
CHECK_DEADLOCK FALSE
