SPECIFICATION Spec
CONSTANTS
    p1 = p1  p2 = p2  p3 = p3  g = g  d = d  inner = inner  main = main
    Procs <- MCTwo
    Paths <- MCBothPaths
    Global = g
    DeployPaths <- MCDeploy
    Homes <- MCTwoHomes
    Main = main
    DevProcs <- MCDev
    Settings <- MCUnset
    Forever <- MCForever
    TryTimes = 2
    MaxHeld = 2
    MaxShared = 3
    MaxLaunches = 1
INVARIANTS ExclusiveHeld OuterKeepsLock RequestsCounted
CHECK_DEADLOCK FALSE
