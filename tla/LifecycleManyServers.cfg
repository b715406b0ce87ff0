SPECIFICATION Spec
CONSTANTS
    ob = ob  proxy = proxy  s1 = s1  s2 = s2
    Order <- MCOrder2
    Servers <- MCServers2
    ComponentLists <- MCProxy
    ServerLists <- MCOneServer
    Mishaps <- MCFaults
    MaxMishaps = 1
    MaxEdits = 1
PROPERTIES WipesNoRunningComponent RunningMeansStarted StoppedMeansStopped
CHECK_DEADLOCK FALSE
