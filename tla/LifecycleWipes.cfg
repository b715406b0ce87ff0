SPECIFICATION Spec
CONSTANTS
    ob = ob  proxy = proxy  s1 = s1  s2 = s2
    Order <- MCOrder2
    Servers <- MCServers2
    ComponentLists <- MCAll
    ServerLists <- MCNoServers
    Mishaps <- MCNone
    MaxMishaps = 0
    MaxEdits = 1
PROPERTY WipesNothingRunning
CHECK_DEADLOCK FALSE
