SPECIFICATION Spec
CONSTANTS
    ob = ob  proxy = proxy  s1 = s1  s2 = s2
    Order <- MCOrder2
    Servers <- MCServers1
    ComponentLists <- MCEach
    ServerLists <- MCNoServers
    Mishaps <- MCKilled
    MaxMishaps = 2
    MaxEdits = 3
INVARIANTS TypeOK EditNotLost
PROPERTIES KeepsPromise ApplyMeansConfigured
CHECK_DEADLOCK FALSE
