SPECIFICATION FairSpec
CONSTANTS
    d1 = d1  d2 = d2  db = db  proxy = proxy
    Deployments <- MCOne
    Order <- MCOrder
    MaxRequests = 2
    PoolSize = 2
INVARIANT TypeOK
PROPERTIES FinishedIsFinal InstallToldTrue RequestsAnswered
CHECK_DEADLOCK FALSE
