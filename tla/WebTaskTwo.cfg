SPECIFICATION Spec
CONSTANTS
    d1 = d1  d2 = d2  db = db  proxy = proxy
    Deployments <- MCTwo
    Order <- MCOrder
    MaxRequests = 2
    PoolSize = 2
INVARIANT WorksOnNamed
CHECK_DEADLOCK FALSE
