SPECIFICATION FairSpec
CONSTANTS
    PoolSize = 3
    MaxConn = 4
INVARIANT DestroyedLast
PROPERTIES EndsWhenSignalled ImplementsService
CHECK_DEADLOCK FALSE
