SPECIFICATION FairSpec
CONSTANTS
    Thread = {t1, t2, t3}
    Conn = {c1, c2}
    NoConn = NoConn
INVARIANT Alone
PROPERTIES EndsWhenSignalled ImplementsService
CHECK_DEADLOCK FALSE
