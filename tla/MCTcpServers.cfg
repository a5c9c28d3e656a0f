SPECIFICATION TcpFairSpec
CONSTANTS
    Client = {c1, c2}
    MaxRequest = 3
    BufferSize = 2
    Time <- MCTime
INVARIANT NoByteLost
PROPERTIES Answered Released
CHECK_DEADLOCK FALSE
