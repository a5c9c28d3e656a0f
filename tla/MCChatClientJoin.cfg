SPECIFICATION FairSpec
CONSTANTS
    MaxLine = 2
    MaxRead = 1
PROPERTY JoinReturns
CHECK_DEADLOCK FALSE
