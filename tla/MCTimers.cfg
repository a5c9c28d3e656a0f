SPECIFICATION TimersFairSpec
CONSTANTS
    Runner = {main, t}
    Max = 5
    NoTimer = NoTimer
INVARIANT FinalCount
PROPERTY NeverBack
CHECK_DEADLOCK FALSE
