SPECIFICATION FairSpec
CONSTANTS
    Session = {s1, s2}
    MaxRecent = 1
    MaxLog = 2
INVARIANTS WriteChain StreamIsWindow
PROPERTIES ImplementsBroadcast LeftForGood Delivered TornDown
