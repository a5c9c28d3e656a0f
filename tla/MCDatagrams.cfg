SPECIFICATION UdpFairSpec
CONSTANTS
    Peer = {c1, c2, c3}
    Port = {p1, p2}
    MaxCopies = 1
INVARIANT OwnReply
PROPERTY PeersAnswered
CHECK_DEADLOCK FALSE
