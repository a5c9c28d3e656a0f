SPECIFICATION WireSpec
CONSTANTS
    HeaderLength = 2
    MaxBody = 10
    WordSize = 65536
    Line <- MCLine
    Rogue <- MCRogue
    MaxLine = 2
    MaxRead = 1
INVARIANTS LinesInOrder BodyFits Framing
PROPERTY LinesArrive
CHECK_DEADLOCK FALSE
