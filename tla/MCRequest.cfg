SPECIFICATION MCSpec
CONSTANTS
    Char <- MCChar
    MaxRead = 25
    MaxLine = 4
    MaxStored = 5
    Code <- MCCode
    MaxLen = 5
    MaxFile = 3
    Chunk = 2
INVARIANTS HasHeader FieldsClean GoodIsRequest DecodesMeaning OpenedClean WholeFile
CHECK_DEADLOCK FALSE
