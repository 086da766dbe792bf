\* Three lines, two readers, room for two lines: a reader may fall behind
CONSTANTS
    Reader = {r1, r2}
    BufferCap = 2
    MaxLines = 3
SPECIFICATION FairSpec
INVARIANTS
    TypeOK
    SeamIsTheOnlyGap
    ShownInOrder
    DoneIsRecorded
PROPERTIES
    RunNeverWaits
    StreamEnds
CHECK_DEADLOCK FALSE
