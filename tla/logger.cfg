SPECIFICATION FairSpec
CONSTANTS
    Threads = {loop, t1}
    Loop = loop
    Flusher = flusher
    Lengths = {2, 3}
    BufSize = 6
    MaxFileSize = 4
    MaxLines = 3
    MaxFiles = 3
CHECK_DEADLOCK FALSE
INVARIANTS
    TypeOK
    BufferHoldsLines
    InFlightUntouched
    WriterUsable
    FilesInOrder
PROPERTIES
    OnlyOldestLost
    TextLeavesBuffer
