\* One thread, and lines of which a buffer holds one but not two.
SPECIFICATION Spec
CONSTANTS
    Threads = {loop}
    Loop = loop
    Flusher = flusher
    Lengths = {3}
    BufSize = 6
    MaxFileSize = 100
    MaxLines = 2
    MaxFiles = 1
CHECK_DEADLOCK FALSE
INVARIANT RetriedLineIsKept
