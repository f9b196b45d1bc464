\* The lines must fit: one length.
SPECIFICATION Spec
CONSTANTS
    Threads = {loop, t1}
    Loop = loop
    Flusher = flusher
    Lengths = {2}
    BufSize = 6
    MaxFileSize = 100
    MaxLines = 2
    MaxFiles = 1
CHECK_DEADLOCK FALSE
INVARIANT DumpsTheBuffer
