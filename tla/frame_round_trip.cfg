\* The frame response only.
SPECIFICATION Spec
CONSTANTS
    Byte = 4
    TokenLen = 3
    FrameLens = {1}
    Commands = {"smts_frame_res"}
    MaxRefs = 0
CHECK_DEADLOCK FALSE
INVARIANT RoundTrip
