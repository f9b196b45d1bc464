\* Every command; bytes of four values, so that eight of them make an integer.
SPECIFICATION Spec
CONSTANTS
    Byte = 4
    TokenLen = 3
    FrameLens = {0, 1, 3}
    Commands = {"preview_cmd", "preview_cmd_res", "smts_frame_res", "mock_dvr_preview", "mock_dvr_frame", "test_PTZ_cmd", "common_res"}
    MaxRefs = 2
CHECK_DEADLOCK FALSE
INVARIANTS
    TypeOK
    WireFormat
    OwnMemory
    ExactRoundTrip
