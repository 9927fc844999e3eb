CONSTANTS
    NFrames = 2
    FrameLen = 2
    MaxItem = 2
    MaxErrs = 1
SPECIFICATION Spec
CHECK_DEADLOCK FALSE
INVARIANTS
    NoBytesLost
    EndMeansAllFrames
PROPERTIES
    AllFramesDelivered
