SPECIFICATION Spec
CONSTANTS
    kMaxQueuedPcmFrames = 2
    MaxFrames = 2
PROPERTY NoCallbackAfterStop
CHECK_DEADLOCK FALSE
