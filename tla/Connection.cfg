SPECIFICATION Spec
CONSTANTS
    Requests <- MCRequests
    MaxRequests = 3
    MaxHandled = 4
    SizeWord = 64
    Word = 64
    initial_volume_db <- MCInitialVolume
INVARIANTS ServedInOrder ReportsRight
PROPERTY KeysUseHandshake
CHECK_DEADLOCK FALSE
