SPECIFICATION Spec
CONSTANTS
    Handles = {1, 2}
    SocketCount = 2
    MaxStarts = 2
INVARIANTS NothingOutlivesStop UsedWhileThere AtMostOneStolen FailureReported StoppedIsLastWord
PROPERTY CallsReturn
CHECK_DEADLOCK FALSE
