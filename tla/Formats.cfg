SPECIFICATION Spec
CONSTANTS
    EkeySizes = {12, 51, 52, 72}
    PayloadSizes = {39, 40, 60, 152}
    WrappedSizes = {0, 15, 16, 17, 60, 1000}
    MessageSizes = {12, 164}
    WordBytes = 2
    Documents <- MCDocuments
    PortNumbers = {0, 7000, 65535}
    NameLengths = {0, 14, 15, 16, 255, 256}
    Adverts <- MCAdverts
    Odd <- MCOdd
INVARIANTS ReadersStayInside WrittenIsRead KeyDerived VectorsHold
CHECK_DEADLOCK FALSE
