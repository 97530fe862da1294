SPECIFICATION FairSpec
CONSTANTS
    Clients = {c1, c2, c3}
    Handles = {h1, h2}
    NoHandle = NoHandle
INVARIANTS
    StoppedIsQuiet
    SweptUnblocks
PROPERTIES
    StopReturnsUnlessClashed
    StartReturns
