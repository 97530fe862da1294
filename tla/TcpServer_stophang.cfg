SPECIFICATION FairSpec
CONSTANTS
    Clients = {c1, c2}
    Handles = {h1}
    NoHandle = NoHandle
PROPERTY StopReturns
