SPECIFICATION Spec
CONSTANTS
    Clients = {c1, c2}
    NoClient = NoClient
    Callers = {h1, h2}
    Headers = {{}, {"DACP-ID", "Active-Remote"}}
    MaxMoves = 1
    MaxFaults = 1
SYMMETRY Symmetry
INVARIANTS
    CacheVerified
