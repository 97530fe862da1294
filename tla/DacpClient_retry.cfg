SPECIFICATION RetrySpec
CONSTANTS
    Clients = {c1}
    NoClient = NoClient
    Callers = {h1, h2}
    Headers = {{}, {"DACP-ID"}, {"Active-Remote"}, {"DACP-ID", "Active-Remote"}}
    MaxMoves = 2
    MaxFaults = 2
PROPERTY Recovers
