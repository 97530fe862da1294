SPECIFICATION Spec
CONSTANTS
    Clients = {c1, c2}
    NoClient = NoClient
    MaxSetups = 4
SYMMETRY Symmetry
INVARIANTS
    SetupsMatch
    AudioFromOneSender
    RecordAnnounced
    PlaybackEnds
