SPECIFICATION FairSpec
CONSTANTS
    MaxStarts = 2
    EventsCreated = TRUE
INVARIANTS
    OneWay
    RunsOrSilent
    CompletionOutlivesCallback
PROPERTY Returns
