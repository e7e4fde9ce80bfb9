CONSTANTS
    MainWait = 2
    CastWait = 3
    MaxStarts = 3
    MaxKnocks = 2
    MaxInbox = 5
SPECIFICATION IpcSpec
INVARIANTS
    CastKnowsTheMatch
PROPERTIES
    BothReturn
    TeamsArrive
