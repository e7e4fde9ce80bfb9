CONSTANTS
    s1 = s1
    s2 = s2
    s3 = s3
    NoSession = NoSession
    Session = {s1, s2, s3}
    Staff = {}
    Web = {}
    Voters = {}
    MaxPlayers = 3
    MaxObservers = 1
    MaxNumber = 2
    MaxRooms = 1
    MaxVotes = 0
    MaxWatchers = 2
    ClientStates = {"READY"}
    CastStates = {"DYING"}
SPECIFICATION Spec
SYMMETRY Symmetry
INVARIANTS
    RoomAgreement
    NoGhostPlayers
    MatchImpliesStarted
PROPERTIES
    HostKeepsSeat
    SuccessorFights
    WaitingRoomSurvives
CONSTRAINT NumbersLeft
