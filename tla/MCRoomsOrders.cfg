CONSTANTS
    m = m
    s1 = s1
    s2 = s2
    NoSession = NoSession
    Session = {m, s1, s2}
    Staff = {m}
    Web = {s1, s2}
    Voters = {s1, s2}
    MaxPlayers = 2
    MaxObservers = 1
    MaxNumber = 2
    MaxRooms = 2
    MaxVotes = 1
    MaxWatchers = 1
    ClientStates = {"LOBBY"}
    CastStates = {}
SPECIFICATION Spec
SYMMETRY Symmetry
INVARIANTS
    NumbersConsistent
PROPERTIES
    OthersUndisturbed
CONSTRAINT PlainAfterwards
