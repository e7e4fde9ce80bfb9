CONSTANTS
    a1 = a1
    a2 = a2
    b1 = b1
    b2 = b2
    NoSession = NoSession
    Session = {a1, a2, b1}
    Staff = {}
    Voters = {}
    Web = {}
    MaxPlayers = 4
    MaxObservers = 1
    MaxNumber = 2
    MaxRooms = 2
    MaxVotes = 0
    MaxWatchers = 0
    ClientStates = {}
    CastStates = {}
    ClanOf <- MCClanOf
    MaxParties = 2
    PartySize = 2
    Sizes = {1, 2}
    MaxRegistered = 30
SPECIFICATION ClanSpec
INVARIANTS
    PartyAgreement
    PartyTogether
PROPERTIES
    LeaderKeepsParty
CONSTRAINT Bounded
SYMMETRY SymmetryA
