CONSTANTS
    a = a
    b = b
    cc = cc
    g1 = g1
    g2 = g2
    Player = {a, b, cc}
    Protected = {}
    Moderators = {}
    Gift = {g1, g2}
    MaxFriends = 1
    MaxMail = 1
    MaxTime = 2
SPECIFICATION Spec
SYMMETRY Symmetry
INVARIANTS
    ListsAgree
    BoxesAgree
    GiftsKept
PROPERTIES
    KeptOut
CONSTRAINT Bounded
