CONSTANTS
    alice = alice
    bob = bob
    carol = carol
    Player = {alice, bob, carol}
    NoPlayer = NoPlayer
    Friends <- MCFriends
    Item = {i1, i2}
    Space <- MCSpace
    OfferLimit = 1
    Fee = 1
    MaxMp = 2
SPECIFICATION Spec
INVARIANTS
    OfferOwned
PROPERTIES
    Exchanges
CONSTRAINT Bounded
SYMMETRY MCSymmetry
