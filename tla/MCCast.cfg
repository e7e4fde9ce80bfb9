CONSTANTS
    Client = {x, y}
    Conn = {c1, c2, c3}
    Id = {i1, i2}
    CastRoom = {r1, r2}
    NoClient = NoClient
    NoConn = NoConn
    NoId = NoId
    NoRoom = NoRoom
SPECIFICATION CastSpec
INVARIANTS
    SlotsMatchRooms
PROPERTIES
    KeptInRoom
    Registered
