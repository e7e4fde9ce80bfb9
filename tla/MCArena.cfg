CONSTANTS
    a = a
    b = b
    c = c
    Player = {a, b, c}
    Team <- MCTeam
    Staff = {b}
    Observers = {{}, {c}}
    Modes = {"arena", "elimination"}
SPECIFICATION Spec
INVARIANTS
    RoundRunsOut
    DeadUnheard
PROPERTIES
    RoundsGoOn
