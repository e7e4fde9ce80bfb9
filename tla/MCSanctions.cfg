CONSTANTS
    u = u
    m = m
    g = g
    Account = {u, m, g}
    Grade <- MCGrade
    Machine <- MCMachine
    Secured = {m, g}
    Days = {1}
    Forever = 9
    Roles = {1, 3}
    LastDay = 2
SPECIFICATION SanctionsSpec
INVARIANTS
    SanctionsBind
    
PROPERTIES
    GradesRespected
CONSTRAINT Bounded
