CONSTANTS
    s1 = s1
    s2 = s2
    a1 = a1
    a2 = a2
    NoSession = NoSession
    NoAccount = NoAccount
    Session = {s1, s2}
    Account = {NoAccount, a1, a2}
    Credentials <- MCCredentials
    Item = {i1}
    Key = {"mp"}
    Value = {0, 1}
    MaxBalance = 1
    MaxQueued = 2
SPECIFICATION Spec
INVARIANTS
    NoWriteLost
    OneInTable
    OfflineIsWritten
    CopyIsCurrent
    NotChargedFirst
PROPERTIES
    CatchesUp
CONSTRAINT OneTrouble
