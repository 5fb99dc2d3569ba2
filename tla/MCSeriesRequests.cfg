CONSTANTS
    Tasks = {t1, t2}
    NoTask = NoTask
    Users = {u1, u2}
    NoUser = NoUser
    Seasons = {s1, s2}
    MaxRequests = 2
    Limit = 1
SYMMETRY SeriesSymmetry
SPECIFICATION SeriesSpec
INVARIANTS
    SeriesTypeOK
    LockHeldThroughout
    ClaimedOnce
    QuotaKept
PROPERTIES
    HandlersAdvance
    ImplementsLedger
