CONSTANTS
    Tasks = {t1, t2}
    NoTask = NoTask
    Targets = {"available", "deleted"}
    MaxRequests = 2
    MaxAdds = 1
SYMMETRY TaskSymmetry
SPECIFICATION MovieSpec
INVARIANTS
    MovieTypeOK
    LockHeldThroughout
    AvailableSettles
    ApprovedIsSent
PROPERTIES
    HandlersAdvance
    CheckStandsUntilInsert
