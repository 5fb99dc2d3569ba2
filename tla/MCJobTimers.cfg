CONSTANTS
    CommonJobs = {common}
    ServerJobs = {}
    Callers = {c1, c2}
    Crons = {{1, 2, 3}}
    Dates = {2}
    MaxTime = 3
    MaxTimers = 2
    MaxGeneration = 1
SPECIFICATION FairTimersSpec
INVARIANTS
    TimersTypeOK
    NextRunFires
PROPERTIES
    ShownRunHappens
    ShownRunMovesOn
