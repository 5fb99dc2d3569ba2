CONSTANTS
    Heavy = {h1, h2}
    Light = {}
    NoRun = NoRun
    NoRow = NoRow
    MaxFails = 1
SPECIFICATION FairExecSpec
INVARIANTS
    ExecTypeOK
    RunsHoldSlots
    StopReachesRuns
    CountIsFresh
PROPERTIES
    AbortedIsCancelled
    ImplementsSlots
    DrainEnds
