CONSTANTS
    d = d
    h = h
    Heavy = {h}
    Light = {d}
    Procs = {me, other}
    Earlier = p0
    Me = me
    Succeeded = {h}
    Passes = {c1}
    NoJob = NoJob
    Downloads <- MCDownloads
    Table <- MCTable
SPECIFICATION FairDesktopSpec
CHECK_DEADLOCK FALSE
INVARIANTS
    DesktopTypeOK
    OwnerHasFile
    DrainedStaysIdle
PROPERTIES
    DeferredIsHandedOver
    MissedIsHandedOver
    DeferredIsResumed
    MissedIsMadeUp
    ShutdownEnds
    ImplementsOwnership
