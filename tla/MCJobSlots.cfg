CONSTANTS
    Heavy = {h1, h2}
    Light = {l1, l2, l3}
SPECIFICATION FairSlotsSpec
INVARIANTS
    SlotsTypeOK
    SlotsAccounted
    WorkConserving
PROPERTIES
    QueueOrder
    StoppedOnlyDrains
    QueuedStarts
    ImplementsPool
