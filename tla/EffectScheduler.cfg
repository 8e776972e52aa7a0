SPECIFICATION FairSpec
CONSTANTS
    e1 = e1
    e2 = e2
    e3 = e3
    root = root
    inner = inner
    Effect = {e1, e2, e3}
    Zone = {root, inner}
    CreationZone <- Zones
    MaxChanges = 2
    MaxDepth = 4
INVARIANTS
    TypeOK
    QueuesExact
    NothingStranded
PROPERTIES
    KeepsPromise
CHECK_DEADLOCK FALSE
