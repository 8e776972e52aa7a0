SPECIFICATION FairSpec
CONSTANTS
    a = a
    b = b
    c1 = c1
    c2 = c2
    w1 = w1
    w2 = w2
    Signal = {a, b}
    Computed = {c1, c2}
    Watch = {w1, w2}
    Value = {0, 1}
    InitialValue <- AllZero
    Program = {"cleanup"}
    Body <- Bodies
    AllowWrites <- Writers
    FragileCleanup <- Fragile
    MaxOps = 4
    MaxEpoch = 3
    UNSET = UNSET
    COMPUTING = COMPUTING
    ERRORED = ERRORED
    DONE = DONE
    NoNode = NoNode
PROPERTIES
    EffectsSettle
