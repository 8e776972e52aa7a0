SPECIFICATION Spec
CONSTANTS
    Signal = {a}
    Computed = {c1, c2}
    Watch = {w1, w2}
    MaxDeps = 2
    MaxEdges = 4
    NoNode = NoNode
SYMMETRY NodeSymmetry
INVARIANTS
    Linked
    LivenessExact
