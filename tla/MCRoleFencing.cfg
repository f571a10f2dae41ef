CONSTANTS
    Callers = {c1, c2}
    Operations = {op1, op2}
    NoOp = NoOp
    InitialRole = "primary"
    MaxEpoch = 3
    MaxVersion = 2
SYMMETRY RequestSymmetry
SPECIFICATION RoleSpec
INVARIANTS
    RoleTypeOK
    EpochDeterminesRole
PROPERTIES
    StreamNeverFallsBehind
    ImplementsFencedNode
