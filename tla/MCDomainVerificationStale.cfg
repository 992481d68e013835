SPECIFICATION Spec
CONSTANTS
    a1 = a1
    a2 = a2
    a3 = a3
    p1 = p1
    p2 = p2
    Attempt = {a1, a2, a3}
    Rotation = {r1}
    Process = {p1, p2}
    At <- MCAt
    MaxPerWindow = 1
SYMMETRY Symmetry
PROPERTY FailureNeverVerifies
CHECK_DEADLOCK FALSE
