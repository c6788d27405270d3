\* Three attempts at a time, a limit of two, a window of two seconds out of four.
SPECIFICATION Spec
CONSTANTS
    Requests = {r1, r2, r3}
    Limit = 2
    Window = 1
    MaxTime = 4
    Ids = {i1, i2, i3, i4}
SYMMETRY Symmetry
INVARIANTS
    TypeOK
    OvershootBounded
    VecBounded
    ChecksTheWindow
