SPECIFICATION Spec
CONSTANTS
    p0 = p0
    p1 = p1
    p2 = p2
    Proc = {p0, p1, p2}
    NumPhysPages = 4
    NumBits = 8
    Shape <- WithData
SYMMETRY Symmetry
INVARIANT SegmentsInPlace
CHECK_DEADLOCK FALSE
