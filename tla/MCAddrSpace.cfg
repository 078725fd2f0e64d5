SPECIFICATION FairSpec
CONSTANTS
    p0 = p0
    p1 = p1
    p2 = p2
    Proc = {p0, p1, p2}
    NumPhysPages = 2
    NumBits = 4
    Shape <- CodeOnly
INVARIANTS FramesDisjoint BitMapExact CodeIntact
PROPERTY LoadsEventually
CHECK_DEADLOCK FALSE
