SPECIFICATION Spec
CONSTANTS
    c1 = c1 c2 = c2 s1 = s1 s2 = s2 m1 = m1 m2 = m2 A = A B = B C = C
    Node = {c1, c2, s1, s2}
    Car = {c1, c2}
    Point = {A, B, C}
    Place <- MCPlace
    Route <- MCRoute
    Script <- MCRoute
    Msg = {}
    Src <- MCSrc
    Dst <- MCDst
    Lossy = FALSE
    TtlMod = 8
    MaxPurge = 5
    NotListed = NotListed
INVARIANT SilentNeighborsLeave
CHECK_DEADLOCK FALSE
