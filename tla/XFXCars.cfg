SPECIFICATION FairSpec
CONSTANTS
    c1 = c1 c2 = c2 s1 = s1 s2 = s2 m1 = m1 m2 = m2 A = A B = B C = C
    Node = {c1, c2, s1, s2}
    Car = {c1, c2}
    Point = {A, B, C}
    Place <- MCPlace
    Route <- MCRoute
    Script <- MCRoute
    Msg = {m1, m2}
    Src <- MCSrc
    Dst <- MCDst
    Lossy = TRUE
    TtlMod = 8
    MaxPurge = 1
    NotListed = NotListed
INVARIANTS Custody PopsTheFinishedLeg
PROPERTIES CarrierWillPass HandingOverEnds CarriedIsDelivered
CHECK_DEADLOCK FALSE
