SPECIFICATION Spec
CONSTANTS
    n1 = n1 n2 = n2 n3 = n3 n4 = n4 d1 = d1 d2 = d2
    Node = {n1, n2, n3, n4}
    Links <- Kite
    Data = {d1}
    Source <- MCSource
    Target <- MCTarget
    Zero = n1
    Everyone = Everyone
    Infinity = 255
    Diameter = 4
    QueueLimit = 2
    LocalRepair = TRUE
    Retries = 0
    Outcomes = {"wait","wide"}
    Patient = FALSE
    MaxFloods = 3
    MaxBreaks = 2
    MaxLosses = 1
    MaxExpiries = 2
INVARIANTS RepairTimed NextHopFresher NumbersFromDestination
PROPERTY AssertionsHold
CHECK_DEADLOCK FALSE
