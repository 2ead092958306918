SPECIFICATION FairSpec
CONSTANTS
    n1 = n1 n2 = n2 n3 = n3 n4 = n4 d1 = d1 d2 = d2
    Node = {n1, n2, n3, n4}
    Links <- Line
    Data = {d1, d2}
    Source <- MCSource
    Target <- MCTarget
    Zero = n1
    Everyone = Everyone
    Infinity = 255
    Diameter = 4
    QueueLimit = 2
    LocalRepair = TRUE
    Retries = 2
    Outcomes = {"wide"}
    Patient = TRUE
    MaxFloods = 3
    MaxBreaks = 0
    MaxLosses = 2
    MaxExpiries = 0
PROPERTY EverythingArrives
CHECK_DEADLOCK FALSE
