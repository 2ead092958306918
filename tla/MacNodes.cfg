SPECIFICATION Spec
CONSTANTS
    n1 = n1 n2 = n2 n3 = n3 p1 = p1 p2 = p2 p3 = p3 p4 = p4
    Node = {n1, n2, n3}
    Packet = {p1, p2, p3, p4}
    Networks <- MCNetworks
    Origin <- MCOrigin
    NextHop <- MCNextHop
    Everyone = Everyone
    Size <- MCSize
    Traffic <- MCTraffic
    Slots = {0, 1}
    RTSThreshold = 80
    ShortRetryLimit = 3
    LongRetryLimit = 2
    BugFixTimer = TRUE
    Capture = {TRUE, FALSE}
    FirstSeqno = 3
    SeqnoMod = 4
    MaxLosses = 1
    None = None
INVARIANTS AssertionsHold AnnouncedDataIsClear AckedArrived OnceUnlessZero
PROPERTIES NeverStalls ImplementsUnicastLink
CHECK_DEADLOCK FALSE
