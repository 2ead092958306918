SPECIFICATION FairSpec
CONSTANTS
    a = a b = b p1 = p1 p2 = p2 p3 = p3 p4 = p4 p5 = p5 p6 = p6
    Node = {a, b}
    Packet = {p1, p2, p3, p4, p5, p6}
    Origin <- MCOrigin
    NextHop <- MCNextHop
    Earlier <- MCEarlier
    Everyone = Everyone
    Routing = {p1}
    MaxRequests = 2
    QueueLimit = 3
    NoPacket = NoPacket
INVARIANTS LastOfBurstHeld InOrder Accounted NeverBlockedIdle HeldWhileUnknown
PROPERTIES ImplementsUnicastLink Settled
CHECK_DEADLOCK FALSE
