SPECIFICATION Spec
CONSTANTS
    n1 = n1 n2 = n2 n3 = n3 n4 = n4 p1 = p1
    Node = {n1, n2, n3}
    Sink = {n1}
    Pkt = {p1}
    PktSrc <- MCPktSrc
    PktDst <- MCPktDst
    Reach <- MCMesh
    Lossy = TRUE
    NETWORK_DIAMETER = 3
    DEFAULT_BEACON_INTERVAL = 1
    DEFAULT_ROUTE_EXPIRE = 2
    ROUTE_PURGE_FREQUENCY = 5
    ForwardDelay = 2
    DataTTL = 4
    SinkStart <- MCSinkStart0
    MaxTime = 1
    NoRoute = NoRoute
INVARIANTS RoutingInv NextHopNearer OneFloodPerBeacon DataNearer NoRoutingLoop HopTtlBalance DiameterSuffices
PROPERTY ImplementsLoopFreeRoutes
CHECK_DEADLOCK FALSE
