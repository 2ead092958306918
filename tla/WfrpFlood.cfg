SPECIFICATION FairSpec
CONSTANTS
    n1 = n1 n2 = n2 n3 = n3 n4 = n4 p1 = p1
    Node = {n1, n2, n3}
    Sink = {n1}
    Pkt = {}
    PktSrc <- MCPktSrc
    PktDst <- MCPktDst
    Reach <- MCChain
    Lossy = FALSE
    NETWORK_DIAMETER = 3
    DEFAULT_BEACON_INTERVAL = 5
    DEFAULT_ROUTE_EXPIRE = 3
    ROUTE_PURGE_FREQUENCY = 2
    ForwardDelay = 2
    DataTTL = 4
    SinkStart <- MCSinkStart0
    MaxTime = 6
    NoRoute = NoRoute
INVARIANT StateFollowsClock
PROPERTY RoutesCatchUp
CHECK_DEADLOCK FALSE
