-------------------------------- MODULE Wfrp --------------------------------
(***************************************************************************)
(* The WFRP routing agent (wfrp/wfrp.cc).  Sinks flood numbered beacons;   *)
(* every node that hears one remembers, per sink, the neighbour it came    *)
(* from and rebroadcasts it after a random delay; data follows the         *)
(* remembered neighbours back to the sink.  One instance of the agent runs *)
(* on every node; all of them run on the simulator's single clock, one     *)
(* handler at a time, so a handler is one action.                          *)
(*                                                                         *)
(* Time is in whole units.  The radio is a set of copies in flight: who    *)
(* hears a broadcast is chosen per broadcast among the nodes in Reach      *)
(* (all of them, or with Lossy any subset: range, collisions, movement),   *)
(* and copies arrive in any order.                                         *)
(***************************************************************************)
EXTENDS Integers, FiniteSets

CONSTANTS
    Node,                   \* addresses of the nodes that run the agent
    Sink,                   \* the nodes the script calls "sink" on
    Reach,                  \* Reach[n]: the nodes that may hear n
    Lossy,                  \* a transmission may miss some or all of them
    Pkt, PktSrc, PktDst,    \* data packets, their origin and destination
    NETWORK_DIAMETER,       \* TTL of a fresh beacon (wfrp.h:34)
    DEFAULT_BEACON_INTERVAL,
    DEFAULT_ROUTE_EXPIRE,
    ROUTE_PURGE_FREQUENCY,
    ForwardDelay,           \* 0.1 + uniform(0,1), rounded up to whole units
    DataTTL,                \* ttl_ of a data packet when its agent sends it
    SinkStart,              \* moments at which a script may start a sink
    MaxTime,                \* bound: the simulation stops here
    NoRoute                 \* rt_lookup() returned NULL

ASSUME NodeAssumption == IsFiniteSet(Node)

ASSUME TopologyAssumption ==
    /\ Sink \subseteq Node
    /\ Reach \in [Node -> SUBSET Node]
    /\ \A n \in Node : n \notin Reach[n]
    /\ Lossy \in BOOLEAN

ASSUME TimerAssumption ==
    /\ {NETWORK_DIAMETER, DEFAULT_BEACON_INTERVAL, ROUTE_PURGE_FREQUENCY,
        DEFAULT_ROUTE_EXPIRE, DataTTL} \subseteq Nat \ {0}
    /\ {ForwardDelay, MaxTime} \subseteq Nat
    /\ SinkStart \subseteq Nat /\ SinkStart # {}

ASSUME PacketAssumption ==
    /\ PktSrc \in [Pkt -> Node]
    /\ PktDst \in [Pkt -> Node]

VARIABLES
    seqno,          \* seqno[s]: number of the next beacon of sink s
    rt,             \* rt[n][s]: the entry of n's route cache for s
    air,            \* beacon copies between a sender and one receiver
    pending,        \* beacons scheduled by forward(), not yet sent
    data,           \* data packets between a sender and its next hop
    unsent,         \* data packets the applications have not sent yet
    now,            \* Scheduler::clock()
    beaconDue,      \* expiry of each sink's beacon timer
    purgeDue,       \* expiry of each node's route cache timer
    assertFailed    \* forward() went on with a packet it had dropped

vars == <<seqno, rt, air, pending, data, unsent, now, beaconDue, purgeDue,
          assertFailed>>

-----------------------------------------------------------------------------
RouteCache == [seq : Nat, hops : Nat, next : Node,
               state : {"FRESH", "EXPIRED"}, expire : Nat]

(* A beacon in flight: ih->saddr() is the node that sent this copy. *)
BeaconCopy == [to : Node, saddr : Node, src : Sink, id : Nat, hops : Nat,
               ttl : Int]

(* A beacon waiting in the scheduler for its forwarding delay. *)
Scheduled == [by : Node, src : Sink, id : Nat, hops : Nat, ttl : Int,
              since : Nat]

(* seq and hops are a history of the route the last forwarder used. *)
DataCopy == [pkt : Pkt, at : Node, ttl : Int, seq : Nat, hops : Nat]

TypeOK ==
    /\ seqno \in [Sink -> Nat \ {0}]
    /\ rt \in [Node -> [Sink -> RouteCache \cup {NoRoute}]]
    /\ air \subseteq BeaconCopy
    /\ pending \subseteq Scheduled
    /\ data \subseteq DataCopy
    /\ unsent \subseteq Pkt
    /\ now \in Nat
    /\ beaconDue \in [Sink -> Nat]
    /\ purgeDue \in [Node -> Nat]
    /\ assertFailed \in BOOLEAN

ASSUME NoRouteAssumption == NoRoute \notin RouteCache

FirstSeqno == 1

Init ==
    /\ seqno = [s \in Sink |-> FirstSeqno]
    /\ rt = [n \in Node |-> [s \in Sink |-> NoRoute]]
    /\ air = {}
    /\ pending = {}
    /\ data = {}
    /\ unsent = Pkt
    /\ now = 0
    /\ beaconDue \in [Sink -> SinkStart]
    /\ purgeDue = [n \in Node |-> 0]
    /\ assertFailed = FALSE

-----------------------------------------------------------------------------
(* The sets of nodes that may be the ones to hear a broadcast of n. *)
Hearers(n) == IF Lossy THEN SUBSET Reach[n] ELSE {Reach[n]}

(* The copies of a beacon that n puts on the air for the nodes in to. *)
Copies(n, src, id, hops, ttl, to) ==
    {[to |-> m, saddr |-> n, src |-> src, id |-> id, hops |-> hops,
      ttl |-> ttl] : m \in to}

(* The beacon timer of sink s: send_beacon() and re-arm. *)
SendBeacon(s) ==
    /\ ~assertFailed /\ beaconDue[s] = now
    /\ \E to \in Hearers(s) :
          air' = air \cup Copies(s, s, seqno[s], 1, NETWORK_DIAMETER, to)
    /\ seqno' = [seqno EXCEPT ![s] = @ + 1]
    /\ beaconDue' = [beaconDue EXCEPT ![s] = now + DEFAULT_BEACON_INTERVAL]
    /\ UNCHANGED <<rt, pending, data, unsent, now, purgeDue, assertFailed>>

(* The entry a node keeps of beacon copy b. *)
EntryFrom(b) ==
    [seq |-> b.id, hops |-> b.hops, next |-> b.saddr, state |-> "FRESH",
     expire |-> now + DEFAULT_ROUTE_EXPIRE]

(* Mutants: a beacon counts as newer when its number is not smaller, when   *)
(* it merely differs, or only when there was no route at all.              *)
IsNewer_OrSame(b, r)    == r # NoRoute => b.id >= r.seq
IsNewer_OrOther(b, r)   == r # NoRoute => b.id # r.seq
IsNewer_IfUnknown(b, r) == r = NoRoute

(* Mutant: a beacon heard again counts as shorter whatever its hop count. *)
IsShorter_Any(b, r) == r # NoRoute /\ b.id = r.seq /\ b.hops # r.hops

IsNewer(b, r)   == r # NoRoute => b.id > r.seq
IsShorter(b, r) == r # NoRoute /\ b.id = r.seq /\ b.hops < r.hops

(* Mutant: beacon_hops is not increased. *)
Forwarded_SameHops(n, b, ttl) ==
    [by |-> n, src |-> b.src, id |-> b.id, hops |-> b.hops, ttl |-> ttl,
     since |-> now]

(* The beacon n schedules when it has adopted copy b. *)
Forwarded(n, b, ttl) ==
    [by |-> n, src |-> b.src, id |-> b.id, hops |-> b.hops + 1, ttl |-> ttl,
     since |-> now]

(***************************************************************************)
(* forward(p, IP_BROADCAST, delay) for a beacon that n rebroadcasts.  With *)
(* its TTL used up the packet is dropped, which returns it to the free     *)
(* list with its headers cleared, and the function goes on with it all the *)
(* same: the destination it asserts to be IP_BROADCAST is then 0.  What    *)
(* happens to the simulation after that is not described: no action is     *)
(* enabled any more.                                                       *)
(***************************************************************************)
Forward(n, b, ttl) ==
    IF ttl = 0
      THEN /\ assertFailed' = TRUE
           /\ UNCHANGED pending
      ELSE /\ pending' = pending \cup {Forwarded(n, b, ttl)}
           /\ UNCHANGED assertFailed

(* recv() and recv_beacon() at n for copy b. *)
RecvBeacon(n, b) ==
    /\ ~assertFailed /\ b.to = n
    /\ air' = air \ {b}
    /\ \/ /\ b.src = n \/ ~(IsNewer(b, rt[n][b.src]) \/ IsShorter(b, rt[n][b.src]))
          /\ UNCHANGED <<rt, pending, assertFailed>>
       \/ /\ b.src # n
          /\ IsNewer(b, rt[n][b.src])
          /\ rt' = [rt EXCEPT ![n][b.src] = EntryFrom(b)]
          /\ Forward(n, b, b.ttl - 1)
       \/ /\ b.src # n
          /\ IsShorter(b, rt[n][b.src])
          /\ rt' = [rt EXCEPT ![n][b.src] = EntryFrom(b)]
          /\ UNCHANGED <<pending, assertFailed>>
    /\ UNCHANGED <<seqno, data, unsent, now, beaconDue, purgeDue>>

(* The delay of a forwarded beacon is over: the packet goes down the stack. *)
Rebroadcast(q) ==
    /\ ~assertFailed
    /\ pending' = pending \ {q}
    /\ \E to \in Hearers(q.by) :
          air' = air \cup Copies(q.by, q.src, q.id, q.hops, q.ttl, to)
    /\ UNCHANGED <<seqno, rt, data, unsent, now, beaconDue, purgeDue,
                   assertFailed>>

-----------------------------------------------------------------------------
HasRoute(n, d) == d \in Sink /\ rt[n][d] # NoRoute

(* recv_data() at n: the copies that are on their way afterwards.  Without *)
(* a route the packet is forgotten; an expired route serves like a fresh   *)
(* one; the unicast to the next hop may be lost.                           *)
RecvData(n, p, ttl) ==
    LET r == rt[n][PktDst[p]]
        c == [pkt |-> p, at |-> r.next, ttl |-> ttl, seq |-> r.seq,
              hops |-> r.hops]
    IN  IF ~HasRoute(n, PktDst[p]) THEN {{}}
        ELSE IF r.next \notin Reach[n] THEN {{}}
        ELSE IF Lossy THEN {{}, {c}} ELSE {{c}}

(* An application on p's origin sends p: recv() with num_forwards() = 0.   *)
(* A packet to the node itself never reaches the agent.                    *)
AppSend(p) ==
    /\ ~assertFailed /\ p \in unsent
    /\ PktSrc[p] # PktDst[p]
    /\ unsent' = unsent \ {p}
    /\ \E out \in RecvData(PktSrc[p], p, DataTTL) : data' = data \cup out
    /\ UNCHANGED <<seqno, rt, air, pending, now, beaconDue, purgeDue,
                   assertFailed>>

(* Data copy c arrives.  The node's classifier keeps what is addressed to  *)
(* the node; the agent drops its own packet coming back                    *)
(* (DROP_RTR_ROUTE_LOOP) and a packet whose TTL runs out, and passes the   *)
(* others on.                                                              *)
DataArrives(c) ==
    LET n == c.at
        drop == \/ n = PktDst[c.pkt]
                \/ n = PktSrc[c.pkt]
                \/ c.ttl - 1 = 0
    IN  /\ ~assertFailed
        /\ \E out \in IF drop THEN {{}} ELSE RecvData(n, c.pkt, c.ttl - 1) :
              data' = (data \ {c}) \cup out
        /\ UNCHANGED <<seqno, rt, air, pending, unsent, now, beaconDue,
                       purgeDue, assertFailed>>

-----------------------------------------------------------------------------
(* Mutant: an entry that expires at this very moment is overlooked. *)
Expired_Strictly(r) == r.expire < now

Expired(r) == r.expire <= now

(* The route cache timer of n: rt_purge() and re-arm. *)
Purge(n) ==
    /\ ~assertFailed /\ purgeDue[n] = now
    /\ rt' = [rt EXCEPT ![n] = [s \in Sink |->
                IF rt[n][s] # NoRoute /\ Expired(rt[n][s])
                  THEN [rt[n][s] EXCEPT !.state = "EXPIRED"]
                  ELSE rt[n][s]]]
    /\ purgeDue' = [purgeDue EXCEPT ![n] = now + ROUTE_PURGE_FREQUENCY]
    /\ UNCHANGED <<seqno, air, pending, data, unsent, now, beaconDue,
                   assertFailed>>

(* The clock moves on when no timer and no forwarding delay is due. *)
Tick ==
    /\ ~assertFailed /\ now < MaxTime
    /\ \A s \in Sink : beaconDue[s] > now
    /\ \A n \in Node : purgeDue[n] > now
    /\ \A q \in pending : q.since + ForwardDelay > now
    /\ now' = now + 1
    /\ UNCHANGED <<seqno, rt, air, pending, data, unsent, beaconDue,
                   purgeDue, assertFailed>>

Next ==
    \/ \E s \in Sink : SendBeacon(s)
    \/ \E n \in Node, b \in air : RecvBeacon(n, b)
    \/ \E q \in pending : Rebroadcast(q)
    \/ \E p \in Pkt : AppSend(p)
    \/ \E c \in data : DataArrives(c)
    \/ \E n \in Node : Purge(n)
    \/ Tick

Spec == Init /\ [][Next]_vars

(* The scheduler dispatches every event it holds, so what is in flight     *)
(* arrives, delays end and the clock advances.                             *)
Fairness ==
    /\ WF_vars(\E n \in Node, b \in air : RecvBeacon(n, b))
    /\ WF_vars(\E q \in pending : Rebroadcast(q))

FairSpec == Spec /\ Fairness

-----------------------------------------------------------------------------
Better(r, q) == r.seq > q.seq \/ (r.seq = q.seq /\ r.hops < q.hops)

(* m is s itself, or has a better route to s than r. *)
Nearer(m, s, r) == m = s \/ (HasRoute(m, s) /\ Better(rt[m][s], r))

(* The next hop of every route (recv_beacon, expired routes included) is   *)
(* at every moment strictly nearer the sink than the node that uses it,    *)
(* whatever copies are late, lost or overtaken by a newer beacon.          *)
NextHopNearer ==
    \A n \in Node, s \in Sink :
        HasRoute(n, s) => Nearer(rt[n][s].next, s, rt[n][s])

(* Following next hops never goes round in a circle: no set of nodes other *)
(* than the sink passes data for the sink only among its own members.      *)
NoRoutingLoop ==
    \A s \in Sink : \A S \in SUBSET (Node \ {s}) :
        (\A n \in S : HasRoute(n, s) /\ rt[n][s].next \in S) => S = {}

(* A sink never holds a route to itself: it drops its own beacons.         *)
SinkHasNoRoute == \A s \in Sink : ~HasRoute(s, s)

(* Beacon numbers are handed out by the sink before anybody knows them.    *)
SeqnoBound ==
    /\ \A b \in air \cup pending : b.id < seqno[b.src]
    /\ \A n \in Node, s \in Sink : HasRoute(n, s) => rt[n][s].seq < seqno[s]

(* Whoever put a beacon on the air, or is about to, is already nearer to   *)
(* the sink than anybody who adopts the beacon's hop count.                *)
BeaconsNearer ==
    /\ \A b \in air : Nearer(b.saddr, b.src, [seq |-> b.id, hops |-> b.hops])
    /\ \A q \in pending : Nearer(q.by, q.src, [seq |-> q.id, hops |-> q.hops])

(* A node rebroadcasts a beacon (sink and number) at most once, although   *)
(* it hears it from every neighbour: all copies of it that the node has    *)
(* scheduled or on the air stem from a single rebroadcast.                 *)
OneFloodPerBeacon ==
    /\ \A p, q \in pending : <<p.by, p.src, p.id>> = <<q.by, q.src, q.id>> => p = q
    /\ \A q \in pending, b \in air :
          <<q.by, q.src, q.id>> # <<b.saddr, b.src, b.id>>
    /\ \A a, b \in air :
          <<a.saddr, a.src, a.id>> = <<b.saddr, b.src, b.id>> => a.hops = b.hops

(* beacon_hops and the IP TTL count the same hops in opposite directions:  *)
(* the 8-bit hop count of a beacon that is still alive never wraps.        *)
HopTtlBalance ==
    /\ \A b \in air : b.ttl > 0 /\ b.hops + b.ttl = NETWORK_DIAMETER + 1
    /\ \A q \in pending : q.ttl > 0 /\ q.hops + q.ttl = NETWORK_DIAMETER + 1

(* In a network of at most NETWORK_DIAMETER nodes no beacon uses up its    *)
(* TTL, so forward() never goes on with a packet it has dropped.           *)
DiameterSuffices ==
    NETWORK_DIAMETER >= Cardinality(Node) => ~assertFailed

(* A data packet in flight goes to the sink or to a node that has a route  *)
(* to it, better than the one the packet was last forwarded by: only a     *)
(* packet's origin can find itself without a route in recv_data().         *)
DataNearer ==
    \A c \in data : Nearer(c.at, PktDst[c.pkt], [seq |-> c.seq, hops |-> c.hops])

(* The inductive strengthening of NextHopNearer and DataNearer.            *)
RoutingInv ==
    /\ TypeOK
    /\ SinkHasNoRoute
    /\ SeqnoBound
    /\ BeaconsNearer
    /\ NextHopNearer
    /\ DataNearer

(* rt_purge(): a route is called fresh for no longer than its lifetime and *)
(* one purge period, and expired only when its lifetime is over.           *)
StateFollowsClock ==
    \A n \in Node, s \in Sink :
        HasRoute(n, s) =>
            IF rt[n][s].state = "FRESH"
              THEN now < rt[n][s].expire + ROUTE_PURGE_FREQUENCY
              ELSE rt[n][s].expire <= now

(* forward(), wfrp.cc:250: assert(ih->daddr() == IP_BROADCAST).            *)
BroadcastAssertion == ~assertFailed

(* Without loss, in a network where every node can be reached, each beacon *)
(* a sink sends is known everywhere in the end, itself or a later one.     *)
RoutesCatchUp ==
    \A s \in Sink, n \in Node, k \in 1..MaxTime + 1 :
        (seqno[s] > k /\ n # s) ~> (HasRoute(n, s) /\ rt[n][s].seq >= k)

-----------------------------------------------------------------------------
(* What the route caches amount to for LoopFreeRoutes. *)
routes ==
    [n \in Node |-> [s \in Sink |->
        IF rt[n][s] = NoRoute
          THEN NoRoute
          ELSE [seq |-> rt[n][s].seq, hops |-> rt[n][s].hops,
                next |-> rt[n][s].next]]]

LFR == INSTANCE LoopFreeRoutes WITH Dest <- Sink, route <- routes

ASSUME AbstractNoRoute == NoRoute \notin LFR!Route

(* The agents of all nodes together implement loop-free routes.            *)
ImplementsLoopFreeRoutes == LFR!Spec

=============================================================================
