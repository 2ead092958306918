----------------------------- MODULE WfrpProofs -----------------------------
(***************************************************************************)
(* Proofs about Wfrp for any number of nodes and sinks, any topology, any  *)
(* loss, and any value of the timing constants.                            *)
(***************************************************************************)
EXTENDS Wfrp, FiniteSetTheorems, WellFoundedInduction, TLAPS

USE DEF Better, FirstSeqno, Forwarded, Expired

-----------------------------------------------------------------------------
(* Type correctness.                                                       *)

(* Replacing one entry of a table of tables keeps its type and changes      *)
(* that entry only.                                                        *)
LEMMA TableUpdate ==
    ASSUME NEW A, NEW B, NEW C, NEW f \in [A -> [B -> C]], NEW a \in A,
           NEW b \in B, NEW c \in C
    PROVE  /\ [f EXCEPT ![a][b] = c] \in [A -> [B -> C]]
           /\ \A x \in A, y \in B :
                 [f EXCEPT ![a][b] = c][x][y] =
                     IF x = a /\ y = b THEN c ELSE f[x][y]
OBVIOUS

(* What recv_data() schedules is at most one well-formed copy.             *)
LEMMA RecvDataType ==
    ASSUME TypeOK, NEW n \in Node, NEW p \in Pkt, NEW ttl \in Int,
           NEW out \in RecvData(n, p, ttl)
    PROVE  out \subseteq DataCopy
<1>1. CASE HasRoute(n, PktDst[p])
  <2>1. rt[n][PktDst[p]] \in RouteCache
    BY <1>1 DEF HasRoute, TypeOK
  <2> QED
    BY <2>1 DEF RecvData, DataCopy, RouteCache
<1>2. CASE ~HasRoute(n, PktDst[p])
  BY <1>2 DEF RecvData
<1> QED
  BY <1>1, <1>2

(* The copies of one broadcast are well-formed.                            *)
LEMMA CopiesType ==
    ASSUME TopologyAssumption, NEW n \in Node, NEW src \in Sink, NEW id \in Nat,
           NEW hops \in Nat, NEW ttl \in Int, NEW to \in Hearers(n)
    PROVE  Copies(n, src, id, hops, ttl, to) \subseteq BeaconCopy
<1>1. to \subseteq Node
  BY DEF Hearers, TopologyAssumption
<1> QED
  BY <1>1 DEF Copies, BeaconCopy

(* Every handler of every agent keeps the state well-typed.                *)
THEOREM TypeCorrect == Spec => []TypeOK
<1> USE TopologyAssumption, TimerAssumption, PacketAssumption
<1>1. Init => TypeOK
  <2>1. SinkStart \subseteq Nat
    BY DEF TimerAssumption
  <2> SUFFICES ASSUME Init PROVE TypeOK
    OBVIOUS
  <2>2. beaconDue \in [Sink -> Nat]
    BY <2>1 DEF Init
  <2>3. /\ seqno \in [Sink -> Nat \ {0}]
        /\ purgeDue \in [Node -> Nat]
        /\ now \in Nat
    BY DEF Init
  <2>4. rt \in [Node -> [Sink -> RouteCache \cup {NoRoute}]]
    BY DEF Init
  <2> QED
    BY <2>2, <2>3, <2>4 DEF Init, TypeOK
<1>2. TypeOK /\ [Next]_vars => TypeOK'
  <2> SUFFICES ASSUME TypeOK, [Next]_vars PROVE TypeOK'
    OBVIOUS
  <2>1. ASSUME NEW s \in Sink, SendBeacon(s) PROVE TypeOK'
    <3>1. s \in Node /\ seqno[s] \in Nat /\ NETWORK_DIAMETER \in Int
      BY DEF TypeOK, TopologyAssumption, TimerAssumption
    <3>2. air' \subseteq BeaconCopy
      BY <2>1, <3>1, CopiesType DEF SendBeacon, TypeOK
    <3> QED
      BY <2>1, <3>2 DEF SendBeacon, TypeOK, TimerAssumption
  <2>2. ASSUME NEW n \in Node, NEW b \in air, RecvBeacon(n, b) PROVE TypeOK'
    <3>1. /\ b \in BeaconCopy
          /\ b.src \in Sink /\ b.saddr \in Node
          /\ b.id \in Nat /\ b.hops \in Nat /\ b.ttl \in Int
      BY DEF TypeOK, BeaconCopy
    <3>2. EntryFrom(b) \in RouteCache
      BY <3>1 DEF EntryFrom, RouteCache, TypeOK, TimerAssumption
    <3>3. rt' \in [Node -> [Sink -> RouteCache \cup {NoRoute}]]
      <4>1. rt' = rt \/ rt' = [rt EXCEPT ![n][b.src] = EntryFrom(b)]
        BY <2>2 DEF RecvBeacon
      <4>2. rt \in [Node -> [Sink -> RouteCache \cup {NoRoute}]]
        BY DEF TypeOK
      <4>3. EntryFrom(b) \in RouteCache \cup {NoRoute}
        BY <3>2
      <4>4. [rt EXCEPT ![n][b.src] = EntryFrom(b)]
              \in [Node -> [Sink -> RouteCache \cup {NoRoute}]]
        BY <3>1, <4>2, <4>3, TableUpdate
      <4> QED
        BY <4>1, <4>2, <4>4
    <3>4. pending' \subseteq Scheduled
      BY <2>2, <3>1 DEF RecvBeacon, Forward, TypeOK, Scheduled
    <3>5. assertFailed' \in BOOLEAN
      BY <2>2 DEF RecvBeacon, Forward, TypeOK
    <3> QED
      BY <2>2, <3>3, <3>4, <3>5 DEF RecvBeacon, TypeOK
  <2>3. ASSUME NEW q \in pending, Rebroadcast(q) PROVE TypeOK'
    <3>1. /\ q.by \in Node /\ q.src \in Sink /\ q.id \in Nat
          /\ q.hops \in Nat /\ q.ttl \in Int
      BY DEF TypeOK, Scheduled
    <3>2. air' \subseteq BeaconCopy
      BY <2>3, <3>1, CopiesType DEF Rebroadcast, TypeOK
    <3> QED
      BY <2>3, <3>2 DEF Rebroadcast, TypeOK
  <2>4. ASSUME NEW p \in Pkt, AppSend(p) PROVE TypeOK'
    <3>1. PktSrc[p] \in Node /\ DataTTL \in Int
      BY DEF PacketAssumption, TimerAssumption
    <3>2. data' \subseteq DataCopy
      BY <2>4, <3>1, RecvDataType DEF AppSend, TypeOK
    <3> QED
      BY <2>4, <3>2 DEF AppSend, TypeOK
  <2>5. ASSUME NEW c \in data, DataArrives(c) PROVE TypeOK'
    <3>1. c.at \in Node /\ c.pkt \in Pkt /\ c.ttl - 1 \in Int
      BY DEF TypeOK, DataCopy
    <3>2. data' \subseteq DataCopy
      BY <2>5, <3>1, RecvDataType DEF DataArrives, TypeOK
    <3> QED
      BY <2>5, <3>2 DEF DataArrives, TypeOK
  <2>6. ASSUME NEW n \in Node, Purge(n) PROVE TypeOK'
    <3>1. ASSUME NEW r \in RouteCache
          PROVE  [r EXCEPT !.state = "EXPIRED"] \in RouteCache
      BY DEF RouteCache
    <3>2. rt' \in [Node -> [Sink -> RouteCache \cup {NoRoute}]]
      BY <2>6, <3>1 DEF Purge, TypeOK
    <3> QED
      BY <2>6, <3>2 DEF Purge, TypeOK, TimerAssumption
  <2>7. CASE Tick
    BY <2>7 DEF Tick, TypeOK
  <2>8. CASE UNCHANGED vars
    BY <2>8 DEF vars, TypeOK
  <2> QED
    BY <2>1, <2>2, <2>3, <2>4, <2>5, <2>6, <2>7, <2>8 DEF Next
<1> QED
  BY <1>1, <1>2, PTL DEF Spec

-----------------------------------------------------------------------------
(* What a step may do to a route.                                          *)

(* The route of m to s is the same, its state and expiry time aside. *)
Keeps(m, s) ==
    /\ HasRoute(m, s)' <=> HasRoute(m, s)
    /\ HasRoute(m, s) => /\ rt'[m][s].seq = rt[m][s].seq
                         /\ rt'[m][s].hops = rt[m][s].hops
                         /\ rt'[m][s].next = rt[m][s].next

(* m takes a better route to s, through a neighbour nearer to s. *)
Adopts(m, s) ==
    /\ m # s
    /\ HasRoute(m, s)'
    /\ HasRoute(m, s) => Better(rt'[m][s], rt[m][s])
    /\ Nearer(rt'[m][s].next, s, rt'[m][s])

(* A handler that leaves the route caches alone keeps all routes.          *)
LEMMA UnchangedKeeps ==
    ASSUME rt' = rt, NEW m \in Node, NEW s \in Sink
    PROVE  Keeps(m, s)
BY DEF Keeps, HasRoute

(* rt_purge() changes the state of entries, not the routes.                *)
LEMMA PurgeKeeps ==
    ASSUME TypeOK, NEW n \in Node, Purge(n), NEW m \in Node, NEW s \in Sink
    PROVE  Keeps(m, s)
<1>1. CASE rt'[m][s] = rt[m][s]
  BY <1>1 DEF Keeps, HasRoute
<1>2. CASE rt'[m][s] # rt[m][s]
  <2>1. /\ rt[m][s] # NoRoute
        /\ rt'[m][s] = [rt[m][s] EXCEPT !.state = "EXPIRED"]
    BY <1>2 DEF Purge, TypeOK
  <2>2. rt[m][s] \in RouteCache
    BY <2>1 DEF TypeOK
  <2>3. rt'[m][s] \in RouteCache
    BY <2>1, <2>2 DEF RouteCache
  <2>4. NoRoute \notin RouteCache
    BY NoRouteAssumption
  <2> QED
    BY <2>1, <2>2, <2>3, <2>4 DEF Keeps, HasRoute, RouteCache
<1> QED
  BY <1>1, <1>2

(* recv_beacon() either keeps a route or adopts the beacon's.              *)
LEMMA RecvBeaconAdopts ==
    ASSUME TypeOK, BeaconsNearer, NEW n \in Node, NEW b \in air,
           RecvBeacon(n, b), NEW m \in Node, NEW s \in Sink
    PROVE  Keeps(m, s) \/ Adopts(m, s)
<1>1. CASE rt' = rt
  BY <1>1, UnchangedKeeps
<1>2. CASE rt' # rt
  <2>1. /\ b.src # n
        /\ IsNewer(b, rt[n][b.src]) \/ IsShorter(b, rt[n][b.src])
        /\ rt' = [rt EXCEPT ![n][b.src] = EntryFrom(b)]
    BY <1>2 DEF RecvBeacon
  <2>2. /\ b.src \in Sink /\ b.id \in Nat /\ b.hops \in Nat
        /\ rt \in [Node -> [Sink -> RouteCache \cup {NoRoute}]]
    BY DEF TypeOK, BeaconCopy
  <2>3. rt'[m][s] = IF m = n /\ s = b.src THEN EntryFrom(b) ELSE rt[m][s]
    BY <2>1, <2>2
  <2>4. CASE m = n /\ s = b.src
    <3>1. rt'[m][s] = EntryFrom(b)
      BY <2>3, <2>4
    <3>2. EntryFrom(b) \in RouteCache
      BY <2>2, TimerAssumption
      DEF EntryFrom, RouteCache, TypeOK, BeaconCopy, TimerAssumption
    <3>3. HasRoute(m, s)'
      BY <3>1, <3>2, NoRouteAssumption DEF HasRoute
    <3>4. HasRoute(m, s) => Better(rt'[m][s], rt[m][s])
      BY <2>1, <2>4, <3>1 DEF HasRoute, EntryFrom, IsNewer, IsShorter
    <3>5. Nearer(b.saddr, s, [seq |-> b.id, hops |-> b.hops])
      BY <2>4 DEF BeaconsNearer
    <3>6. Nearer(rt'[m][s].next, s, rt'[m][s])
      BY <3>1, <3>5 DEF Nearer, EntryFrom
    <3> QED
      BY <2>1, <2>4, <3>3, <3>4, <3>6 DEF Adopts
  <2>5. CASE ~(m = n /\ s = b.src)
    BY <2>3, <2>5 DEF Keeps, HasRoute
  <2> QED
    BY <2>4, <2>5
<1> QED
  BY <1>1, <1>2

(* Every step of the network keeps or improves every route.                *)
LEMMA RoutesImprove ==
    ASSUME TypeOK, BeaconsNearer, [Next]_vars, NEW m \in Node, NEW s \in Sink
    PROVE  Keeps(m, s) \/ Adopts(m, s)
<1>1. CASE rt' = rt
  BY <1>1, UnchangedKeeps
<1>2. ASSUME NEW n \in Node, NEW b \in air, RecvBeacon(n, b)
      PROVE  Keeps(m, s) \/ Adopts(m, s)
  BY <1>2, RecvBeaconAdopts
<1>3. ASSUME NEW n \in Node, Purge(n)
      PROVE  Keeps(m, s) \/ Adopts(m, s)
  BY <1>3, PurgeKeeps
<1> QED
  BY <1>1, <1>2, <1>3
  DEF Next, vars, SendBeacon, Rebroadcast, AppSend, DataArrives, Tick

(* Being nearer than a given route survives the improvement of routes.     *)
LEMMA NearerPersists ==
    ASSUME TypeOK, TypeOK', NEW m, NEW s, NEW r,
           r.seq \in Nat, r.hops \in Nat,
           m # s => m \in Node,
           m # s /\ s \in Sink => Keeps(m, s) \/ Adopts(m, s),
           Nearer(m, s, r)
    PROVE  Nearer(m, s, r)'
<1>1. CASE m = s
  BY <1>1 DEF Nearer
<1>2. CASE m # s
  <2>1. m \in Node /\ HasRoute(m, s) /\ s \in Sink /\ Better(rt[m][s], r)
    BY <1>2 DEF Nearer, HasRoute
  <2>2. HasRoute(m, s)'
    BY <1>2, <2>1 DEF Keeps, Adopts
  <2>3. rt[m][s] \in RouteCache /\ rt'[m][s] \in RouteCache
    BY <2>1, <2>2 DEF TypeOK, HasRoute
  <2>4. /\ rt[m][s].seq \in Nat /\ rt[m][s].hops \in Nat
        /\ rt'[m][s].seq \in Nat /\ rt'[m][s].hops \in Nat
    BY <2>3 DEF RouteCache
  <2>5. Better(rt'[m][s], r)
    BY <1>2, <2>1, <2>4 DEF Keeps, Adopts
  <2> QED
    BY <2>2, <2>5 DEF Nearer
<1> QED
  BY <1>1, <1>2

-----------------------------------------------------------------------------
(* The inductive invariant, one conjunct at a time.                        *)

(* No node's route to itself comes into being.                             *)
LEMMA SinkHasNoRouteStep ==
    ASSUME TypeOK, BeaconsNearer, SinkHasNoRoute, [Next]_vars
    PROVE  SinkHasNoRoute'
<1> SUFFICES ASSUME NEW s \in Sink PROVE ~HasRoute(s, s)'
  BY DEF SinkHasNoRoute
<1>1. s \in Node /\ ~HasRoute(s, s)
  BY TopologyAssumption DEF TopologyAssumption, SinkHasNoRoute
<1>2. Keeps(s, s) \/ Adopts(s, s)
  BY <1>1, RoutesImprove
<1> QED
  BY <1>1, <1>2 DEF Keeps, Adopts

(* Next hops stay nearer: a kept route by persistence, a new one because   *)
(* the beacon's sender was nearer when the beacon was heard.               *)
LEMMA NextHopNearerStep ==
    ASSUME TypeOK, TypeOK', BeaconsNearer, NextHopNearer, [Next]_vars
    PROVE  NextHopNearer'
<1> SUFFICES ASSUME NEW n \in Node, NEW s \in Sink, HasRoute(n, s)'
             PROVE  Nearer(rt[n][s].next, s, rt[n][s])'
  BY DEF NextHopNearer
<1>1. PICK r : r = rt'[n][s]
  OBVIOUS
<1>2. r \in RouteCache /\ r.next \in Node /\ r.seq \in Nat /\ r.hops \in Nat
  BY <1>1 DEF TypeOK, HasRoute, RouteCache
<1>3. Nearer(r.next, s, r)
  <2>1. Keeps(n, s) \/ Adopts(n, s)
    BY RoutesImprove
  <2>2. CASE Adopts(n, s)
    BY <1>1, <2>2 DEF Adopts
  <2>3. CASE Keeps(n, s)
    BY <1>1, <2>3 DEF Keeps, NextHopNearer, Nearer
  <2> QED
    BY <2>1, <2>2, <2>3
<1>4. Keeps(r.next, s) \/ Adopts(r.next, s)
  BY <1>2, RoutesImprove
<1>5. Nearer(r.next, s, r)'
  BY <1>2, <1>3, <1>4, NearerPersists
<1> QED
  BY <1>1, <1>5

(* What is on the air or scheduled keeps a nearer sender: old copies by    *)
(* persistence, new ones because the sender is the sink or has just        *)
(* adopted the route it announces with one hop more.                       *)
LEMMA BeaconsNearerStep ==
    ASSUME TypeOK, TypeOK', BeaconsNearer, [Next]_vars
    PROVE  BeaconsNearer'
<1>1. ASSUME NEW m \in Node, NEW s \in Sink, NEW r, r.seq \in Nat,
             r.hops \in Nat, Nearer(m, s, r)
      PROVE  Nearer(m, s, r)'
  BY <1>1, RoutesImprove, NearerPersists
<1>2. ASSUME NEW b \in air
      PROVE  Nearer(b.saddr, b.src, [seq |-> b.id, hops |-> b.hops])'
  <2>1. /\ b.saddr \in Node /\ b.src \in Sink
        /\ b.id \in Nat /\ b.hops \in Nat
    BY DEF TypeOK, BeaconCopy
  <2> QED
    BY <1>1, <2>1 DEF BeaconsNearer
<1>3. ASSUME NEW q \in pending
      PROVE  Nearer(q.by, q.src, [seq |-> q.id, hops |-> q.hops])'
  <2>1. /\ q.by \in Node /\ q.src \in Sink
        /\ q.id \in Nat /\ q.hops \in Nat
    BY DEF TypeOK, Scheduled
  <2> QED
    BY <1>1, <2>1 DEF BeaconsNearer
<1>4. CASE air' \subseteq air /\ pending' \subseteq pending
  BY <1>2, <1>3, <1>4 DEF BeaconsNearer
<1>5. ASSUME NEW s \in Sink, SendBeacon(s) PROVE BeaconsNearer'
  <2>1. \A b \in air' : b \in air \/ b.saddr = b.src
    BY <1>5 DEF SendBeacon, Copies
  <2>2. pending' = pending
    BY <1>5 DEF SendBeacon
  <2> QED
    BY <1>2, <1>3, <2>1, <2>2 DEF BeaconsNearer, Nearer
<1>6. ASSUME NEW n \in Node, NEW b \in air, RecvBeacon(n, b)
      PROVE  BeaconsNearer'
  <2>1. air' \subseteq air
    BY <1>6 DEF RecvBeacon
  <2>2. CASE pending' \subseteq pending
    BY <1>4, <2>1, <2>2
  <2>3. CASE ~(pending' \subseteq pending)
    <3> DEFINE q == [by |-> n, src |-> b.src, id |-> b.id,
                     hops |-> b.hops + 1, ttl |-> b.ttl - 1, since |-> now]
    <3>1. /\ rt' = [rt EXCEPT ![n][b.src] = EntryFrom(b)]
          /\ pending' = pending \cup {q}
      BY <1>6, <2>3 DEF RecvBeacon, Forward
    <3>2. /\ b.src \in Sink /\ b.id \in Nat /\ b.hops \in Nat
          /\ rt \in [Node -> [Sink -> RouteCache \cup {NoRoute}]]
      BY DEF TypeOK, BeaconCopy
    <3>3. rt'[n][b.src] = EntryFrom(b)
      BY <3>1, <3>2
    <3>4. EntryFrom(b) \in RouteCache
      BY <3>2, TimerAssumption
      DEF EntryFrom, RouteCache, TypeOK, BeaconCopy, TimerAssumption
    <3>5. HasRoute(n, b.src)'
      BY <3>2, <3>3, <3>4, NoRouteAssumption DEF HasRoute
    <3>6. Nearer(q.by, q.src, [seq |-> q.id, hops |-> q.hops])'
      BY <3>2, <3>3, <3>5 DEF Nearer, EntryFrom
    <3> QED
      BY <1>2, <1>3, <2>1, <3>1, <3>6 DEF BeaconsNearer
  <2> QED
    BY <2>2, <2>3
<1>7. ASSUME NEW q \in pending, Rebroadcast(q) PROVE BeaconsNearer'
  <2>1. \A b \in air' : \/ b \in air
                         \/ /\ b.saddr = q.by /\ b.src = q.src
                            /\ b.id = q.id /\ b.hops = q.hops
    BY <1>7 DEF Rebroadcast, Copies
  <2>2. pending' \subseteq pending
    BY <1>7 DEF Rebroadcast
  <2>3. \A b \in air' :
          Nearer(b.saddr, b.src, [seq |-> b.id, hops |-> b.hops])'
    BY <1>2, <1>3, <2>1, Zenon
  <2>4. \A p \in pending' :
          Nearer(p.by, p.src, [seq |-> p.id, hops |-> p.hops])'
    BY <1>3, <2>2, Zenon
  <2> QED
    BY <2>3, <2>4 DEF BeaconsNearer
<1> QED
  BY <1>4, <1>5, <1>6, <1>7
  DEF Next, vars, AppSend, DataArrives, Purge, Tick

(* Beacon numbers in the network stay below the sink's next number.        *)
LEMMA SeqnoBoundStep ==
    ASSUME TypeOK, TypeOK', SeqnoBound, [Next]_vars
    PROVE  SeqnoBound'
<1>1. CASE UNCHANGED <<seqno, rt>> /\ air' \subseteq air /\ pending' = pending
  BY <1>1 DEF SeqnoBound, HasRoute
<1>2. ASSUME NEW s \in Sink, SendBeacon(s) PROVE SeqnoBound'
  <2>1. /\ \A z \in Sink : seqno[z] \in Nat
        /\ seqno'[s] = seqno[s] + 1
        /\ \A z \in Sink \ {s} : seqno'[z] = seqno[z]
    BY <1>2 DEF SendBeacon, TypeOK
  <2>2. \A b \in air' : b \in air \/ (b.src = s /\ b.id = seqno[s])
    BY <1>2 DEF SendBeacon, Copies
  <2>3. pending' = pending /\ rt' = rt
    BY <1>2 DEF SendBeacon
  <2>4. /\ \A b \in air : b.id \in Nat /\ b.src \in Sink
        /\ \A q \in pending : q.id \in Nat /\ q.src \in Sink
    BY DEF TypeOK, BeaconCopy, Scheduled
  <2>5. \A n \in Node, z \in Sink : HasRoute(n, z) => rt[n][z].seq \in Nat
    BY DEF TypeOK, HasRoute, RouteCache
  <2>6. \A b \in air' \cup pending' : b.id < seqno'[b.src]
    BY <2>1, <2>2, <2>3, <2>4 DEF SeqnoBound
  <2>7. \A n \in Node, z \in Sink :
          HasRoute(n, z)' => rt'[n][z].seq < seqno'[z]
    BY <2>1, <2>3, <2>5 DEF SeqnoBound, HasRoute
  <2> QED
    BY <2>6, <2>7 DEF SeqnoBound
<1>3. ASSUME NEW n \in Node, NEW b \in air, RecvBeacon(n, b)
      PROVE  SeqnoBound'
  <2>1. seqno' = seqno /\ air' \subseteq air /\ b.id < seqno[b.src]
    BY <1>3 DEF RecvBeacon, SeqnoBound
  <2>2. \A q \in pending' : q \in pending \/ (q.src = b.src /\ q.id = b.id)
    BY <1>3 DEF RecvBeacon, Forward
  <2>3. rt' = rt \/ rt' = [rt EXCEPT ![n][b.src] = EntryFrom(b)]
    BY <1>3 DEF RecvBeacon
  <2>4. \A m \in Node, z \in Sink :
          \/ rt'[m][z] = rt[m][z]
          \/ rt'[m][z] = EntryFrom(b) /\ z = b.src
    BY <2>3, SMTT(60) DEF TypeOK, BeaconCopy
  <2>5. \A q \in air' \cup pending' : q.id < seqno'[q.src]
    BY <2>1, <2>2 DEF SeqnoBound
  <2>6. \A m \in Node, z \in Sink :
          HasRoute(m, z)' => rt'[m][z].seq < seqno'[z]
    BY <2>1, <2>4 DEF SeqnoBound, HasRoute, EntryFrom
  <2> QED
    BY <2>5, <2>6 DEF SeqnoBound
<1>4. ASSUME NEW q \in pending, Rebroadcast(q) PROVE SeqnoBound'
  <2>1. \A b \in air' : b \in air \/ (b.src = q.src /\ b.id = q.id)
    BY <1>4 DEF Rebroadcast, Copies
  <2>2. seqno' = seqno /\ rt' = rt /\ pending' \subseteq pending
    BY <1>4 DEF Rebroadcast
  <2> QED
    BY <2>1, <2>2 DEF SeqnoBound, HasRoute
<1>5. ASSUME NEW n \in Node, Purge(n) PROVE SeqnoBound'
  <2>1. \A m \in Node, z \in Sink : Keeps(m, z)
    BY <1>5, PurgeKeeps
  <2>2. UNCHANGED <<seqno, air, pending>>
    BY <1>5 DEF Purge
  <2> QED
    BY <2>1, <2>2 DEF SeqnoBound, Keeps
<1> QED
  BY <1>1, <1>2, <1>3, <1>4, <1>5
  DEF Next, vars, AppSend, DataArrives, Tick

(* A packet that recv_data() passes on goes to a nearer node.              *)
LEMMA ForwardedNearer ==
    ASSUME NextHopNearer, NEW n \in Node, NEW p \in Pkt, NEW ttl,
           NEW out \in RecvData(n, p, ttl), NEW c \in out
    PROVE  Nearer(c.at, PktDst[c.pkt], [seq |-> c.seq, hops |-> c.hops])
<1>1. HasRoute(n, PktDst[p])
  BY DEF RecvData
<1>2. LET r == rt[n][PktDst[p]]
      IN  c = [pkt |-> p, at |-> r.next, ttl |-> ttl, seq |-> r.seq,
               hops |-> r.hops]
  BY <1>1 DEF RecvData
<1>3. Nearer(rt[n][PktDst[p]].next, PktDst[p], rt[n][PktDst[p]])
  BY <1>1 DEF NextHopNearer, HasRoute
<1> QED
  BY <1>2, <1>3 DEF Nearer

(* Data in flight stays nearer the sink than its last forwarder was.       *)
LEMMA DataNearerStep ==
    ASSUME TypeOK, TypeOK', BeaconsNearer, NextHopNearer, DataNearer,
           [Next]_vars
    PROVE  DataNearer'
<1>1. ASSUME NEW c \in data
      PROVE  Nearer(c.at, PktDst[c.pkt], [seq |-> c.seq, hops |-> c.hops])'
  <2>1. c.at \in Node /\ c.seq \in Nat /\ c.hops \in Nat
    BY DEF TypeOK, DataCopy
  <2>2. PktDst[c.pkt] \in Sink =>
           \/ Keeps(c.at, PktDst[c.pkt])
           \/ Adopts(c.at, PktDst[c.pkt])
    BY <2>1, RoutesImprove
  <2>3. Nearer(c.at, PktDst[c.pkt], [seq |-> c.seq, hops |-> c.hops])
    BY DEF DataNearer
  <2> QED
    BY <2>1, <2>2, <2>3, NearerPersists
<1>2. CASE data' = data
  BY <1>1, <1>2, Zenon DEF DataNearer
<1>3. ASSUME NEW n \in Node, NEW p \in Pkt, NEW ttl,
             NEW out \in RecvData(n, p, ttl), data' \subseteq data \cup out,
             rt' = rt
      PROVE  DataNearer'
  <2>1. ASSUME NEW c \in out
        PROVE  Nearer(c.at, PktDst[c.pkt], [seq |-> c.seq, hops |-> c.hops])'
    BY <1>3, ForwardedNearer DEF Nearer, HasRoute
  <2> QED
    BY <1>1, <1>3, <2>1, Zenon DEF DataNearer
<1>4. ASSUME NEW p \in Pkt, AppSend(p) PROVE DataNearer'
  <2>1. PktSrc[p] \in Node
    BY PacketAssumption DEF PacketAssumption
  <2> QED
    BY <1>3, <1>4, <2>1 DEF AppSend
<1>5. ASSUME NEW c \in data, DataArrives(c) PROVE DataNearer'
  <2>1. c.at \in Node /\ c.pkt \in Pkt
    BY DEF TypeOK, DataCopy
  <2>2. rt' = rt
    BY <1>5 DEF DataArrives
  <2>3. CASE data' \subseteq data
    BY <1>1, <2>3, Zenon DEF DataNearer
  <2>4. CASE ~(data' \subseteq data)
    <3>1. PICK out \in RecvData(c.at, c.pkt, c.ttl - 1) :
             data' = (data \ {c}) \cup out
      BY <1>5, <2>4 DEF DataArrives
    <3> QED
      BY <1>3, <2>1, <2>2, <3>1
  <2> QED
    BY <2>3, <2>4
<1> QED
  BY <1>2, <1>4, <1>5
  DEF Next, vars, SendBeacon, RecvBeacon, Rebroadcast, Purge, Tick

-----------------------------------------------------------------------------
(* The strengthening is an invariant of every reachable state.             *)
THEOREM RoutingInvariant == Spec => []RoutingInv
<1>1. Init /\ TypeOK => RoutingInv
  <2> SUFFICES ASSUME Init, TypeOK PROVE RoutingInv
    OBVIOUS
  <2>1. \A n \in Node, s \in Sink : ~HasRoute(n, s)
    BY DEF Init, HasRoute
  <2>2. air = {} /\ pending = {} /\ data = {}
    BY DEF Init
  <2>3. SinkHasNoRoute
    BY <2>1, TopologyAssumption DEF SinkHasNoRoute, TopologyAssumption
  <2> QED
    BY <2>1, <2>2, <2>3
    DEF RoutingInv, SeqnoBound, BeaconsNearer, NextHopNearer, DataNearer
<1>2. RoutingInv /\ TypeOK' /\ [Next]_vars => RoutingInv'
  BY SinkHasNoRouteStep, SeqnoBoundStep, BeaconsNearerStep,
     NextHopNearerStep, DataNearerStep DEF RoutingInv
<1> QED
  BY <1>1, <1>2, TypeCorrect, PTL DEF Spec

(* recv_beacon() keeps every next hop strictly nearer the sink, however    *)
(* beacons are delayed, lost or overtaken.                                 *)
THEOREM NextHopsAreNearer == Spec => []NextHopNearer
BY RoutingInvariant, PTL DEF RoutingInv

(* Once forwarded, a data packet only meets nodes that have a better route *)
(* than the one it was forwarded by: recv_data() never forgets it for want *)
(* of a route.                                                             *)
THEOREM DataMovesNearer == Spec => []DataNearer
BY RoutingInvariant, PTL DEF RoutingInv

-----------------------------------------------------------------------------
(* The order of the natural numbers, as a well-founded relation.           *)
LEMMA NatOrderWellFounded ==
    \E R : /\ IsWellFoundedOn(R, Nat)
           /\ \A a, b \in Nat : a < b => <<a, b>> \in R
<1>1. IsWellFoundedOn(OpToRel(<, Nat), Nat)
  BY NatLessThanWellFounded, Zenon
<1>2. \A a, b \in Nat : a < b => <<a, b>> \in OpToRel(<, Nat)
  BY SMT DEF OpToRel
<1> QED
  BY <1>1, <1>2, Zenon

(* A nonempty set of natural numbers has a least element.                  *)
LEMMA LeastElement ==
    ASSUME NEW S, S \subseteq Nat, S # {}
    PROVE  \E x \in S : \A y \in S : x <= y
<1>1. PICK R : /\ IsWellFoundedOn(R, Nat)
               /\ \A a, b \in Nat : a < b => <<a, b>> \in R
  BY NatOrderWellFounded
<1>2. PICK x \in S : \A y \in S : ~(<<y, x>> \in R)
  <2>1. IsWellFoundedOn(R, Nat)
    BY <1>1, Zenon
  <2>2. \E x \in S : \A y \in S : ~(<<y, x>> \in R)
    BY ONLY <2>1, S \subseteq Nat, S # {}, WFMin, ZenonT(60)
  <2> QED
    BY <2>2, Zenon
<1>3. ASSUME NEW y \in S PROVE x <= y
  <2>1. x \in Nat /\ y \in Nat
    OBVIOUS
  <2>2. ~(y < x)
    BY <1>1, <1>2, <2>1
  <2> QED
    BY <2>1, <2>2
<1> QED
  BY <1>3

(* In a set of nodes that all have routes to s there is one with a best    *)
(* route: its beacon is as new as any, and of the newest it is the nearest.*)
LEMMA BestRoute ==
    ASSUME TypeOK, SeqnoBound, NEW s \in Sink, NEW S \in SUBSET Node, S # {},
           \A n \in S : HasRoute(n, s)
    PROVE  \E n \in S : \A m \in S : ~Better(rt[m][s], rt[n][s])
<1> DEFINE age(n) == seqno[s] - rt[n][s].seq
           ages == {age(n) : n \in S}
<1>1. \A n \in S : /\ rt[n][s].seq \in Nat /\ rt[n][s].hops \in Nat
                   /\ age(n) \in Nat
  <2> SUFFICES ASSUME NEW n \in S
               PROVE  /\ rt[n][s].seq \in Nat /\ rt[n][s].hops \in Nat
                      /\ age(n) \in Nat
    OBVIOUS
  <2>1. rt[n][s] \in RouteCache /\ rt[n][s].seq < seqno[s]
    BY DEF TypeOK, HasRoute, SeqnoBound
  <2>2. seqno[s] \in Nat
    BY DEF TypeOK
  <2> QED
    BY <2>1, <2>2 DEF RouteCache
<1>2. ages # {} /\ ages \subseteq Nat
  BY <1>1
<1>3. PICK a \in ages : \A x \in ages : a <= x
  BY <1>2, LeastElement
<1> DEFINE newest == {n \in S : age(n) = a}
           lengths == {rt[n][s].hops : n \in newest}
<1>4. lengths # {} /\ lengths \subseteq Nat
  BY <1>1, <1>3
<1>5. PICK h \in lengths : \A x \in lengths : h <= x
  BY <1>4, LeastElement
<1>6. PICK n \in newest : rt[n][s].hops = h
  BY <1>5
<1>7. ASSUME NEW m \in S PROVE ~Better(rt[m][s], rt[n][s])
  <2>1. age(n) = a /\ a <= age(m) /\ n \in S
    BY <1>3, <1>6
  <2>2. seqno[s] \in Nat
    BY DEF TypeOK
  <2>3. rt[m][s].seq <= rt[n][s].seq
    BY <1>1, <2>1, <2>2
  <2>4. CASE rt[m][s].seq = rt[n][s].seq
    <3>1. m \in newest
      BY <2>1, <2>4
    <3>2. h <= rt[m][s].hops
      BY <1>5, <3>1
    <3> QED
      BY <1>1, <1>6, <2>1, <2>4, <3>2
  <2>5. CASE rt[m][s].seq # rt[n][s].seq
    BY <1>1, <2>1, <2>3, <2>5
  <2> QED
    BY <2>4, <2>5
<1> QED
  BY <1>6, <1>7

(* Following next hops never goes round in a circle, in a network of any   *)
(* size: a set closed under next hops has no best route in it.             *)
THEOREM RoutesAreAcyclic == Spec => []NoRoutingLoop
<1>1. RoutingInv => NoRoutingLoop
  <2> SUFFICES ASSUME RoutingInv, NEW s \in Sink, NEW S \in SUBSET (Node \ {s}),
                      \A n \in S : HasRoute(n, s) /\ rt[n][s].next \in S,
                      S # {}
               PROVE  FALSE
    BY DEF NoRoutingLoop
  <2>1. PICK n \in S : \A m \in S : ~Better(rt[m][s], rt[n][s])
    BY BestRoute DEF RoutingInv
  <2>2. Nearer(rt[n][s].next, s, rt[n][s])
    BY DEF RoutingInv, NextHopNearer
  <2> QED
    BY <2>1, <2>2 DEF Nearer
<1> QED
  BY <1>1, RoutingInvariant, PTL

-----------------------------------------------------------------------------
(* Refinement of LoopFreeRoutes.                                           *)

(* What the route caches amount to, entry by entry.                        *)
LEMMA RoutesEntry ==
    ASSUME TypeOK, NEW n \in Node, NEW s \in Sink
    PROVE  IF HasRoute(n, s)
             THEN /\ routes[n][s] # NoRoute
                  /\ routes[n][s].seq = rt[n][s].seq
                  /\ routes[n][s].hops = rt[n][s].hops
                  /\ routes[n][s].next = rt[n][s].next
             ELSE routes[n][s] = NoRoute
<1>1. CASE HasRoute(n, s)
  <2>1. routes[n][s] = [seq |-> rt[n][s].seq, hops |-> rt[n][s].hops,
                        next |-> rt[n][s].next]
    BY <1>1 DEF routes, HasRoute
  <2>2. rt[n][s] \in RouteCache
    BY <1>1 DEF TypeOK, HasRoute
  <2>3. routes[n][s] \in LFR!Route
    BY <2>1, <2>2 DEF LFR!Route, RouteCache
  <2> QED
    BY <1>1, <2>1, <2>3, AbstractNoRoute
<1>2. CASE ~HasRoute(n, s)
  BY <1>2 DEF routes, HasRoute
<1> QED
  BY <1>1, <1>2

(* Nearer means the same in both modules.                                  *)
LEMMA NearerIsAbstract ==
    ASSUME TypeOK, NEW m \in Node, NEW s \in Sink, NEW r, Nearer(m, s, r)
    PROVE  LFR!Nearer(m, s, r)
<1>1. CASE m = s
  BY <1>1 DEF LFR!Nearer
<1>2. CASE m # s
  <2>1. HasRoute(m, s) /\ Better(rt[m][s], r)
    BY <1>2 DEF Nearer
  <2>2. /\ routes[m][s] # NoRoute
        /\ routes[m][s].seq = rt[m][s].seq
        /\ routes[m][s].hops = rt[m][s].hops
    BY <2>1, RoutesEntry
  <2> QED
    BY <2>1, <2>2 DEF LFR!Nearer, LFR!Better
<1> QED
  BY <1>1, <1>2

(* recv_beacon() at n is an abstract adoption or leaves the routes alone.  *)
LEMMA RecvBeaconRefines ==
    ASSUME TypeOK, TypeOK', BeaconsNearer, NEW n \in Node, NEW b \in air,
           RecvBeacon(n, b)
    PROVE  LFR!Next \/ routes' = routes
<1>1. CASE rt' = rt
  BY <1>1 DEF routes
<1>2. CASE rt' # rt
  <2> DEFINE s == b.src
             r == [seq |-> b.id, hops |-> b.hops, next |-> b.saddr]
  <2>1. /\ s # n /\ s \in Sink /\ b.saddr \in Node
        /\ rt' = [rt EXCEPT ![n][s] = EntryFrom(b)]
    BY <1>2 DEF RecvBeacon, TypeOK, BeaconCopy
  <2>2. \A m \in Node, z \in Sink :
          rt'[m][z] = IF m = n /\ z = s THEN EntryFrom(b) ELSE rt[m][z]
    BY <2>1 DEF TypeOK
  <2>3. Adopts(n, s)
    <3>1. EntryFrom(b) # rt[n][s]
      BY <1>2, <2>1 DEF TypeOK
    <3>2. Keeps(n, s) \/ Adopts(n, s)
      BY <2>1, RecvBeaconAdopts
    <3>3. IsNewer(b, rt[n][s]) \/ IsShorter(b, rt[n][s])
      BY <1>2 DEF RecvBeacon
    <3>4. ~Keeps(n, s)
      <4>1. rt'[n][s] = EntryFrom(b) /\ EntryFrom(b) \in RouteCache
        BY <2>1, <2>2, TimerAssumption
        DEF EntryFrom, RouteCache, TypeOK, BeaconCopy, TimerAssumption
      <4>2. HasRoute(n, s)'
        BY <2>1, <4>1, NoRouteAssumption DEF HasRoute
      <4>3. HasRoute(n, s) => rt[n][s].seq \in Nat /\ rt[n][s].hops \in Nat
        BY DEF HasRoute, TypeOK, RouteCache
      <4>4. b.id \in Nat /\ b.hops \in Nat
        BY DEF TypeOK, BeaconCopy
      <4> QED
        BY <2>1, <3>3, <4>1, <4>2, <4>3, <4>4
        DEF Keeps, HasRoute, EntryFrom, IsNewer, IsShorter
    <3> QED
      BY <3>2, <3>4
  <2>4. routes'[n][s] = r /\ r \in LFR!Route
    <3>1. routes'[n][s] = [seq |-> rt'[n][s].seq, hops |-> rt'[n][s].hops,
                           next |-> rt'[n][s].next]
      BY <2>1, <2>3 DEF Adopts, HasRoute, routes
    <3>2. rt'[n][s] = EntryFrom(b)
      BY <2>1, <2>2
    <3> QED
      BY <2>1, <3>1, <3>2 DEF EntryFrom, LFR!Route, TypeOK, BeaconCopy
  <2>5. routes' = [routes EXCEPT ![n][s] = routes'[n][s]]
    <3> DEFINE entry(m, z) == IF rt[m][z] = NoRoute
                                THEN NoRoute
                                ELSE [seq |-> rt[m][z].seq,
                                      hops |-> rt[m][z].hops,
                                      next |-> rt[m][z].next]
    <3>1. /\ routes = [m \in Node |-> [z \in Sink |-> entry(m, z)]]
          /\ routes' = [m \in Node |-> [z \in Sink |-> entry(m, z)']]
      BY DEF routes
    <3>2. \A m \in Node, z \in Sink :
            ~(m = n /\ z = s) => entry(m, z)' = entry(m, z)
      BY <2>2
    <3> HIDE DEF entry
    <3> QED
      BY <2>1, <3>1, <3>2
  <2>6. routes[n][s] = NoRoute \/ LFR!Better(r, routes[n][s])
    <3>1. rt'[n][s].seq = b.id /\ rt'[n][s].hops = b.hops
      BY <2>1, <2>2 DEF EntryFrom
    <3>2. CASE HasRoute(n, s)
      <4>1. Better(r, rt[n][s])
        BY <2>3, <3>1, <3>2 DEF Adopts
      <4>2. /\ routes[n][s].seq = rt[n][s].seq
            /\ routes[n][s].hops = rt[n][s].hops
        BY <2>1, <3>2, RoutesEntry
      <4> QED
        BY <4>1, <4>2 DEF LFR!Better
    <3>3. CASE ~HasRoute(n, s)
      BY <2>1, <3>3, RoutesEntry
    <3> QED
      BY <3>2, <3>3
  <2>7. LFR!Nearer(r.next, s, r)
    <3>1. Nearer(r.next, s, r)
      BY <2>1 DEF BeaconsNearer, Nearer
    <3> QED
      BY <2>1, <3>1, NearerIsAbstract
  <2>8. LFR!Adopt(n, s, routes'[n][s])
    BY <2>1, <2>4, <2>5, <2>6, <2>7 DEF LFR!Adopt
  <2> QED
    BY <2>1, <2>8 DEF LFR!Next
<1> QED
  BY <1>1, <1>2

(* The agents of all nodes together implement loop-free routes.            *)
THEOREM Refinement == Spec => ImplementsLoopFreeRoutes
<1>1. Init => LFR!Init
  BY DEF Init, LFR!Init, routes
<1>2. RoutingInv /\ RoutingInv' /\ [Next]_vars => [LFR!Next]_routes
  <2> SUFFICES ASSUME RoutingInv, RoutingInv', [Next]_vars
               PROVE  LFR!Next \/ routes' = routes
    OBVIOUS
  <2>1. TypeOK /\ TypeOK' /\ BeaconsNearer
    BY DEF RoutingInv
  <2>2. CASE rt' = rt
    BY <2>2 DEF routes
  <2>3. ASSUME NEW n \in Node, NEW b \in air, RecvBeacon(n, b)
        PROVE  LFR!Next \/ routes' = routes
    BY <2>1, <2>3, RecvBeaconRefines
  <2>4. ASSUME NEW n \in Node, Purge(n) PROVE routes' = routes
    <3>1. \A m \in Node, z \in Sink : Keeps(m, z)
      BY <2>1, <2>4, PurgeKeeps
    <3>2. ASSUME NEW m \in Node, NEW z \in Sink
          PROVE  (IF rt[m][z] = NoRoute
                    THEN NoRoute
                    ELSE [seq |-> rt[m][z].seq, hops |-> rt[m][z].hops,
                          next |-> rt[m][z].next])'
                 = IF rt[m][z] = NoRoute
                     THEN NoRoute
                     ELSE [seq |-> rt[m][z].seq, hops |-> rt[m][z].hops,
                           next |-> rt[m][z].next]
      BY <3>1 DEF Keeps, HasRoute
    <3> QED
      BY <3>2 DEF routes
  <2> QED
    BY <2>2, <2>3, <2>4
    DEF Next, vars, SendBeacon, Rebroadcast, AppSend, DataArrives, Tick
<1> QED
  BY <1>1, <1>2, RoutingInvariant, PTL
  DEF Spec, ImplementsLoopFreeRoutes, LFR!Spec

-----------------------------------------------------------------------------
(* How a beacon travels (it is rebroadcast once per node, its hop count    *)
(* and its TTL balance, and no network of at most NETWORK_DIAMETER nodes   *)
(* uses the TTL up), and how the state of a route follows the two clocks   *)
(* that govern it.                                                         *)

(* Hop count and TTL.                                                      *)

(* Every hop takes from the TTL of a beacon what it adds to its hop count. *)
LEMMA HopTtlBalanceStep ==
    ASSUME TypeOK, HopTtlBalance, [Next]_vars
    PROVE  HopTtlBalance'
<1>1. CASE air' \subseteq air /\ pending' \subseteq pending
  BY <1>1 DEF HopTtlBalance
<1>2. ASSUME NEW s \in Sink, SendBeacon(s) PROVE HopTtlBalance'
  <2>1. PICK to \in Hearers(s) :
           air' = air \cup Copies(s, s, seqno[s], 1, NETWORK_DIAMETER, to)
    BY <1>2 DEF SendBeacon
  <2>2. pending' = pending
    BY <1>2 DEF SendBeacon
  <2>3. NETWORK_DIAMETER \in Nat \ {0}
    BY TimerAssumption DEF TimerAssumption
  <2>4. \A b \in Copies(s, s, seqno[s], 1, NETWORK_DIAMETER, to) :
           b.hops = 1 /\ b.ttl = NETWORK_DIAMETER
    BY DEF Copies
  <2> QED
    BY <2>1, <2>2, <2>3, <2>4 DEF HopTtlBalance
<1>3. ASSUME NEW n \in Node, NEW b \in air, RecvBeacon(n, b)
      PROVE  HopTtlBalance'
  <2>1. air' \subseteq air
    BY <1>3 DEF RecvBeacon
  <2>2. /\ b.ttl \in Int /\ b.hops \in Nat
        /\ b.ttl > 0 /\ b.hops + b.ttl = NETWORK_DIAMETER + 1
    BY DEF TypeOK, BeaconCopy, HopTtlBalance
  <2>3. \/ pending' = pending
        \/ b.ttl - 1 # 0 /\ pending' = pending \cup {Forwarded(n, b, b.ttl - 1)}
    BY <1>3 DEF RecvBeacon, Forward
  <2>4. /\ Forwarded(n, b, b.ttl - 1).hops = b.hops + 1
        /\ Forwarded(n, b, b.ttl - 1).ttl = b.ttl - 1
    BY DEF Forwarded
  <2>5. NETWORK_DIAMETER \in Nat
    BY TimerAssumption DEF TimerAssumption
  <2> QED
    BY <2>1, <2>2, <2>3, <2>4, <2>5 DEF HopTtlBalance
<1>4. ASSUME NEW q \in pending, Rebroadcast(q) PROVE HopTtlBalance'
  <2>1. PICK to \in Hearers(q.by) :
           air' = air \cup Copies(q.by, q.src, q.id, q.hops, q.ttl, to)
    BY <1>4 DEF Rebroadcast
  <2>2. pending' \subseteq pending
    BY <1>4 DEF Rebroadcast
  <2>3. \A b \in Copies(q.by, q.src, q.id, q.hops, q.ttl, to) :
           b.hops = q.hops /\ b.ttl = q.ttl
    BY DEF Copies
  <2> QED
    BY <2>1, <2>2, <2>3 DEF HopTtlBalance
<1> QED
  BY <1>1, <1>2, <1>3, <1>4
  DEF Next, vars, AppSend, DataArrives, Purge, Tick

(* forward() and recv_beacon(): beacon_hops and the TTL of every beacon in  *)
(* circulation add up to NETWORK_DIAMETER + 1, so neither wraps.           *)
THEOREM HopsBalanceTtl == Spec => []HopTtlBalance
<1>1. Init => HopTtlBalance
  BY DEF Init, HopTtlBalance
<1>2. TypeOK /\ HopTtlBalance /\ [Next]_vars => HopTtlBalance'
  BY HopTtlBalanceStep
<1> QED
  BY <1>1, <1>2, TypeCorrect, PTL DEF Spec

-----------------------------------------------------------------------------
(* The flood of a beacon.                                                  *)

(* m has sent beacon k of sink s, or has heard of it or of a later one.    *)
Heard(m, s, k) ==
    m = s \/ (HasRoute(m, s) /\ rt[m][s].seq >= k)

(* Whoever has a beacon scheduled or on the air has heard it; only a node  *)
(* other than the sink rebroadcasts.                                       *)
SendersHeard ==
    /\ \A q \in pending : q.by # q.src /\ Heard(q.by, q.src, q.id)
    /\ \A b \in air : Heard(b.saddr, b.src, b.id)

(* A node never forgets what it has heard: routes only improve.            *)
LEMMA HeardPersists ==
    ASSUME TypeOK, TypeOK', BeaconsNearer, [Next]_vars, NEW m \in Node,
           NEW s \in Sink, NEW k \in Nat, Heard(m, s, k)
    PROVE  Heard(m, s, k)'
<1>1. CASE m = s
  BY <1>1 DEF Heard
<1>2. CASE m # s
  <2>1. HasRoute(m, s) /\ rt[m][s].seq >= k
    BY <1>2 DEF Heard
  <2>2. Keeps(m, s) \/ Adopts(m, s)
    BY RoutesImprove
  <2>3. HasRoute(m, s)'
    BY <2>1, <2>2 DEF Keeps, Adopts
  <2>4. rt[m][s].seq \in Nat /\ rt'[m][s].seq \in Nat
    BY <2>1, <2>3 DEF TypeOK, HasRoute, RouteCache
  <2>5. rt'[m][s].seq >= rt[m][s].seq
    BY <2>1, <2>2, <2>4 DEF Keeps, Adopts, Better
  <2> QED
    BY <2>1, <2>3, <2>4, <2>5 DEF Heard
<1> QED
  BY <1>1, <1>2

(* A node that schedules a beacon hears of it for the first time.          *)
LEMMA FirstHearing ==
    ASSUME TypeOK, NEW n \in Node, NEW b \in air, RecvBeacon(n, b),
           UNCHANGED <<pending, assertFailed>> => FALSE
    PROVE  /\ b.src # n
           /\ ~Heard(n, b.src, b.id)
           /\ Heard(n, b.src, b.id)'
           /\ \/ /\ b.ttl - 1 # 0
                 /\ pending' = pending \cup {Forwarded(n, b, b.ttl - 1)}
                 /\ assertFailed' = assertFailed
              \/ b.ttl - 1 = 0 /\ pending' = pending
<1>1. /\ b.src # n
      /\ IsNewer(b, rt[n][b.src])
      /\ rt' = [rt EXCEPT ![n][b.src] = EntryFrom(b)]
      /\ Forward(n, b, b.ttl - 1)
  BY DEF RecvBeacon
<1>2. b.src \in Sink /\ b.id \in Nat
  BY DEF TypeOK, BeaconCopy
<1>3. ~Heard(n, b.src, b.id)
  <2> SUFFICES ASSUME HasRoute(n, b.src), rt[n][b.src].seq >= b.id PROVE FALSE
    BY <1>1 DEF Heard
  <2>1. rt[n][b.src] # NoRoute /\ rt[n][b.src].seq \in Nat
    BY <1>2 DEF HasRoute, TypeOK, RouteCache
  <2> QED
    BY <1>1, <1>2, <2>1 DEF IsNewer
<1>4. Heard(n, b.src, b.id)'
  <2>1. rt'[n][b.src] = EntryFrom(b)
    BY <1>1, <1>2 DEF TypeOK
  <2>2. EntryFrom(b) \in RouteCache
    BY <1>2, TimerAssumption
    DEF EntryFrom, RouteCache, TypeOK, BeaconCopy, TimerAssumption
  <2> QED
    BY <1>2, <2>1, <2>2, NoRouteAssumption DEF Heard, HasRoute, EntryFrom
<1> QED
  BY <1>1, <1>3, <1>4 DEF Forward

(* The inductive invariant of the flood.                                   *)
FloodInv == SendersHeard /\ OneFloodPerBeacon

LEMMA FloodStep ==
    ASSUME TypeOK, TypeOK', BeaconsNearer, SeqnoBound, FloodInv, [Next]_vars
    PROVE  FloodInv'
<1> USE DEF FloodInv
<1>1. ASSUME NEW x \in air \cup pending, NEW m \in Node, Heard(m, x.src, x.id)
      PROVE  Heard(m, x.src, x.id)'
  <2>1. x.src \in Sink /\ x.id \in Nat
    BY DEF TypeOK, BeaconCopy, Scheduled
  <2> QED
    BY <1>1, <2>1, HeardPersists
<1>2. /\ \A q \in pending : q.by # q.src /\ Heard(q.by, q.src, q.id)'
      /\ \A b \in air : Heard(b.saddr, b.src, b.id)'
  <2>1. \A q \in pending : q.by \in Node
    BY DEF TypeOK, Scheduled
  <2>2. \A b \in air : b.saddr \in Node
    BY DEF TypeOK, BeaconCopy
  <2> QED
    BY <1>1, <2>1, <2>2 DEF SendersHeard
<1>3. CASE air' \subseteq air /\ pending' \subseteq pending
  BY <1>2, <1>3 DEF SendersHeard, OneFloodPerBeacon
<1>4. ASSUME NEW s \in Sink, SendBeacon(s) PROVE FloodInv'
  <2>1. PICK to \in Hearers(s) :
           air' = air \cup Copies(s, s, seqno[s], 1, NETWORK_DIAMETER, to)
    BY <1>4 DEF SendBeacon
  <2> DEFINE new == Copies(s, s, seqno[s], 1, NETWORK_DIAMETER, to)
  <2>2. \A b \in new : b.saddr = s /\ b.src = s /\ b.id = seqno[s] /\ b.hops = 1
    BY DEF Copies
  <2>3. pending' = pending
    BY <1>4 DEF SendBeacon
  <2>4. \A x \in air \cup pending : x.src = s => x.id # seqno[s]
    <3> SUFFICES ASSUME NEW x \in air \cup pending, x.src = s
                 PROVE  x.id # seqno[s]
      OBVIOUS
    <3>1. x.id \in Nat /\ seqno[s] \in Nat /\ x.id < seqno[s]
      BY DEF TypeOK, BeaconCopy, Scheduled, SeqnoBound
    <3> QED
      BY <3>1
  <2>5. SendersHeard'
    BY <1>2, <2>1, <2>2, <2>3 DEF SendersHeard, Heard
  <2>6. \A a \in air, b \in new :
           <<a.saddr, a.src, a.id>> # <<b.saddr, b.src, b.id>>
    BY <2>2, <2>4
  <2>7. \A q \in pending, b \in new :
           <<q.by, q.src, q.id>> # <<b.saddr, b.src, b.id>>
    BY <2>2, <2>4
  <2>8. OneFloodPerBeacon'
    BY <2>1, <2>2, <2>3, <2>6, <2>7 DEF OneFloodPerBeacon
  <2> QED
    BY <2>5, <2>8
<1>5. ASSUME NEW n \in Node, NEW b \in air, RecvBeacon(n, b)
      PROVE  FloodInv'
  <2>1. air' \subseteq air
    BY <1>5 DEF RecvBeacon
  <2>2. CASE pending' = pending
    BY <1>3, <2>1, <2>2
  <2>3. CASE pending' # pending
    <3>0. PICK new : new = Forwarded(n, b, b.ttl - 1)
      OBVIOUS
    <3>1. /\ b.src # n /\ ~Heard(n, b.src, b.id) /\ Heard(n, b.src, b.id)'
          /\ pending' = pending \cup {new}
      BY <1>5, <2>3, <3>0, FirstHearing
    <3>2. new.by = n /\ new.src = b.src /\ new.id = b.id
      BY <3>0 DEF Forwarded
    <3>3. SendersHeard'
      BY <1>2, <2>1, <3>1, <3>2 DEF SendersHeard
    <3>4. \A q \in pending :
             <<q.by, q.src, q.id>> # <<new.by, new.src, new.id>>
      BY <3>1, <3>2 DEF SendersHeard
    <3>5. \A a \in air :
             <<new.by, new.src, new.id>> # <<a.saddr, a.src, a.id>>
      BY <3>1, <3>2 DEF SendersHeard
    <3>6. OneFloodPerBeacon'
      BY <2>1, <3>1, <3>4, <3>5 DEF OneFloodPerBeacon
    <3> QED
      BY <3>3, <3>6
  <2> QED
    BY <2>2, <2>3
<1>6. ASSUME NEW q \in pending, Rebroadcast(q) PROVE FloodInv'
  <2>1. PICK to \in Hearers(q.by) :
           air' = air \cup Copies(q.by, q.src, q.id, q.hops, q.ttl, to)
    BY <1>6 DEF Rebroadcast
  <2> DEFINE new == Copies(q.by, q.src, q.id, q.hops, q.ttl, to)
  <2>2. \A b \in new : /\ b.saddr = q.by /\ b.src = q.src
                       /\ b.id = q.id /\ b.hops = q.hops
    BY DEF Copies
  <2>3. pending' = pending \ {q}
    BY <1>6 DEF Rebroadcast
  <2>4. SendersHeard'
    BY <1>2, <2>1, <2>2, <2>3 DEF SendersHeard
  <2>5. \A a \in air, b \in new :
           <<a.saddr, a.src, a.id>> # <<b.saddr, b.src, b.id>>
    BY <2>2 DEF OneFloodPerBeacon
  <2>6. \A p \in pending', b \in new :
           <<p.by, p.src, p.id>> # <<b.saddr, b.src, b.id>>
    BY <2>2, <2>3 DEF OneFloodPerBeacon
  <2>7. OneFloodPerBeacon'
    BY <2>1, <2>2, <2>3, <2>5, <2>6 DEF OneFloodPerBeacon
  <2> QED
    BY <2>4, <2>7
<1> QED
  BY <1>3, <1>4, <1>5, <1>6
  DEF Next, vars, AppSend, DataArrives, Purge, Tick

(* recv_beacon(): all copies of a beacon that come from one node stem from *)
(* one rebroadcast, however often the node hears the beacon.               *)
THEOREM FloodsAreSingle == Spec => []OneFloodPerBeacon
<1>1. Init => FloodInv
  BY DEF Init, FloodInv, SendersHeard, OneFloodPerBeacon
<1>2. RoutingInv /\ TypeOK' /\ FloodInv /\ [Next]_vars => FloodInv'
  BY FloodStep DEF RoutingInv
<1>3. FloodInv => OneFloodPerBeacon
  BY DEF FloodInv
<1> QED
  BY <1>1, <1>2, <1>3, TypeCorrect, RoutingInvariant, PTL DEF Spec

-----------------------------------------------------------------------------
(* The TTL suffices.                                                       *)

(* A beacon with hop count h was heard by h nodes before.                  *)
HeardByHops(x) ==
    \E S \in SUBSET Node : /\ Cardinality(S) = x.hops
                           /\ \A m \in S : Heard(m, x.src, x.id)
BeaconsTravel == \A x \in air \cup pending : HeardByHops(x)

DiameterInv == BeaconsTravel /\ DiameterSuffices

LEMMA DiameterStep ==
    ASSUME TypeOK, TypeOK', BeaconsNearer, HopTtlBalance, DiameterInv,
           [Next]_vars
    PROVE  DiameterInv'
<1> USE DEF DiameterInv
<1>1. ASSUME NEW x \in air \cup pending PROVE HeardByHops(x)'
  <2>1. PICK S \in SUBSET Node : /\ Cardinality(S) = x.hops
                                 /\ \A m \in S : Heard(m, x.src, x.id)
    BY DEF BeaconsTravel, HeardByHops
  <2>2. x.src \in Sink /\ x.id \in Nat
    BY DEF TypeOK, BeaconCopy, Scheduled
  <2>3. \A m \in S : Heard(m, x.src, x.id)'
    BY <2>1, <2>2, HeardPersists
  <2> QED
    BY <2>1, <2>3 DEF HeardByHops
<1>2. CASE /\ air' \subseteq air /\ pending' \subseteq pending
           /\ assertFailed' = assertFailed
  BY <1>1, <1>2 DEF BeaconsTravel, DiameterSuffices
<1>3. ASSUME NEW s \in Sink, SendBeacon(s) PROVE DiameterInv'
  <2>1. PICK to \in Hearers(s) :
           air' = air \cup Copies(s, s, seqno[s], 1, NETWORK_DIAMETER, to)
    BY <1>3 DEF SendBeacon
  <2>2. ASSUME NEW b \in Copies(s, s, seqno[s], 1, NETWORK_DIAMETER, to)
        PROVE  HeardByHops(b)'
    <3>1. b.src = s /\ b.hops = 1
      BY DEF Copies
    <3>2. {s} \in SUBSET Node /\ Cardinality({s}) = 1
      BY FS_Singleton, TopologyAssumption DEF TopologyAssumption
    <3> QED
      BY <3>1, <3>2 DEF HeardByHops, Heard
  <2>3. pending' = pending /\ assertFailed' = assertFailed
    BY <1>3 DEF SendBeacon
  <2> QED
    BY <1>1, <2>1, <2>2, <2>3 DEF BeaconsTravel, DiameterSuffices
<1>4. ASSUME NEW n \in Node, NEW b \in air, RecvBeacon(n, b)
      PROVE  DiameterInv'
  <2>1. air' \subseteq air
    BY <1>4 DEF RecvBeacon
  <2>2. CASE UNCHANGED <<pending, assertFailed>>
    BY <1>2, <2>1, <2>2
  <2>3. CASE ~UNCHANGED <<pending, assertFailed>>
    <3>1. /\ ~Heard(n, b.src, b.id) /\ Heard(n, b.src, b.id)'
          /\ \/ /\ b.ttl - 1 # 0
                /\ pending' = pending \cup {Forwarded(n, b, b.ttl - 1)}
                /\ assertFailed' = assertFailed
             \/ b.ttl - 1 = 0 /\ pending' = pending
      BY <1>4, <2>3, FirstHearing
    <3>2. PICK S \in SUBSET Node : /\ Cardinality(S) = b.hops
                                   /\ \A m \in S : Heard(m, b.src, b.id)
      BY DEF BeaconsTravel, HeardByHops
    <3>3. b.src \in Sink /\ b.id \in Nat /\ b.hops \in Nat /\ b.ttl \in Int
      BY DEF TypeOK, BeaconCopy
    <3>4. \A m \in S \cup {n} : Heard(m, b.src, b.id)'
      BY <3>1, <3>2, <3>3, HeardPersists
    <3>5. IsFiniteSet(S) /\ n \notin S
      BY <3>1, <3>2, NodeAssumption, FS_Subset DEF NodeAssumption
    <3>6. Cardinality(S \cup {n}) = b.hops + 1
      BY <3>2, <3>5, FS_AddElement
    <3>7. CASE b.ttl - 1 # 0
      <4>0. PICK new : new = Forwarded(n, b, b.ttl - 1)
        OBVIOUS
      <4>1. new.src = b.src /\ new.id = b.id /\ new.hops = b.hops + 1
        BY <4>0 DEF Forwarded
      <4>2. HeardByHops(new)'
        BY <3>4, <3>6, <4>1 DEF HeardByHops
      <4>3. pending' = pending \cup {new} /\ assertFailed' = assertFailed
        BY <3>1, <3>7, <4>0
      <4> QED
        BY <1>1, <2>1, <4>2, <4>3 DEF BeaconsTravel, DiameterSuffices
    <3>8. CASE b.ttl - 1 = 0
      <4>1. b.hops = NETWORK_DIAMETER
        <5>1. b.hops + b.ttl = NETWORK_DIAMETER + 1
          BY DEF HopTtlBalance
        <5>2. NETWORK_DIAMETER \in Nat
          BY TimerAssumption DEF TimerAssumption
        <5> QED
          BY <3>3, <3>8, <5>1, <5>2
      <4>2. /\ Cardinality(S \cup {n}) <= Cardinality(Node)
            /\ Cardinality(Node) \in Nat
        BY NodeAssumption, FS_Subset, FS_CardinalityType DEF NodeAssumption
      <4>3. ~(NETWORK_DIAMETER >= Cardinality(Node))
        BY <3>3, <3>6, <4>1, <4>2
      <4>4. pending' = pending
        BY <3>1, <3>8
      <4> QED
        BY <1>1, <2>1, <4>3, <4>4 DEF BeaconsTravel, DiameterSuffices
    <3> QED
      BY <3>7, <3>8
  <2> QED
    BY <2>2, <2>3
<1>5. ASSUME NEW q \in pending, Rebroadcast(q) PROVE DiameterInv'
  <2>1. PICK to \in Hearers(q.by) :
           air' = air \cup Copies(q.by, q.src, q.id, q.hops, q.ttl, to)
    BY <1>5 DEF Rebroadcast
  <2>2. ASSUME NEW b \in Copies(q.by, q.src, q.id, q.hops, q.ttl, to)
        PROVE  HeardByHops(b)'
    <3>1. b.src = q.src /\ b.id = q.id /\ b.hops = q.hops
      BY DEF Copies
    <3> QED
      BY <1>1, <3>1 DEF HeardByHops
  <2>3. pending' \subseteq pending /\ assertFailed' = assertFailed
    BY <1>5 DEF Rebroadcast
  <2> QED
    BY <1>1, <2>1, <2>2, <2>3 DEF BeaconsTravel, DiameterSuffices
<1> QED
  BY <1>2, <1>3, <1>4, <1>5
  DEF Next, vars, AppSend, DataArrives, Purge, Tick

(* forward() never goes on with a packet it has dropped when the network   *)
(* has no more nodes than NETWORK_DIAMETER: a beacon that has used up its  *)
(* TTL was heard by more nodes than there are.                             *)
THEOREM DiameterIsEnough == Spec => []DiameterSuffices
<1>1. Init => DiameterInv
  BY DEF Init, DiameterInv, BeaconsTravel, DiameterSuffices
<1>2. RoutingInv /\ TypeOK' /\ HopTtlBalance /\ DiameterInv /\ [Next]_vars
         => DiameterInv'
  BY DiameterStep DEF RoutingInv
<1>3. DiameterInv => DiameterSuffices
  BY DEF DiameterInv
<1> QED
  BY <1>1, <1>2, <1>3, TypeCorrect, RoutingInvariant, HopsBalanceTtl, PTL
  DEF Spec

-----------------------------------------------------------------------------
(* The state of a route and the clock.                                     *)

(* The route cache timer of a node is set for the coming period, and no    *)
(* entry the next rt_purge() still finds fresh expires before it does by   *)
(* a whole period.                                                         *)
TimerBounds == \A n \in Node : /\ now <= purgeDue[n]
                               /\ purgeDue[n] <= now + ROUTE_PURGE_FREQUENCY
StateByTimer ==
    \A n \in Node, s \in Sink :
        HasRoute(n, s) =>
            /\ rt[n][s].state = "FRESH"
                 => purgeDue[n] < rt[n][s].expire + ROUTE_PURGE_FREQUENCY
            /\ rt[n][s].state = "EXPIRED" => rt[n][s].expire <= now

ClockInv == TimerBounds /\ StateByTimer

LEMMA ClockStep ==
    ASSUME TypeOK, TypeOK', ClockInv, [Next]_vars
    PROVE  ClockInv'
<1> USE DEF ClockInv
<1>1. /\ ROUTE_PURGE_FREQUENCY \in Nat \ {0}
      /\ DEFAULT_ROUTE_EXPIRE \in Nat \ {0}
      /\ now \in Nat /\ \A n \in Node : purgeDue[n] \in Nat
  BY TimerAssumption DEF TimerAssumption, TypeOK
<1>2. ASSUME NEW n \in Node, NEW s \in Sink, HasRoute(n, s)
      PROVE  rt[n][s].expire \in Nat /\ rt[n][s] # NoRoute
  BY <1>2 DEF TypeOK, HasRoute, RouteCache
<1>3. CASE UNCHANGED <<rt, purgeDue, now>>
  BY <1>3 DEF TimerBounds, StateByTimer, HasRoute
<1>4. ASSUME NEW n \in Node, NEW b \in air, RecvBeacon(n, b) PROVE ClockInv'
  <2>1. UNCHANGED <<purgeDue, now>>
    BY <1>4 DEF RecvBeacon
  <2>2. CASE rt' = rt
    BY <1>3, <2>1, <2>2
  <2>3. CASE rt' # rt
    <3>1. rt' = [rt EXCEPT ![n][b.src] = EntryFrom(b)]
      BY <1>4, <2>3 DEF RecvBeacon
    <3>2. EntryFrom(b).state = "FRESH"
          /\ EntryFrom(b).expire = now + DEFAULT_ROUTE_EXPIRE
      BY DEF EntryFrom
    <3>3. ASSUME NEW m \in Node, NEW s \in Sink
          PROVE  rt'[m][s] = IF m = n /\ s = b.src THEN EntryFrom(b)
                             ELSE rt[m][s]
      BY <3>1 DEF TypeOK
    <3>4. TimerBounds'
      BY <2>1 DEF TimerBounds
    <3>5. ASSUME NEW m \in Node, NEW s \in Sink, HasRoute(m, s)'
          PROVE  /\ rt'[m][s].state = "FRESH"
                      => purgeDue[m] < rt'[m][s].expire + ROUTE_PURGE_FREQUENCY
                 /\ rt'[m][s].state = "EXPIRED" => rt'[m][s].expire <= now
      <4>1. CASE m = n /\ s = b.src
        <5>1. purgeDue[m] <= now + ROUTE_PURGE_FREQUENCY
          BY DEF TimerBounds
        <5> QED
          BY <1>1, <3>2, <3>3, <4>1, <5>1
      <4>2. CASE ~(m = n /\ s = b.src)
        <5>1. rt'[m][s] = rt[m][s] /\ HasRoute(m, s)
          BY <3>3, <3>5, <4>2 DEF HasRoute
        <5> QED
          BY <5>1 DEF StateByTimer
      <4> QED
        BY <4>1, <4>2
    <3>6. StateByTimer'
      BY <2>1, <3>5 DEF StateByTimer
    <3> QED
      BY <3>4, <3>6
  <2> QED
    BY <2>2, <2>3
<1>5. ASSUME NEW n \in Node, Purge(n) PROVE ClockInv'
  <2>1. /\ now' = now /\ purgeDue[n] = now
        /\ purgeDue' = [purgeDue EXCEPT ![n] = now + ROUTE_PURGE_FREQUENCY]
    BY <1>5 DEF Purge
  <2>2. \A m \in Node : purgeDue'[m] = IF m = n
                                       THEN now + ROUTE_PURGE_FREQUENCY
                                       ELSE purgeDue[m]
    BY <2>1 DEF TypeOK
  <2>3. TimerBounds'
    BY <1>1, <2>1, <2>2 DEF TimerBounds
  <2>4. ASSUME NEW m \in Node, NEW s \in Sink, HasRoute(m, s)'
        PROVE  /\ rt'[m][s].state = "FRESH"
                    => purgeDue'[m] < rt'[m][s].expire + ROUTE_PURGE_FREQUENCY
               /\ rt'[m][s].state = "EXPIRED" => rt'[m][s].expire <= now
    <3>1. rt'[m][s] = IF m = n /\ rt[m][s] # NoRoute /\ Expired(rt[m][s])
                      THEN [rt[m][s] EXCEPT !.state = "EXPIRED"]
                      ELSE rt[m][s]
      BY <1>5 DEF Purge, TypeOK
    <3>2. HasRoute(m, s)
      BY <2>4, <3>1 DEF HasRoute
    <3>3. rt[m][s] \in RouteCache
      BY <3>2 DEF HasRoute, TypeOK
    <3>4. /\ rt[m][s].state = "FRESH"
               => purgeDue[m] < rt[m][s].expire + ROUTE_PURGE_FREQUENCY
          /\ rt[m][s].state = "EXPIRED" => rt[m][s].expire <= now
      BY <3>2 DEF StateByTimer
    <3>5. CASE m = n /\ Expired(rt[m][s])
      <4>1. /\ rt'[m][s].state = "EXPIRED"
            /\ rt'[m][s].expire = rt[m][s].expire
        BY <3>1, <3>2, <3>3, <3>5 DEF HasRoute, RouteCache
      <4> QED
        BY <3>5, <4>1 DEF Expired
    <3>6. CASE m = n /\ ~Expired(rt[m][s])
      <4>1. rt'[m][s] = rt[m][s] /\ rt[m][s].expire > now
        BY <1>1, <1>2, <3>1, <3>2, <3>6 DEF Expired
      <4>2. purgeDue'[m] = now + ROUTE_PURGE_FREQUENCY
        BY <2>2, <3>6
      <4> QED
        BY <1>1, <1>2, <3>2, <3>4, <4>1, <4>2
    <3>7. CASE m # n
      BY <2>2, <3>1, <3>4, <3>7
    <3> QED
      BY <3>5, <3>6, <3>7
  <2>5. StateByTimer'
    BY <2>1, <2>4 DEF StateByTimer
  <2> QED
    BY <2>3, <2>5
<1>6. CASE Tick
  <2>1. /\ now' = now + 1 /\ UNCHANGED <<rt, purgeDue>>
        /\ \A n \in Node : purgeDue[n] > now
    BY <1>6 DEF Tick
  <2>2. TimerBounds'
    BY <1>1, <2>1 DEF TimerBounds
  <2>3. ASSUME NEW n \in Node, NEW s \in Sink, HasRoute(n, s)'
        PROVE  /\ rt[n][s].state = "FRESH"
                    => purgeDue[n] < rt[n][s].expire + ROUTE_PURGE_FREQUENCY
               /\ rt[n][s].state = "EXPIRED" => rt[n][s].expire <= now + 1
    <3>1. HasRoute(n, s)
      BY <2>1, <2>3 DEF HasRoute
    <3> QED
      BY <1>1, <1>2, <3>1 DEF StateByTimer
  <2>4. StateByTimer'
    BY <2>1, <2>3 DEF StateByTimer
  <2> QED
    BY <2>2, <2>4
<1> QED
  BY <1>3, <1>4, <1>5, <1>6
  DEF Next, vars, SendBeacon, Rebroadcast, AppSend, DataArrives

(* rt_purge(): whatever the phase of the node's timer, a route is called   *)
(* fresh for no longer than its lifetime and one purge period, and expired *)
(* only when its lifetime is over.                                         *)
THEOREM StatesFollowTheClock == Spec => []StateFollowsClock
<1>1. Init => ClockInv
  <2>1. ROUTE_PURGE_FREQUENCY \in Nat
    BY TimerAssumption DEF TimerAssumption
  <2> QED
    BY <2>1 DEF Init, ClockInv, TimerBounds, StateByTimer, HasRoute
<1>2. TypeOK /\ TypeOK' /\ ClockInv /\ [Next]_vars => ClockInv'
  BY ClockStep
<1>3. TypeOK /\ ClockInv => StateFollowsClock
  <2> SUFFICES ASSUME TypeOK, ClockInv, NEW n \in Node, NEW s \in Sink,
                      HasRoute(n, s)
               PROVE  IF rt[n][s].state = "FRESH"
                      THEN now < rt[n][s].expire + ROUTE_PURGE_FREQUENCY
                      ELSE rt[n][s].expire <= now
    BY DEF StateFollowsClock
  <2>1. /\ rt[n][s].state \in {"FRESH", "EXPIRED"}
        /\ rt[n][s].expire \in Nat
        /\ purgeDue[n] \in Nat /\ now \in Nat
    BY DEF TypeOK, HasRoute, RouteCache
  <2>2. ROUTE_PURGE_FREQUENCY \in Nat
    BY TimerAssumption DEF TimerAssumption
  <2> QED
    BY <2>1, <2>2 DEF ClockInv, TimerBounds, StateByTimer
<1> QED
  BY <1>1, <1>2, <1>3, TypeCorrect, PTL DEF Spec
=============================================================================
