--------------------------- MODULE LoopFreeRoutes ---------------------------
(***************************************************************************)
(* What a sequence-numbered beacon protocol promises about its routes, and *)
(* nothing about how it keeps the promise.  Every node holds at most one   *)
(* route per destination; a route names the beacon it came from (seq), how *)
(* far away the destination was (hops) and the neighbour to use (next).    *)
(* A node only ever changes a route for a better one, and only through a   *)
(* neighbour that is strictly nearer: newer beacon, or same beacon and     *)
(* fewer hops.  The module Wfrp implements it.                             *)
(***************************************************************************)
EXTENDS Integers

CONSTANTS
    Node,
    Dest,       \* the nodes that send beacons
    NoRoute     \* not a member of Route

VARIABLE route

-----------------------------------------------------------------------------
Route == [seq : Nat, hops : Nat, next : Node]

(* r is newer than s, or as new and shorter. *)
Better(r, s) == r.seq > s.seq \/ (r.seq = s.seq /\ r.hops < s.hops)

(* Node m may serve as next hop of route r towards d. *)
Nearer(m, d, r) ==
    m = d \/ (route[m][d] # NoRoute /\ Better(route[m][d], r))

-----------------------------------------------------------------------------
Init == route = [n \in Node |-> [d \in Dest |-> NoRoute]]

(* Node n takes r as its route to d; nothing else changes. *)
Adopt(n, d, r) ==
    /\ n # d
    /\ r \in Route
    /\ route[n][d] = NoRoute \/ Better(r, route[n][d])
    /\ Nearer(r.next, d, r)
    /\ route' = [route EXCEPT ![n][d] = r]

Next == \E n \in Node, d \in Dest : Adopt(n, d, route'[n][d])

Spec == Init /\ [][Next]_route

-----------------------------------------------------------------------------
TypeOK == route \in [Node -> [Dest -> Route \cup {NoRoute}]]

(* Every next hop is strictly nearer the destination than the node that    *)
(* uses it, at every moment and not only when the route was learnt.        *)
NextHopNearer ==
    \A n \in Node, d \in Dest :
        route[n][d] # NoRoute => Nearer(route[n][d].next, d, route[n][d])
=============================================================================
