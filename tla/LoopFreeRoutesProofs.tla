------------------------ MODULE LoopFreeRoutesProofs ------------------------
(***************************************************************************)
(* The abstract specification keeps what it is named for: since a node     *)
(* changes its route only for a better one, whoever uses it as next hop    *)
(* stays farther away than it.                                             *)
(***************************************************************************)
EXTENDS LoopFreeRoutes, TLAPS

(* A node that was near enough to serve r still is after anybody adopts a   *)
(* route.                                                                  *)
LEMMA NearerIsStable ==
    ASSUME NoRoute \notin Route, TypeOK,
           NEW n \in Node, NEW d \in Dest, Adopt(n, d, route'[n][d]),
           NEW m \in Node, NEW e \in Dest, NEW r \in Route, Nearer(m, e, r)
    PROVE  Nearer(m, e, r)'
<1> DEFINE q == route'[n][d]
<1>1. /\ route[m][e] \in Route \cup {NoRoute}
      /\ q \in Route
      /\ route' = [route EXCEPT ![n][d] = q]
  BY DEF TypeOK, Adopt
<1>2. CASE m = n /\ e = d
  <2>1. route[n][d] # NoRoute => Better(q, route[n][d])
    BY DEF Adopt
  <2>2. CASE route[m][e] # NoRoute
    <3>1. Better(route[m][e], r) \/ m = e
      BY DEF Nearer
    <3>2. Better(q, route[m][e]) /\ route[m][e] \in Route
      BY <1>1, <1>2, <2>1, <2>2
    <3>3. Better(q, r) \/ m = e
      BY <1>1, <3>1, <3>2 DEF Better, Route
    <3> QED
      BY <1>1, <1>2, <3>3 DEF Nearer
  <2> QED
    BY <1>1, <1>2, <2>2 DEF Nearer
<1>3. CASE ~(m = n /\ e = d)
  <2>1. route'[m][e] = route[m][e]
    BY <1>1, <1>3 DEF TypeOK
  <2> QED
    BY <2>1 DEF Nearer
<1> QED
  BY <1>2, <1>3

(* Every next hop is nearer the destination than its user, for ever: the    *)
(* promise the route caches of wfrp/wfrp.cc inherit from this module.      *)
THEOREM NextHopsStayNearer ==
    ASSUME NoRoute \notin Route
    PROVE  Spec => [](TypeOK /\ NextHopNearer)
<1>1. Init => TypeOK /\ NextHopNearer
  BY DEF Init, TypeOK, NextHopNearer
<1>2. TypeOK /\ NextHopNearer /\ [Next]_route => TypeOK' /\ NextHopNearer'
  <2> SUFFICES ASSUME TypeOK, NextHopNearer, [Next]_route
               PROVE  TypeOK' /\ NextHopNearer'
    OBVIOUS
  <2>1. CASE Next
    <3>1. PICK n \in Node, d \in Dest : Adopt(n, d, route'[n][d])
      BY <2>1 DEF Next
    <3> DEFINE q == route'[n][d]
    <3>2. q \in Route /\ route' = [route EXCEPT ![n][d] = q]
      BY <3>1 DEF Adopt
    <3>3. TypeOK'
      BY <3>2 DEF TypeOK
    <3>4. ASSUME NEW m \in Node, NEW e \in Dest, NEW x \in Route,
                 x = route'[m][e]
          PROVE  Nearer(x.next, e, x)'
      <4>1. x.next \in Node
        BY DEF Route
      <4>2. Nearer(x.next, e, x)
        <5>1. CASE m = n /\ e = d
          BY <3>1, <3>4, <5>1 DEF Adopt
        <5>2. CASE ~(m = n /\ e = d)
          <6>1. route'[m][e] = route[m][e]
            BY <3>2, <5>2 DEF TypeOK
          <6> QED
            BY <3>4, <6>1 DEF NextHopNearer
        <5> QED
          BY <5>1, <5>2
      <4> QED
        BY <3>1, <4>1, <4>2, NearerIsStable
    <3>5. NextHopNearer'
      <4> SUFFICES ASSUME NEW m \in Node, NEW e \in Dest, route'[m][e] # NoRoute
                   PROVE  \/ route'[m][e].next = e
                          \/ /\ route'[route'[m][e].next][e] # NoRoute
                             /\ Better(route'[route'[m][e].next][e], route'[m][e])
        BY DEF NextHopNearer, Nearer
      <4>1. PICK x \in Route : x = route'[m][e]
        BY <3>3 DEF TypeOK
      <4>2. Nearer(x.next, e, x)'
        BY <3>4, <4>1
      <4> QED
        BY <4>1, <4>2 DEF Nearer
    <3> QED
      BY <3>3, <3>5
  <2>2. CASE UNCHANGED route
    BY <2>2 DEF TypeOK, NextHopNearer, Nearer
  <2> QED
    BY <2>1, <2>2
<1> QED
  BY <1>1, <1>2, PTL DEF Spec
=============================================================================
