-------------------------- MODULE XFXVanetsProofs ---------------------------
(***************************************************************************)
(* Proofs about XFXVanets for any number of nodes, cars, messages and      *)
(* waypoints, any routes and scripts, and any loss.                        *)
(***************************************************************************)
EXTENDS XFXVanets, TLAPS

USE DEF RemoveFirst, Decrement

(* A remainder is smaller than the modulus.                                *)
LEMMA ModuloType ==
    ASSUME NEW a \in Int, NEW b \in Nat, b > 0
    PROVE  a % b \in 0..b - 1
OBVIOUS

(* The messages handed over form well-typed packets.                       *)
LEMMA UnicastsType ==
    ASSUME NEW type \in {"FORWARD", "NORMAL"}, NEW msgs \in SUBSET Msg,
           NEW from \in Node, NEW to \in Node
    PROVE  Unicasts(type, msgs, from, to) \subseteq Packet
BY DEF Unicasts, Packet

(* Sending and erasing keeps the types of buffers and packets.             *)
LEMMA HandOverType ==
    ASSUME TypeOK, NEW type \in {"FORWARD", "NORMAL"}, NEW msgs \in SUBSET Msg,
           NEW n \in Node, NEW to \in Node, HandOver(type, msgs, n, to)
    PROVE  /\ net' \subseteq Packet
           /\ buffer' \in [Node -> SUBSET Msg]
           /\ UNCHANGED <<unsent, delivered, lost>>
BY UnicastsType DEF HandOver, TypeOK

(* Every handler keeps the state well-typed.                               *)
THEOREM TypeCorrect == Spec => []TypeOK
<1>1. Init => TypeOK
  BY KindAssumption, TableAssumption
  DEF Init, TypeOK, KindAssumption, TableAssumption
<1>2. TypeOK /\ [Next]_vars => TypeOK'
  <2> SUFFICES ASSUME TypeOK, [Next]_vars PROVE TypeOK'
    OBVIOUS
  <2> USE KindAssumption, MsgAssumption, TableAssumption
  <2>1. ASSUME NEW m \in Msg, AppSend(m) PROVE TypeOK'
    BY <2>1 DEF AppSend, TypeOK, MsgAssumption, carVars, tabVars
  <2>2. ASSUME NEW c \in Car, NEW n \in Car, HearCar(c, n) PROVE TypeOK'
    <3>1. c \in Node /\ n \in Node
      BY DEF KindAssumption
    <3>2. /\ net' \subseteq Packet
          /\ buffer' \in [Node -> SUBSET Msg]
          /\ UNCHANGED <<unsent, delivered, lost>>
      <4>1. {m \in buffer[c] : BetterCarrier(n, c, m)} \in SUBSET Msg
        BY <3>1 DEF TypeOK
      <4> QED
        BY <2>2, <3>1, <4>1, HandOverType DEF HearCar
    <3>3. neighbors' \in [Car -> [Car -> 0..TtlMod - 1 \cup {NotListed}]]
      BY <2>2 DEF HearCar, TypeOK, TableAssumption
    <3>4. purges' \in [Car -> [Car -> 0..MaxPurge]]
      BY <2>2 DEF HearCar, TypeOK, TableAssumption
    <3> QED
      BY <2>2, <3>2, <3>3, <3>4 DEF HearCar, TypeOK, carVars
  <2>3. ASSUME NEW n \in Node, NEW s \in Static, HearStatic(n, s)
        PROVE  TypeOK'
    <3>1. s \in Node
      BY DEF Static
    <3>2. /\ net' \subseteq Packet
          /\ buffer' \in [Node -> SUBSET Msg]
          /\ UNCHANGED <<unsent, delivered, lost>>
      <4>1. {m \in buffer[n] : Dst[m] = s} \in SUBSET Msg
        BY DEF TypeOK
      <4> QED
        BY <2>3, <3>1, <4>1, HandOverType DEF HearStatic
    <3> QED
      BY <2>3, <3>2 DEF HearStatic, TypeOK, carVars, tabVars
  <2>4. ASSUME NEW p \in net, Receive(p) PROVE TypeOK'
    <3>1. p.msg \in Msg /\ p.to \in Node
      BY DEF TypeOK, Packet
    <3>2. buffer' \in [Node -> SUBSET Msg]
      <4>1. \/ buffer' = buffer
            \/ buffer' = [buffer EXCEPT ![p.to] = buffer[p.to] \cup {p.msg}]
        BY <2>4 DEF Receive
      <4>2. buffer[p.to] \cup {p.msg} \in SUBSET Msg
        BY <3>1 DEF TypeOK
      <4> QED
        BY <3>1, <4>1, <4>2 DEF TypeOK
    <3>3. delivered' \subseteq Msg
      BY <2>4, <3>1 DEF Receive, TypeOK
    <3> QED
      BY <2>4, <3>2, <3>3 DEF Receive, TypeOK, carVars, tabVars
  <2>5. ASSUME NEW p \in net, Lose(p) PROVE TypeOK'
    <3>1. p.msg \in Msg
      BY DEF TypeOK, Packet
    <3> QED
      BY <2>5, <3>1 DEF Lose, TypeOK, carVars, tabVars
  <2>6. ASSUME NEW c \in Car, SetDest(c) PROVE TypeOK'
    <3>1. routeNode' \in [Car -> Seq(Point)]
      <4>1. CASE routeNode' = routeNode
        BY <4>1 DEF TypeOK
      <4>2. CASE routeNode' # routeNode
        <5>1. /\ routeNode[c] # <<>>
              /\ routeNode' = [routeNode EXCEPT ![c] = Tail(routeNode[c])]
          BY <2>6, <4>2 DEF SetDest
        <5>2. Tail(routeNode[c]) \in Seq(Point)
          BY <5>1 DEF TypeOK
        <5> QED
          BY <5>1, <5>2 DEF TypeOK
      <4> QED
        BY <4>1, <4>2
    <3>2. leg' \in [Car -> Nat] /\ firstWalk' \in [Car -> BOOLEAN]
      BY <2>6 DEF SetDest, TypeOK
    <3>3. UNCHANGED <<unsent, buffer, net, delivered, lost, neighbors, purges>>
      BY <2>6 DEF SetDest, msgVars, tabVars
    <3> QED
      BY <3>1, <3>2, <3>3 DEF TypeOK
  <2>7. ASSUME NEW c \in Car, Purge(c) PROVE TypeOK'
    <3>1. \A x \in 0..TtlMod - 1 : (x - 1) % TtlMod \in 0..TtlMod - 1
      BY ModuloType DEF TableAssumption
    <3>2. neighbors' \in [Car -> [Car -> 0..TtlMod - 1 \cup {NotListed}]]
      <4>1. \A n \in Car :
              (IF neighbors[c][n] = NotListed
                 THEN NotListed
                 ELSE (neighbors[c][n] - 1) % TtlMod)
              \in 0..TtlMod - 1 \cup {NotListed}
        BY <3>1, SMTT(60) DEF TypeOK
      <4>2. [n \in Car |-> IF neighbors[c][n] = NotListed
                             THEN NotListed
                             ELSE (neighbors[c][n] - 1) % TtlMod]
              \in [Car -> 0..TtlMod - 1 \cup {NotListed}]
        BY <4>1
      <4> QED
        BY <2>7, <4>2 DEF Purge, TypeOK
    <3>3. purges' \in [Car -> [Car -> 0..MaxPurge]]
      <4>1. [n \in Car |-> purges[c][n] + 1] \in [Car -> 0..MaxPurge]
        BY <2>7, SMTT(60) DEF Purge, TypeOK, TableAssumption
      <4> QED
        BY <2>7, <4>1 DEF Purge, TypeOK
    <3> QED
      BY <2>7, <3>2, <3>3 DEF Purge, TypeOK, msgVars, carVars
  <2>8. CASE UNCHANGED vars
    BY <2>8 DEF vars, msgVars, carVars, tabVars, TypeOK
  <2> QED
    BY <2>1, <2>2, <2>3, <2>4, <2>5, <2>6, <2>7, <2>8 DEF Next
<1> QED
  BY <1>1, <1>2, PTL DEF Spec

-----------------------------------------------------------------------------
(* Custody, spelled out place by place.                                    *)

Finished(m) == m \in delivered \/ m \in lost

Somewhere(m) ==
    \/ m \in unsent
    \/ Finished(m)
    \/ \E n \in Node : m \in buffer[n]
    \/ \E p \in net : p.msg = m

NowhereElse(m) ==
    /\ m \in unsent => ~Finished(m)
    /\ ~(m \in delivered /\ m \in lost)
    /\ \A n \in Node : m \in buffer[n] => m \notin unsent /\ ~Finished(m)
    /\ \A p \in net : p.msg = m => m \notin unsent /\ ~Finished(m)
    /\ \A n \in Node, p \in net : ~(m \in buffer[n] /\ p.msg = m)
    /\ \A n, k \in Node : m \in buffer[n] /\ m \in buffer[k] => n = k
    /\ \A p, q \in net : p.msg = m /\ q.msg = m => p = q

InOnePlace == \A m \in Msg : Somewhere(m) /\ NowhereElse(m)

(* The holders of a message are what their name says.                      *)
LEMMA HoldersMeaning ==
    ASSUME NEW m, NEW h
    PROVE  h \in Holders(m) <=>
             \/ \E n \in Node : m \in buffer[n] /\ h = <<"buffer", n>>
             \/ \E p \in net : p.msg = m /\ h = <<"net", p>>
             \/ m \in unsent /\ h = <<"app", m>>
             \/ m \in delivered /\ h = <<"delivered", m>>
             \/ m \in lost /\ h = <<"lost", m>>
BY DEF Holders

(* A message in one place has one holder.                                  *)
LEMMA InOnePlaceIsCustody == InOnePlace => Custody
<1> SUFFICES ASSUME InOnePlace, NEW m \in Msg
             PROVE  Holders(m) # {} /\ \A a, b \in Holders(m) : a = b
  BY DEF Custody
<1>1. Somewhere(m) /\ NowhereElse(m)
  BY DEF InOnePlace
<1>2. Holders(m) # {}
  <2>1. \E h : h \in Holders(m)
    BY <1>1, HoldersMeaning DEF Somewhere, Finished
  <2> QED
    BY <2>1
<1>3. ASSUME NEW a \in Holders(m), NEW b \in Holders(m) PROVE a = b
  <2>1. \/ \E n \in Node : m \in buffer[n] /\ a = <<"buffer", n>>
        \/ \E p \in net : p.msg = m /\ a = <<"net", p>>
        \/ m \in unsent /\ a = <<"app", m>>
        \/ m \in delivered /\ a = <<"delivered", m>>
        \/ m \in lost /\ a = <<"lost", m>>
    BY HoldersMeaning
  <2>2. \/ \E n \in Node : m \in buffer[n] /\ b = <<"buffer", n>>
        \/ \E p \in net : p.msg = m /\ b = <<"net", p>>
        \/ m \in unsent /\ b = <<"app", m>>
        \/ m \in delivered /\ b = <<"delivered", m>>
        \/ m \in lost /\ b = <<"lost", m>>
    BY HoldersMeaning
  <2> QED
    BY <1>1, <2>1, <2>2 DEF NowhereElse, Finished
<1> QED
  BY <1>2, <1>3

(* Sending and erasing moves each message from the buffer to the air, once.*)
LEMMA HandOverMoves ==
    ASSUME TypeOK, InOnePlace, NEW type, NEW n \in Node, NEW to \in Node,
           NEW msgs, msgs \subseteq buffer[n], HandOver(type, msgs, n, to)
    PROVE  InOnePlace'
<1> SUFFICES ASSUME NEW m \in Msg PROVE Somewhere(m)' /\ NowhereElse(m)'
  BY DEF InOnePlace
<1>1. Somewhere(m) /\ NowhereElse(m)
  BY DEF InOnePlace
<1>2. UNCHANGED <<unsent, delivered, lost>>
  BY DEF HandOver
<1>3. \A k \in Node :
        buffer'[k] = IF k = n THEN buffer[n] \ msgs ELSE buffer[k]
  BY DEF HandOver, TypeOK
<1> DEFINE u == [type |-> type, msg |-> m, from |-> n, to |-> to]
<1>4. CASE m \in msgs
  <2>1. \A k \in Node : m \notin buffer'[k]
    BY <1>1, <1>3, <1>4 DEF NowhereElse
  <2>2. \A p \in net' : p.msg = m => p = u
    BY <1>1, <1>4 DEF HandOver, Unicasts, NowhereElse
  <2>3. u \in net' /\ u.msg = m
    BY <1>4 DEF HandOver, Unicasts
  <2> HIDE DEF u
  <2>4. m \notin unsent' /\ ~Finished(m)'
    BY <1>1, <1>2, <1>4 DEF NowhereElse, Finished
  <2> QED
    BY <2>1, <2>2, <2>3, <2>4 DEF Somewhere, NowhereElse, Finished
<1>5. CASE m \notin msgs
  <2>1. \A p : p \in net' /\ p.msg = m <=> p \in net /\ p.msg = m
    BY <1>5 DEF HandOver, Unicasts
  <2>2. \A k \in Node : m \in buffer'[k] <=> m \in buffer[k]
    BY <1>3, <1>5
  <2> QED
    BY <1>1, <1>2, <2>1, <2>2 DEF Somewhere, NowhereElse, Finished
<1> QED
  BY <1>4, <1>5

(* No handler copies a message or loses track of it.                       *)
LEMMA InOnePlaceStep ==
    ASSUME TypeOK, InOnePlace, [Next]_vars
    PROVE  InOnePlace'
<1>1. CASE UNCHANGED msgVars
  BY <1>1 DEF msgVars, InOnePlace, Somewhere, NowhereElse, Finished
<1>2. ASSUME NEW x \in Msg, AppSend(x) PROVE InOnePlace'
  <2> SUFFICES ASSUME NEW m \in Msg PROVE Somewhere(m)' /\ NowhereElse(m)'
    BY DEF InOnePlace
  <2>1. Somewhere(m) /\ NowhereElse(m) /\ Src[x] \in Node
    BY MsgAssumption DEF InOnePlace, MsgAssumption
  <2>2. /\ UNCHANGED <<net, delivered, lost>>
        /\ x \in unsent /\ unsent' = unsent \ {x}
    BY <1>2 DEF AppSend
  <2>3. \A k \in Node : buffer'[k] = IF k = Src[x] THEN buffer[k] \cup {x}
                                                 ELSE buffer[k]
    BY <1>2 DEF AppSend, TypeOK
  <2>4. CASE m = x
    <3>1. /\ m \notin unsent' /\ ~Finished(m)'
          /\ \A p \in net' : p.msg # m
      BY <2>1, <2>2, <2>4 DEF NowhereElse, Finished
    <3>2. \A k \in Node : m \in buffer'[k] <=> k = Src[x]
      BY <2>1, <2>2, <2>3, <2>4 DEF NowhereElse
    <3> QED
      BY <2>1, <3>1, <3>2 DEF Somewhere, NowhereElse, Finished
  <2>5. CASE m # x
    <3>1. \A k \in Node : m \in buffer'[k] <=> m \in buffer[k]
      BY <2>3, <2>5
    <3> QED
      BY <2>1, <2>2, <2>5, <3>1 DEF Somewhere, NowhereElse, Finished
  <2> QED
    BY <2>4, <2>5
<1>3. ASSUME NEW c \in Car, NEW n \in Car, HearCar(c, n) PROVE InOnePlace'
  <2>1. c \in Node /\ n \in Node
    BY KindAssumption DEF KindAssumption
  <2> QED
    BY <1>3, <2>1, HandOverMoves DEF HearCar
<1>4. ASSUME NEW n \in Node, NEW s \in Static, HearStatic(n, s)
      PROVE  InOnePlace'
  BY <1>4, HandOverMoves DEF HearStatic, Static
<1>5. ASSUME NEW q \in net, Receive(q) PROVE InOnePlace'
  <2> SUFFICES ASSUME NEW m \in Msg PROVE Somewhere(m)' /\ NowhereElse(m)'
    BY DEF InOnePlace
  <2>1. Somewhere(m) /\ NowhereElse(m) /\ q.to \in Node
    BY DEF InOnePlace, TypeOK, Packet
  <2>2. net' = net \ {q} /\ UNCHANGED <<unsent, lost>>
    BY <1>5 DEF Receive
  <2>3. CASE q.type = "FORWARD"
    <3>1. delivered' = delivered
      BY <1>5, <2>3 DEF Receive
    <3>2. \A k \in Node : buffer'[k] = IF k = q.to THEN buffer[k] \cup {q.msg}
                                                 ELSE buffer[k]
      BY <1>5, <2>3 DEF Receive, TypeOK
    <3>3. CASE q.msg = m
      <4>1. /\ m \notin unsent' /\ ~Finished(m)'
            /\ \A p \in net' : p.msg # m
        BY <2>1, <2>2, <3>1, <3>3 DEF NowhereElse, Finished
      <4>2. \A k \in Node : m \in buffer'[k] <=> k = q.to
        BY <2>1, <3>2, <3>3 DEF NowhereElse
      <4> QED
        BY <2>1, <4>1, <4>2 DEF Somewhere, NowhereElse, Finished
    <3>4. CASE q.msg # m
      <4>1. \A k \in Node : m \in buffer'[k] <=> m \in buffer[k]
        BY <3>2, <3>4
      <4> QED
        BY <2>1, <2>2, <3>1, <3>4, <4>1 DEF Somewhere, NowhereElse, Finished
    <3> QED
      BY <3>3, <3>4
  <2>4. CASE q.type # "FORWARD"
    <3>1. delivered' = delivered \cup {q.msg} /\ buffer' = buffer
      BY <1>5, <2>4 DEF Receive
    <3> QED
      BY <2>1, <2>2, <3>1 DEF Somewhere, NowhereElse, Finished
  <2> QED
    BY <2>3, <2>4
<1>6. ASSUME NEW q \in net, Lose(q) PROVE InOnePlace'
  <2> SUFFICES ASSUME NEW m \in Msg PROVE Somewhere(m)' /\ NowhereElse(m)'
    BY DEF InOnePlace
  <2>1. Somewhere(m) /\ NowhereElse(m)
    BY DEF InOnePlace
  <2> QED
    BY <1>6, <2>1 DEF Lose, Somewhere, NowhereElse, Finished
<1>7. ASSUME NEW c \in Car, SetDest(c) PROVE InOnePlace'
  BY <1>1, <1>7 DEF SetDest
<1>8. ASSUME NEW c \in Car, Purge(c) PROVE InOnePlace'
  BY <1>1, <1>8 DEF Purge
<1>9. CASE UNCHANGED vars
  BY <1>1, <1>9 DEF vars, msgVars
<1> QED
  BY <1>2, <1>3, <1>4, <1>5, <1>6, <1>7, <1>8, <1>9 DEF Next

(* A message has one holder at every moment, however many messages a hello *)
(* sets moving and however many of the unicasts fail.                      *)
THEOREM MessagesHaveOneHolder == Spec => []Custody
<1>1. Init => InOnePlace
  BY DEF Init, InOnePlace, Somewhere, NowhereElse, Finished
<1>2. TypeOK /\ InOnePlace /\ [Next]_vars => InOnePlace'
  BY InOnePlaceStep
<1>3. Spec => []InOnePlace
  BY <1>1, <1>2, TypeCorrect, PTL DEF Spec
<1> QED
  BY <1>3, InOnePlaceIsCustody, PTL

-----------------------------------------------------------------------------
(* The planned route and the script.                                       *)

(* How many points remove_first_object() has taken off the route of c.     *)
Removed(c) == IF leg[c] = 0 THEN 0 ELSE leg[c] - 1

(* What is left of a route is the script from the leg finished last on.    *)
InStep(c) ==
    /\ firstWalk[c] = (leg[c] = 0)
    /\ leg[c] <= Len(Script[c])
    /\ Len(routeNode[c]) = Len(Script[c]) - Removed(c)
    /\ \A i \in 1..Len(routeNode[c]) :
          routeNode[c][i] = Script[c][i + Removed(c)]

RoutesInStep == ScriptsFollowRoutes => \A c \in Car : InStep(c)

(* Points and legs of well-typed routes.                                   *)
LEMMA RouteTypes ==
    ASSUME TypeOK, NEW c \in Car
    PROVE  /\ Script[c] \in Seq(Point) /\ Len(Script[c]) \in Nat
           /\ routeNode[c] \in Seq(Point) /\ Len(routeNode[c]) \in Nat
           /\ leg[c] \in Nat /\ firstWalk[c] \in BOOLEAN
           /\ Removed(c) \in Nat
<1>1. leg[c] \in Nat
  BY DEF TypeOK
<1> QED
  BY <1>1, KindAssumption DEF KindAssumption, TypeOK, Removed

(* A setdest command keeps the route of its car in step with the script.   *)
LEMMA SetDestInStep ==
    ASSUME TypeOK, TypeOK', NEW c \in Car, InStep(c), SetDest(c)
    PROVE  InStep(c)'
<1>1. /\ leg'[c] = leg[c] + 1
      /\ leg[c] < Len(Script[c])
      /\ firstWalk'[c] = FALSE
  BY DEF SetDest, TypeOK
<1>2. /\ Script[c] \in Seq(Point) /\ Len(Script[c]) \in Nat
      /\ routeNode[c] \in Seq(Point) /\ Len(routeNode[c]) \in Nat
      /\ leg[c] \in Nat /\ Removed(c) \in Nat
  BY RouteTypes
<1>3. Removed(c)' = leg[c]
  BY <1>1, <1>2 DEF Removed
<1>4. firstWalk'[c] = (leg'[c] = 0)
  <2>1. leg'[c] # 0
    BY <1>1, <1>2
  <2> QED
    BY <1>1, <2>1, Zenon
<1>5. CASE leg[c] = 0
  <2>1. routeNode' = routeNode /\ Removed(c) = 0
    BY <1>5 DEF SetDest, RemoveFirst, InStep, Removed
  <2>2. /\ leg'[c] <= Len(Script[c])
        /\ Len(routeNode'[c]) = Len(Script[c]) - Removed(c)'
        /\ \A i \in 1..Len(routeNode'[c]) :
              routeNode'[c][i] = Script[c][i + Removed(c)']
    BY <1>1, <1>2, <1>3, <1>5, <2>1 DEF InStep
  <2> QED
    BY <1>4, <2>2 DEF InStep
<1>6. CASE leg[c] # 0
  <2>1. Removed(c) = leg[c] - 1
    BY <1>6 DEF Removed
  <2>2. routeNode[c] # <<>> /\ routeNode'[c] = Tail(routeNode[c])
    BY <1>6 DEF SetDest, RemoveFirst, InStep, TypeOK
  <2>3. /\ Len(routeNode'[c]) = Len(routeNode[c]) - 1
        /\ \A i \in 1..Len(routeNode'[c]) :
              routeNode'[c][i] = routeNode[c][i + 1]
    BY <1>2, <2>2
  <2>4. Len(routeNode'[c]) = Len(Script[c]) - Removed(c)'
    BY <1>2, <1>3, <2>1, <2>3 DEF InStep
  <2>5. ASSUME NEW i \in 1..Len(routeNode'[c])
        PROVE  routeNode'[c][i] = Script[c][i + leg[c]]
    <3>1. i + 1 \in 1..Len(routeNode[c]) /\ i \in Int
      BY <1>2, <2>3
    <3>2. routeNode[c][i + 1] = Script[c][(i + 1) + Removed(c)]
      BY <3>1 DEF InStep
    <3>3. (i + 1) + Removed(c) = i + leg[c]
      BY <1>2, <2>1, <3>1
    <3> QED
      BY <2>3, <3>2, <3>3
  <2>6. leg'[c] <= Len(Script[c])
    BY <1>1, <1>2
  <2>7. \A i \in 1..Len(routeNode'[c]) :
           routeNode'[c][i] = Script[c][i + Removed(c)']
    BY <1>3, <2>5
  <2> QED
    BY <1>4, <2>4, <2>6, <2>7 DEF InStep
<1> QED
  BY <1>5, <1>6

LEMMA RoutesInStepStep ==
    ASSUME TypeOK, TypeOK', RoutesInStep, [Next]_vars
    PROVE  RoutesInStep'
<1> SUFFICES ASSUME ScriptsFollowRoutes, NEW c \in Car PROVE InStep(c)'
  BY DEF RoutesInStep, ScriptsFollowRoutes
<1>1. InStep(c)
  BY DEF RoutesInStep
<1>2. CASE UNCHANGED carVars
  BY <1>1, <1>2 DEF carVars, InStep, Removed
<1>3. ASSUME NEW d \in Car, SetDest(d) PROVE InStep(c)'
  <2>1. CASE d = c
    BY <1>1, <1>3, <2>1, SetDestInStep
  <2>2. CASE d # c
    <3>1. /\ leg'[c] = leg[c] /\ firstWalk'[c] = firstWalk[c]
          /\ routeNode'[c] = routeNode[c]
      BY <1>3, <2>2 DEF SetDest, RemoveFirst, TypeOK
    <3> QED
      BY <1>1, <3>1 DEF InStep, Removed
  <2> QED
    BY <2>1, <2>2
<1> QED
  BY <1>2, <1>3
  DEF Next, vars, AppSend, HearCar, HearStatic, Receive, Lose, Purge

(* Whatever else happens, scripts that follow their routes keep the route  *)
(* and its script in step.                                                 *)
LEMMA RoutesStayInStep == Spec => []RoutesInStep
<1>1. Init /\ TypeOK => RoutesInStep
  <2> SUFFICES ASSUME Init, TypeOK, ScriptsFollowRoutes, NEW c \in Car
               PROVE  InStep(c)
    BY DEF RoutesInStep
  <2>1. /\ leg[c] = 0 /\ firstWalk[c] = TRUE /\ routeNode[c] = Script[c]
        /\ Removed(c) = 0
    BY DEF Init, ScriptsFollowRoutes, Removed
  <2>2. Script[c] \in Seq(Point) /\ Len(Script[c]) \in Nat
    BY RouteTypes
  <2>3. firstWalk[c] = (leg[c] = 0)
    BY <2>1, Zenon
  <2>4. /\ leg[c] <= Len(Script[c])
        /\ Len(routeNode[c]) = Len(Script[c]) - Removed(c)
        /\ \A i \in 1..Len(routeNode[c]) :
              routeNode[c][i] = Script[c][i + Removed(c)]
    BY <2>1, <2>2
  <2> QED
    BY <2>3, <2>4 DEF InStep
<1>2. TypeOK /\ TypeOK' /\ RoutesInStep /\ [Next]_vars => RoutesInStep'
  BY RoutesInStepStep
<1> QED
  BY <1>1, <1>2, TypeCorrect, PTL DEF Spec

(* remove_first_object() always finds the entry of the leg just finished:  *)
(* pop_front() never meets an empty route.                                 *)
THEOREM FinishedLegIsPopped == Spec => []PopsTheFinishedLeg
<1>1. TypeOK /\ RoutesInStep => PopsTheFinishedLeg
  <2> SUFFICES ASSUME TypeOK, RoutesInStep, ScriptsFollowRoutes,
                      NEW c \in Car, leg[c] > 0
               PROVE  /\ routeNode[c] # <<>>
                      /\ Head(routeNode[c]) = Script[c][leg[c]]
    BY DEF PopsTheFinishedLeg
  <2>1. /\ Len(Script[c]) \in Nat /\ leg[c] \in Nat
        /\ routeNode[c] \in Seq(Point) /\ Len(routeNode[c]) \in Nat
    BY RouteTypes
  <2>2. InStep(c)
    BY DEF RoutesInStep
  <2>3. Removed(c) = leg[c] - 1
    BY <2>1 DEF Removed
  <2>4. Len(routeNode[c]) > 0
    BY <2>1, <2>2, <2>3 DEF InStep
  <2>5. routeNode[c][1] = Script[c][1 + Removed(c)]
    BY <2>1, <2>2, <2>4 DEF InStep
  <2>6. 1 + Removed(c) = leg[c]
    BY <2>1, <2>3
  <2> QED
    BY <2>1, <2>4, <2>5, <2>6
<1> QED
  BY <1>1, RoutesStayInStep, TypeCorrect, PTL

(* sendMsgMinorDistance() hands a message only to a car whose script still *)
(* takes it to the destination, because check_distance() looks at what the *)
(* script has left of the route.                                           *)
THEOREM CarriersWillPass == Spec => CarrierWillPass
<1>1. ASSUME TypeOK, RoutesInStep, [Next]_vars, NEW p \in net' \ net,
             p.type = "FORWARD", ScriptsFollowRoutes
      PROVE  StillAhead(p.to, Place[Dst[p.msg]])
  <2>1. CASE net' \subseteq net
    BY <2>1
  <2>2. ASSUME NEW c \in Car, NEW n \in Car, HearCar(c, n)
        PROVE  StillAhead(p.to, Place[Dst[p.msg]])
    <3>1. p.to = n /\ BetterCarrier(n, c, p.msg)
      BY <2>2 DEF HearCar, HandOver, Unicasts
    <3> DEFINE place == Place[Dst[p.msg]]
    <3>2. Distance(n, place) # -1
      BY <3>1 DEF BetterCarrier
    <3>3. PICK i \in DOMAIN routeNode[n] : routeNode[n][i] = place
      BY <3>2 DEF Distance
    <3>4. /\ Len(Script[n]) \in Nat /\ leg[n] \in Nat
          /\ routeNode[n] \in Seq(Point) /\ Len(routeNode[n]) \in Nat
          /\ Removed(n) \in Nat
      BY RouteTypes, <1>1
    <3>5. i \in 1..Len(routeNode[n]) /\ i \in Nat
      BY <3>3, <3>4
    <3>6. InStep(n)
      BY <1>1 DEF RoutesInStep
    <3>7. Script[n][i + Removed(n)] = place
      BY <3>3, <3>5, <3>6 DEF InStep
    <3>8. i + Removed(n) \in 1..Len(Script[n])
      BY <3>4, <3>5, <3>6 DEF InStep
    <3>9. i + Removed(n) >= leg[n]
      BY <3>4, <3>5 DEF Removed
    <3> QED
      BY <3>1, <3>7, <3>8, <3>9 DEF StillAhead
  <2>3. ASSUME NEW n \in Node, NEW s \in Static, HearStatic(n, s) PROVE FALSE
    BY <1>1, <2>3 DEF HearStatic, HandOver, Unicasts
  <2> QED
    BY <1>1, <2>1, <2>2, <2>3
    DEF Next, vars, msgVars, AppSend, Receive, Lose, SetDest, Purge
<1>2. TypeOK /\ RoutesInStep /\ [Next]_vars
        => [\A p \in net' \ net :
              p.type = "FORWARD" /\ ScriptsFollowRoutes =>
                  StillAhead(p.to, Place[Dst[p.msg]])]_vars
  BY <1>1
<1> QED
  BY <1>2, RoutesStayInStep, TypeCorrect, PTL DEF Spec, CarrierWillPass

=============================================================================
