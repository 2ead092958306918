------------------------------ MODULE XFXVanets -----------------------------
(***************************************************************************)
(* The XFXVanets routing agent (avanets/vanets.cc) on every node, together *)
(* with the planned routes of the cars it consults (common/mobilenode.cc). *)
(*                                                                         *)
(* Every node says hello once a second.  A node keeps the messages given   *)
(* to it in a buffer; when a car hears another car whose planned route     *)
(* comes to the destination of a buffered message sooner than its own, it  *)
(* hands the message over; when a node hears the static node a message is  *)
(* addressed to, it sends the message there.  Handing over is a unicast    *)
(* without acknowledgement to the agent: the sender forgets the message.   *)
(*                                                                         *)
(* A hello carries the sender's address and kind and nothing that changes, *)
(* and is repeated for ever, so the hello timer of one node, the broadcast *)
(* and its handler at one receiver are a single action.  Who hears whom is *)
(* free: range, movement between waypoints and collisions only decide      *)
(* which of these actions happen when.  Destinations are static nodes, as  *)
(* in avanets/example.tcl.                                                 *)
(***************************************************************************)
EXTENDS Integers, Sequences, FiniteSets

CONSTANTS
    Node,           \* addresses
    Car,            \* nodes of kind 2; the others are of kind 1
    Point,          \* waypoints (x, y)
    Place,          \* Place[s]: where static node s stands
    Route,          \* Route[c]: the points given to "$c route ..."
    Script,         \* Script[c]: the points of the setdest commands of c
    Msg, Src, Dst,  \* application messages, their origin and destination
    Lossy,          \* a unicast may fail
    TtlMod,         \* 2^16: the ttl of a neighbour is a u_int16_t
    MaxPurge,       \* bound: how many times each purge timer fires
    NotListed       \* search() in the neighbour table returned NULL

Static == Node \ Car

ASSUME KindAssumption ==
    /\ Car \subseteq Node
    /\ Place \in [Static -> Point]
    /\ Route \in [Car -> Seq(Point)]
    /\ Script \in [Car -> Seq(Point)]
    /\ Lossy \in BOOLEAN

ASSUME MsgAssumption ==
    /\ Src \in [Msg -> Node]
    /\ Dst \in [Msg -> Static]
    /\ \A m \in Msg : Src[m] # Dst[m]

ASSUME TableAssumption ==
    /\ TtlMod \in Nat /\ TtlMod > 3
    /\ MaxPurge \in Nat
    /\ NotListed \notin Int

VARIABLES
    unsent,         \* messages the applications have not sent yet
    buffer,         \* bufferMsgs of each agent
    net,            \* unicasts between two agents
    delivered,      \* messages that reached the agent of their destination
    lost,           \* messages whose unicast failed
    routeNode,      \* what is left of each car's planned route
    firstWalk,      \* no setdest yet (mobilenode.h:241)
    leg,            \* how many setdest commands each car has executed
    neighbors,      \* neighbor_vehicles: ttl by neighbour
    purges          \* purges[c][n]: purges of c since it last heard n

msgVars == <<unsent, buffer, net, delivered, lost>>
carVars == <<routeNode, firstWalk, leg>>
tabVars == <<neighbors, purges>>
vars == <<msgVars, carVars, tabVars>>

-----------------------------------------------------------------------------
Packet == [type : {"FORWARD", "NORMAL"}, msg : Msg, from : Node, to : Node]

TypeOK ==
    /\ unsent \subseteq Msg
    /\ buffer \in [Node -> SUBSET Msg]
    /\ net \subseteq Packet
    /\ delivered \subseteq Msg
    /\ lost \subseteq Msg
    /\ routeNode \in [Car -> Seq(Point)]
    /\ firstWalk \in [Car -> BOOLEAN]
    /\ leg \in [Car -> Nat]
    /\ neighbors \in [Car -> [Car -> 0..TtlMod - 1 \cup {NotListed}]]
    /\ purges \in [Car -> [Car -> 0..MaxPurge]]

Init ==
    /\ unsent = Msg
    /\ buffer = [n \in Node |-> {}]
    /\ net = {}
    /\ delivered = {}
    /\ lost = {}
    /\ routeNode = Route
    /\ firstWalk = [c \in Car |-> TRUE]
    /\ leg = [c \in Car |-> 0]
    /\ neighbors = [c \in Car |-> [n \in Car |-> NotListed]]
    /\ purges = [c \in Car |-> [n \in Car |-> 0]]

-----------------------------------------------------------------------------
(* check_distance(): the position of point q in what is left of c's route, *)
(* counted in waypoints from 0, or -1.                                     *)
Distance(c, q) ==
    LET at == {i \in DOMAIN routeNode[c] : routeNode[c][i] = q}
    IN  IF at = {} THEN -1
        ELSE (CHOOSE i \in at : \A j \in at : i <= j) - 1

(* Mutants: a car that does not come there itself hands the message to any  *)
(* other; a car that does not come there at all keeps the message.         *)
BetterCarrier_Anybody(n, c, m) ==
    LET dn == Distance(n, Place[Dst[m]])
        dc == Distance(c, Place[Dst[m]])
    IN  dc = -1 \/ (dn # -1 /\ dc > dn)
BetterCarrier_BothPass(n, c, m) ==
    LET dn == Distance(n, Place[Dst[m]])
        dc == Distance(c, Place[Dst[m]])
    IN  dn # -1 /\ dc > dn

(* sendMsgMinorDistance(): car n comes to m's destination and car c does   *)
(* not, or does so later.                                                  *)
BetterCarrier(n, c, m) ==
    LET dn == Distance(n, Place[Dst[m]])
        dc == Distance(c, Place[Dst[m]])
    IN  dn # -1 /\ (dc = -1 \/ dc > dn)

Unicasts(type, msgs, from, to) ==
    {[type |-> type, msg |-> m, from |-> from, to |-> to] : m \in msgs}

(* Mutant: the messages stay in the buffer. *)
HandOver_Keep(type, msgs, n, to) ==
    /\ net' = net \cup Unicasts(type, msgs, n, to)
    /\ UNCHANGED <<buffer, unsent, delivered, lost>>

(* Agent n sends msgs to agent `to' and erases them from its buffer. *)
HandOver(type, msgs, n, to) ==
    /\ net' = net \cup Unicasts(type, msgs, n, to)
    /\ buffer' = [buffer EXCEPT ![n] = @ \ msgs]
    /\ UNCHANGED <<unsent, delivered, lost>>

-----------------------------------------------------------------------------
(* An application on m's origin sends m: recv() buffers it. *)
AppSend(m) ==
    /\ m \in unsent
    /\ unsent' = unsent \ {m}
    /\ buffer' = [buffer EXCEPT ![Src[m]] = @ \cup {m}]
    /\ UNCHANGED <<net, delivered, lost, carVars, tabVars>>

(* The hello of car n reaches car c: recvHelloMsg().  A static node        *)
(* ignores the hello of a car.                                             *)
HearCar(c, n) ==
    /\ c # n
    /\ neighbors' = [neighbors EXCEPT ![c][n] = 3]
    /\ purges' = [purges EXCEPT ![c][n] = 0]
    /\ HandOver("FORWARD", {m \in buffer[c] : BetterCarrier(n, c, m)}, c, n)
    /\ UNCHANGED carVars

(* The hello of static node s reaches node n: sendMsgStNodo(). *)
HearStatic(n, s) ==
    /\ n # s
    /\ HandOver("NORMAL", {m \in buffer[n] : Dst[m] = s}, n, s)
    /\ UNCHANGED <<carVars, tabVars>>

(* A unicast arrives: handleForward() buffers the embedded message, a      *)
(* message at its destination is announced on the terminal.                *)
Receive(p) ==
    /\ net' = net \ {p}
    /\ \/ /\ p.type = "FORWARD"
          /\ buffer' = [buffer EXCEPT ![p.to] = @ \cup {p.msg}]
          /\ UNCHANGED delivered
       \/ /\ p.type = "NORMAL"
          /\ delivered' = delivered \cup {p.msg}
          /\ UNCHANGED buffer
    /\ UNCHANGED <<unsent, lost, carVars, tabVars>>

(* A unicast fails: unresolved address, full queue, retries exhausted.  No *)
(* xmit_failure_ callback is set, so nobody hears of it.                   *)
Lose(p) ==
    /\ Lossy
    /\ net' = net \ {p}
    /\ lost' = lost \cup {p.msg}
    /\ UNCHANGED <<unsent, buffer, delivered, carVars, tabVars>>

(* Mutants: the first setdest already removes a point; no point is ever    *)
(* removed.                                                                *)
RemoveFirst_AtOnce(c) == routeNode' = [routeNode EXCEPT ![c] = Tail(@)]
RemoveFirst_Never(c)  == UNCHANGED routeNode

(* remove_first_object(); pop_front() on an empty list is undefined.       *)
RemoveFirst(c) ==
    \/ firstWalk[c] /\ UNCHANGED routeNode
    \/ /\ ~firstWalk[c] /\ routeNode[c] # <<>>
       /\ routeNode' = [routeNode EXCEPT ![c] = Tail(@)]

(* The script moves car c on: set_destination(), which succeeds inside the *)
(* topography, and remove_first_object().                                  *)
SetDest(c) ==
    /\ leg[c] < Len(Script[c])
    /\ leg' = [leg EXCEPT ![c] = @ + 1]
    /\ firstWalk' = [firstWalk EXCEPT ![c] = FALSE]
    /\ RemoveFirst(c)
    /\ UNCHANGED <<msgVars, tabVars>>

(* --ttl on a u_int16_t. *)
Decrement(ttl) == (ttl - 1) % TtlMod

(* The purge timer of car c: update_ttl().  The ttl is unsigned, so the    *)
(* test for a negative one never holds and no neighbour is ever removed.   *)
Purge(c) ==
    /\ \A n \in Car : purges[c][n] < MaxPurge
    /\ neighbors' = [neighbors EXCEPT ![c] = [n \in Car |->
          IF neighbors[c][n] = NotListed
            THEN NotListed
            ELSE Decrement(neighbors[c][n])]]
    /\ purges' = [purges EXCEPT ![c] = [n \in Car |-> purges[c][n] + 1]]
    /\ UNCHANGED <<msgVars, carVars>>

Next ==
    \/ \E m \in Msg : AppSend(m)
    \/ \E c, n \in Car : HearCar(c, n)
    \/ \E n \in Node, s \in Static : HearStatic(n, s)
    \/ \E p \in net : Receive(p)
    \/ \E p \in net : Lose(p)
    \/ \E c \in Car : SetDest(c)
    \/ \E c \in Car : Purge(c)

Spec == Init /\ [][Next]_vars

-----------------------------------------------------------------------------
(* c has executed its whole script and stands at static node s.            *)
Parked(c, s) ==
    /\ leg[c] = Len(Script[c])
    /\ Script[c] # <<>>
    /\ Script[c][Len(Script[c])] = Place[s]

(* The scheduler dispatches what it holds: packets arrive and scripts run. *)
(* Hellos are repeated for ever, so cars that keep meeting hear each other *)
(* and a car parked at a static node hears it.                             *)
Fairness ==
    /\ \A p \in Packet : WF_vars(p \in net /\ Receive(p))
    /\ \A c \in Car : WF_vars(SetDest(c))
    /\ \A c, n \in Car : WF_vars(HearCar(c, n))
    /\ \A c \in Car, s \in Static : WF_vars(Parked(c, s) /\ HearStatic(c, s))

FairSpec == Spec /\ Fairness

-----------------------------------------------------------------------------
(* Where a message is: the places that hold a copy of it. *)
Holders(m) ==
    {<<"buffer", n>> : n \in {x \in Node : m \in buffer[x]}}
    \cup {<<"net", p>> : p \in {x \in net : x.msg = m}}
    \cup {<<"app", m>> : x \in unsent \cap {m}}
    \cup {<<"delivered", m>> : x \in delivered \cap {m}}
    \cup {<<"lost", m>> : x \in lost \cap {m}}

(* A message has one holder at every moment: it is never in the buffers of *)
(* two nodes, nor in a buffer and on the air, and it never vanishes but by *)
(* a failed unicast (the send-and-erase loops of sendMsgStNodo() and       *)
(* sendMsgMinorDistance()).                                                *)
Custody ==
    \A m \in Msg :
        /\ Holders(m) # {}
        /\ \A a, b \in Holders(m) : a = b

(* The scripts agree with the routes: the setdest commands of a car are    *)
(* the points of its route, in order (avanets/example.tcl, node_(3)).      *)
ScriptsFollowRoutes == \A c \in Car : Script[c] = Route[c]

(* sendMsgMinorDistance() trusts routeNode; the car it hands a message to  *)
(* is still to come to the destination, or on its way there, according to  *)
(* the script that really moves it.                                        *)
StillAhead(c, q) ==
    \E i \in 1..Len(Script[c]) : i >= leg[c] /\ Script[c][i] = q

CarrierWillPass ==
    [][\A p \in net' \ net :
          p.type = "FORWARD" /\ ScriptsFollowRoutes =>
              StillAhead(p.to, Place[Dst[p.msg]])]_vars

(* A car never runs out of route entries to remove: pop_front() in         *)
(* remove_first_object() always finds the entry of the leg just finished.  *)
PopsTheFinishedLeg ==
    ScriptsFollowRoutes =>
        \A c \in Car :
            leg[c] > 0 => /\ routeNode[c] # <<>>
                          /\ Head(routeNode[c]) = Script[c][leg[c]]

(* Cars do not toss a message to and fro for ever: from some moment on no  *)
(* car hands it to another one.                                            *)
Handed(m) == \E p \in net' \ net : p.msg = m /\ p.type = "FORWARD"
HandingOverEnds == \A m \in Msg : <>[][~Handed(m)]_vars

(* If some car's route ends at a message's destination, then a message     *)
(* that a car has in its buffer is delivered unless a unicast fails.       *)
SomebodyEndsAt(q) ==
    \E c \in Car : Script[c] # <<>> /\ Script[c][Len(Script[c])] = q

CarriedIsDelivered ==
    \A m \in Msg : \A c \in Car :
        (m \in buffer[c] /\ SomebodyEndsAt(Place[Dst[m]])) ~>
            (m \in delivered \cup lost)

(* update_ttl(): a neighbour that was silent for more purges than its ttl  *)
(* is not in the table ("Caso o TTL = 0, elimina o nodo da lista").        *)
SilentNeighborsLeave ==
    \A c, n \in Car : purges[c][n] > 3 => neighbors[c][n] = NotListed
=============================================================================
