----------------------------- MODULE LinkStack -----------------------------
(***************************************************************************)
(* The stack below the agents of a mobile node down to the MAC: the link   *)
(* layer (mac/ll.cc), ARP (mac/arp.cc) and the interface queue             *)
(* (queue/priqueue.cc over queue/drop-tail.cc and queue/queue.cc).         *)
(*                                                                         *)
(* A unicast to a neighbour whose address is not known is held by ARP      *)
(* while a request is broadcast; there is room for one packet per          *)
(* neighbour and no timer asks again.  Whatever goes down waits in the     *)
(* scheduler for the delay_ of who scheduled it, 25us for the link layer,  *)
(* 5us for ARP, and then enters the interface queue, routing packets at    *)
(* its head.  The queue hands the MAC one packet at a time and is blocked  *)
(* until the MAC calls resume().                                           *)
(*                                                                         *)
(* The MAC appears with what it does for the queue: it sends its packet,   *)
(* with its retries, and resumes the queue.  Mac80211 has its details.     *)
(* Packets carry no xmit_failure_ callback: WFRP and XFXVanets set none.   *)
(***************************************************************************)
EXTENDS Integers, Sequences, FiniteSets, SequencesExt

CONSTANTS
    Node,               \* addresses, of the network and of the MAC layer
    Packet,             \* the packets the agents send
    Origin, NextHop,    \* who sends a packet, and to whom
    Earlier,            \* the packets that are sent before a packet
    Everyone,           \* IP_BROADCAST, MAC_BROADCAST
    Routing,            \* the packets of a type PriQueue prefers
    MaxRequests,        \* ARP_MAX_REQUEST_COUNT
    QueueLimit,         \* qlim_
    NoPacket            \* a null pointer to a packet

ASSUME PacketAssumption ==
    /\ Origin \in [Packet -> Node]
    /\ NextHop \in [Packet -> Node \cup {Everyone}]
    /\ Earlier \in [Packet -> SUBSET Packet]
    /\ \A p \in Packet : NextHop[p] # Origin[p]
    /\ Routing \subseteq Packet
    /\ Everyone \notin Node

ASSUME LimitAssumption ==
    /\ MaxRequests \in Nat \ {0}
    /\ QueueLimit \in Nat /\ QueueLimit > 1

VARIABLES
    arp,        \* arp[n][d]: n's entry for d; one that is not up and has
                \* count 0 and no packet stands for no entry, too
    down,       \* the frames LL and ARP have scheduled for the queue
    queue,      \* the interface queues
    blocked,    \* and whether they wait for resume()
    mac,        \* the frame each MAC is busy with
    sent,       \* the packets handed to a link layer, in this order
    passedUp,   \* passedUp[n]: the packets passed up at n, in this order
    dropped,    \* the packets given up
    lossy       \* transmissions may fail; does not change

vars == <<arp, down, queue, blocked, mac, sent, passedUp, dropped, lossy>>

-----------------------------------------------------------------------------
Data(p) == [type |-> "DATA", packet |-> p, to |-> NextHop[p]]
Request(n, d) == [type |-> "REQUEST", spa |-> n, tpa |-> d, to |-> Everyone]
Reply(n, d) == [type |-> "REPLY", spa |-> n, tpa |-> d, to |-> d]

Frame == {Data(p) : p \in Packet}
         \cup {Request(n, d) : n \in Node, d \in Node}
         \cup {Reply(n, d) : n \in Node, d \in Node}

ASSUME NoPacketAssumption == NoPacket \notin Packet \cup Frame

Event == [frame : Frame, by : {"LL", "ARP"}]
NoFrame == NoPacket
Entry == [up : BOOLEAN, count : 0..MaxRequests, hold : Packet \cup {NoPacket}]

TypeOK ==
    /\ arp \in [Node -> [Node -> Entry]]
    /\ down \in [Node -> Seq(Event)]
    /\ queue \in [Node -> Seq(Frame)]
    /\ blocked \in [Node -> BOOLEAN]
    /\ mac \in [Node -> Frame \cup {NoFrame}]
    /\ sent \in Seq(Packet)
    /\ passedUp \in [Node -> Seq(Packet)]
    /\ dropped \in SUBSET Packet
    /\ lossy \in BOOLEAN

Init ==
    /\ arp = [n \in Node |-> [d \in Node |->
                [up |-> FALSE, count |-> 0, hold |-> NoPacket]]]
    /\ down = [n \in Node |-> <<>>]
    /\ queue = [n \in Node |-> <<>>]
    /\ blocked = [n \in Node |-> FALSE]
    /\ mac = [n \in Node |-> NoFrame]
    /\ sent = <<>>
    /\ passedUp = [n \in Node |-> <<>>]
    /\ dropped = {}
    /\ lossy \in BOOLEAN

Packets(frames) == {f.packet : f \in {g \in frames : g.type = "DATA"}}

-----------------------------------------------------------------------------
(* LL::sendDown() and ARPTable::arpresolve(), by what the table says of d. *)

Scheduled(n, f, by) ==
    down' = [down EXCEPT ![n] = Append(@, [frame |-> f, by |-> by])]

(* A broadcast needs no address, and d's may be known. *)
SendResolved(n, d, p) ==
    /\ d = Everyone \/ (d # Everyone /\ arp[n][d].up)
    /\ Scheduled(n, Data(p), "LL")
    /\ UNCHANGED <<arp, dropped>>

(* Mutant: one request too many. *)
AskedOften_OneMore(e) == e.count > MaxRequests
AskedOften(e) == e.count >= MaxRequests

(* Ask for the address.  The packet takes the place of the one that waits. *)
(* Mutant: the packet that waits keeps the place and is not dropped.       *)
SendHeld_Leak(n, d, p) ==
    /\ d # Everyone /\ ~arp[n][d].up
    /\ ~AskedOften(arp[n][d])
    /\ arp' = [arp EXCEPT ![n][d] =
                 [up |-> FALSE, count |-> @.count + 1, hold |-> p]]
    /\ Scheduled(n, Request(n, d), "ARP")
    /\ UNCHANGED dropped

SendHeld(n, d, p) ==
    /\ d # Everyone /\ ~arp[n][d].up
    /\ ~AskedOften(arp[n][d])
    /\ arp' = [arp EXCEPT ![n][d] =
                 [up |-> FALSE, count |-> @.count + 1, hold |-> p]]
    /\ dropped' = dropped \cup ({arp[n][d].hold} \ {NoPacket})
    /\ Scheduled(n, Request(n, d), "ARP")

(* Asked too often: give up both packets, start over with the next one.    *)
(* Mutant: the packet that waits is not removed.                           *)
SendRefused_KeepHold(n, d, p) ==
    /\ d # Everyone /\ ~arp[n][d].up
    /\ AskedOften(arp[n][d])
    /\ arp' = [arp EXCEPT ![n][d].count = 0]
    /\ dropped' = dropped \cup ({arp[n][d].hold, p} \ {NoPacket})
    /\ UNCHANGED down

SendRefused(n, d, p) ==
    /\ d # Everyone /\ ~arp[n][d].up
    /\ AskedOften(arp[n][d])
    /\ arp' = [arp EXCEPT ![n][d] =
                 [up |-> FALSE, count |-> 0, hold |-> NoPacket]]
    /\ dropped' = dropped \cup ({arp[n][d].hold, p} \ {NoPacket})
    /\ UNCHANGED down

(* An agent hands p to its link layer. *)
Send(p) ==
    /\ p \notin ToSet(sent) /\ Earlier[p] \subseteq ToSet(sent)
    /\ sent' = Append(sent, p)
    /\ \/ SendResolved(Origin[p], NextHop[p], p)
       \/ SendHeld(Origin[p], NextHop[p], p)
       \/ SendRefused(Origin[p], NextHop[p], p)
    /\ UNCHANGED <<queue, blocked, mac, passedUp, lossy>>

-----------------------------------------------------------------------------
(* PriQueue::recv().  A frame of a preferred type goes to the head of the  *)
(* queue, whose last frame is dropped when the limit is reached; another   *)
(* one goes to the tail (DropTail::enque()) or is dropped.                 *)
Preferred(f) == f.type = "DATA" /\ f.packet \in Routing

AtHead(q, f) ==
    IF Len(q) + 1 >= QueueLimit THEN Front(<<f>> \o q) ELSE <<f>> \o q

AtTail(q, f) ==
    IF Len(q) + 1 >= QueueLimit THEN q ELSE Append(q, f)

(* Mutant: every frame is put at the head. *)
Enqueued_Lifo(q, f) == AtHead(q, f)
Enqueued(q, f) == IF Preferred(f) THEN AtHead(q, f) ELSE AtTail(q, f)

(* Mutant: whoever finds the queue empty leaves it blocked. *)
Served_StayBlocked(n, q) ==
    /\ queue' = [queue EXCEPT ![n] = IF q = <<>> THEN q ELSE Tail(q)]
    /\ mac' = [mac EXCEPT ![n] = IF q = <<>> THEN NoFrame ELSE Head(q)]
    /\ blocked' = [blocked EXCEPT ![n] = TRUE]

(* The queue q may be served: give its first frame to the MAC, or unblock  *)
(* (Queue::recv(), PriQueue::recvHighPriority(), Queue::resume()).         *)
Served(n, q) ==
    /\ queue' = [queue EXCEPT ![n] = IF q = <<>> THEN q ELSE Tail(q)]
    /\ mac' = [mac EXCEPT ![n] = IF q = <<>> THEN NoFrame ELSE Head(q)]
    /\ blocked' = [blocked EXCEPT ![n] = q # <<>>]

(* Which scheduled frame is due: the first one, or ARP's first one, which  *)
(* was scheduled later but has less to wait.                               *)
Due(n, i) ==
    \/ i = 1
    \/ /\ down[n][i].by = "ARP"
       /\ \A j \in 1..i - 1 : down[n][j].by = "LL"

(* A scheduled frame enters the interface queue. *)
Enqueue(n) ==
    \E i \in DOMAIN down[n] :
        LET f == down[n][i].frame
            q == Enqueued(queue[n], f)
        IN  /\ Due(n, i)
            /\ down' = [down EXCEPT ![n] = RemoveAt(@, i)]
            /\ IF blocked[n]
               THEN /\ queue' = [queue EXCEPT ![n] = q]
                    /\ UNCHANGED <<mac, blocked>>
               ELSE Served(n, q)
            /\ dropped' = dropped \cup
                 (Packets(ToSet(queue[n]) \cup {f}) \ Packets(ToSet(q)))
            /\ UNCHANGED <<arp, sent, passedUp, lossy>>

-----------------------------------------------------------------------------
(* ARPTable::arpinput() at the nodes that hear f: learn the sender's       *)
(* address, send what was held for it, answer a request for one's own.     *)
(* Mutant: the packet is sent and stays. *)
Learn_KeepHold(e) == [e EXCEPT !.up = TRUE]
Learn(e) == [e EXCEPT !.up = TRUE, !.hold = NoPacket]

Released(n, f) ==
    LET p == arp[n][f.spa].hold
    IN  IF p = NoPacket THEN <<>> ELSE <<[frame |-> Data(p), by |-> "ARP"]>>

(* Mutant: only a node whose address was known before gets an answer. *)
Answer_Known(n, f) ==
    IF f.type = "REQUEST" /\ f.tpa = n /\ arp[n][f.spa].up
    THEN <<[frame |-> Reply(n, f.spa), by |-> "ARP"]>> ELSE <<>>

Answer(n, f) ==
    IF f.type = "REQUEST" /\ f.tpa = n
    THEN <<[frame |-> Reply(n, f.spa), by |-> "ARP"]>> ELSE <<>>

HearArp(hearers, f) ==
    /\ arp' = [n \in Node |->
                 IF n \in hearers THEN [arp[n] EXCEPT ![f.spa] = Learn(@)]
                 ELSE arp[n]]
    /\ down' = [n \in Node |->
                  IF n \in hearers THEN down[n] \o Released(n, f) \o Answer(n, f)
                  ELSE down[n]]
    /\ UNCHANGED passedUp

HearData(hearers, f) ==
    /\ passedUp' = [n \in Node |-> IF n \in hearers
                                   THEN Append(passedUp[n], f.packet)
                                   ELSE passedUp[n]]
    /\ UNCHANGED <<arp, down>>

(* The nodes that may hear a frame of n's: all or some of the others, or   *)
(* the one it is addressed to.                                             *)
Hearers(n, f) ==
    LET meant == IF f.to = Everyone THEN Node \ {n} ELSE {f.to}
    IN  IF lossy THEN SUBSET meant ELSE {meant}

(* The MAC of n sends its frame, frees or drops it, and resumes the queue. *)
(* A frame that was heard may still be dropped: the acknowledgement was    *)
(* lost, the agents do not learn of it.                                    *)
Transmit(n) ==
    /\ mac[n] # NoFrame
    /\ \E hearers \in Hearers(n, mac[n]) :
         /\ IF mac[n].type = "DATA" THEN HearData(hearers, mac[n])
                                    ELSE HearArp(hearers, mac[n])
         /\ dropped' = IF mac[n].type = "DATA" /\ hearers = {}
                       THEN dropped \cup {mac[n].packet} ELSE dropped
    /\ Served(n, queue[n])
    /\ UNCHANGED <<sent, lossy>>

-----------------------------------------------------------------------------
Next ==
    \/ \E p \in Packet : Send(p)
    \/ \E n \in Node : Enqueue(n)
    \/ \E n \in Node : Transmit(n)

Spec == Init /\ [][Next]_vars

(* The scheduler runs every event, and the MAC ends every transmission.    *)
FairSpec ==
    Spec /\ \A n \in Node : WF_vars(Enqueue(n)) /\ WF_vars(Transmit(n))

-----------------------------------------------------------------------------
(* Where the packets are that n was given and has not done with.           *)
Held(n) == {arp[n][d].hold : d \in Node} \ {NoPacket}
Waiting(n) ==
    Packets({e.frame : e \in ToSet(down[n])} \cup ToSet(queue[n]))
    \cup (IF mac[n] = NoFrame THEN {} ELSE Packets({mac[n]}))
InStack == UNION {Held(n) \cup Waiting(n) : n \in Node}

Arrived == UNION {ToSet(passedUp[n]) : n \in Node}

(* No packet is lost without a trace: one that was sent is still in the    *)
(* stack of its origin, or arrived somewhere, or was dropped, and what was *)
(* done with is not in a stack any more.  ARP's replaced packet, the queue *)
(* limit and the MAC's retry limit all have to account for theirs.         *)
Accounted ==
    /\ ToSet(sent) = InStack \cup Arrived \cup dropped
    /\ InStack \cap (Arrived \cup dropped) = {}
    /\ \A n \in Node : \A p \in Held(n) \cup Waiting(n) : Origin[p] = n

(* The handshake of queue and MAC: the queue is blocked exactly while the  *)
(* MAC has a frame, and nothing waits behind an idle MAC.  A resume() that *)
(* is not followed up leaves the interface dead for ever.                  *)
NeverBlockedIdle ==
    \A n \in Node : /\ blocked[n] = (mac[n] # NoFrame)
                    /\ ~blocked[n] => queue[n] = <<>>

(* No packet leaves for a neighbour whose address is not known, and once   *)
(* it is known nothing waits for it any more, whatever request or reply    *)
(* it was learnt from.                                                     *)
HeldWhileUnknown ==
    \A n, d \in Node :
        /\ arp[n][d].hold # NoPacket
             => ~arp[n][d].up /\ NextHop[arp[n][d].hold] = d
        /\ ~arp[n][d].up => \A p \in Waiting(n) : NextHop[p] # d

(* What is left of a burst to a neighbour that has not answered: the last  *)
(* packet, or none at all when MaxRequests + 1 divides their number.       *)
LastOfBurstHeld ==
    \A n, d \in Node : ~arp[n][d].up =>
        LET burst == {k \in DOMAIN sent : /\ Origin[sent[k]] = n
                                          /\ NextHop[sent[k]] = d}
        IN  arp[n][d].hold = IF Cardinality(burst) % (MaxRequests + 1) = 0
                             THEN NoPacket ELSE sent[Max(burst)]

(* Packets of the types PriQueue does not prefer arrive in the order they  *)
(* were sent to a neighbour, held packets and ARP's shorter delay          *)
(* included.  Those it does prefer leave a queue in the reverse order.     *)
InOrder ==
    \A n \in Node : \A i, j \in DOMAIN passedUp[n] :
        LET p == passedUp[n][i]
            q == passedUp[n][j]
            At(x) == CHOOSE k \in DOMAIN sent : sent[k] = x
        IN  /\ i < j
            /\ NextHop[p] = n /\ NextHop[q] = n /\ Origin[p] = Origin[q]
            /\ {p, q} \cap Routing = {}
            => At(p) < At(q)

(* A frame the queue of n loses if it comes before the MAC takes the next  *)
(* one: it is due while the queue is full, or last in a full queue that a  *)
(* preferred frame is about to enter.                                      *)
AtRisk(n, f) ==
    /\ Len(queue[n]) + 1 >= QueueLimit
    /\ \E i \in DOMAIN down[n] :
         /\ Due(n, i)
         /\ \/ down[n][i].frame = f
            \/ Preferred(down[n][i].frame) /\ Last(queue[n]) = f

(* Request and reply of n's exchange for the address of d *)
ExchangeAtRisk(n, d) == AtRisk(n, Request(n, d)) \/ AtRisk(d, Reply(d, n))

(* What n was given for d and has not done with *)
HasFor(n, d) == {p \in Held(n) \cup Waiting(n) : NextHop[p] = d}

(* When no transmission fails and neither the request nor the reply of n's *)
(* exchange with d meets a full interface queue, all that n has for d      *)
(* arrives or is dropped in the end: a request that was answered, also one *)
(* that crossed the other's own, releases what was held for it.  Without   *)
(* the second condition it does not hold: a request or a reply that a full *)
(* queue drops (drop-tail.cc, priqueue.cc) leaves the packet in ARP until  *)
(* the agent sends another one there, as no timer asks again.              *)
Settled ==
    ~lossy => \A n \in Node : \A d \in Node \ {n} :
        []~ExchangeAtRisk(n, d) => (HasFor(n, d) # {} ~> HasFor(n, d) = {})

(* Every time a packet was passed up, wherever *)
Arrivals ==
    UNION {{[packet |-> passedUp[n][i], at |-> n, nth |-> i] :
              i \in DOMAIN passedUp[n]} : n \in Node}

(* Each unicast packet sees a link that keeps the promises of UnicastLink; *)
(* none arrives twice.                                                     *)
Unicasts == {p \in Packet : NextHop[p] \in Node}
Link == INSTANCE UnicastLink
    WITH Packet <- Unicasts,
         sent <- ToSet(sent) \cap Unicasts,
         arrivals <- {x \in Arrivals : x.packet \in Unicasts},
         settled <- (dropped \cup (Arrived \ InStack)) \cap Unicasts,
         unnumbered <- {}
ImplementsUnicastLink == Link!Spec
=============================================================================
