-------------------------------- MODULE Aodv --------------------------------
(***************************************************************************)
(* The AODV routing agent (aodv/aodv.cc, aodv_rtable.cc, aodv_rqueue.cc):  *)
(* route requests that flood, replies that come back along the reverse     *)
(* routes, sequence numbers that are even while a route is good, errors    *)
(* that take routes down, and the local repair of a broken route.          *)
(*                                                                         *)
(* A handler is a function of its node's record, so that the calls it      *)
(* makes compose as in the code; what it sends is collected in out and put *)
(* into the air by the action.  Time is left out: a route may expire at    *)
(* any moment, and whether sendRequest() is held back by its timeout       *)
(* (rt_req_timeout), sends a request of a smaller hop limit (the expanding *)
(* ring), or one for the whole network is a choice; only the last ones are *)
(* counted (rt_req_cnt), and after more than RREQ_RETRIES of them it gives *)
(* up.  The hop limit itself is left out: a copy it stops is one that is   *)
(* lost.  Left out, too, are the ways in which time alone makes an agent   *)
(* forget: packets that have waited for AODV_RTQ_TIMEOUT (the purge() of   *)
(* the queue), and requests seen BCAST_ID_SAVE ago (id_purge()), whose     *)
(* copies are then no longer under way.  A route that is not in the table  *)
(* is the same as one that rt_add() has just made.                         *)
(***************************************************************************)
EXTENDS Integers, Sequences, FiniteSets, SequencesExt, FiniteSetsExt

CONSTANTS
    Node,
    Links,          \* the links that work at the start, sets of two nodes
    Data,           \* the packets applications send
    Source, Target, \* of a packet: its source and destination
    Zero,           \* the node of address 0, which a route without next hop names
    Everyone,       \* IP_BROADCAST
    Infinity,       \* INFINITY2
    Diameter,       \* NETWORK_DIAMETER, the first TTL of data
    QueueLimit,     \* AODV_RTQ_MAX_LEN
    LocalRepair,    \* whether AODV_LOCAL_REPAIR is defined
    Retries,        \* RREQ_RETRIES
    Outcomes,       \* of sendRequest(): a subset of {"wait", "ring", "wide"}
    Patient,        \* whether timeouts outlast what they wait for
    MaxFloods,      \* bound: requests of one node
    MaxBreaks,      \* bound: how many links break
    MaxLosses,      \* bound: copies of broadcasts that are lost
    MaxExpiries     \* bound: rounds of rt_purge() that find an expired route

ASSUME NodeAssumption ==
    /\ IsFiniteSet(Node)
    /\ Zero \in Node /\ Everyone \notin Node
    /\ {Source, Target} \subseteq [Data -> Node]

ASSUME LimitAssumption ==
    /\ {Infinity, QueueLimit} \subseteq Nat \ {0}
    /\ {Diameter, Retries} \subseteq Nat /\ Diameter < Infinity
    /\ {MaxFloods, MaxBreaks, MaxLosses, MaxExpiries} \subseteq Nat
    /\ {LocalRepair, Patient} \subseteq BOOLEAN
    /\ Outcomes \subseteq {"wait", "ring", "wide"}

VARIABLES
    node,       \* the agents
    air,        \* copies of frames under way, [msg, by, at]
    repairs,    \* packets the local repair timers hold, [at, data, dst]
    failed,     \* history: destinations a local repair has failed to reach
    links,      \* the links that work
    unsent,     \* packets no application has sent yet
    arrived,    \* packets that have reached their destination
    losses, expiries

vars == <<node, air, repairs, failed, links, unsent, arrived, losses, expiries>>

-----------------------------------------------------------------------------
(* aodv_rt_entry::aodv_rt_entry() *)
NewRoute == [seq |-> 0, hops |-> Infinity, flag |-> "DOWN", next |-> Zero, pc |-> {}]

(* AODV::AODV() *)
NewAgent(n) ==
    [me |-> n, seqno |-> 2, bid |-> 1, rt |-> [d \in Node |-> NewRoute],
     tries |-> [d \in Node |-> 0], seen |-> {}, rqueue |-> <<>>, out |-> {}, ok |-> TRUE]

Check(s, p) == [s EXCEPT !.ok = @ /\ p]
Send(s, msg, to) == [s EXCEPT !.out = @ \cup {[msg |-> msg, to |-> to]}]

Up(r) == r.flag = "UP"
Usable(r) == r.hops # Infinity

-----------------------------------------------------------------------------
(* The packets that wait for a route: aodv_rqueue *)

Packet == [id : Data, fwd : 0..Diameter]

(* enque(): a full queue loses its oldest packet.  The purge() before it,   *)
(* of packets that have waited for AODV_RTQ_TIMEOUT, is left out.          *)
Enqueue(s, p) ==
    [s EXCEPT !.rqueue = Append(IF Len(@) = QueueLimit THEN Tail(@) ELSE @, p)]

(* The loops over deque(dst) that drop, for each dst in D *)
Kept(q, D) == SelectSeq(q, LAMBDA p : Target[p.id] \notin D)
DropQueued(s, D) == [s EXCEPT !.rqueue = Kept(@, D)]

DataMsg(p) == [kind |-> "DATA", id |-> p.id, fwd |-> p.fwd]

Queued(s, D) == {p \in Packet \cap ToSet(s.rqueue) : Target[p.id] \in D}

(* The loops over deque(dst) that forward *)
Flush(s, D) ==
    [DropQueued(s, D) EXCEPT
       !.out = @ \cup {[msg |-> DataMsg(p), to |-> s.rt[Target[p.id]].next] :
                          p \in Queued(s, D)}]

-----------------------------------------------------------------------------
(* rt_update(), and the reset of rt_req_cnt by those who call it *)
Update(s, d, seq, hops, next) ==
    [s EXCEPT !.rt[d] = [@ EXCEPT !.seq = seq, !.hops = hops,
                                  !.flag = "UP", !.next = next],
              !.tries[d] = 0]

(* rt_down() *)
Down(r) ==
    IF r.flag = "DOWN" THEN r
    ELSE [r EXCEPT !.hops = Infinity, !.flag = "DOWN", !.next = Zero]

(* The loops that give routes a new number and take them down: nums[d] is  *)
(* the number for the route to d.                                          *)
TakeDown(s, nums) ==
    [s EXCEPT !.rt = [d \in Node |->
        IF d \in DOMAIN nums THEN Down([@[d] EXCEPT !.seq = nums[d]]) ELSE @[d]]]

(* The test of recvRequest() and recvReply() *)
Fresher(seq, hops, r) == seq > r.seq \/ (seq = r.seq /\ hops < r.hops)

-----------------------------------------------------------------------------
(* The k-th request from now on *)
Request(s, d, k) ==
    [kind |-> "RREQ", src |-> s.me, bid |-> s.bid + k - 1, dst |-> d,
     dseq |-> s.rt[d].seq, sseq |-> s.seqno + 2 * k, hops |-> 1, from |-> s.me]

(* More than RREQ_RETRIES requests for the whole network are enough. *)
GivesUp(s, d, outcome) == outcome = "wide" /\ s.tries[d] > Retries

(* rt_req_cnt after a request *)
Tried(k, outcome) == IF outcome = "wide" THEN k + 1 ELSE k

(* sendRequest() *)
SendRequest(s, d, outcome) ==
    IF Up(s.rt[d]) \/ outcome = "wait" THEN Check(s, Up(s.rt[d]) => Usable(s.rt[d]))
    ELSE IF GivesUp(s, d, outcome) THEN [DropQueued(s, {d}) EXCEPT !.tries[d] = 0]
    ELSE Send([s EXCEPT !.bid = @ + 1, !.seqno = @ + 2,
                        !.tries[d] = Tried(@, outcome)],
              Request(s, d, 1), Everyone)

(* sendReply(): to the next hop of the reverse route, whatever it is *)
SendReply(s, ipdst, hops, d, seq) ==
    Send(s, [kind |-> "RREP", to |-> ipdst, dst |-> d, seq |-> seq,
             hops |-> hops, from |-> s.me],
         s.rt[ipdst].next)

(* sendError(): lost[d] is the number of the lost route to d. *)
SendError(s, lost) ==
    IF DOMAIN lost = {} THEN s
    ELSE Send(s, [kind |-> "RERR", lost |-> lost, from |-> s.me], Everyone)

(* rt_resolve(), of a packet whose TTL has been looked at *)
Resolve(s, p, outcome) ==
    LET d == Target[p.id]
        r == s.rt[d]
    IN IF Up(r) THEN Check(Send(s, DataMsg(p), r.next), Usable(r))
       ELSE IF Source[p.id] = s.me THEN SendRequest(Enqueue(s, p), d, outcome)
       ELSE IF r.flag = "IN_REPAIR" THEN Enqueue(s, p)
       ELSE SendError(s, [x \in {d} |-> r.seq])

(* recv(), of data *)
RecvData(s, m, outcome) ==
    IF Source[m.id] = s.me \/ m.fwd >= Diameter THEN s
    ELSE Resolve(s, [id |-> m.id, fwd |-> m.fwd], outcome)

(* Mutant: the number grows by one, even or odd. *)
OwnNumber_Any(s, dseq) == Max({s.seqno, dseq}) + 1

(* The number the destination gives its reply: even, and beyond what       *)
(* anybody has seen                                                        *)
OwnNumber(s, dseq) ==
    LET n == Max({s.seqno, dseq}) + 1 IN IF n % 2 = 1 THEN n + 1 ELSE n

(* The reverse route of recvRequest() *)
Reversed(s, m) ==
    IF Fresher(m.sseq, m.hops, s.rt[m.src])
    THEN Flush(Check(Update(s, m.src, m.sseq, m.hops, m.from),
                     Queued(s, {m.src}) # {} => m.hops # Infinity),
               {m.src})
    ELSE s

(* An intermediate node knows a route that is new enough. *)
MayReply(r, m) == Usable(r) /\ r.seq >= m.dseq

(* Mutant: the destination forgets the number it gives. *)
RecvRequest_Forget(s, m) ==
    IF m.src = s.me \/ <<m.src, m.bid>> \in s.seen THEN s
    ELSE
    LET s1 == Reversed([s EXCEPT !.seen = @ \cup {<<m.src, m.bid>>}], m)
        r == s1.rt[m.dst]
    IN IF m.dst = s.me
       THEN SendReply(s1, m.src, 1, s.me, OwnNumber(s1, m.dseq))
       ELSE IF MayReply(r, m) THEN SendReply(s1, m.src, r.hops + 1, m.dst, r.seq)
       ELSE Send(s1, [m EXCEPT !.hops = @ + 1, !.from = s.me], Everyone)

(* recvRequest() *)
RecvRequest(s, m) ==
    IF m.src = s.me \/ <<m.src, m.bid>> \in s.seen THEN s
    ELSE
    LET s1 == Reversed([s EXCEPT !.seen = @ \cup {<<m.src, m.bid>>}], m)
        r == s1.rt[m.dst]
    IN IF m.dst = s.me
       THEN LET n == OwnNumber(s1, m.dseq)
            IN SendReply([s1 EXCEPT !.seqno = n], m.src, 1, s.me, n)
       ELSE IF MayReply(r, m)
       THEN LET s2 == SendReply(s1, m.src, r.hops + 1, m.dst, r.seq)
                s3 == [s2 EXCEPT !.rt[m.dst].pc = @ \cup {s2.rt[m.src].next}]
            IN [s3 EXCEPT !.rt[m.src].pc = @ \cup {s3.rt[m.dst].next}]
       ELSE Send(s1, [m EXCEPT !.hops = @ + 1, !.from = s.me,
                               !.dseq = Max({@, r.seq})],
                 Everyone)

(* The forward route of recvReply() *)
Forward(s, m) ==
    LET s1 == Update(s, m.dst, m.seq, m.hops, m.from)
    IN IF m.hops # Infinity THEN Flush(s1, {m.dst}) ELSE DropQueued(s1, {m.dst})

(* recvReply() *)
RecvReply(s, m) ==
    LET better == Fresher(m.seq, m.hops, s.rt[m.dst])
        s1 == IF better THEN Forward(s, m) ELSE s
        back == s1.rt[m.to]
    IN IF m.to = s.me \/ ~better \/ ~Usable(back) THEN s1
       ELSE [Check(Send(s1, [m EXCEPT !.hops = @ + 1, !.from = s.me], back.next),
                     Up(back))
             EXCEPT !.rt[m.dst].pc = @ \cup {back.next}]

(* The destinations of an error that s reaches through its sender *)
TakenDown(s, m) ==
    {d \in DOMAIN m.lost : LET r == s.rt[d]
                           IN Usable(r) /\ r.next = m.from /\ r.seq <= m.lost[d]}

(* The assertions about routes that are about to be taken down *)
Sound(s, D) == \A d \in D : Up(s.rt[d]) /\ s.rt[d].seq % 2 = 0

(* recvError(); the error goes on if somebody upstream uses the route. *)
RecvError(s, m) ==
    LET down == TakenDown(s, m)
        told == {d \in down : s.rt[d].pc # {}}
        s1 == TakeDown(Check(s, Sound(s, down)), [d \in down |-> m.lost[d]])
        s2 == [s1 EXCEPT !.rt = [d \in Node |->
                 IF d \in told THEN [@[d] EXCEPT !.pc = {}] ELSE @[d]]]
    IN SendError(s2, [d \in told |-> m.lost[d]])

-----------------------------------------------------------------------------
(* The routes that use a neighbour, and the numbers they get when it is    *)
(* lost                                                                    *)
Broken(s, nbr) == {d \in Node : Usable(s.rt[d]) /\ s.rt[d].next = nbr}

(* Mutant: the number of the lost route stays. *)
LostNumbers_KeepSeq(s, D) == [d \in D |-> s.rt[d].seq]
LostNumbers(s, D) == [d \in D |-> s.rt[d].seq + 1]

(* handle_link_failure() *)
HandleLinkFailure(s, nbr) ==
    LET broken == Broken(s, nbr)
        lost == LostNumbers(s, broken)
        s1 == TakeDown(Check(s, Sound(s, broken)), lost)
        s2 == [s1 EXCEPT !.rt = [d \in Node |-> [s1.rt[d] EXCEPT !.pc = @ \ {nbr}]]]
    IN SendError(s2, lost)

Repairable(s, m) == LocalRepair /\ m.fwd > s.rt[Target[m.id]].hops

(* rt_ll_failed() of data, local_rt_repair() and nb_delete() *)
LinkFailed(s, m, nbr, outcome) ==
    LET d == Target[m.id]
    IN IF Repairable(s, m)
       THEN SendRequest([Enqueue(s, [id |-> m.id, fwd |-> m.fwd])
                           EXCEPT !.rt[d].flag = "IN_REPAIR"], d, outcome)
       ELSE HandleLinkFailure([s EXCEPT !.seqno = @ + 2], nbr)

(* Mutant: the route stays in repair. *)
RepairOver_Nothing(s, d) == s

(* LocalRepairTimer::handle(), of a route that is not up *)
RepairOver(s, d) == [s EXCEPT !.rt[d] = Down(@)]

(* Mutant: routes that expire keep their numbers. *)
Expired_KeepSeq(s, D) ==
    TakeDown(DropQueued(s, D), [d \in D |-> s.rt[d].seq])

(* The first branch of rt_purge(), for the routes that have expired *)
Expired(s, D) ==
    TakeDown(DropQueued(Check(s, Sound(s, D)), D), [d \in D |-> s.rt[d].seq + 1])

(* The other destinations rt_purge() finds packets for, without a route    *)
Routeless(s) == {d \in Node : ~Up(s.rt[d]) /\ Queued(s, {d}) # {}}

(* Those that sendRequest() gives up, and those to which it sends a request *)
GivenUp(s, outcome) == {d \in DOMAIN outcome : GivesUp(s, d, outcome[d])}
Asked(s, outcome) ==
    {d \in DOMAIN outcome : outcome[d] # "wait"} \ GivenUp(s, outcome)

(* Mutant: a packet whose route is not up just waits. *)
Purged_NoRetry(s, expired, outcome, nth) ==
    Flush(Expired(s, expired), {d \in Node \ expired : Up(s.rt[d])})

(* rt_purge(), with the routes that have expired; it sends the requests in *)
(* the order of its table, the one for d as the nth[d]-th.                 *)
Purged(s, expired, outcome, nth) ==
    LET up == {d \in Node : Up(s.rt[d])}
        asked == Asked(s, outcome)
        gone == GivenUp(s, outcome)
        s1 == Flush(Expired(Check(s, \A d \in up : Usable(s.rt[d])), expired),
                    up \ expired)
        s2 == DropQueued(s1, gone)
    IN [s2 EXCEPT !.bid = @ + Cardinality(asked),
                  !.seqno = @ + 2 * Cardinality(asked),
                  !.tries = [d \in Node |-> IF d \in gone THEN 0
                                            ELSE IF d \in asked THEN Tried(@[d], outcome[d])
                                            ELSE @[d]],
                  !.out = @ \cup {[msg |-> Request(s, d, nth[d]), to |-> Everyone] :
                                     d \in asked}]

-----------------------------------------------------------------------------
Init ==
    /\ node = [n \in Node |-> NewAgent(n)]
    /\ air = {}
    /\ repairs = {}
    /\ failed = {}
    /\ links = Links
    /\ unsent = Data
    /\ arrived = {}
    /\ losses = 0
    /\ expiries = 0

(* What s has sent gets into the air: a broadcast to every neighbour, a    *)
(* unicast to its next hop, which need not be one.                         *)
Copies(s, lks) ==
    UNION {IF o.to = Everyone
           THEN {[msg |-> o.msg, by |-> s.me, at |-> n] :
                   n \in {m \in Node : {s.me, m} \in lks /\ m # s.me}}
           ELSE {[msg |-> o.msg, by |-> s.me, at |-> o.to]} : o \in s.out}

Become(s, rest) ==
    /\ s.bid <= MaxFloods + 1
    /\ node' = [node EXCEPT ![s.me] = [s EXCEPT !.out = {}]]
    /\ air' = rest \cup Copies(s, links)

(* An application sends; recv() of a packet of its own node *)
Originate(p) ==
    /\ p \in unsent
    /\ unsent' = unsent \ {p}
    /\ \E outcome \in Outcomes :
         Become(Resolve(node[Source[p]], [id |-> p, fwd |-> 0], outcome), air)
    /\ UNCHANGED <<repairs, failed, links, arrived, losses, expiries>>

Linked(f) == {f.by, f.at} \in links

(* The MAC of the next hop counts the hop (num_forwards()). *)
Hop(m) == [m EXCEPT !.fwd = @ + 1]

(* Data that is for this node does not reach the agent. *)
Arrive(f) ==
    /\ Linked(f) /\ f.msg.kind = "DATA" /\ Target[f.msg.id] = f.at
    /\ air' = air \ {f}
    /\ arrived' = arrived \cup {f.msg.id}
    /\ UNCHANGED <<node, repairs, failed, links, unsent, losses, expiries>>

Receive(f) ==
    /\ Linked(f)
    /\ LET s == node[f.at]
           m == f.msg
           rest == air \ {f}
       IN \/ m.kind = "RREQ" /\ Become(RecvRequest(s, m), rest)
          \/ m.kind = "RREP" /\ Become(RecvReply(s, m), rest)
          \/ /\ m.kind = "RERR"
             /\ \E dropped \in SUBSET {g \in rest :
                      g.by = f.at /\ g.at = m.from /\ g.msg.kind = "DATA"} :
                  /\ TakenDown(s, m) = {} => dropped = {}
                  /\ Become(RecvError(s, m), rest \ dropped)
          \/ /\ m.kind = "DATA" /\ Target[m.id] # f.at
             /\ \E outcome \in Outcomes :
                  Become(RecvData(s, Hop(m), outcome), rest)
    /\ UNCHANGED <<repairs, failed, links, unsent, arrived, losses, expiries>>

(* The destination LocalRepairTimer reads from the packet local_rt_repair() *)
(* copies for it.  When sendRequest() has given up, the packet is free      *)
(* memory by then: what it was, or cleared.                                 *)
TimerReads(s, d, outcome) == IF GivesUp(s, d, outcome) THEN {d, Zero} ELSE {d}

(* The frame does not cross its link; for data the MAC says so            *)
(* (xmit_failure_), and others for that neighbour may be thrown out of the *)
(* interface queue.                                                        *)
Fail(f) ==
    /\ ~Linked(f)
    /\ LET s == node[f.by]
           m == f.msg
           rest == air \ {f}
       IN IF m.kind # "DATA"
          THEN air' = rest /\ UNCHANGED <<node, repairs>>
          ELSE \E outcome \in Outcomes :
               \E dropped \in SUBSET {g \in rest :
                      g.by = f.by /\ g.at = f.at /\ g.msg.kind = "DATA"} :
                 /\ Repairable(s, m) => dropped = {}
                 /\ Become(LinkFailed(s, m, f.at, outcome), rest \ dropped)
                 /\ IF Repairable(s, m)
                    THEN \E d \in TimerReads(s, Target[m.id], outcome) :
                           repairs' = repairs \cup
                                        {[at |-> f.by, data |-> m.id, dst |-> d]}
                    ELSE repairs' = repairs
    /\ UNCHANGED <<failed, links, unsent, arrived, losses, expiries>>

(* No request and no reply is under way. *)
Quiet == \A f \in air : f.msg.kind \notin {"RREQ", "RREP"}

RepairTimeout(t) ==
    /\ t \in repairs
    /\ Patient => Quiet
    /\ repairs' = repairs \ {t}
    /\ LET s == node[t.at]
           r == s.rt[t.dst]
       IN /\ Become(IF Up(r) THEN s ELSE RepairOver(s, t.dst), air)
          /\ failed' = IF r.flag = "IN_REPAIR" THEN failed \cup {t.dst} ELSE failed
    /\ UNCHANGED <<links, unsent, arrived, losses, expiries>>

(* RouteCacheTimer *)
Purge(n) ==
    /\ \E expired \in SUBSET {d \in Node : Up(node[n].rt[d])},
          outcome \in [Routeless(node[n]) -> Outcomes] :
         /\ expired # {} \/ node[n].rqueue # <<>>
         /\ Patient /\ (\E d \in DOMAIN outcome : outcome[d] # "wait") => Quiet
         /\ expiries' = IF expired = {} THEN expiries ELSE expiries + 1
         /\ expiries' <= MaxExpiries
         /\ LET asked == Asked(node[n], outcome)
            IN \E nth \in Injection(asked, 1..Cardinality(asked)) :
                 Become(Purged(node[n], expired, outcome, nth), air)
    /\ UNCHANGED <<repairs, failed, links, unsent, arrived, losses>>

Break ==
    /\ Cardinality(Links \ links) < MaxBreaks
    /\ \E l \in links : links' = links \ {l}
    /\ UNCHANGED <<node, air, repairs, failed, unsent, arrived, losses, expiries>>

(* One neighbour misses a broadcast. *)
Lose(f) ==
    /\ losses < MaxLosses /\ f.msg.kind \in {"RREQ", "RERR"}
    /\ losses' = losses + 1
    /\ air' = air \ {f}
    /\ UNCHANGED <<node, repairs, failed, links, unsent, arrived, expiries>>

-----------------------------------------------------------------------------
RequestMsg == [kind : {"RREQ"}, src : Node, bid : Nat, dst : Node, dseq : Nat,
               sseq : Nat, hops : Nat, from : Node]
ReplyMsg == [kind : {"RREP"}, to : Node, dst : Node, seq : Nat, hops : Nat,
             from : Node]
ErrorMsg == [kind : {"RERR"}, lost : UNION {[D -> Nat] : D \in SUBSET Node},
             from : Node]
PacketMsg == [kind : {"DATA"}, id : Data, fwd : 0..Diameter]
Msg == RequestMsg \cup ReplyMsg \cup ErrorMsg \cup PacketMsg

Route == [seq : Nat, hops : Nat, flag : {"UP", "DOWN", "IN_REPAIR"},
          next : Node, pc : SUBSET Node]

(* The records of agents that hold the packets in q back *)
Agent(q) ==
    [me : Node, seqno : Nat, bid : Nat, rt : [Node -> Route],
     tries : [Node -> Nat], seen : SUBSET (Node \X Nat), rqueue : {q},
     out : SUBSET [msg : Msg, to : Node \cup {Everyone}], ok : BOOLEAN]

TypeOK ==
    /\ DOMAIN node = Node
    /\ \A n \in Node : /\ node[n] \in Agent(node[n].rqueue)
                       /\ node[n].me = n /\ node[n].out = {}
    /\ air \subseteq [msg : Msg, by : Node, at : Node]
    /\ repairs \subseteq [at : Node, data : Data, dst : Node]
    /\ failed \subseteq Node
    /\ unsent \subseteq Data /\ arrived \subseteq Data

-----------------------------------------------------------------------------
Next ==
    \/ \E p \in Data : Originate(p)
    \/ \E f \in air : Arrive(f) \/ Receive(f) \/ Fail(f) \/ Lose(f)
    \/ \E t \in repairs : RepairTimeout(t)
    \/ \E n \in Node : Purge(n)
    \/ Break

Spec == Init /\ [][Next]_vars

(* The channel and the agents go on, and so do the timers of rt_purge().   *)
FairSpec ==
    /\ Spec
    /\ WF_vars(\E f \in air : Arrive(f) \/ Receive(f))
    /\ \A n \in Node : WF_vars(Purge(n))

-----------------------------------------------------------------------------
(* Until a local repair of routes to d fails, every next hop on the way to *)
(* d knows a newer route than the node that uses it, or as new and         *)
(* shorter, whatever floods, replies, errors and repairs overtake each     *)
(* other: the numbers rule out loops.                                      *)
NextHopFresher ==
    \A n \in Node : \A d \in Node \ failed :
        LET r == node[n].rt[d]
            q == node[r.next].rt[d]
        IN Up(r) /\ n # d => r.next = d \/ Fresher(q.seq, q.hops, r)

(* The assertions of handle_link_failure(), recvError(), recvReply(), ...  *)
(* do not fail at a node that has no route under repair, as long as no     *)
(* local repair has failed.                                                *)
AssertionsHold ==
    [][\A n \in Node : node[n].ok /\ ~node'[n].ok =>
          \/ failed # {}
          \/ \E d \in Node : node[n].rt[d].flag = "IN_REPAIR"]_vars

(* When a route is taken down under its old number, those who use it are   *)
(* told ("bring down the route and send route errors upstream").           *)
UpstreamTold ==
    \A n, d \in Node :
        LET r == node[n].rt[d]
            q == node[r.next].rt[d]
        IN Up(r) /\ n # d /\ r.next # d /\ q.flag = "DOWN" /\ q.seq = r.seq
           => \E f \in air : f.msg.kind = "RERR" /\ f.by = r.next

(* A route under repair has a timer that ends the repair, so that the node *)
(* does not hold back packets for ever.                                    *)
RepairTimed ==
    \A n, d \in Node :
        node[n].rt[d].flag = "IN_REPAIR" =>
            \E t \in repairs : t.at = n /\ t.dst = d

(* Requests that fail are sent again, until sendRequest() gives up: a      *)
(* packet arrives, whoever else is looking for routes at the same time,    *)
(* unless a link fails, a route expires, a queue may overflow, or every    *)
(* request may have failed: one for each copy that gets lost, and one for  *)
(* each of the other packets, whose newer reply may overtake the one for   *)
(* this packet, which recvReply() then throws away.  A packet that waits   *)
(* for AODV_RTQ_TIMEOUT is dropped before; that is left out.               *)
EverythingArrives ==
    \A p \in Data :
        p \notin unsent ~> \/ p \in arrived
                          \/ links # Links \/ expiries > 0
                          \/ Cardinality(Data) > QueueLimit
                          \/ losses + Cardinality(Data \ {p}) > Retries

(* No node holds a good route with a number its destination has not given. *)
NumbersFromDestination ==
    \A n, d \in Node : Up(node[n].rt[d]) => node[n].rt[d].seq <= node[d].seqno
=============================================================================
