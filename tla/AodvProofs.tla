----------------------------- MODULE AodvProofs -----------------------------
(***************************************************************************)
(* Proofs about Aodv for any network, any traffic, any loss and any order  *)
(* of messages.  What a handler does to its node's record is stated once,  *)
(* as an Effect; each invariant is then proved for every Effect.           *)
(***************************************************************************)
EXTENDS Aodv, FiniteSetTheorems, WellFoundedInduction, TLAPS

-----------------------------------------------------------------------------
(* Records of agents.                                                      *)

(* No request is counted against a route that is up: those who call        *)
(* rt_update() reset rt_req_cnt.                                           *)
Untried(s) == \A d \in Node : s.rt[d].flag = "UP" => s.tries[d] = 0

IsAgent(s) == s \in Agent(s.rqueue) /\ Untried(s)

(* A route that is down has no length: rt_down() sets INFINITY2. *)
Sane(s) == \A d \in Node : s.rt[d].flag = "DOWN" => s.rt[d].hops = Infinity

(* t keeps the name, the numbers and the requests seen of s. *)
Framed(s, t) ==
    /\ IsAgent(t)
    /\ t.me = s.me /\ t.seqno = s.seqno /\ t.bid = s.bid /\ t.seen = s.seen

(* It keeps the routes, too. *)
Alike(s, t) == Framed(s, t) /\ t.rt = s.rt

(* ... and nothing but data is sent. *)
DataOnly(s, t) ==
    Alike(s, t) /\ \A o \in t.out : o \in s.out \/ o.msg \in PacketMsg

(* Two routes agree but for their precursors. *)
SameRoute(r, q) ==
    q.seq = r.seq /\ q.hops = r.hops /\ q.flag = r.flag /\ q.next = r.next

(* The fields of an agent have their types. *)
LEMMA AgentFields ==
    ASSUME NEW s, IsAgent(s)
    PROVE  /\ s.me \in Node /\ s.seqno \in Nat /\ s.bid \in Nat
           /\ s.rt \in [Node -> Route] /\ s.seen \subseteq Node \X Nat
           /\ s.out \subseteq [msg : Msg, to : Node \cup {Everyone}]
           /\ s.ok \in BOOLEAN /\ s.tries \in [Node -> Nat]
BY DEF IsAgent, Agent

(* A route has its fields. *)
LEMMA RouteFields ==
    ASSUME NEW r \in Route
    PROVE  /\ r.seq \in Nat /\ r.hops \in Nat
           /\ r.flag \in {"UP", "DOWN", "IN_REPAIR"}
           /\ r.next \in Node /\ r.pc \subseteq Node
BY DEF Route

(* The constants of a network have their types. *)
LEMMA NetworkTypes ==
    /\ Zero \in Node /\ Everyone \notin Node
    /\ Source \in [Data -> Node] /\ Target \in [Data -> Node]
    /\ Infinity \in Nat /\ Infinity > 0 /\ Diameter \in Nat /\ Diameter < Infinity
    /\ Retries \in Nat
BY NodeAssumption, LimitAssumption

(* Setting the fields of an agent that no route depends on. *)
LEMMA SetOut ==
    ASSUME NEW s, IsAgent(s),
           NEW out \in SUBSET [msg : Msg, to : Node \cup {Everyone}]
    PROVE  /\ Alike(s, [s EXCEPT !.out = out])
           /\ [s EXCEPT !.out = out].out = out
           /\ [s EXCEPT !.out = out].ok = s.ok
BY DEF IsAgent, Untried, Agent, Framed, Alike

LEMMA SetQueue ==
    ASSUME NEW s, IsAgent(s), NEW q
    PROVE  /\ DataOnly(s, [s EXCEPT !.rqueue = q])
           /\ [s EXCEPT !.rqueue = q].out = s.out
           /\ [s EXCEPT !.rqueue = q].ok = s.ok
BY DEF IsAgent, Untried, Agent, Framed, Alike, DataOnly

LEMMA SetRoutes ==
    ASSUME NEW s, IsAgent(s), NEW rt \in [Node -> Route],
           \A d \in Node : rt[d].flag = "UP" => s.rt[d].flag = "UP"
    PROVE  LET t == [s EXCEPT !.rt = rt]
           IN Framed(s, t) /\ t.rt = rt /\ t.out = s.out /\ t.ok = s.ok
BY DEF IsAgent, Untried, Agent, Framed

(* Requests are counted against routes that are not up. *)
LEMMA SetTries ==
    ASSUME NEW s, IsAgent(s), NEW tries \in [Node -> Nat],
           \A d \in Node : s.rt[d].flag = "UP" => tries[d] = 0
    PROVE  LET t == [s EXCEPT !.tries = tries]
           IN DataOnly(s, t) /\ t.out = s.out /\ t.ok = s.ok
BY DEF IsAgent, Untried, Agent, Framed, Alike, DataOnly

LEMMA CheckStep ==
    ASSUME NEW s, IsAgent(s), NEW p \in BOOLEAN
    PROVE  /\ DataOnly(s, Check(s, p))
           /\ Check(s, p).out = s.out
           /\ s.ok /\ p => Check(s, p).ok
<1>1. s.ok \in BOOLEAN
  BY AgentFields
<1>2. (s.ok /\ p) \in BOOLEAN
  OBVIOUS
<1>3. /\ Alike(s, Check(s, p)) /\ Check(s, p).out = s.out
      /\ Check(s, p).ok = (s.ok /\ p)
  BY <1>1, <1>2 DEF IsAgent, Untried, Agent, Framed, Alike, Check
<1>4. DataOnly(s, Check(s, p)) /\ Check(s, p).out = s.out
  BY <1>3, Zenon DEF DataOnly
<1>5. s.ok /\ p => Check(s, p).ok
  BY <1>3, Zenon
<1> QED
  BY <1>4, <1>5

(* Steps that send nothing but data add up to one. *)
LEMMA DataOnlySteps ==
    ASSUME NEW s, NEW t, NEW u, DataOnly(s, t), DataOnly(t, u)
    PROVE  DataOnly(s, u)
BY Zenon DEF DataOnly, Alike, Framed

-----------------------------------------------------------------------------
(* The calls that handlers are made of.                                    *)

(* A message of a type of its own is a message. *)
LEMMA MsgKinds ==
    /\ RequestMsg \subseteq Msg /\ ReplyMsg \subseteq Msg
    /\ ErrorMsg \subseteq Msg /\ PacketMsg \subseteq Msg
    /\ \A m \in RequestMsg : m.kind = "RREQ"
    /\ \A m \in ReplyMsg : m.kind = "RREP"
    /\ \A m \in ErrorMsg : m.kind = "RERR"
    /\ \A m \in PacketMsg : m.kind = "DATA"
    /\ \A p \in Packet : DataMsg(p) \in PacketMsg
<1>1. /\ RequestMsg \subseteq Msg /\ ReplyMsg \subseteq Msg
      /\ ErrorMsg \subseteq Msg /\ PacketMsg \subseteq Msg
  BY Zenon DEF Msg
<1>2. /\ \A m \in RequestMsg : m.kind = "RREQ"
      /\ \A m \in ReplyMsg : m.kind = "RREP"
  BY DEF RequestMsg, ReplyMsg
<1>3. /\ \A m \in ErrorMsg : m.kind = "RERR"
      /\ \A m \in PacketMsg : m.kind = "DATA"
  BY DEF ErrorMsg, PacketMsg
<1>4. \A p \in Packet : DataMsg(p) \in PacketMsg
  BY DEF Packet, DataMsg, PacketMsg
<1> QED
  BY <1>1, <1>2, <1>3, <1>4

LEMMA SendStep ==
    ASSUME NEW s, IsAgent(s), NEW msg \in Msg, NEW to \in Node \cup {Everyone}
    PROVE  LET t == Send(s, msg, to)
           IN /\ Alike(s, t) /\ t.ok = s.ok
              /\ t.out = s.out \cup {[msg |-> msg, to |-> to]}
<1>1. s.out \cup {[msg |-> msg, to |-> to]}
        \in SUBSET [msg : Msg, to : Node \cup {Everyone}]
  BY AgentFields
<1>2. Send(s, msg, to) =
        [s EXCEPT !.out = s.out \cup {[msg |-> msg, to |-> to]}]
  BY DEF Send
<1> QED
  BY <1>1, <1>2, SetOut

LEMMA DropStep ==
    ASSUME NEW s, IsAgent(s), NEW D
    PROVE  /\ DataOnly(s, DropQueued(s, D))
           /\ DropQueued(s, D).out = s.out /\ DropQueued(s, D).ok = s.ok
BY SetQueue DEF DropQueued

LEMMA EnqueueStep ==
    ASSUME NEW s, IsAgent(s), NEW p
    PROVE  /\ DataOnly(s, Enqueue(s, p))
           /\ Enqueue(s, p).out = s.out /\ Enqueue(s, p).ok = s.ok
BY SetQueue DEF Enqueue

LEMMA FlushStep ==
    ASSUME NEW s, IsAgent(s), NEW D
    PROVE  DataOnly(s, Flush(s, D)) /\ Flush(s, D).ok = s.ok
<1> DEFINE u == DropQueued(s, D)
           new == {[msg |-> DataMsg(p), to |-> s.rt[Target[p.id]].next] :
                     p \in Queued(s, D)}
<1>1. DataOnly(s, u) /\ u.out = s.out /\ u.ok = s.ok
  BY DropStep
<1>2. \A o \in new : o.msg \in PacketMsg /\
                     o \in [msg : Msg, to : Node \cup {Everyone}]
  <2> SUFFICES ASSUME NEW p \in Queued(s, D)
               PROVE  /\ DataMsg(p) \in PacketMsg /\ DataMsg(p) \in Msg
                      /\ s.rt[Target[p.id]].next \in Node
    BY DEF new
  <2>1. p \in Packet /\ p.id \in Data
    BY DEF Queued, Packet
  <2>2. s.rt[Target[p.id]] \in Route
    BY <2>1, AgentFields, NetworkTypes
  <2> QED
    BY <2>1, <2>2, MsgKinds, RouteFields
<1>3. s.out \cup new \in SUBSET [msg : Msg, to : Node \cup {Everyone}]
  BY <1>2, AgentFields
<1>4. Flush(s, D) = [u EXCEPT !.out = s.out \cup new]
  BY <1>1 DEF Flush
<1> HIDE DEF u, new
<1>5. IsAgent(u)
  BY <1>1 DEF DataOnly, Alike, Framed
<1>6. /\ Alike(u, Flush(s, D)) /\ Flush(s, D).ok = s.ok
      /\ Flush(s, D).out = s.out \cup new
  BY <1>1, <1>3, <1>4, <1>5, SetOut
<1>7. DataOnly(u, Flush(s, D))
  BY <1>1, <1>2, <1>6 DEF DataOnly
<1> QED
  BY <1>1, <1>6, <1>7, DataOnlySteps

(* rt_update() changes one route and leaves its precursors alone. *)
LEMMA UpdateStep ==
    ASSUME NEW s, IsAgent(s), NEW d \in Node, NEW seq \in Nat,
           NEW hops \in Nat, NEW next \in Node
    PROVE  LET t == Update(s, d, seq, hops, next)
           IN /\ Framed(s, t) /\ t.out = s.out /\ t.ok = s.ok
              /\ t.rt[d].seq = seq /\ t.rt[d].hops = hops
              /\ t.rt[d].next = next /\ Up(t.rt[d])
              /\ \A x \in Node \ {d} : t.rt[x] = s.rt[x]
<1> DEFINE r == [s.rt[d] EXCEPT !.seq = seq, !.hops = hops,
                                !.flag = "UP", !.next = next]
           rt == [s.rt EXCEPT ![d] = r]
           tries == [s.tries EXCEPT ![d] = 0]
           t == Update(s, d, seq, hops, next)
<1>1. s.rt \in [Node -> Route] /\ s.rt[d] \in Route /\ s.tries \in [Node -> Nat]
  BY AgentFields
<1>2. /\ r \in Route /\ r.seq = seq /\ r.hops = hops
      /\ r.next = next /\ r.flag = "UP"
  BY <1>1 DEF Route
<1>3. t = [s EXCEPT !.rt = rt, !.tries = tries]
  BY DEF Update
<1> HIDE DEF r
<1>4. /\ rt \in [Node -> Route] /\ rt[d] = r /\ \A x \in Node \ {d} : rt[x] = s.rt[x]
      /\ tries \in [Node -> Nat] /\ tries[d] = 0
      /\ \A x \in Node \ {d} : tries[x] = s.tries[x]
  BY <1>1, <1>2
<1> HIDE DEF rt, tries, t
<1>5. Framed(s, t) /\ t.rt = rt /\ t.out = s.out /\ t.ok = s.ok
  BY <1>3, <1>4 DEF IsAgent, Untried, Agent, Framed
<1>6. /\ t.rt[d].seq = seq /\ t.rt[d].hops = hops
      /\ t.rt[d].next = next /\ Up(t.rt[d])
      /\ \A x \in Node \ {d} : t.rt[x] = s.rt[x]
  BY <1>2, <1>4, <1>5 DEF Up
<1> QED
  BY <1>5, <1>6 DEF t

(* rt_down() *)
LEMMA DownStep ==
    ASSUME NEW r \in Route
    PROVE  /\ Down(r) \in Route /\ Down(r).flag = "DOWN" /\ Down(r).seq = r.seq
           /\ (r.flag = "DOWN" => r.hops = Infinity) => Down(r).hops = Infinity
           /\ r.flag = "DOWN" => Down(r) = r
BY NetworkTypes DEF Down, Route

(* nums gives numbers to the routes to D. *)
Numbers(D, nums) == D \in SUBSET Node /\ nums \in [D -> Nat]

(* The loops that take routes down leave each of them without a length.    *)
LEMMA TakeDownStep ==
    ASSUME NEW s, IsAgent(s), Sane(s), NEW D, NEW nums, Numbers(D, nums)
    PROVE  LET t == TakeDown(s, nums)
           IN /\ Framed(s, t) /\ t.out = s.out /\ t.ok = s.ok
              /\ \A d \in D : /\ t.rt[d].seq = nums[d]
                              /\ t.rt[d].flag = "DOWN"
                              /\ t.rt[d].hops = Infinity
              /\ \A d \in Node \ D : t.rt[d] = s.rt[d]
<1> DEFINE rt == [d \in Node |-> IF d \in D THEN Down([s.rt[d] EXCEPT !.seq = nums[d]])
                                            ELSE s.rt[d]]
           t == TakeDown(s, nums)
<1>1. /\ s.rt \in [Node -> Route] /\ DOMAIN nums = D
      /\ D \in SUBSET Node /\ nums \in [D -> Nat]
  BY AgentFields DEF Numbers
<1>2. t = [s EXCEPT !.rt = rt]
  BY <1>1 DEF TakeDown
<1>3. \A d \in D : /\ rt[d] \in Route /\ rt[d].seq = nums[d]
                   /\ rt[d].flag = "DOWN" /\ rt[d].hops = Infinity
  <2> SUFFICES ASSUME NEW d \in D
               PROVE  /\ rt[d] \in Route /\ rt[d].seq = nums[d]
                      /\ rt[d].flag = "DOWN" /\ rt[d].hops = Infinity
    OBVIOUS
  <2> DEFINE r == [s.rt[d] EXCEPT !.seq = nums[d]]
  <2>1. d \in Node /\ s.rt[d] \in Route /\ nums[d] \in Nat
    BY <1>1
  <2>2. r \in Route /\ r.seq = nums[d] /\ r.flag = s.rt[d].flag /\ r.hops = s.rt[d].hops
    BY <2>1 DEF Route
  <2>3. r.flag = "DOWN" => r.hops = Infinity
    BY <2>1, <2>2 DEF Sane
  <2>4. rt[d] = Down(r)
    BY <2>1
  <2> HIDE DEF r, rt
  <2> QED
    BY <2>2, <2>3, <2>4, DownStep
<1>4. rt \in [Node -> Route] /\ \A d \in Node \ D : rt[d] = s.rt[d]
  <2>1. \A d \in Node : rt[d] \in Route
    BY <1>1, <1>3
  <2> QED
    BY <2>1
<1> HIDE DEF rt, t
<1>5. Framed(s, t) /\ t.rt = rt /\ t.out = s.out /\ t.ok = s.ok
  <2>1. \A d \in Node : rt[d].flag = "UP" => s.rt[d].flag = "UP"
    BY <1>3, <1>4
  <2> QED
    BY <1>2, <1>4, <2>1, SetRoutes
<1> QED
  BY <1>3, <1>4, <1>5 DEF t

(* A request of s: its number is an even distance beyond that of s. *)
OwnRequest(s, x) ==
    /\ x.kind = "RREQ" /\ x.src = s.me /\ x.from = s.me /\ x.hops = 1
    /\ \E k \in Nat \ {0} : x.sseq = s.seqno + 2 * k

LEMMA RequestType ==
    ASSUME NEW s, IsAgent(s), NEW d \in Node, NEW k \in Nat \ {0}
    PROVE  /\ Request(s, d, k) \in RequestMsg /\ OwnRequest(s, Request(s, d, k))
           /\ Request(s, d, k).sseq = s.seqno + 2 * k
<1>1. s.me \in Node /\ s.seqno \in Nat /\ s.bid \in Nat /\ s.rt[d].seq \in Nat
  BY AgentFields, RouteFields
<1>2. s.seqno + 2 * k \in Nat /\ s.bid + k - 1 \in Nat
  BY <1>1
<1> QED
  BY <1>1, <1>2 DEF Request, RequestMsg, OwnRequest

(* sendRequest(): nothing, or one request with a number of its own *)
LEMMA SendRequestStep ==
    ASSUME NEW s, IsAgent(s), NEW d \in Node, NEW outcome
    PROVE  LET t == SendRequest(s, d, outcome)
           IN /\ IsAgent(t) /\ t.me = s.me /\ t.rt = s.rt /\ t.seen = s.seen
              /\ t.seqno \in {s.seqno, s.seqno + 2}
              /\ \A o \in t.out : \/ o \in s.out
                                  \/ OwnRequest(s, o.msg) /\ o.msg.sseq <= t.seqno
              /\ s.ok /\ (Up(s.rt[d]) => Usable(s.rt[d])) => t.ok
<1> DEFINE t == SendRequest(s, d, outcome)
<1>1. CASE Up(s.rt[d]) \/ outcome = "wait"
  <2> DEFINE p == Up(s.rt[d]) => Usable(s.rt[d])
  <2>1. p \in BOOLEAN
    OBVIOUS
  <2>2. t = Check(s, p)
    BY <1>1, Zenon DEF SendRequest
  <2> HIDE DEF p
  <2>3. DataOnly(s, t) /\ t.out = s.out /\ (s.ok /\ p => t.ok)
    BY <2>1, <2>2, CheckStep
  <2> QED
    BY <2>3 DEF DataOnly, Alike, Framed, p
<1>2. CASE ~(Up(s.rt[d]) \/ outcome = "wait") /\ GivesUp(s, d, outcome)
  <2> DEFINE u == DropQueued(s, {d})
             tries == [u.tries EXCEPT ![d] = 0]
  <2>1. t = [u EXCEPT !.tries = tries]
    BY <1>2, Zenon DEF SendRequest
  <2>2. DataOnly(s, u) /\ u.out = s.out /\ u.ok = s.ok
    BY DropStep
  <2> HIDE DEF u, t
  <2>3. IsAgent(u)
    BY <2>2 DEF DataOnly, Alike, Framed
  <2>4. /\ tries \in [Node -> Nat]
        /\ \A x \in Node : u.rt[x].flag = "UP" => tries[x] = 0
    BY <2>3 DEF IsAgent, Untried, Agent
  <2> HIDE DEF tries
  <2>5. DataOnly(u, t) /\ t.out = u.out /\ t.ok = u.ok
    BY <2>1, <2>3, <2>4, SetTries
  <2> QED
    BY <2>2, <2>5 DEF DataOnly, Alike, Framed, t
<1>3. CASE ~(Up(s.rt[d]) \/ outcome = "wait") /\ ~GivesUp(s, d, outcome)
  <2> DEFINE k == Tried(s.tries[d], outcome)
             tries == [s.tries EXCEPT ![d] = k]
             u == [s EXCEPT !.bid = s.bid + 1, !.seqno = s.seqno + 2,
                            !.tries = tries]
             q == Request(s, d, 1)
  <2>1. t = Send(u, q, Everyone)
    BY <1>3 DEF SendRequest
  <2>2. /\ IsAgent(u) /\ u.me = s.me /\ u.rt = s.rt /\ u.seen = s.seen
        /\ u.seqno = s.seqno + 2 /\ u.out = s.out /\ u.ok = s.ok
    <3>1. s.bid + 1 \in Nat /\ s.seqno + 2 \in Nat /\ k \in Nat
      BY AgentFields DEF Tried
    <3> HIDE DEF k
    <3>2. /\ tries \in [Node -> Nat]
          /\ \A x \in Node : s.rt[x].flag = "UP" => tries[x] = 0
      BY <1>3, <3>1 DEF IsAgent, Untried, Agent, Up
    <3> HIDE DEF tries
    <3> QED
      BY <3>1, <3>2 DEF IsAgent, Untried, Agent
  <2>3. q \in Msg /\ OwnRequest(s, q) /\ q.sseq = s.seqno + 2
    <3>1. q \in RequestMsg /\ OwnRequest(s, q) /\ q.sseq = s.seqno + 2 * 1
      BY RequestType
    <3> QED
      BY <3>1, MsgKinds, AgentFields
  <2> HIDE DEF u, q, t
  <2>4. /\ Alike(u, t) /\ t.ok = u.ok
        /\ t.out = u.out \cup {[msg |-> q, to |-> Everyone]}
    BY <2>1, <2>2, <2>3, SendStep
  <2>5. s.seqno \in Nat
    BY AgentFields
  <2>6. /\ IsAgent(t) /\ t.me = s.me /\ t.rt = s.rt /\ t.seen = s.seen
        /\ t.seqno = s.seqno + 2 /\ t.ok = s.ok
    BY <2>2, <2>4 DEF Alike, Framed
  <2>7. \A o \in t.out : o \in s.out \/ o.msg = q
    BY <2>2, <2>4
  <2> QED
    BY <2>3, <2>5, <2>6, <2>7 DEF t
<1> QED
  BY <1>1, <1>2, <1>3

-----------------------------------------------------------------------------
(* What a handler does to the record of its node.                          *)

(* The route to d that message m offers: the reverse route of a request,   *)
(* the forward route of a reply                                            *)
Offers(m, d, r) ==
    \/ /\ m.kind = "RREQ" /\ d = m.src
       /\ r.seq = m.sseq /\ r.hops = m.hops /\ r.next = m.from
    \/ /\ m.kind = "RREP" /\ d = m.dst
       /\ r.seq = m.seq /\ r.hops = m.hops /\ r.next = m.from

(* A better route takes the place of the old one; of a request only the    *)
(* first copy counts.                                                      *)
Learnt(s, t, m, d) ==
    LET r == s.rt[d]
        q == t.rt[d]
    IN /\ Up(q) /\ Offers(m, d, q) /\ Fresher(q.seq, q.hops, r)
       /\ m.kind = "RREQ" => <<m.src, m.bid>> \in t.seen \ s.seen

(* A route goes down under a number that is new or that an error gives. *)
Lost(s, t, m, d) ==
    LET r == s.rt[d]
        q == t.rt[d]
    IN /\ Up(r) \/ Usable(r)
       /\ q.flag = "DOWN" /\ q.hops = Infinity
       /\ \/ q.seq = r.seq + 1
          \/ /\ m.kind = "RERR" /\ d \in DOMAIN m.lost
             /\ q.seq = m.lost[d] /\ r.seq <= q.seq

(* The timer of the local repair of the route to d, as a message *)
Over(d) == [kind |-> "OVER", dst |-> d]

(* Local repair begins, or goes on, for a packet that could not be         *)
(* forwarded.                                                              *)
IntoRepair(s, t, m, d) ==
    LET r == s.rt[d]
        q == t.rt[d]
    IN /\ r.flag # "DOWN" /\ q.flag = "IN_REPAIR"
       /\ q.seq = r.seq /\ q.hops = r.hops /\ q.next = r.next
       /\ m.kind = "DATA" /\ d = Target[m.id] /\ Repairable(s, m)

(* It ends without a route. *)
OutOfRepair(s, t, m, d) ==
    LET r == s.rt[d]
        q == t.rt[d]
    IN /\ m.kind = "OVER" /\ d = m.dst
       /\ r.flag = "IN_REPAIR"
       /\ q.flag = "DOWN" /\ q.hops = Infinity /\ q.seq = r.seq

Repaired(s, t, m, d) == IntoRepair(s, t, m, d) \/ OutOfRepair(s, t, m, d)

RouteStep(s, t, m, d) ==
    \/ SameRoute(s.rt[d], t.rt[d])
    \/ Learnt(s, t, m, d)
    \/ Lost(s, t, m, d)
    \/ Repaired(s, t, m, d)

(* What is sent tells what the node knows: its own number, the number and  *)
(* the length of a route, the number of a route that is down; or it is a   *)
(* request that the node has just seen for the first time.                 *)
Sends(s, t, m, x) ==
    \/ x \in PacketMsg
    \/ OwnRequest(s, x) /\ x.sseq <= t.seqno
    \/ /\ m.kind = "RREQ" /\ x.kind = "RREQ" /\ x.from = s.me
       /\ x.src = m.src /\ x.bid = m.bid /\ x.sseq = m.sseq
       /\ x.hops = m.hops + 1
       /\ <<m.src, m.bid>> \in t.seen \ s.seen
       /\ ~Fresher(m.sseq, m.hops, t.rt[m.src])
    \/ /\ x.kind = "RREP" /\ x.from = s.me
       /\ x.dst = s.me /\ x.hops = 1 /\ x.seq = t.seqno
    \/ /\ x.kind = "RREP" /\ x.from = s.me /\ x.dst \in Node
       /\ LET r == t.rt[x.dst]
          IN (Up(r) \/ Usable(r)) /\ x.seq = r.seq /\ x.hops = r.hops + 1
    \/ /\ x.kind = "RERR"
       /\ \A d \in DOMAIN x.lost : /\ t.rt[d].flag = "DOWN"
                                   /\ x.lost[d] = t.rt[d].seq

(* Numbers grow, and keep even; errors that take routes down find them     *)
(* as the assertions expect.                                               *)
NumberStep(s, t) ==
    /\ t.seqno >= s.seqno
    /\ s.seqno % 2 = 0 => t.seqno % 2 = 0

SoundRoutes(s) ==
    \A d \in Node : /\ Up(s.rt[d]) <=> Usable(s.rt[d])
                    /\ Up(s.rt[d]) => s.rt[d].seq % 2 = 0

OfferShort(s, m) ==
    /\ m.kind = "RREQ" /\ <<m.src, m.bid>> \notin s.seen
    /\ Fresher(m.sseq, m.hops, s.rt[m.src])
    => m.hops # Infinity

Effect(s, t, m) ==
    /\ IsAgent(t) /\ t.me = s.me /\ s.seen \subseteq t.seen
    /\ NumberStep(s, t)
    /\ \A d \in Node : RouteStep(s, t, m, d)
    /\ \A o \in t.out : Sends(s, t, m, o.msg)
    /\ SoundRoutes(s) /\ OfferShort(s, m) /\ s.ok => t.ok

(* A step that sends data at most is an Effect of any message. *)
LEMMA DataOnlyEffect ==
    ASSUME NEW s, NEW t, NEW m, IsAgent(s), s.out = {}, DataOnly(s, t),
           SoundRoutes(s) /\ OfferShort(s, m) /\ s.ok => t.ok
    PROVE  Effect(s, t, m)
<1>1. /\ IsAgent(t) /\ t.me = s.me /\ t.seqno = s.seqno /\ t.rt = s.rt
      /\ t.seen = s.seen
  BY DEF DataOnly, Alike, Framed
<1>2. NumberStep(s, t)
  BY <1>1, AgentFields DEF NumberStep
<1>3. \A d \in Node : RouteStep(s, t, m, d)
  BY <1>1 DEF RouteStep, SameRoute
<1>4. \A o \in t.out : Sends(s, t, m, o.msg)
  BY DEF DataOnly, Sends
<1> QED
  BY <1>1, <1>2, <1>3, <1>4 DEF Effect

(* sendError(), of routes that are down *)
LEMMA SendErrorStep ==
    ASSUME NEW s, IsAgent(s), NEW D \in SUBSET Node, NEW lost \in [D -> Nat],
           \A d \in D : s.rt[d].flag = "DOWN" /\ lost[d] = s.rt[d].seq
    PROVE  LET t == SendError(s, lost)
           IN /\ Alike(s, t) /\ t.ok = s.ok
              /\ \A o \in t.out : \/ o \in s.out
                                  \/ \A u, m : Sends(u, s, m, o.msg)
<1> DEFINE t == SendError(s, lost)
           e == [kind |-> "RERR", lost |-> lost, from |-> s.me]
<1>1. CASE DOMAIN lost = {}
  BY <1>1 DEF SendError, Alike, Framed
<1>2. CASE DOMAIN lost # {}
  <2>1. e \in ErrorMsg
    BY AgentFields DEF ErrorMsg
  <2>2. \A u, m : Sends(u, s, m, e)
    BY DEF Sends
  <2>3. t = Send(s, e, Everyone)
    BY <1>2 DEF SendError
  <2> HIDE DEF e, t
  <2>4. Alike(s, t) /\ t.ok = s.ok /\ t.out = s.out \cup {[msg |-> e, to |-> Everyone]}
    BY <2>1, <2>3, SendStep, MsgKinds
  <2>5. \A o \in t.out : o \in s.out \/ o.msg = e
    BY <2>4
  <2> QED
    BY <2>2, <2>4, <2>5 DEF t
<1> QED
  BY <1>1, <1>2

(* rt_resolve() *)
LEMMA ResolveEffect ==
    ASSUME NEW s, IsAgent(s), s.out = {}, NEW p \in Packet, NEW outcome, NEW m
    PROVE  Effect(s, Resolve(s, p, outcome), m)
<1> DEFINE d == Target[p.id]
           r == s.rt[d]
           t == Resolve(s, p, outcome)
<1>1. d \in Node /\ r \in Route /\ s.me \in Node
  BY AgentFields, NetworkTypes DEF Packet
<1>2. CASE Up(r)
  <2> DEFINE u == Send(s, DataMsg(p), r.next)
  <2>1. t = Check(u, Usable(r))
    BY <1>2 DEF Resolve
  <2>2. DataMsg(p) \in Msg /\ DataMsg(p) \in PacketMsg /\ r.next \in Node
    BY <1>1, RouteFields, MsgKinds
  <2> HIDE DEF t, r
  <2>3. /\ Alike(s, u) /\ u.ok = s.ok
        /\ u.out = s.out \cup {[msg |-> DataMsg(p), to |-> r.next]}
    BY <2>2, SendStep
  <2>4. DataOnly(s, u)
    BY <2>2, <2>3 DEF DataOnly
  <2>5. Usable(r) \in BOOLEAN /\ IsAgent(u)
    BY <2>3 DEF Usable, Alike, Framed
  <2> HIDE DEF u
  <2>6. DataOnly(u, t) /\ (u.ok /\ Usable(r) => t.ok)
    BY <2>1, <2>5, CheckStep
  <2>7. DataOnly(s, t)
    BY <2>4, <2>6, DataOnlySteps
  <2>8. SoundRoutes(s) => Usable(r)
    BY <1>1, <1>2 DEF SoundRoutes, r
  <2>9. SoundRoutes(s) /\ OfferShort(s, m) /\ s.ok => t.ok
    BY <2>3, <2>6, <2>8
  <2> QED
    BY <2>7, <2>9, DataOnlyEffect DEF t
<1>3. CASE ~Up(r) /\ Source[p.id] = s.me
  <2> DEFINE u == Enqueue(s, p)
  <2>1. t = SendRequest(u, d, outcome)
    BY <1>3 DEF Resolve
  <2>2. DataOnly(s, u) /\ u.out = s.out /\ u.ok = s.ok
    BY EnqueueStep
  <2>3. /\ IsAgent(u) /\ u.me = s.me /\ u.seqno = s.seqno /\ u.rt = s.rt
        /\ u.seen = s.seen
    BY <2>2 DEF DataOnly, Alike, Framed
  <2> HIDE DEF t, u, d
  <2>4. /\ IsAgent(t) /\ t.me = u.me /\ t.rt = u.rt /\ t.seen = u.seen
        /\ t.seqno \in {u.seqno, u.seqno + 2}
        /\ \A o \in t.out : \/ o \in u.out
                            \/ OwnRequest(u, o.msg) /\ o.msg.sseq <= t.seqno
        /\ u.ok /\ (Up(u.rt[d]) => Usable(u.rt[d])) => t.ok
    BY <1>1, <2>1, <2>3, SendRequestStep
  <2>5. NumberStep(s, t)
    BY <2>3, <2>4, AgentFields DEF NumberStep
  <2>6. \A x \in Node : RouteStep(s, t, m, x)
    BY <2>3, <2>4 DEF RouteStep, SameRoute
  <2>7. \A o \in t.out : Sends(s, t, m, o.msg)
    BY <2>2, <2>3, <2>4 DEF Sends, OwnRequest
  <2>8. s.ok => t.ok
    BY <1>3, <2>2, <2>3, <2>4 DEF d
  <2> QED
    BY <2>3, <2>4, <2>5, <2>6, <2>7, <2>8 DEF Effect, t
<1>4. CASE ~Up(r) /\ Source[p.id] # s.me /\ r.flag = "IN_REPAIR"
  <2>1. t = Enqueue(s, p)
    BY <1>4 DEF Resolve
  <2>2. DataOnly(s, t) /\ t.ok = s.ok
    BY <2>1, EnqueueStep
  <2> QED
    BY <2>2, DataOnlyEffect
<1>5. CASE ~Up(r) /\ Source[p.id] # s.me /\ r.flag # "IN_REPAIR"
  <2> DEFINE lost == [x \in {d} |-> r.seq]
  <2>1. t = SendError(s, lost)
    BY <1>5 DEF Resolve
  <2>2. r.flag = "DOWN" /\ lost \in [{d} -> Nat]
    BY <1>1, <1>5, RouteFields DEF Up
  <2>3. Alike(s, t) /\ t.ok = s.ok /\ \A o \in t.out : Sends(s, s, m, o.msg)
    BY <1>1, <2>1, <2>2, SendErrorStep
  <2>4. /\ IsAgent(t) /\ t.me = s.me /\ t.seqno = s.seqno /\ t.rt = s.rt
        /\ t.seen = s.seen
    BY <2>3 DEF Alike, Framed
  <2> HIDE DEF t
  <2>5. \A o \in t.out : Sends(s, t, m, o.msg)
    BY <2>3, <2>4 DEF Sends
  <2>6. NumberStep(s, t) /\ \A x \in Node : RouteStep(s, t, m, x)
    BY <2>4, AgentFields DEF NumberStep, RouteStep, SameRoute
  <2> QED
    BY <2>3, <2>4, <2>5, <2>6 DEF Effect, t
<1> QED
  BY <1>2, <1>3, <1>4, <1>5

(* Only precursors differ. *)
Repointed(s, t) ==
    /\ Framed(s, t) /\ t.out = s.out /\ t.ok = s.ok
    /\ \A d \in Node : SameRoute(s.rt[d], t.rt[d])

(* Precursors may go from any of the routes. *)
LEMMA NewPrecursors ==
    ASSUME NEW s, IsAgent(s), NEW pc \in [Node -> SUBSET Node]
    PROVE  LET t == [s EXCEPT !.rt = [d \in Node |-> [@[d] EXCEPT !.pc = pc[d]]]]
           IN Repointed(s, t)
<1> DEFINE rt == [d \in Node |-> [s.rt[d] EXCEPT !.pc = pc[d]]]
           t == [s EXCEPT !.rt = [d \in Node |-> [@[d] EXCEPT !.pc = pc[d]]]]
<1>1. s.rt \in [Node -> Route]
  BY AgentFields
<1>2. rt \in [Node -> Route] /\ \A d \in Node : SameRoute(s.rt[d], rt[d])
  BY <1>1 DEF Route, SameRoute
<1>3. t = [s EXCEPT !.rt = rt]
  OBVIOUS
<1> HIDE DEF rt, t
<1>4. Framed(s, t) /\ t.rt = rt /\ t.out = s.out /\ t.ok = s.ok
  <2>1. \A d \in Node : rt[d].flag = "UP" => s.rt[d].flag = "UP"
    BY <1>2 DEF SameRoute
  <2> QED
    BY <1>2, <1>3, <2>1, SetRoutes
<1> QED
  BY <1>2, <1>4 DEF t, Repointed

(* Precursors of one route come and go. *)
WithPrecursors(s, d, pc) == [s EXCEPT !.rt[d].pc = pc]

LEMMA PrecursorStep ==
    ASSUME NEW s, IsAgent(s), NEW d \in Node, NEW pc \in SUBSET Node
    PROVE  Repointed(s, WithPrecursors(s, d, pc))
<1> DEFINE r == [s.rt[d] EXCEPT !.pc = pc]
           rt == [s.rt EXCEPT ![d] = r]
           t == WithPrecursors(s, d, pc)
<1>1. s.rt \in [Node -> Route] /\ s.rt[d] \in Route
  BY AgentFields
<1>2. r \in Route /\ SameRoute(s.rt[d], r)
  BY <1>1 DEF Route, SameRoute
<1>3. t = [s EXCEPT !.rt = rt]
  BY DEF WithPrecursors
<1> HIDE DEF r
<1>4. rt \in [Node -> Route] /\ \A x \in Node : SameRoute(s.rt[x], rt[x])
  BY <1>1, <1>2 DEF SameRoute
<1> HIDE DEF rt, t
<1>5. Framed(s, t) /\ t.rt = rt /\ t.out = s.out /\ t.ok = s.ok
  <2>1. \A x \in Node : rt[x].flag = "UP" => s.rt[x].flag = "UP"
    BY <1>4 DEF SameRoute
  <2> QED
    BY <1>3, <1>4, <2>1, SetRoutes
<1> QED
  BY <1>4, <1>5 DEF t, Repointed

(* s0 is s before it takes the routes to D down under the numbers of nums: *)
(* the next ones, or those of an error.                                    *)
TakesDown(s, s0, D, nums, m) ==
    /\ IsAgent(s0) /\ s0.me = s.me /\ s0.rt = s.rt /\ s0.seen = s.seen
    /\ s0.out = {} /\ NumberStep(s, s0)
    /\ SoundRoutes(s) /\ s.ok => s0.ok
    /\ Numbers(D, nums)
    /\ \A d \in D : /\ Usable(s.rt[d]) \/ Up(s.rt[d])
                    /\ \/ nums[d] = s.rt[d].seq + 1
                       \/ /\ m.kind = "RERR" /\ d \in DOMAIN m.lost
                          /\ nums[d] = m.lost[d] /\ s.rt[d].seq <= nums[d]

(* Routes that are taken down and told of, as handle_link_failure() and    *)
(* recvError() do it after their assertions                                *)
LEMMA TakenDownEffect ==
    ASSUME NEW s, IsAgent(s), Sane(s), NEW m, NEW s0, NEW D, NEW nums,
           TakesDown(s, s0, D, nums, m),
           NEW s2, Repointed(TakeDown(s0, nums), s2),
           NEW told \in SUBSET D
    PROVE  Effect(s, SendError(s2, [d \in told |-> nums[d]]), m)
<1> DEFINE s1 == TakeDown(s0, nums)
           lost == [d \in told |-> nums[d]]
           t == SendError(s2, lost)
<1>1. /\ Framed(s0, s1) /\ s1.out = s0.out /\ s1.ok = s0.ok
      /\ \A d \in D : /\ s1.rt[d].seq = nums[d]
                      /\ s1.rt[d].flag = "DOWN"
                      /\ s1.rt[d].hops = Infinity
      /\ \A d \in Node \ D : s1.rt[d] = s0.rt[d]
  <2>1. Sane(s0) /\ IsAgent(s0) /\ Numbers(D, nums)
    BY DEF Sane, TakesDown
  <2>2. s1 = TakeDown(s0, nums)
    OBVIOUS
  <2> HIDE DEF s1
  <2> QED
    BY <2>1, <2>2, TakeDownStep
<1> HIDE DEF s1
<1>2. /\ IsAgent(s2) /\ s2.me = s.me /\ s2.seqno = s0.seqno /\ s2.seen = s.seen
      /\ s2.out = {} /\ s2.ok = s0.ok
      /\ \A d \in Node : SameRoute(s1.rt[d], s2.rt[d])
  BY <1>1 DEF Framed, Repointed, TakesDown, s1
<1>3. \A d \in told : s2.rt[d].flag = "DOWN" /\ lost[d] = s2.rt[d].seq
  BY <1>1, <1>2 DEF SameRoute, Numbers, TakesDown
<1>4. told \in SUBSET Node /\ lost \in [told -> Nat]
  BY DEF Numbers, TakesDown
<1> HIDE DEF lost
<1>5. /\ Alike(s2, t) /\ t.ok = s2.ok
      /\ \A o \in t.out : o \in s2.out \/ \A u, x : Sends(u, s2, x, o.msg)
  BY <1>2, <1>3, <1>4, SendErrorStep
<1> HIDE DEF t
<1>6. /\ IsAgent(t) /\ t.me = s.me /\ t.seqno = s0.seqno /\ t.seen = s.seen
      /\ t.rt = s2.rt /\ t.ok = s0.ok
  BY <1>2, <1>5 DEF Alike, Framed
<1>7. \A d \in Node : RouteStep(s, t, m, d)
  <2> SUFFICES ASSUME NEW d \in Node PROVE RouteStep(s, t, m, d)
    OBVIOUS
  <2>1. CASE d \in D
    BY <1>1, <1>2, <1>6, <2>1 DEF RouteStep, Lost, SameRoute, TakesDown
  <2>2. CASE d \notin D
    BY <1>1, <1>2, <1>6, <2>2 DEF RouteStep, SameRoute, TakesDown
  <2> QED
    BY <2>1, <2>2
<1>8. \A o \in t.out : Sends(s, t, m, o.msg)
  <2>1. \A o \in t.out : Sends(s, s2, m, o.msg)
    BY <1>2, <1>5
  <2> QED
    BY <1>2, <1>6, <2>1 DEF Sends
<1>9. NumberStep(s, t)
  BY <1>6 DEF NumberStep, TakesDown
<1> QED
  BY <1>6, <1>7, <1>8, <1>9 DEF Effect, t, lost, TakesDown

(* recvError() *)
LEMMA RecvErrorEffect ==
    ASSUME NEW s, IsAgent(s), Sane(s), s.out = {}, NEW m \in ErrorMsg
    PROVE  Effect(s, RecvError(s, m), m)
<1> DEFINE down == TakenDown(s, m)
           told == {d \in down : s.rt[d].pc # {}}
           nums == [d \in down |-> m.lost[d]]
           s0 == Check(s, Sound(s, down))
           s1 == TakeDown(s0, nums)
           s2 == [s1 EXCEPT !.rt = [d \in Node |->
                    IF d \in told THEN [@[d] EXCEPT !.pc = {}] ELSE @[d]]]
<1>1. PICK L \in SUBSET Node : m.lost \in [L -> Nat] /\ m.kind = "RERR"
  BY DEF ErrorMsg
<1>2. /\ down \in SUBSET Node /\ nums \in [down -> Nat]
      /\ \A d \in down : /\ Usable(s.rt[d]) /\ d \in DOMAIN m.lost
                         /\ nums[d] = m.lost[d] /\ s.rt[d].seq <= nums[d]
  BY <1>1 DEF TakenDown
<1>3. Sound(s, down) \in BOOLEAN
  BY DEF Sound
<1>4. /\ DataOnly(s, s0) /\ s0.out = {}
      /\ s.ok /\ Sound(s, down) => s0.ok
  BY <1>3, CheckStep
<1>5. SoundRoutes(s) => Sound(s, down)
  BY <1>2 DEF SoundRoutes, Sound
<1> HIDE DEF down, s0
<1>6. /\ IsAgent(s0) /\ s0.me = s.me /\ s0.rt = s.rt /\ s0.seen = s.seen
      /\ s0.seqno = s.seqno
  BY <1>4 DEF DataOnly, Alike, Framed
<1>7. NumberStep(s, s0)
  BY <1>6, AgentFields DEF NumberStep
<1>8. Sane(s0)
  BY <1>6 DEF Sane
<1>9. IsAgent(s1) /\ Numbers(down, nums)
  <2>1. Numbers(down, nums)
    BY <1>2 DEF Numbers
  <2> QED
    BY <2>1, <1>6, <1>8, TakeDownStep DEF Framed
<1> HIDE DEF s1
<1>10. Repointed(s1, s2)
  <2> DEFINE pc == [d \in Node |-> IF d \in told THEN {} ELSE s1.rt[d].pc]
             u == [s1 EXCEPT !.rt = [d \in Node |-> [@[d] EXCEPT !.pc = pc[d]]]]
  <2>1. s1.rt \in [Node -> Route]
    BY <1>9, AgentFields
  <2>2. \A d \in Node : s1.rt[d].pc \in SUBSET Node /\ s1.rt[d] = [s1.rt[d] EXCEPT !.pc = s1.rt[d].pc]
    BY <2>1 DEF Route
  <2>3. pc \in [Node -> SUBSET Node]
    BY <2>2
  <2>4. [d \in Node |-> IF d \in told THEN [s1.rt[d] EXCEPT !.pc = {}] ELSE s1.rt[d]]
          = [d \in Node |-> [s1.rt[d] EXCEPT !.pc = pc[d]]]
    BY <2>2
  <2>5. s2 = u
    BY <2>4
  <2> HIDE DEF pc, s2
  <2> QED
    BY <1>9, <2>3, <2>5, NewPrecursors
<1>11. told \in SUBSET down
  OBVIOUS
<1>12. RecvError(s, m) = SendError(s2, [d \in told |-> nums[d]])
  <2>1. [d \in told |-> nums[d]] = [d \in told |-> m.lost[d]]
    BY <1>11
  <2> QED
    BY <2>1 DEF RecvError, down, s0, s1
<1> HIDE DEF told, nums, s2
<1>13. Effect(s, SendError(s2, [d \in told |-> nums[d]]), m)
  <2>1. TakesDown(s, s0, down, nums, m)
    BY <1>1, <1>2, <1>4, <1>5, <1>6, <1>7, <1>9 DEF TakesDown
  <2>2. Repointed(TakeDown(s0, nums), s2)
    BY <1>10 DEF s1
  <2> QED
    BY <1>11, <2>1, <2>2, TakenDownEffect
<1> QED
  BY <1>12, <1>13

(* handle_link_failure(), of an agent whose number may just have grown *)
LEMMA HandleLinkFailureEffect ==
    ASSUME NEW s, IsAgent(s), Sane(s), s.out = {}, NEW s9,
           IsAgent(s9), s9.me = s.me, s9.rt = s.rt, s9.seen = s.seen,
           s9.out = {}, s9.ok = s.ok, NumberStep(s, s9),
           NEW nbr, NEW m
    PROVE  Effect(s, HandleLinkFailure(s9, nbr), m)
<1> DEFINE broken == Broken(s9, nbr)
           lost == LostNumbers(s9, broken)
           s0 == Check(s9, Sound(s9, broken))
           s1 == TakeDown(s0, lost)
           s2 == [s1 EXCEPT !.rt = [d \in Node |-> [s1.rt[d] EXCEPT !.pc = @ \ {nbr}]]]
<1>1. /\ Numbers(broken, lost)
      /\ \A d \in broken : d \in Node /\ Usable(s.rt[d]) /\ lost[d] = s.rt[d].seq + 1
  <2>1. \A d \in broken : /\ d \in Node /\ Usable(s.rt[d])
                          /\ lost[d] = s.rt[d].seq + 1
    BY DEF Broken, LostNumbers
  <2>2. \A d \in Node : s.rt[d].seq + 1 \in Nat
    BY AgentFields, RouteFields
  <2>3. \A d \in broken : lost[d] \in Nat
    BY <2>1, <2>2
  <2>4. lost \in [broken -> Nat]
    BY <2>3 DEF LostNumbers
  <2> QED
    BY <2>1, <2>4 DEF Numbers
<1>2. Sound(s9, broken) \in BOOLEAN
  BY DEF Sound
<1>3. /\ DataOnly(s9, s0) /\ s0.out = {}
      /\ s9.ok /\ Sound(s9, broken) => s0.ok
  BY <1>2, CheckStep
<1>4. SoundRoutes(s) => Sound(s9, broken)
  BY <1>1 DEF SoundRoutes, Sound
<1> HIDE DEF broken, lost, s0
<1>5. TakesDown(s, s0, broken, lost, m)
  <2>1. /\ IsAgent(s0) /\ s0.me = s.me /\ s0.rt = s.rt /\ s0.seen = s.seen
        /\ s0.seqno = s9.seqno
    BY <1>3 DEF DataOnly, Alike, Framed
  <2>2. NumberStep(s, s0)
    BY <2>1 DEF NumberStep
  <2> QED
    BY <1>1, <1>3, <1>4, <2>1, <2>2 DEF TakesDown
<1>6. IsAgent(s1)
  <2>1. IsAgent(s0) /\ Sane(s0) /\ Numbers(broken, lost)
    BY <1>5 DEF TakesDown, Sane
  <2> QED
    BY <2>1, TakeDownStep DEF Framed
<1> HIDE DEF s1
<1>7. Repointed(s1, s2)
  <2> DEFINE pc == [d \in Node |-> s1.rt[d].pc \ {nbr}]
             u == [s1 EXCEPT !.rt = [d \in Node |-> [@[d] EXCEPT !.pc = pc[d]]]]
  <2>1. s1.rt \in [Node -> Route]
    BY <1>6, AgentFields
  <2>2. \A d \in Node : s1.rt[d].pc \in SUBSET Node
    BY <2>1 DEF Route
  <2>3. pc \in [Node -> SUBSET Node]
    BY <2>2
  <2>4. s2 = u
    OBVIOUS
  <2> HIDE DEF pc, s2
  <2> QED
    BY <1>6, <2>3, <2>4, NewPrecursors
<1>8. HandleLinkFailure(s9, nbr) = SendError(s2, lost)
  BY DEF HandleLinkFailure, broken, lost, s0, s1
<1>9. lost = [d \in broken |-> lost[d]]
  BY <1>1 DEF Numbers
<1> HIDE DEF s2
<1>10. Repointed(TakeDown(s0, lost), s2)
  BY <1>7 DEF s1
<1>11. Effect(s, SendError(s2, [d \in broken |-> lost[d]]), m)
  BY <1>5, <1>10, TakenDownEffect
<1> QED
  BY <1>8, <1>9, <1>11

(* A packet is never further than NETWORK_DIAMETER from its source, so     *)
(* that the length INFINITY2 of a route that is down admits no repair.     *)
LEMMA RepairedHadRoute ==
    ASSUME NEW s, Sane(s), NEW p \in PacketMsg, Repairable(s, p)
    PROVE  Target[p.id] \in Node /\ s.rt[Target[p.id]].flag # "DOWN"
<1>1. Target[p.id] \in Node /\ p.fwd \in 0..Diameter
  BY NetworkTypes DEF PacketMsg
<1>2. p.fwd > s.rt[Target[p.id]].hops
  BY DEF Repairable
<1> QED
  BY <1>1, <1>2, NetworkTypes DEF Sane

(* rt_ll_failed(): the repair of one route begins, or all routes over the  *)
(* neighbour go down.                                                      *)
LEMMA LinkFailedEffect ==
    ASSUME NEW s, IsAgent(s), Sane(s), s.out = {}, NEW p \in PacketMsg,
           NEW nbr, NEW outcome
    PROVE  Effect(s, LinkFailed(s, p, nbr, outcome), p)
<1> DEFINE d == Target[p.id]
           t == LinkFailed(s, p, nbr, outcome)
<1>1. d \in Node /\ s.rt[d] \in Route
  BY AgentFields, NetworkTypes DEF PacketMsg
<1>2. CASE Repairable(s, p)
  <2> DEFINE u == Enqueue(s, [id |-> p.id, fwd |-> p.fwd])
             rt == [s.rt EXCEPT ![d] = [s.rt[d] EXCEPT !.flag = "IN_REPAIR"]]
             v == [u EXCEPT !.rt[d].flag = "IN_REPAIR"]
  <2>1. t = SendRequest(v, d, outcome)
    BY <1>2 DEF LinkFailed
  <2>2. DataOnly(s, u) /\ u.out = {} /\ u.ok = s.ok
    BY EnqueueStep
  <2>3. /\ IsAgent(u) /\ u.me = s.me /\ u.seqno = s.seqno /\ u.rt = s.rt
        /\ u.seen = s.seen
    BY <2>2 DEF DataOnly, Alike, Framed
  <2>4. /\ rt \in [Node -> Route]
        /\ rt[d].flag = "IN_REPAIR" /\ rt[d].seq = s.rt[d].seq
        /\ rt[d].hops = s.rt[d].hops /\ rt[d].next = s.rt[d].next
        /\ \A x \in Node \ {d} : rt[x] = s.rt[x]
        /\ \A x \in Node : rt[x].flag = "UP" => s.rt[x].flag = "UP"
    BY <1>1, AgentFields DEF Route
  <2> HIDE DEF u
  <2>5. v = [u EXCEPT !.rt = rt]
    BY <2>3
  <2> HIDE DEF t, v, rt, d
  <2>6. Framed(u, v) /\ v.rt = rt /\ v.out = {} /\ v.ok = s.ok
    BY <2>2, <2>3, <2>4, <2>5, SetRoutes
  <2>7. /\ IsAgent(v) /\ v.me = s.me /\ v.seqno = s.seqno /\ v.seen = s.seen
    BY <2>3, <2>6 DEF Framed
  <2>8. /\ IsAgent(t) /\ t.me = v.me /\ t.rt = v.rt /\ t.seen = v.seen
        /\ t.seqno \in {v.seqno, v.seqno + 2}
        /\ \A o \in t.out : \/ o \in v.out
                            \/ OwnRequest(v, o.msg) /\ o.msg.sseq <= t.seqno
        /\ v.ok /\ (Up(v.rt[d]) => Usable(v.rt[d])) => t.ok
    BY <1>1, <2>1, <2>7, SendRequestStep
  <2>9. NumberStep(s, t)
    BY <2>7, <2>8, AgentFields DEF NumberStep
  <2>10. \A x \in Node : RouteStep(s, t, p, x)
    <3> SUFFICES ASSUME NEW x \in Node PROVE RouteStep(s, t, p, x)
      OBVIOUS
    <3>1. CASE x = d
      <4>1. p.kind = "DATA"
        BY MsgKinds
      <4>2. s.rt[d].flag # "DOWN"
        BY <1>1, <1>2, RepairedHadRoute DEF d
      <4> QED
        BY <1>2, <2>4, <2>6, <2>8, <3>1, <4>1, <4>2
           DEF RouteStep, Repaired, IntoRepair, d
    <3>2. CASE x # d
      BY <2>4, <2>6, <2>8, <3>2 DEF RouteStep, SameRoute
    <3> QED
      BY <3>1, <3>2
  <2>11. \A o \in t.out : Sends(s, t, p, o.msg)
    BY <2>6, <2>7, <2>8 DEF Sends, OwnRequest
  <2>12. s.ok => t.ok
    BY <2>4, <2>6, <2>8 DEF Up
  <2> QED
    BY <2>7, <2>8, <2>9, <2>10, <2>11, <2>12 DEF Effect, t
<1>3. CASE ~Repairable(s, p)
  <2> DEFINE u == [s EXCEPT !.seqno = @ + 2]
  <2>1. t = HandleLinkFailure(u, nbr)
    BY <1>3 DEF LinkFailed
  <2>2. /\ IsAgent(u) /\ u.me = s.me /\ u.rt = s.rt /\ u.seen = s.seen
        /\ u.out = {} /\ u.ok = s.ok /\ u.seqno = s.seqno + 2
    <3>1. s.seqno + 2 \in Nat
      BY AgentFields
    <3> QED
      BY <3>1 DEF IsAgent, Untried, Agent
  <2>3. NumberStep(s, u)
    BY <2>2, AgentFields DEF NumberStep
  <2> HIDE DEF u, t
  <2>4. Effect(s, t, p)
    BY <2>1, <2>2, <2>3, HandleLinkFailureEffect
  <2> QED
    BY <2>4 DEF t
<1> QED
  BY <1>2, <1>3

(* LocalRepairTimer::handle(), of a route that is not up *)
LEMMA RepairOverEffect ==
    ASSUME NEW s, IsAgent(s), Sane(s), s.out = {}, NEW d \in Node,
           ~Up(s.rt[d])
    PROVE  /\ Effect(s, RepairOver(s, d), Over(d))
           /\ RepairOver(s, d).rt[d].flag = "DOWN"
<1> DEFINE rt == [s.rt EXCEPT ![d] = Down(s.rt[d])]
           t == RepairOver(s, d)
<1>1. s.rt \in [Node -> Route] /\ s.rt[d] \in Route
  BY AgentFields
<1>2. /\ Down(s.rt[d]) \in Route /\ Down(s.rt[d]).seq = s.rt[d].seq
      /\ Down(s.rt[d]).hops = Infinity /\ Down(s.rt[d]).flag = "DOWN"
      /\ s.rt[d].flag = "DOWN" => Down(s.rt[d]) = s.rt[d]
  BY <1>1, DownStep DEF Sane
<1>3. /\ rt \in [Node -> Route] /\ rt[d] = Down(s.rt[d])
      /\ \A x \in Node \ {d} : rt[x] = s.rt[x]
  BY <1>1, <1>2
<1>4. t = [s EXCEPT !.rt = rt]
  BY DEF RepairOver
<1> HIDE DEF rt, t
<1>5. Framed(s, t) /\ t.rt = rt /\ t.out = {} /\ t.ok = s.ok
  <2>1. \A x \in Node : rt[x].flag = "UP" => s.rt[x].flag = "UP"
    BY <1>2, <1>3
  <2> QED
    BY <1>3, <1>4, <2>1, SetRoutes
<1> DEFINE m == Over(d)
<1>6. \A x \in Node : RouteStep(s, t, m, x)
  <2> SUFFICES ASSUME NEW x \in Node PROVE RouteStep(s, t, m, x)
    OBVIOUS
  <2>1. CASE x = d
    <3>1. s.rt[d].flag \in {"DOWN", "IN_REPAIR"}
      BY <1>1, RouteFields DEF Up
    <3>2. m.kind = "OVER" /\ m.dst = d
      BY DEF Over
    <3> QED
      BY <1>2, <1>3, <1>5, <2>1, <3>1, <3>2
         DEF RouteStep, Repaired, OutOfRepair, SameRoute
  <2>2. CASE x # d
    BY <1>3, <1>5, <2>2 DEF RouteStep, SameRoute
  <2> QED
    BY <2>1, <2>2
<1>7. NumberStep(s, t)
  BY <1>5, AgentFields DEF NumberStep, Framed
<1>8. Effect(s, t, m)
  BY <1>5, <1>6, <1>7 DEF Effect, Framed
<1> QED
  BY <1>2, <1>3, <1>5, <1>8 DEF t

(* nth puts A in an order. *)
Ordered(A, nth) == A \in SUBSET Node /\ nth \in [A -> 1..Cardinality(A)]

(* A number of requests in a row; tries is what is then counted. *)
WithRequests(s, A, nth, tries) ==
    [s EXCEPT !.bid = @ + Cardinality(A),
              !.seqno = @ + 2 * Cardinality(A),
              !.tries = tries,
              !.out = @ \cup {[msg |-> Request(s, d, nth[d]), to |-> Everyone] :
                                 d \in A}]

LEMMA SeveralRequests ==
    ASSUME NEW s, IsAgent(s), NEW A, NEW nth, Ordered(A, nth),
           NEW tries \in [Node -> Nat],
           \A d \in Node : s.rt[d].flag = "UP" => tries[d] = 0
    PROVE  LET t == WithRequests(s, A, nth, tries)
           IN /\ IsAgent(t) /\ t.me = s.me /\ t.rt = s.rt /\ t.seen = s.seen
              /\ t.ok = s.ok /\ NumberStep(s, t)
              /\ \A o \in t.out : \/ o \in s.out
                                  \/ OwnRequest(s, o.msg) /\ o.msg.sseq <= t.seqno
<1> DEFINE k == Cardinality(A)
           new == {[msg |-> Request(s, d, nth[d]), to |-> Everyone] : d \in A}
           t == WithRequests(s, A, nth, tries)
<1>1. k \in Nat
  BY NodeAssumption, FS_Subset, FS_CardinalityType DEF Ordered
<1>2. \A d \in A : d \in Node /\ nth[d] \in Nat \ {0} /\ nth[d] <= k
  BY <1>1 DEF Ordered
<1>3. \A o \in new : /\ o \in [msg : Msg, to : Node \cup {Everyone}]
                     /\ OwnRequest(s, o.msg) /\ o.msg.sseq <= s.seqno + 2 * k
  <2> SUFFICES ASSUME NEW d \in A
               PROVE  /\ Request(s, d, nth[d]) \in Msg
                      /\ OwnRequest(s, Request(s, d, nth[d]))
                      /\ Request(s, d, nth[d]).sseq <= s.seqno + 2 * k
    BY DEF new
  <2>1. /\ Request(s, d, nth[d]) \in RequestMsg
        /\ OwnRequest(s, Request(s, d, nth[d]))
        /\ Request(s, d, nth[d]).sseq = s.seqno + 2 * nth[d]
    BY <1>2, RequestType
  <2> QED
    BY <1>1, <1>2, <2>1, MsgKinds, AgentFields
<1> HIDE DEF k, new
<1>4. /\ s.bid + k \in Nat /\ s.seqno + 2 * k \in Nat
      /\ s.out \cup new \in SUBSET [msg : Msg, to : Node \cup {Everyone}]
  BY <1>1, <1>3, AgentFields
<1>5. t = [s EXCEPT !.bid = s.bid + k, !.seqno = s.seqno + 2 * k,
                    !.tries = tries, !.out = s.out \cup new]
  BY DEF WithRequests, k, new
<1> HIDE DEF t
<1>6. /\ IsAgent(t) /\ t.me = s.me /\ t.rt = s.rt /\ t.seen = s.seen
      /\ t.ok = s.ok /\ t.seqno = s.seqno + 2 * k /\ t.out = s.out \cup new
  BY <1>4, <1>5 DEF IsAgent, Untried, Agent
<1>7. NumberStep(s, t)
  BY <1>1, <1>6, AgentFields DEF NumberStep
<1>8. \A o \in t.out : \/ o \in s.out
                       \/ OwnRequest(s, o.msg) /\ o.msg.sseq <= t.seqno
  BY <1>3, <1>6
<1> QED
  BY <1>6, <1>7, <1>8 DEF t, new

(* The first branch of rt_purge(): the routes to D go down under the next  *)
(* number.                                                                 *)
LEMMA ExpiredStep ==
    ASSUME NEW s, IsAgent(s), Sane(s), NEW D \in SUBSET Node,
           \A d \in D : Up(s.rt[d])
    PROVE  LET t == Expired(s, D)
           IN /\ Framed(s, t) /\ t.out = s.out
              /\ \A d \in D : /\ t.rt[d].seq = s.rt[d].seq + 1
                              /\ t.rt[d].flag = "DOWN"
                              /\ t.rt[d].hops = Infinity
              /\ \A d \in Node \ D : t.rt[d] = s.rt[d]
              /\ SoundRoutes(s) /\ s.ok => t.ok
<1> DEFINE u == Check(s, Sound(s, D))
           v == DropQueued(u, D)
           nums == [d \in D |-> s.rt[d].seq + 1]
           t == Expired(s, D)
<1>1. Sound(s, D) \in BOOLEAN /\ (SoundRoutes(s) => Sound(s, D))
  BY DEF Sound, SoundRoutes
<1>2. DataOnly(s, u) /\ u.out = s.out /\ (s.ok /\ Sound(s, D) => u.ok)
  BY <1>1, CheckStep
<1> HIDE DEF u
<1>3. IsAgent(u)
  BY <1>2 DEF DataOnly, Alike, Framed
<1>4. DataOnly(u, v) /\ v.out = s.out /\ v.ok = u.ok
  BY <1>2, <1>3, DropStep
<1> HIDE DEF v
<1>5. Framed(s, v) /\ v.rt = s.rt
  BY <1>2, <1>4 DEF DataOnly, Alike, Framed
<1>6. Numbers(D, nums)
  <2>1. \A d \in Node : s.rt[d].seq + 1 \in Nat
    BY AgentFields, RouteFields
  <2> QED
    BY <2>1 DEF Numbers
<1>7. t = TakeDown(v, nums)
  BY DEF Expired, u, v
<1>8. IsAgent(v) /\ Sane(v)
  BY <1>5 DEF Framed, Sane
<1> HIDE DEF t, nums
<1>9. /\ Framed(v, t) /\ t.out = v.out /\ t.ok = v.ok
      /\ \A d \in D : /\ t.rt[d].seq = nums[d]
                      /\ t.rt[d].flag = "DOWN"
                      /\ t.rt[d].hops = Infinity
      /\ \A d \in Node \ D : t.rt[d] = v.rt[d]
  BY <1>6, <1>7, <1>8, TakeDownStep
<1>10. Framed(s, t)
  BY <1>5, <1>9 DEF Framed
<1>11. \A d \in D : nums[d] = s.rt[d].seq + 1
  BY DEF nums
<1> QED
  BY <1>1, <1>2, <1>4, <1>5, <1>9, <1>10, <1>11 DEF t

(* rt_purge() *)
LEMMA PurgedEffect ==
    ASSUME NEW s, IsAgent(s), Sane(s), s.out = {},
           NEW expired \in SUBSET {d \in Node : Up(s.rt[d])},
           NEW outcome \in [Routeless(s) -> Outcomes],
           NEW nth \in Injection(Asked(s, outcome), 1..Cardinality(Asked(s, outcome))),
           NEW m
    PROVE  Effect(s, Purged(s, expired, outcome, nth), m)
<1> DEFINE up == {d \in Node : Up(s.rt[d])}
           A == Asked(s, outcome)
           gone == GivenUp(s, outcome)
           p == \A d \in up : Usable(s.rt[d])
           s0 == Check(s, p)
           s1 == Expired(s0, expired)
           s2 == Flush(s1, up \ expired)
           s3 == DropQueued(s2, gone)
           tries == [d \in Node |-> IF d \in gone THEN 0
                                   ELSE IF d \in A THEN Tried(s3.tries[d], outcome[d])
                                   ELSE s3.tries[d]]
           t == WithRequests(s3, A, nth, tries)
<1>1. p \in BOOLEAN /\ (SoundRoutes(s) => p)
  BY DEF SoundRoutes
<1> HIDE DEF p
<1>2. DataOnly(s, s0) /\ s0.out = {} /\ (s.ok /\ p => s0.ok)
  BY <1>1, CheckStep
<1> HIDE DEF s0
<1>3. /\ IsAgent(s0) /\ s0.me = s.me /\ s0.seqno = s.seqno /\ s0.bid = s.bid
      /\ s0.rt = s.rt /\ s0.seen = s.seen
  BY <1>2 DEF DataOnly, Alike, Framed
<1>4. /\ Framed(s0, s1) /\ s1.out = {}
      /\ \A d \in expired : /\ s1.rt[d].seq = s.rt[d].seq + 1
                            /\ s1.rt[d].flag = "DOWN"
                            /\ s1.rt[d].hops = Infinity
      /\ \A d \in Node \ expired : s1.rt[d] = s.rt[d]
      /\ SoundRoutes(s) /\ s0.ok => s1.ok
  <2>1. Sane(s0) /\ (SoundRoutes(s) => SoundRoutes(s0))
    BY <1>3 DEF Sane, SoundRoutes
  <2>2. expired \in SUBSET Node /\ \A d \in expired : Up(s0.rt[d])
    BY <1>3
  <2> HIDE DEF s1
  <2>3. s1 = Expired(s0, expired)
    BY DEF s1
  <2> QED
    BY <1>2, <1>3, <2>1, <2>2, <2>3, ExpiredStep
<1> HIDE DEF s1
<1>5. IsAgent(s1)
  BY <1>4 DEF Framed
<1>6. DataOnly(s1, s2) /\ s2.ok = s1.ok
  BY <1>5, FlushStep
<1> HIDE DEF s2
<1>7. IsAgent(s2)
  BY <1>6 DEF DataOnly, Alike, Framed
<1>8. DataOnly(s2, s3) /\ s3.ok = s1.ok
  BY <1>6, <1>7, DropStep
<1> HIDE DEF s3
<1>9. /\ IsAgent(s3) /\ s3.me = s.me /\ s3.seqno = s.seqno /\ s3.bid = s.bid
      /\ s3.rt = s1.rt /\ s3.seen = s.seen
  BY <1>3, <1>4, <1>6, <1>8 DEF DataOnly, Alike, Framed
<1>10. \A o \in s3.out : o.msg \in PacketMsg
  BY <1>4, <1>6, <1>8 DEF DataOnly
<1>11. Ordered(A, nth)
  <2>1. A \subseteq Node
    BY DEF Asked, Routeless
  <2>2. nth \in [A -> 1..Cardinality(A)]
    BY DEF Injection
  <2> QED
    BY <2>1, <2>2 DEF Ordered
<1>12. \A d \in A : d \in Node \ expired /\ ~Up(s.rt[d])
  BY DEF Asked, Routeless
<1>13. /\ tries \in [Node -> Nat]
       /\ \A d \in Node : s3.rt[d].flag = "UP" => tries[d] = 0
  <2>1. /\ s3.tries \in [Node -> Nat]
        /\ \A d \in Node : s3.rt[d].flag = "UP" => s3.tries[d] = 0
    BY <1>9, AgentFields DEF IsAgent, Untried
  <2>2. \A d \in Node : Tried(s3.tries[d], outcome[d]) \in Nat
    BY <2>1 DEF Tried
  <2>3. \A d \in A : s3.rt[d].flag # "UP"
    BY <1>4, <1>9, <1>12 DEF Up
  <2> HIDE DEF A, gone
  <2> QED
    BY <2>1, <2>2, <2>3
<1> HIDE DEF A, gone, tries
<1>14. /\ IsAgent(t) /\ t.me = s3.me /\ t.rt = s3.rt /\ t.seen = s3.seen
       /\ t.ok = s3.ok /\ NumberStep(s3, t)
       /\ \A o \in t.out : \/ o \in s3.out
                           \/ OwnRequest(s3, o.msg) /\ o.msg.sseq <= t.seqno
  BY <1>9, <1>11, <1>13, SeveralRequests
<1>15. Purged(s, expired, outcome, nth) = t
  <2>1. \A d \in A : Request(s3, d, nth[d]) = Request(s, d, nth[d])
    BY <1>4, <1>9, <1>12 DEF Request
  <2>2. {[msg |-> Request(s3, d, nth[d]), to |-> Everyone] : d \in A}
          = {[msg |-> Request(s, d, nth[d]), to |-> Everyone] : d \in A}
    BY <2>1
  <2>3. Purged(s, expired, outcome, nth) =
          [s3 EXCEPT !.bid = @ + Cardinality(A),
                     !.seqno = @ + 2 * Cardinality(A),
                     !.tries = tries,
                     !.out = @ \cup {[msg |-> Request(s, d, nth[d]),
                                      to |-> Everyone] : d \in A}]
    BY Zenon DEF Purged, p, s0, s1, s2, s3, A, gone, tries
  <2> QED
    BY <2>2, <2>3, Zenon DEF WithRequests
<1> HIDE DEF t
<1>16. \A d \in Node : RouteStep(s, t, m, d)
  <2> SUFFICES ASSUME NEW d \in Node PROVE RouteStep(s, t, m, d)
    OBVIOUS
  <2>1. CASE d \in expired
    BY <1>4, <1>9, <1>14, <2>1 DEF RouteStep, Lost
  <2>2. CASE d \notin expired
    BY <1>4, <1>9, <1>14, <2>2 DEF RouteStep, SameRoute
  <2> QED
    BY <2>1, <2>2
<1>17. \A o \in t.out : Sends(s, t, m, o.msg)
  BY <1>9, <1>10, <1>14 DEF Sends, OwnRequest
<1>18. NumberStep(s, t)
  BY <1>9, <1>14 DEF NumberStep
<1>19. SoundRoutes(s) /\ s.ok => t.ok
  BY <1>1, <1>2, <1>4, <1>8, <1>14
<1>20. Effect(s, t, m)
  BY <1>9, <1>14, <1>16, <1>17, <1>18, <1>19 DEF Effect
<1> QED
  BY <1>15, <1>20

(* The larger of two numbers *)
LEMMA MaxOfTwo ==
    ASSUME NEW a \in Nat, NEW b \in Nat
    PROVE  Max({a, b}) \in {a, b} /\ Max({a, b}) >= a /\ Max({a, b}) >= b
<1>1. \E x \in {a, b} : \A y \in {a, b} : x >= y
  OBVIOUS
<1> QED
  BY <1>1 DEF Max

(* The number of a reply is even and not smaller than that of the node. *)
LEMMA OwnNumberStep ==
    ASSUME NEW s, IsAgent(s), NEW dseq \in Nat
    PROVE  /\ OwnNumber(s, dseq) \in Nat /\ OwnNumber(s, dseq) >= s.seqno
           /\ OwnNumber(s, dseq) % 2 = 0
<1> DEFINE n == Max({s.seqno, dseq}) + 1
<1>1. s.seqno \in Nat
  BY AgentFields
<1>2. n \in Nat /\ n >= s.seqno
  BY <1>1, MaxOfTwo
<1>3. OwnNumber(s, dseq) = IF n % 2 = 1 THEN n + 1 ELSE n
  BY DEF OwnNumber
<1> HIDE DEF n
<1> QED
  BY <1>1, <1>2, <1>3

(* The reverse route: what the request offers takes the place of what is   *)
(* not as good.                                                            *)
LEMMA ReversedStep ==
    ASSUME NEW s, IsAgent(s), NEW m \in RequestMsg
    PROVE  LET t == Reversed(s, m)
           IN /\ Framed(s, t)
              /\ \A d \in Node :
                    \/ t.rt[d] = s.rt[d]
                    \/ /\ d = m.src /\ Up(t.rt[d]) /\ Offers(m, d, t.rt[d])
                       /\ Fresher(t.rt[d].seq, t.rt[d].hops, s.rt[d])
              /\ ~Fresher(m.sseq, m.hops, t.rt[m.src])
              /\ \A o \in t.out : o \in s.out \/ o.msg \in PacketMsg
              /\ s.ok /\ (Fresher(m.sseq, m.hops, s.rt[m.src]) => m.hops # Infinity)
                   => t.ok
<1> DEFINE t == Reversed(s, m)
<1>1. /\ m.src \in Node /\ m.sseq \in Nat /\ m.hops \in Nat /\ m.from \in Node
      /\ m.kind = "RREQ"
  BY DEF RequestMsg
<1>2. CASE ~Fresher(m.sseq, m.hops, s.rt[m.src])
  BY <1>2 DEF Reversed, Framed
<1>3. CASE Fresher(m.sseq, m.hops, s.rt[m.src])
  <2> DEFINE u == Update(s, m.src, m.sseq, m.hops, m.from)
             p == Queued(s, {m.src}) # {} => m.hops # Infinity
             v == Check(u, p)
  <2>1. t = Flush(v, {m.src})
    BY <1>3 DEF Reversed
  <2>2. /\ Framed(s, u) /\ u.out = s.out /\ u.ok = s.ok
        /\ u.rt[m.src].seq = m.sseq /\ u.rt[m.src].hops = m.hops
        /\ u.rt[m.src].next = m.from /\ Up(u.rt[m.src])
        /\ \A x \in Node \ {m.src} : u.rt[x] = s.rt[x]
    BY <1>1, UpdateStep
  <2>3. p \in BOOLEAN
    OBVIOUS
  <2> HIDE DEF u, t, p
  <2>4. IsAgent(u)
    BY <2>2 DEF Framed
  <2>5. DataOnly(u, v) /\ v.out = u.out /\ (u.ok /\ p => v.ok)
    BY <2>3, <2>4, CheckStep
  <2> HIDE DEF v
  <2>6. IsAgent(v)
    BY <2>5 DEF DataOnly, Alike, Framed
  <2>7. DataOnly(v, t) /\ t.ok = v.ok
    BY <2>1, <2>6, FlushStep
  <2>8. DataOnly(u, t)
    BY <2>5, <2>7, DataOnlySteps
  <2>9. Framed(s, t) /\ t.rt = u.rt
    BY <2>2, <2>8 DEF DataOnly, Alike, Framed
  <2>10. \A o \in t.out : o \in s.out \/ o.msg \in PacketMsg
    BY <2>2, <2>8 DEF DataOnly
  <2>11. Offers(m, m.src, t.rt[m.src])
    BY <1>1, <2>2, <2>9 DEF Offers
  <2>12. /\ Fresher(t.rt[m.src].seq, t.rt[m.src].hops, s.rt[m.src])
         /\ ~Fresher(m.sseq, m.hops, t.rt[m.src])
    BY <1>1, <1>3, <2>2, <2>9 DEF Fresher
  <2>13. m.hops # Infinity => p
    BY DEF p
  <2>14. s.ok /\ (Fresher(m.sseq, m.hops, s.rt[m.src]) => m.hops # Infinity)
          => t.ok
    BY <1>3, <2>2, <2>5, <2>7, <2>13
  <2> QED
    BY <2>2, <2>9, <2>10, <2>11, <2>12, <2>14 DEF t
<1> QED
  BY <1>2, <1>3

(* sendReply() *)
LEMMA SendReplyStep ==
    ASSUME NEW s, IsAgent(s), NEW ipdst \in Node, NEW hops \in Nat,
           NEW d \in Node, NEW seq \in Nat
    PROVE  LET t == SendReply(s, ipdst, hops, d, seq)
           IN /\ Alike(s, t) /\ t.ok = s.ok
              /\ \A o \in t.out :
                    \/ o \in s.out
                    \/ /\ o.msg.kind = "RREP" /\ o.msg.from = s.me
                       /\ o.msg.dst = d /\ o.msg.seq = seq /\ o.msg.hops = hops
<1> DEFINE x == [kind |-> "RREP", to |-> ipdst, dst |-> d, seq |-> seq,
                 hops |-> hops, from |-> s.me]
           to == s.rt[ipdst].next
           t == SendReply(s, ipdst, hops, d, seq)
<1>1. x \in ReplyMsg /\ to \in Node
  BY AgentFields, RouteFields DEF ReplyMsg
<1>2. t = Send(s, x, to)
  BY DEF SendReply
<1>3. /\ x.kind = "RREP" /\ x.from = s.me
      /\ x.dst = d /\ x.seq = seq /\ x.hops = hops
  OBVIOUS
<1> HIDE DEF x, to, t
<1>4. Alike(s, t) /\ t.ok = s.ok /\ t.out = s.out \cup {[msg |-> x, to |-> to]}
  BY <1>1, <1>2, SendStep, MsgKinds
<1> QED
  BY <1>3, <1>4 DEF t

(* recvRequest() *)
LEMMA RecvRequestEffect ==
    ASSUME NEW s, IsAgent(s), s.out = {}, NEW m \in RequestMsg
    PROVE  Effect(s, RecvRequest(s, m), m)
<1> DEFINE id == <<m.src, m.bid>>
           s0 == [s EXCEPT !.seen = @ \cup {id}]
           s1 == Reversed(s0, m)
           r == s1.rt[m.dst]
           t == RecvRequest(s, m)
<1>1. /\ m.src \in Node /\ m.bid \in Nat /\ m.dst \in Node /\ m.dseq \in Nat
      /\ m.sseq \in Nat /\ m.hops \in Nat /\ m.from \in Node /\ m.kind = "RREQ"
  BY DEF RequestMsg
<1>2. CASE m.src = s.me \/ id \in s.seen
  <2>1. t = s
    BY <1>2 DEF RecvRequest
  <2> QED
    BY <2>1, DataOnlyEffect DEF DataOnly, Alike, Framed
<1>3. CASE ~(m.src = s.me \/ id \in s.seen)
  <2>1. /\ IsAgent(s0) /\ s0.me = s.me /\ s0.seqno = s.seqno /\ s0.rt = s.rt
        /\ s0.seen = s.seen \cup {id} /\ s0.out = {} /\ s0.ok = s.ok
    <3>1. s.seen \cup {id} \in SUBSET (Node \X Nat)
      BY <1>1, AgentFields
    <3> QED
      BY <3>1 DEF IsAgent, Untried, Agent
  <2> HIDE DEF s0
  <2>2. /\ Framed(s0, s1)
        /\ \A d \in Node :
              \/ s1.rt[d] = s0.rt[d]
              \/ /\ d = m.src /\ Up(s1.rt[d]) /\ Offers(m, d, s1.rt[d])
                 /\ Fresher(s1.rt[d].seq, s1.rt[d].hops, s0.rt[d])
        /\ ~Fresher(m.sseq, m.hops, s1.rt[m.src])
        /\ \A o \in s1.out : o \in s0.out \/ o.msg \in PacketMsg
        /\ s0.ok /\ (Fresher(m.sseq, m.hops, s0.rt[m.src]) => m.hops # Infinity)
             => s1.ok
    BY <2>1, ReversedStep
  <2> HIDE DEF s1
  <2>3. /\ IsAgent(s1) /\ s1.me = s.me /\ s1.seqno = s.seqno
        /\ s1.seen = s.seen \cup {id} /\ id \in s1.seen \ s.seen
    BY <1>3, <2>1, <2>2 DEF Framed
  <2>4. OfferShort(s, m) /\ s.ok => s1.ok
    BY <1>1, <1>3, <2>1, <2>2 DEF OfferShort
  <2>5. ASSUME NEW u, IsAgent(u), u.me = s.me, u.seen = s1.seen,
               NumberStep(s, u), \A d \in Node : SameRoute(s1.rt[d], u.rt[d]),
               \A o \in u.out : o \in s1.out \/ Sends(s, u, m, o.msg),
               u.ok = s1.ok
        PROVE  Effect(s, u, m)
    <3>1. \A d \in Node : RouteStep(s, u, m, d)
      <4> SUFFICES ASSUME NEW d \in Node PROVE RouteStep(s, u, m, d)
        OBVIOUS
      <4>1. CASE s1.rt[d] = s0.rt[d]
        BY <2>1, <2>5, <4>1 DEF RouteStep
      <4>2. CASE s1.rt[d] # s0.rt[d]
        BY <2>1, <2>2, <2>3, <2>5, <4>2
           DEF RouteStep, Learnt, SameRoute, Offers, Fresher, Up
      <4> QED
        BY <4>1, <4>2
    <3>2. \A o \in u.out : Sends(s, u, m, o.msg)
      BY <2>1, <2>2, <2>5 DEF Sends
    <3>3. s.seen \subseteq u.seen
      BY <2>3, <2>5
    <3> QED
      BY <2>4, <2>5, <3>1, <3>2, <3>3 DEF Effect
  <2>6. r \in Route /\ r.seq \in Nat /\ r.hops \in Nat
    BY <1>1, <2>3, AgentFields, RouteFields
  <2>7. CASE m.dst = s.me
    <3> DEFINE n == OwnNumber(s1, m.dseq)
               v == [s1 EXCEPT !.seqno = n]
    <3>1. n \in Nat /\ n >= s1.seqno /\ n % 2 = 0
      BY <1>1, <2>3, OwnNumberStep
    <3>2. t = SendReply(v, m.src, 1, s.me, n)
      BY <1>3, <2>7 DEF RecvRequest, s0, s1
    <3> HIDE DEF n, t
    <3>3. /\ IsAgent(v) /\ v.me = s.me /\ v.seqno = n /\ v.rt = s1.rt
          /\ v.seen = s1.seen /\ v.out = s1.out /\ v.ok = s1.ok
      BY <2>3, <3>1 DEF IsAgent, Untried, Agent
    <3> HIDE DEF v
    <3>4. /\ Alike(v, t) /\ t.ok = v.ok
          /\ \A o \in t.out :
                \/ o \in v.out
                \/ /\ o.msg.kind = "RREP" /\ o.msg.from = v.me
                   /\ o.msg.dst = s.me /\ o.msg.seq = n /\ o.msg.hops = 1
      <4>1. s.me \in Node /\ 1 \in Nat /\ m.src \in Node /\ n \in Nat
        BY <1>1, <3>1, AgentFields
      <4>2. IsAgent(v)
        BY <3>3
      <4> QED
        BY ONLY <3>2, <4>1, <4>2, SendReplyStep
    <3>5. /\ IsAgent(t) /\ t.me = s.me /\ t.seen = s1.seen /\ t.seqno = n
          /\ t.rt = s1.rt /\ t.ok = s1.ok
      BY <3>3, <3>4 DEF Alike, Framed
    <3>6. NumberStep(s, t)
      BY <2>3, <3>1, <3>5 DEF NumberStep
    <3>7. \A d \in Node : SameRoute(s1.rt[d], t.rt[d])
      BY <3>5 DEF SameRoute
    <3>8. \A o \in t.out : o \in s1.out \/ Sends(s, t, m, o.msg)
      BY <3>3, <3>4, <3>5 DEF Sends
    <3>9. Effect(s, t, m)
      BY <2>5, <3>5, <3>6, <3>7, <3>8
    <3> QED
      BY <3>9 DEF t
  <2>8. CASE m.dst # s.me /\ MayReply(r, m)
    <3> DEFINE s2 == SendReply(s1, m.src, r.hops + 1, m.dst, r.seq)
               pc2 == s2.rt[m.dst].pc \cup {s2.rt[m.src].next}
               s3 == WithPrecursors(s2, m.dst, pc2)
               pc3 == s3.rt[m.src].pc \cup {s3.rt[m.dst].next}
    <3>1. t = WithPrecursors(s3, m.src, pc3)
      BY <1>3, <2>8 DEF RecvRequest, WithPrecursors, s0, s1
    <3> HIDE DEF t, s2
    <3>2. /\ Alike(s1, s2) /\ s2.ok = s1.ok
          /\ \A o \in s2.out :
                \/ o \in s1.out
                \/ /\ o.msg.kind = "RREP" /\ o.msg.from = s1.me
                   /\ o.msg.dst = m.dst /\ o.msg.seq = r.seq
                   /\ o.msg.hops = r.hops + 1
      <4>1. /\ IsAgent(s1) /\ m.src \in Node /\ m.dst \in Node
            /\ r.seq \in Nat /\ r.hops + 1 \in Nat
        BY <1>1, <2>3, <2>6
      <4>2. s2 = SendReply(s1, m.src, r.hops + 1, m.dst, r.seq)
        BY DEF s2
      <4> HIDE DEF r
      <4> QED
        BY ONLY <4>1, <4>2, SendReplyStep
    <3>3. IsAgent(s2) /\ s2.rt = s1.rt
      BY <3>2 DEF Alike, Framed
    <3>4. pc2 \in SUBSET Node
      BY <1>1, <3>3, AgentFields, RouteFields
    <3> HIDE DEF pc2
    <3>5. Repointed(s2, s3)
      BY <1>1, <3>3, <3>4, PrecursorStep
    <3> HIDE DEF s3
    <3>6. IsAgent(s3)
      BY <3>5 DEF Repointed, Framed
    <3>7. pc3 \in SUBSET Node
      BY <1>1, <3>6, AgentFields, RouteFields
    <3> HIDE DEF pc3
    <3>8. Repointed(s3, t)
      BY <1>1, <3>1, <3>6, <3>7, PrecursorStep
    <3>9. /\ IsAgent(t) /\ t.me = s.me /\ t.seen = s1.seen /\ t.seqno = s.seqno
          /\ t.ok = s1.ok /\ t.out = s2.out
      BY <2>3, <3>2, <3>5, <3>8 DEF Repointed, Framed, Alike
    <3>10. NumberStep(s, t)
      BY <3>9, AgentFields DEF NumberStep
    <3>11. \A d \in Node : SameRoute(s1.rt[d], t.rt[d])
      BY <3>3, <3>5, <3>8 DEF SameRoute, Repointed
    <3>12. \A o \in t.out : o \in s1.out \/ Sends(s, t, m, o.msg)
      <4>1. Usable(r) /\ SameRoute(r, t.rt[m.dst])
        BY <1>1, <2>8, <3>11 DEF MayReply
      <4> QED
        BY <1>1, <2>3, <3>2, <3>9, <4>1 DEF Sends, SameRoute, Usable
    <3>13. Effect(s, t, m)
      BY <2>5, <3>9, <3>10, <3>11, <3>12
    <3> QED
      BY <3>13 DEF t
  <2>9. CASE m.dst # s.me /\ ~MayReply(r, m)
    <3> DEFINE x == [m EXCEPT !.hops = @ + 1, !.from = s.me,
                              !.dseq = Max({@, r.seq})]
    <3>1. t = Send(s1, x, Everyone)
      BY <1>3, <2>9 DEF RecvRequest, s0, s1
    <3>2. x \in RequestMsg /\ x.kind = "RREQ" /\ x.from = s.me /\ x.src = m.src
          /\ x.bid = m.bid /\ x.sseq = m.sseq /\ x.hops = m.hops + 1
      <4>1. /\ Max({m.dseq, r.seq}) \in Nat /\ m.hops + 1 \in Nat
            /\ s.me \in Node
        BY <1>1, <2>6, MaxOfTwo, AgentFields
      <4>2. x = [m EXCEPT !.hops = m.hops + 1, !.from = s.me,
                          !.dseq = Max({m.dseq, r.seq})]
        OBVIOUS
      <4> DEFINE k == Max({m.dseq, r.seq})
      <4> HIDE DEF x, k
      <4> QED
        BY ONLY m \in RequestMsg, <4>1, <4>2 DEF RequestMsg, k
    <3> HIDE DEF x, t
    <3>3. Alike(s1, t) /\ t.ok = s1.ok /\ t.out = s1.out \cup {[msg |-> x, to |-> Everyone]}
      BY <2>3, <3>1, <3>2, SendStep, MsgKinds
    <3>4. /\ IsAgent(t) /\ t.me = s.me /\ t.seen = s1.seen /\ t.seqno = s.seqno
          /\ t.rt = s1.rt
      BY <2>3, <3>3 DEF Alike, Framed
    <3>5. NumberStep(s, t)
      BY <3>4, AgentFields DEF NumberStep
    <3>6. \A d \in Node : SameRoute(s1.rt[d], t.rt[d])
      BY <3>4 DEF SameRoute
    <3>7. Sends(s, t, m, x)
      BY <1>1, <2>2, <2>3, <3>2, <3>4 DEF Sends
    <3>8. \A o \in t.out : o \in s1.out \/ Sends(s, t, m, o.msg)
      BY <3>3, <3>7
    <3>9. Effect(s, t, m)
      BY <2>5, <3>3, <3>4, <3>5, <3>6, <3>8
    <3> QED
      BY <3>9 DEF t
  <2> QED
    BY <2>7, <2>8, <2>9
<1> QED
  BY <1>2, <1>3

(* The forward route of recvReply() *)
LEMMA ForwardStep ==
    ASSUME NEW s, IsAgent(s), NEW m \in ReplyMsg
    PROVE  LET t == Forward(s, m)
           IN /\ Framed(s, t) /\ t.ok = s.ok
              /\ t.rt[m.dst].seq = m.seq /\ t.rt[m.dst].hops = m.hops
              /\ t.rt[m.dst].next = m.from /\ Up(t.rt[m.dst])
              /\ \A x \in Node \ {m.dst} : t.rt[x] = s.rt[x]
              /\ \A o \in t.out : o \in s.out \/ o.msg \in PacketMsg
<1> DEFINE u == Update(s, m.dst, m.seq, m.hops, m.from)
           t == Forward(s, m)
<1>1. m.dst \in Node /\ m.seq \in Nat /\ m.hops \in Nat /\ m.from \in Node
  BY DEF ReplyMsg
<1>2. /\ Framed(s, u) /\ u.out = s.out /\ u.ok = s.ok
      /\ u.rt[m.dst].seq = m.seq /\ u.rt[m.dst].hops = m.hops
      /\ u.rt[m.dst].next = m.from /\ Up(u.rt[m.dst])
      /\ \A x \in Node \ {m.dst} : u.rt[x] = s.rt[x]
  BY <1>1, UpdateStep
<1>3. t \in {Flush(u, {m.dst}), DropQueued(u, {m.dst})}
  BY DEF Forward
<1> HIDE DEF t, u
<1>4. IsAgent(u)
  BY <1>2 DEF Framed
<1>5. DataOnly(u, t) /\ t.ok = u.ok
  BY <1>3, <1>4, FlushStep, DropStep
<1>6. Framed(s, t) /\ t.rt = u.rt
  BY <1>2, <1>5 DEF DataOnly, Alike, Framed
<1>7. \A o \in t.out : o \in s.out \/ o.msg \in PacketMsg
  BY <1>2, <1>5 DEF DataOnly
<1> QED
  BY <1>2, <1>5, <1>6, <1>7 DEF t

(* recvReply() *)
LEMMA RecvReplyEffect ==
    ASSUME NEW s, IsAgent(s), s.out = {}, NEW m \in ReplyMsg
    PROVE  Effect(s, RecvReply(s, m), m)
<1> DEFINE better == Fresher(m.seq, m.hops, s.rt[m.dst])
           s1 == Forward(s, m)
           back == s1.rt[m.to]
           t == RecvReply(s, m)
<1>1. /\ m.to \in Node /\ m.dst \in Node /\ m.seq \in Nat /\ m.hops \in Nat
      /\ m.from \in Node /\ m.kind = "RREP"
  BY DEF ReplyMsg
<1>2. CASE ~better
  <2>1. t = s
    BY <1>2 DEF RecvReply
  <2> QED
    BY <2>1, DataOnlyEffect DEF DataOnly, Alike, Framed
<1>3. CASE better
  <2>1. /\ Framed(s, s1) /\ s1.ok = s.ok
        /\ s1.rt[m.dst].seq = m.seq /\ s1.rt[m.dst].hops = m.hops
        /\ s1.rt[m.dst].next = m.from /\ Up(s1.rt[m.dst])
        /\ \A x \in Node \ {m.dst} : s1.rt[x] = s.rt[x]
        /\ \A o \in s1.out : o \in s.out \/ o.msg \in PacketMsg
    BY ForwardStep
  <2> HIDE DEF s1
  <2>2. ASSUME NEW u, Framed(s1, u),
               \A d \in Node : SameRoute(s1.rt[d], u.rt[d]),
               \A o \in u.out : o \in s1.out \/ Sends(s, u, m, o.msg),
               SoundRoutes(s) /\ s.ok => u.ok
        PROVE  Effect(s, u, m)
    <3>1. IsAgent(u) /\ u.me = s.me /\ u.seen = s.seen /\ u.seqno = s.seqno
      BY <2>1, <2>2 DEF Framed
    <3>2. NumberStep(s, u)
      BY <3>1, AgentFields DEF NumberStep
    <3>3. \A d \in Node : RouteStep(s, u, m, d)
      <4> SUFFICES ASSUME NEW d \in Node PROVE RouteStep(s, u, m, d)
        OBVIOUS
      <4>1. SameRoute(s1.rt[d], u.rt[d])
        BY <2>2
      <4>2. CASE d = m.dst
        BY <1>1, <1>3, <2>1, <4>1, <4>2
           DEF RouteStep, Learnt, SameRoute, Offers, Up
      <4>3. CASE d # m.dst
        BY <2>1, <4>1, <4>3 DEF RouteStep
      <4> QED
        BY <4>2, <4>3
    <3>4. \A o \in u.out : Sends(s, u, m, o.msg)
      BY <2>1, <2>2 DEF Sends
    <3> QED
      BY <2>2, <3>1, <3>2, <3>3, <3>4 DEF Effect
  <2>3. CASE m.to = s.me \/ ~Usable(back)
    <3>1. t = s1
      BY <1>3, <2>3 DEF RecvReply, s1
    <3>2. Framed(s1, s1) /\ \A d \in Node : SameRoute(s1.rt[d], s1.rt[d])
      BY <2>1 DEF Framed, SameRoute
    <3>3. Effect(s, s1, m)
      BY <2>1, <2>2, <3>2
    <3> QED
      BY <3>1, <3>3
  <2>4. CASE m.to # s.me /\ Usable(back)
    <3> DEFINE x == [m EXCEPT !.hops = @ + 1, !.from = s.me]
               u == Send(s1, x, back.next)
               v == Check(u, Up(back))
               pc == v.rt[m.dst].pc \cup {back.next}
    <3>1. t = WithPrecursors(v, m.dst, pc)
      BY <1>3, <2>4 DEF RecvReply, WithPrecursors, s1
    <3>2. /\ IsAgent(s1) /\ back \in Route /\ back.next \in Node
          /\ s1.me = s.me /\ s.me \in Node
      BY <1>1, <2>1, AgentFields, RouteFields DEF Framed
    <3>3. Up(back) \in BOOLEAN /\ (SoundRoutes(s) => Up(back))
      <4>1. CASE m.to = m.dst
        BY <2>1, <4>1 DEF Up
      <4>2. CASE m.to # m.dst
        BY <1>1, <2>1, <2>4, <4>2 DEF SoundRoutes, Up
      <4> QED
        BY <4>1, <4>2
    <3>4. /\ x \in ReplyMsg /\ x.kind = "RREP" /\ x.from = s.me
          /\ x.dst = m.dst /\ x.seq = m.seq /\ x.hops = m.hops + 1
      <4>1. m.hops + 1 \in Nat /\ s.me \in Node
        BY <1>1, <3>2
      <4>2. x = [m EXCEPT !.hops = m.hops + 1, !.from = s.me]
        OBVIOUS
      <4> HIDE DEF x
      <4> QED
        BY ONLY m \in ReplyMsg, <4>1, <4>2 DEF ReplyMsg
    <3> HIDE DEF t, x, back
    <3>5. /\ Alike(s1, u) /\ u.ok = s1.ok
          /\ u.out = s1.out \cup {[msg |-> x, to |-> back.next]}
      BY <3>2, <3>4, SendStep, MsgKinds
    <3> HIDE DEF u
    <3>6. IsAgent(u)
      BY <3>5 DEF Alike, Framed
    <3>7. DataOnly(u, v) /\ v.out = u.out /\ (u.ok /\ Up(back) => v.ok)
      BY <3>3, <3>6, CheckStep
    <3> HIDE DEF v
    <3>8. IsAgent(v) /\ v.rt = s1.rt
      BY <3>5, <3>7 DEF DataOnly, Alike, Framed
    <3>9. pc \in SUBSET Node
      BY <1>1, <3>2, <3>8, AgentFields, RouteFields
    <3> HIDE DEF pc
    <3>10. Repointed(v, t)
      BY <1>1, <3>1, <3>8, <3>9, PrecursorStep
    <3>11. Framed(s1, t) /\ t.out = u.out /\ t.ok = v.ok
      BY <3>5, <3>7, <3>10 DEF Repointed, DataOnly, Alike, Framed
    <3>12. \A d \in Node : SameRoute(s1.rt[d], t.rt[d])
      BY <3>8, <3>10 DEF Repointed
    <3>13. Sends(s, t, m, x)
      <4>1. SameRoute(s1.rt[m.dst], t.rt[m.dst])
        BY <1>1, <3>12
      <4> QED
        BY <1>1, <2>1, <3>4, <4>1 DEF Sends, SameRoute, Up
    <3>14. \A o \in t.out : o \in s1.out \/ Sends(s, t, m, o.msg)
      BY <3>5, <3>11, <3>13
    <3>15. SoundRoutes(s) /\ s.ok => t.ok
      BY <2>1, <3>3, <3>5, <3>7, <3>11
    <3>16. Effect(s, t, m)
      BY <2>2, <3>11, <3>12, <3>14, <3>15
    <3> QED
      BY <3>16 DEF t
  <2> QED
    BY <2>3, <2>4
<1> QED
  BY <1>2, <1>3

-----------------------------------------------------------------------------
(* Steps of the network.                                                   *)

(* Types, that routes that are down have no length, and that routes that   *)
(* are up have no requests                                                 *)
Basic == TypeOK /\ \A n \in Node : Sane(node[n]) /\ Untried(node[n])

(* A timer, or an application, sets an agent going. *)
Idle == [kind |-> "NONE"]

(* A message is in the air, or a timer or an application stands for it. *)
HasCause(m) ==
    m = Idle \/ (\E d \in Node : m = Over(d)) \/ \E f \in air : f.msg = m

(* A repair that begins has a timer, and a timer that ends leaves no route *)
(* under repair, but its destination among those that failed.              *)
Timed(n, t, m) ==
    /\ m.kind = "DATA" /\ Repairable(node[n], m) /\ Up(node[n].rt[Target[m.id]])
          => \E r \in repairs' : r.at = n /\ r.dst = Target[m.id]
    /\ \A r \in repairs \ repairs' :
          r.at = n /\ t.rt[r.dst].flag # "IN_REPAIR"
    /\ failed \subseteq failed'
    /\ m.kind = "OVER" /\ node[n].rt[m.dst].flag = "IN_REPAIR"
          => m.dst \in failed'

(* The agent of n takes m in and becomes t; of what it sends some gets     *)
(* into the air.                                                           *)
Step(n, t, m) ==
    /\ n \in Node /\ Effect(node[n], t, m)
    /\ HasCause(m)
    /\ node' = [node EXCEPT ![n] = [t EXCEPT !.out = {}]]
    /\ \A f \in air' : \/ f \in air
                       \/ /\ f \in [msg : Msg, by : Node, at : Node]
                          /\ Sends(node[n], t, m, f.msg)
    /\ Timed(n, t, m)

(* Frames get lost or arrive, and links break; the agents stay as they are. *)
Rest == /\ node' = node /\ air' \subseteq air
        /\ repairs' = repairs /\ failed' = failed

(* The agents of a state of the right type *)
LEMMA Agents ==
    ASSUME Basic, NEW n \in Node
    PROVE  /\ IsAgent(node[n]) /\ Sane(node[n])
           /\ node[n].me = n /\ node[n].out = {}
BY DEF Basic, TypeOK, IsAgent

(* The kind of a message says which fields it has. *)
LEMMA KindsOfMsg ==
    ASSUME NEW m \in Msg
    PROVE  /\ m.kind = "RREQ" => m \in RequestMsg
           /\ m.kind = "RREP" => m \in ReplyMsg
           /\ m.kind = "RERR" => m \in ErrorMsg
           /\ m.kind = "DATA" => m \in PacketMsg
           /\ m.kind \in {"RREQ", "RREP", "RERR", "DATA"}
<1>1. \/ m \in RequestMsg \/ m \in ReplyMsg
      \/ m \in ErrorMsg \/ m \in PacketMsg
  BY Zenon DEF Msg
<1> QED
  BY <1>1, MsgKinds

(* Frames in the air have their types. *)
LEMMA FrameFields ==
    ASSUME Basic, NEW f \in air
    PROVE  f.msg \in Msg /\ f.by \in Node /\ f.at \in Node
BY DEF Basic, TypeOK

(* What is in the air has been sent. *)
LEMMA CopiesSent ==
    ASSUME NEW t, IsAgent(t), NEW lks, NEW g \in Copies(t, lks)
    PROVE  /\ g \in [msg : Msg, by : Node, at : Node]
           /\ \E o \in t.out : g.msg = o.msg
<1>1. PICK o \in t.out :
         g \in IF o.to = Everyone
               THEN {[msg |-> o.msg, by |-> t.me, at |-> n] :
                       n \in {m \in Node : {t.me, m} \in lks /\ m # t.me}}
               ELSE {[msg |-> o.msg, by |-> t.me, at |-> o.to]}
  BY DEF Copies
<1>2. t.me \in Node /\ o.msg \in Msg /\ o.to \in Node \cup {Everyone}
  BY AgentFields
<1>3. CASE o.to = Everyone
  <2>1. PICK n \in Node : g = [msg |-> o.msg, by |-> t.me, at |-> n]
    BY <1>1, <1>3
  <2>2. g.msg = o.msg
    BY <2>1
  <2>3. g \in [msg : Msg, by : Node, at : Node]
    BY <1>2, <2>1
  <2> QED
    BY <2>2, <2>3
<1>4. CASE o.to # Everyone
  BY <1>1, <1>2, <1>4
<1> QED
  BY <1>3, <1>4

(* An agent that becomes what an Effect makes of it takes a Step. *)
LEMMA BecomeStep ==
    ASSUME Basic, NEW n \in Node, NEW t, NEW m, Effect(node[n], t, m),
           HasCause(m), NEW rest \in SUBSET air, Become(t, rest), Timed(n, t, m)
    PROVE  Step(n, t, m)
<1>1. IsAgent(t) /\ t.me = n
  BY Agents DEF Effect
<1>2. /\ node' = [node EXCEPT ![n] = [t EXCEPT !.out = {}]]
      /\ air' = rest \cup Copies(t, links)
  BY <1>1 DEF Become
<1>3. ASSUME NEW f \in air'
      PROVE  \/ f \in air
             \/ /\ f \in [msg : Msg, by : Node, at : Node]
                /\ Sends(node[n], t, m, f.msg)
  <2>1. CASE f \in rest
    BY <2>1
  <2>2. CASE f \in Copies(t, links)
    <3>1. /\ f \in [msg : Msg, by : Node, at : Node]
          /\ \E o \in t.out : f.msg = o.msg
      BY <1>1, <2>2, CopiesSent
    <3> QED
      BY <3>1 DEF Effect
  <2> QED
    BY <1>2, <2>1, <2>2
<1> QED
  BY <1>2, <1>3 DEF Step

(* The same when no repair begins or ends *)
LEMMA BecomeQuietly ==
    ASSUME Basic, NEW n \in Node, NEW t, NEW m, Effect(node[n], t, m),
           HasCause(m), m.kind \notin {"DATA", "OVER"},
           NEW rest \in SUBSET air, Become(t, rest),
           repairs' = repairs, failed' = failed
    PROVE  Step(n, t, m)
<1>1. Timed(n, t, m)
  BY DEF Timed
<1> QED
  BY <1>1, BecomeStep

(* Data that is received *)
LEMMA RecvDataEffect ==
    ASSUME NEW s, IsAgent(s), s.out = {}, NEW p \in PacketMsg, NEW outcome, NEW m
    PROVE  Effect(s, RecvData(s, Hop(p), outcome), m)
<1> DEFINE h == Hop(p)
<1>1. p.id \in Data /\ p.fwd \in Nat /\ h.id = p.id /\ h.fwd = p.fwd + 1
  BY NetworkTypes DEF PacketMsg, Hop
<1> HIDE DEF h
<1>2. CASE Source[h.id] = s.me \/ h.fwd >= Diameter
  <2>1. RecvData(s, h, outcome) = s
    BY <1>2 DEF RecvData
  <2>2. DataOnly(s, s)
    BY DEF DataOnly, Alike, Framed
  <2>3. Effect(s, s, m)
    BY <2>2, DataOnlyEffect
  <2> QED
    BY <2>1, <2>3 DEF h
<1>3. CASE ~(Source[h.id] = s.me \/ h.fwd >= Diameter)
  <2> DEFINE q == [id |-> h.id, fwd |-> h.fwd]
  <2>1. q \in Packet
    BY <1>1, <1>3, NetworkTypes DEF Packet
  <2>2. RecvData(s, h, outcome) = Resolve(s, q, outcome)
    BY <1>3 DEF RecvData
  <2> HIDE DEF q
  <2>3. Effect(s, Resolve(s, q, outcome), m)
    BY <2>1, ResolveEffect
  <2> QED
    BY <2>2, <2>3 DEF h
<1> QED
  BY <1>2, <1>3

(* Every action is a Step of one agent, or of none. *)
LEMMA OriginateStep ==
    ASSUME Basic, NEW p \in Data, Originate(p)
    PROVE  \E n, t, m : Step(n, t, m)
<1>1. PICK outcome : Become(Resolve(node[Source[p]], [id |-> p, fwd |-> 0], outcome), air)
  BY DEF Originate
<1> DEFINE n == Source[p]
           q == [id |-> p, fwd |-> 0]
           t == Resolve(node[n], q, outcome)
<1>2. n \in Node /\ q \in Packet
  BY NetworkTypes DEF Packet
<1>3. /\ HasCause(Idle) /\ Idle.kind = "NONE"
      /\ repairs' = repairs /\ failed' = failed
  BY DEF HasCause, Idle, Originate
<1> HIDE DEF n, q
<1>4. Effect(node[n], t, Idle)
  BY <1>2, Agents, ResolveEffect
<1>5. Become(t, air)
  BY <1>1 DEF n, q
<1> HIDE DEF t
<1>6. Step(n, t, Idle)
  BY <1>2, <1>3, <1>4, <1>5, BecomeQuietly
<1> QED
  BY <1>6

LEMMA ReceiveStep ==
    ASSUME Basic, NEW f \in air, Receive(f)
    PROVE  \E n, t, m : Step(n, t, m)
<1> DEFINE n == f.at
           m == f.msg
           s == node[n]
<1>1. n \in Node /\ m \in Msg /\ IsAgent(s) /\ Sane(s) /\ s.out = {}
  BY FrameFields, Agents
<1>2. repairs' = repairs /\ failed' = failed
  BY DEF Receive
<1>3. HasCause(m) /\ HasCause(Idle) /\ Idle.kind = "NONE"
  BY DEF HasCause, Idle
<1>4. CASE m.kind = "RREQ"
  <2>1. Become(RecvRequest(s, m), air \ {f})
    BY <1>4 DEF Receive
  <2>2. Effect(s, RecvRequest(s, m), m)
    BY <1>1, <1>4, KindsOfMsg, RecvRequestEffect
  <2>3. Step(n, RecvRequest(s, m), m)
    BY <1>1, <1>2, <1>3, <1>4, <2>1, <2>2, BecomeQuietly
  <2> QED
    BY <2>3
<1>5. CASE m.kind = "RREP"
  <2>1. Become(RecvReply(s, m), air \ {f})
    BY <1>5 DEF Receive
  <2>2. Effect(s, RecvReply(s, m), m)
    BY <1>1, <1>5, KindsOfMsg, RecvReplyEffect
  <2>3. Step(n, RecvReply(s, m), m)
    BY <1>1, <1>2, <1>3, <1>5, <2>1, <2>2, BecomeQuietly
  <2> QED
    BY <2>3
<1>6. CASE m.kind = "RERR"
  <2>1. PICK dropped : Become(RecvError(s, m), (air \ {f}) \ dropped)
    BY <1>6 DEF Receive
  <2>2. Effect(s, RecvError(s, m), m)
    BY <1>1, <1>6, KindsOfMsg, RecvErrorEffect
  <2>3. Step(n, RecvError(s, m), m)
    BY <1>1, <1>2, <1>3, <1>6, <2>1, <2>2, BecomeQuietly
  <2> QED
    BY <2>3
<1>7. CASE m.kind = "DATA"
  <2>1. PICK outcome : Become(RecvData(s, Hop(m), outcome), air \ {f})
    BY <1>7 DEF Receive
  <2>2. Effect(s, RecvData(s, Hop(m), outcome), Idle)
    BY <1>1, <1>7, KindsOfMsg, RecvDataEffect
  <2>3. Step(n, RecvData(s, Hop(m), outcome), Idle)
    BY <1>1, <1>2, <1>3, <2>1, <2>2, BecomeQuietly
  <2> QED
    BY <2>3
<1> QED
  BY <1>1, <1>4, <1>5, <1>6, <1>7, KindsOfMsg

(* A route that is up has just been looked for: the timer that is set for  *)
(* its repair reads the packet it was set for.                             *)
LEMMA TimerOfUp ==
    ASSUME NEW s, IsAgent(s), NEW d \in Node, Up(s.rt[d]), NEW outcome
    PROVE  TimerReads(s, d, outcome) = {d}
<1>1. s.tries[d] = 0
  BY DEF IsAgent, Untried, Up
<1> QED
  BY <1>1, NetworkTypes DEF TimerReads, GivesUp

LEMMA FailStep ==
    ASSUME Basic, NEW f \in air, Fail(f)
    PROVE  Rest \/ \E n, t, m : Step(n, t, m)
<1> DEFINE n == f.by
           m == f.msg
           s == node[n]
<1>1. n \in Node /\ m \in Msg /\ IsAgent(s) /\ Sane(s) /\ s.out = {}
  BY FrameFields, Agents
<1>2. CASE m.kind # "DATA"
  BY <1>2 DEF Fail, Rest
<1>3. CASE m.kind = "DATA"
  <2>1. PICK outcome, dropped :
           /\ Become(LinkFailed(s, m, f.at, outcome), (air \ {f}) \ dropped)
           /\ IF Repairable(s, m)
              THEN \E d \in TimerReads(s, Target[m.id], outcome) :
                     repairs' = repairs \cup {[at |-> f.by, data |-> m.id, dst |-> d]}
              ELSE repairs' = repairs
    BY <1>3 DEF Fail
  <2> DEFINE t == LinkFailed(s, m, f.at, outcome)
  <2>2. Effect(s, t, m)
    BY <1>1, <1>3, KindsOfMsg, LinkFailedEffect
  <2>3. Target[m.id] \in Node
    BY <1>1, <1>3, KindsOfMsg, NetworkTypes DEF PacketMsg
  <2>4. repairs \ repairs' = {} /\ failed' = failed
    BY <2>1 DEF Fail
  <2>5. Repairable(s, m) /\ Up(s.rt[Target[m.id]])
          => \E r \in repairs' : r.at = n /\ r.dst = Target[m.id]
    <3> SUFFICES ASSUME Repairable(s, m), Up(s.rt[Target[m.id]])
                 PROVE  \E r \in repairs' : r.at = n /\ r.dst = Target[m.id]
      OBVIOUS
    <3>1. TimerReads(s, Target[m.id], outcome) = {Target[m.id]}
      BY <1>1, <2>3, TimerOfUp
    <3>2. [at |-> n, data |-> m.id, dst |-> Target[m.id]] \in repairs'
      BY <2>1, <3>1
    <3> QED
      BY <3>2
  <2>6. Timed(n, t, m)
    BY <1>3, <2>4, <2>5 DEF Timed
  <2>7. HasCause(m)
    BY DEF HasCause
  <2> HIDE DEF t
  <2>8. Become(t, (air \ {f}) \ dropped)
    BY <2>1 DEF t
  <2>9. Step(n, t, m)
    BY <1>1, <2>2, <2>6, <2>7, <2>8, BecomeStep
  <2> QED
    BY <2>9
<1> QED
  BY <1>2, <1>3

LEMMA RepairTimeoutStep ==
    ASSUME Basic, NEW r \in repairs, RepairTimeout(r)
    PROVE  \E n, t, m : Step(n, t, m)
<1> DEFINE n == r.at
           d == r.dst
           s == node[n]
<1>1. n \in Node /\ d \in Node
  BY DEF Basic, TypeOK
<1>2. IsAgent(s) /\ Sane(s) /\ s.out = {}
  BY <1>1, Agents
<1>3. /\ Become(IF Up(s.rt[d]) THEN s ELSE RepairOver(s, d), air)
      /\ repairs' = repairs \ {r}
      /\ failed' = IF s.rt[d].flag = "IN_REPAIR" THEN failed \cup {d} ELSE failed
  BY DEF RepairTimeout
<1> HIDE DEF s, d
<1>4. CASE Up(s.rt[d])
  <2>1. s.rt[d].flag # "IN_REPAIR" /\ DataOnly(s, s)
    BY <1>2, <1>4 DEF Up, DataOnly, Alike, Framed
  <2>2. Effect(s, s, Idle)
    BY <1>2, <2>1, DataOnlyEffect
  <2>3. HasCause(Idle) /\ Idle.kind = "NONE"
    BY DEF HasCause, Idle
  <2>4. Timed(n, s, Idle)
    BY <1>3, <2>1, <2>3 DEF Timed, d
  <2>5. Become(s, air)
    BY <1>3, <1>4
  <2>6. Step(n, s, Idle)
    BY <1>1, <2>2, <2>3, <2>4, <2>5, BecomeStep DEF s
  <2> QED
    BY <2>6
<1>5. CASE ~Up(s.rt[d])
  <2> DEFINE t == RepairOver(s, d)
  <2>1. Effect(s, t, Over(d)) /\ t.rt[d].flag = "DOWN"
    BY <1>1, <1>2, <1>5, RepairOverEffect
  <2>2. HasCause(Over(d)) /\ Over(d).kind = "OVER" /\ Over(d).dst = d
    BY <1>1 DEF HasCause, Over
  <2> HIDE DEF t
  <2>3. Timed(n, t, Over(d))
    BY <1>3, <2>1, <2>2 DEF Timed, d, s
  <2>4. Become(t, air)
    BY <1>3, <1>5 DEF t
  <2>5. Step(n, t, Over(d))
    BY <1>1, <2>1, <2>2, <2>3, <2>4, BecomeStep DEF s
  <2> QED
    BY <2>5
<1> QED
  BY <1>4, <1>5

LEMMA PurgeStep ==
    ASSUME Basic, NEW n \in Node, Purge(n)
    PROVE  \E i, t, m : Step(i, t, m)
<1>1. PICK expired \in SUBSET {d \in Node : Up(node[n].rt[d])},
           outcome \in [Routeless(node[n]) -> Outcomes] :
         \E nth \in Injection(Asked(node[n], outcome),
                              1..Cardinality(Asked(node[n], outcome))) :
            Become(Purged(node[n], expired, outcome, nth), air)
  BY DEF Purge
<1>2. PICK nth \in Injection(Asked(node[n], outcome),
                             1..Cardinality(Asked(node[n], outcome))) :
         Become(Purged(node[n], expired, outcome, nth), air)
  BY <1>1
<1> DEFINE t == Purged(node[n], expired, outcome, nth)
<1>3. Effect(node[n], t, Idle)
  BY Agents, PurgedEffect
<1>4. /\ HasCause(Idle) /\ Idle.kind = "NONE"
      /\ repairs' = repairs /\ failed' = failed
  BY DEF HasCause, Idle, Purge
<1>5. Become(t, air)
  BY <1>2
<1> HIDE DEF t
<1>6. Step(n, t, Idle)
  BY <1>3, <1>4, <1>5, BecomeQuietly
<1> QED
  BY <1>6

LEMMA NextIsStep ==
    ASSUME Basic, [Next]_vars
    PROVE  Rest \/ \E n, t, m : Step(n, t, m)
<1>1. CASE UNCHANGED vars
  BY <1>1 DEF vars, Rest
<1>2. CASE \E p \in Data : Originate(p)
  BY <1>2, OriginateStep
<1>3. CASE \E f \in air : Arrive(f) \/ Receive(f) \/ Fail(f) \/ Lose(f)
  <2>1. PICK f \in air : Arrive(f) \/ Receive(f) \/ Fail(f) \/ Lose(f)
    BY <1>3
  <2>2. CASE Arrive(f) \/ Lose(f)
    BY <2>2 DEF Arrive, Lose, Rest
  <2> QED
    BY <2>1, <2>2, ReceiveStep, FailStep
<1>4. CASE \E r \in repairs : RepairTimeout(r)
  BY <1>4, RepairTimeoutStep
<1>5. CASE \E n \in Node : Purge(n)
  BY <1>5, PurgeStep
<1>6. CASE Break
  BY <1>6 DEF Break, Rest
<1> QED
  BY <1>1, <1>2, <1>3, <1>4, <1>5, <1>6 DEF Next

-----------------------------------------------------------------------------
(* Type correctness.                                                       *)

(* What a Step does to the agents *)
LEMMA StepAgents ==
    ASSUME Basic, NEW n, NEW t, NEW m, Step(n, t, m)
    PROVE  /\ n \in Node /\ IsAgent(t) /\ IsAgent(node[n]) /\ DOMAIN node' = Node
           /\ IsAgent(node'[n]) /\ node'[n].me = n /\ node'[n].out = {}
           /\ node'[n].seqno = t.seqno /\ node'[n].rt = t.rt
           /\ node'[n].seen = t.seen /\ node'[n].ok = t.ok
           /\ \A x \in Node \ {n} : node'[x] = node[x]
<1> DEFINE u == [t EXCEPT !.out = {}]
<1>1. n \in Node /\ IsAgent(t) /\ t.me = node[n].me /\ node' = [node EXCEPT ![n] = u]
  BY DEF Step, Effect
<1>2. DOMAIN node = Node /\ node[n].me = n /\ IsAgent(node[n])
  BY <1>1, Agents DEF Basic, TypeOK
<1>3. {} \in SUBSET [msg : Msg, to : Node \cup {Everyone}]
  OBVIOUS
<1>4. Alike(t, u) /\ u.out = {} /\ u.ok = t.ok
  BY <1>1, <1>3, SetOut
<1> HIDE DEF u
<1>5. node'[n] = u /\ DOMAIN node' = Node /\ \A x \in Node \ {n} : node'[x] = node[x]
  BY <1>1, <1>2
<1> QED
  BY <1>1, <1>2, <1>4, <1>5 DEF Alike, Framed

(* An Effect leaves no length to a route that is down. *)
LEMMA EffectSane ==
    ASSUME NEW s, NEW t, NEW m, Sane(s), Effect(s, t, m)
    PROVE  Sane(t)
BY DEF Sane, Effect, RouteStep, SameRoute, Learnt, Lost, Repaired, IntoRepair,
       OutOfRepair, Up

LEMMA BasicStep ==
    ASSUME Basic, NEW n, NEW t, NEW m, Step(n, t, m)
    PROVE  /\ DOMAIN node' = Node
           /\ \A x \in Node : /\ node'[x] \in Agent(node'[x].rqueue)
                              /\ node'[x].me = x /\ node'[x].out = {}
                              /\ Sane(node'[x]) /\ Untried(node'[x])
           /\ air' \subseteq [msg : Msg, by : Node, at : Node]
<1>1. /\ n \in Node /\ DOMAIN node' = Node
      /\ IsAgent(node'[n]) /\ node'[n].me = n /\ node'[n].out = {}
      /\ node'[n].rt = t.rt /\ \A x \in Node \ {n} : node'[x] = node[x]
  BY StepAgents
<1>2. Sane(t)
  BY <1>1, Agents, EffectSane DEF Step
<1>3. Sane(node'[n])
  BY <1>1, <1>2 DEF Sane
<1>4. ASSUME NEW x \in Node
      PROVE  /\ node'[x] \in Agent(node'[x].rqueue)
             /\ node'[x].me = x /\ node'[x].out = {}
             /\ Sane(node'[x]) /\ Untried(node'[x])
  <2>1. CASE x = n
    BY <1>1, <1>3, <2>1 DEF IsAgent
  <2>2. CASE x # n
    BY <1>1, <2>2, Agents DEF IsAgent
  <2> QED
    BY <2>1, <2>2
<1>5. air' \subseteq [msg : Msg, by : Node, at : Node]
  BY DEF Step, Basic, TypeOK
<1> QED
  BY <1>1, <1>4, <1>5

(* The timers and the packets keep their types. *)
LEMMA OthersTyped ==
    ASSUME Basic, [Next]_vars
    PROVE  /\ repairs' \subseteq [at : Node, data : Data, dst : Node]
           /\ failed' \subseteq Node /\ unsent' \subseteq Data /\ arrived' \subseteq Data
<1>1. /\ repairs \subseteq [at : Node, data : Data, dst : Node]
      /\ failed \subseteq Node /\ unsent \subseteq Data /\ arrived \subseteq Data
  BY DEF Basic, TypeOK
<1>2. CASE UNCHANGED vars
  BY <1>1, <1>2 DEF vars
<1>3. CASE \E p \in Data : Originate(p)
  BY <1>1, <1>3 DEF Originate
<1>4. ASSUME NEW f \in air, Arrive(f) \/ Receive(f) \/ Fail(f) \/ Lose(f)
      PROVE  /\ repairs' \subseteq [at : Node, data : Data, dst : Node]
             /\ failed' \subseteq Node /\ unsent' \subseteq Data /\ arrived' \subseteq Data
  <2>1. f.msg \in Msg /\ f.by \in Node
    BY FrameFields
  <2>2. f.msg.kind = "DATA" => f.msg.id \in Data /\ Target[f.msg.id] \in Node
    BY <2>1, KindsOfMsg, NetworkTypes DEF PacketMsg
  <2>3. CASE Arrive(f)
    BY <1>1, <2>2, <2>3 DEF Arrive
  <2>4. CASE Receive(f)
    BY <1>1, <2>4 DEF Receive
  <2>5. CASE Fail(f)
    <3>1. failed' = failed /\ unsent' = unsent /\ arrived' = arrived
      BY <2>5 DEF Fail
    <3>2. \/ repairs' = repairs
          \/ /\ f.msg.kind = "DATA"
             /\ \E outcome \in Outcomes :
                \E d \in TimerReads(node[f.by], Target[f.msg.id], outcome) :
                  repairs' = repairs \cup
                               {[at |-> f.by, data |-> f.msg.id, dst |-> d]}
      BY <2>5 DEF Fail
    <3>3. \A d, outcome : d \in TimerReads(node[f.by], Target[f.msg.id], outcome)
            => d \in {Target[f.msg.id], Zero}
      BY DEF TimerReads
    <3> QED
      BY <1>1, <2>1, <2>2, <3>1, <3>2, <3>3, NetworkTypes
  <2>6. CASE Lose(f)
    BY <1>1, <2>6 DEF Lose
  <2> QED
    BY <1>4, <2>3, <2>4, <2>5, <2>6
<1>5. CASE \E r \in repairs : RepairTimeout(r)
  BY <1>1, <1>5 DEF RepairTimeout
<1>6. CASE \E n \in Node : Purge(n)
  BY <1>1, <1>6 DEF Purge
<1>7. CASE Break
  BY <1>1, <1>7 DEF Break
<1> QED
  BY <1>2, <1>3, <1>4, <1>5, <1>6, <1>7 DEF Next

(* AODV::AODV() and aodv_rt_entry::aodv_rt_entry() *)
LEMMA InitAgents ==
    ASSUME Init, NEW n \in Node
    PROVE  /\ IsAgent(node[n]) /\ node[n].me = n /\ node[n].out = {}
           /\ node[n].seqno = 2 /\ node[n].ok = TRUE /\ node[n].seen = {}
           /\ \A d \in Node : node[n].rt[d] = NewRoute
<1>1. node[n] = NewAgent(n)
  BY DEF Init
<1>2. NewRoute \in Route
  BY NetworkTypes DEF NewRoute, Route
<1>3. [d \in Node |-> NewRoute] \in [Node -> Route]
  BY <1>2
<1>4. NewRoute.flag # "UP"
  BY DEF NewRoute
<1>5. Untried(node[n])
  BY <1>1, <1>4 DEF NewAgent, Untried
<1>6. node[n] \in Agent(node[n].rqueue)
  BY <1>1, <1>3 DEF NewAgent, Agent
<1> QED
  BY <1>1, <1>5, <1>6 DEF NewAgent, IsAgent

LEMMA BasicInvariant == Spec => []Basic
<1>1. Init => Basic
  <2> SUFFICES ASSUME Init PROVE Basic
    OBVIOUS
  <2>1. \A n \in Node : /\ node[n] \in Agent(node[n].rqueue)
                        /\ node[n].me = n /\ node[n].out = {}
                        /\ Sane(node[n]) /\ Untried(node[n])
    <3> SUFFICES ASSUME NEW n \in Node
                 PROVE  /\ node[n] \in Agent(node[n].rqueue)
                        /\ node[n].me = n /\ node[n].out = {}
                        /\ Sane(node[n]) /\ Untried(node[n])
      OBVIOUS
    <3>1. /\ IsAgent(node[n]) /\ node[n].me = n /\ node[n].out = {}
          /\ \A d \in Node : node[n].rt[d] = NewRoute
      BY InitAgents
    <3>2. NewRoute.hops = Infinity
      BY DEF NewRoute
    <3> QED
      BY <3>1, <3>2 DEF IsAgent, Sane
  <2> QED
    BY <2>1 DEF Basic, TypeOK, Init
<1>2. Basic /\ [Next]_vars => Basic'
  <2> SUFFICES ASSUME Basic, [Next]_vars PROVE Basic'
    OBVIOUS
  <2>1. CASE Rest
    BY <2>1, OthersTyped DEF Rest, Basic, TypeOK, Sane, Untried
  <2>2. CASE \E n, t, m : Step(n, t, m)
    <3>1. PICK n, t, m : Step(n, t, m)
      BY <2>2
    <3>2. /\ DOMAIN node' = Node
          /\ \A x \in Node : /\ node'[x] \in Agent(node'[x].rqueue)
                             /\ node'[x].me = x /\ node'[x].out = {}
                             /\ Sane(node'[x]) /\ Untried(node'[x])
          /\ air' \subseteq [msg : Msg, by : Node, at : Node]
      BY <3>1, BasicStep
    <3> QED
      BY <3>2, OthersTyped DEF Basic, TypeOK, Sane, Untried
  <2> QED
    BY <2>1, <2>2, NextIsStep
<1> QED
  BY <1>1, <1>2, PTL DEF Spec

(* Every agent, message and timer has its type: in particular no route     *)
(* names a neighbour, and no error a destination, that is not a node.      *)
THEOREM TypeCorrect == Spec => []TypeOK
BY BasicInvariant, PTL DEF Basic

-----------------------------------------------------------------------------
(* Numbers come from their destinations.                                   *)

RouteNumbers ==
    \A n, d \in Node : LET r == node[n].rt[d]
                       IN Up(r) \/ Usable(r) => r.seq <= node[d].seqno
RequestNumbers ==
    \A f \in air : f.msg.kind = "RREQ" => f.msg.sseq <= node[f.msg.src].seqno
ReplyNumbers ==
    \A f \in air : f.msg.kind = "RREP" => f.msg.seq <= node[f.msg.dst].seqno

NumbersKnown == RouteNumbers /\ RequestNumbers /\ ReplyNumbers

(* The message of a Step is in the air, unless the agent is set going.     *)
LEMMA StepMessage ==
    ASSUME Basic, NEW n, NEW t, NEW m, Step(n, t, m),
           m.kind \notin {"NONE", "OVER"}
    PROVE  (\E f \in air : f.msg = m) /\ m \in Msg
<1>1. \E f \in air : f.msg = m
  BY DEF Step, HasCause, Idle, Over
<1> QED
  BY <1>1, FrameFields

(* A request, and a reply, that is in the air after a Step was there       *)
(* before, or it is sent.                                                  *)
LEMMA StepAir ==
    ASSUME Basic, NEW n, NEW t, NEW m, Step(n, t, m), NEW f \in air'
    PROVE  /\ f.msg \in Msg
           /\ f \in air \/ Sends(node[n], t, m, f.msg)
BY FrameFields DEF Step

(* The number of an agent never gets smaller. *)
LEMMA SeqnoGrows ==
    ASSUME Basic, NEW n, NEW t, NEW m, Step(n, t, m), NEW x \in Node
    PROVE  /\ node[x].seqno \in Nat /\ node'[x].seqno \in Nat
           /\ node[x].seqno <= node'[x].seqno
<1>1. /\ n \in Node /\ IsAgent(t) /\ node'[n].seqno = t.seqno
      /\ \A y \in Node \ {n} : node'[y] = node[y]
  BY StepAgents
<1>2. IsAgent(node[x]) /\ node[x].seqno \in Nat /\ t.seqno \in Nat
  BY <1>1, Agents, AgentFields
<1>3. t.seqno >= node[n].seqno
  BY DEF Step, Effect, NumberStep
<1> QED
  BY <1>1, <1>2, <1>3

LEMMA RouteNumbersStep ==
    ASSUME Basic, NumbersKnown, NEW n, NEW t, NEW m, Step(n, t, m)
    PROVE  RouteNumbers'
<1> SUFFICES ASSUME NEW x \in Node, NEW d \in Node,
                    Up(node'[x].rt[d]) \/ Usable(node'[x].rt[d])
             PROVE  node'[x].rt[d].seq <= node'[d].seqno
  BY DEF RouteNumbers, Up, Usable
<1>1. /\ n \in Node /\ IsAgent(t) /\ IsAgent(node[n]) /\ node'[n].rt = t.rt
      /\ \A y \in Node \ {n} : node'[y] = node[y]
  BY StepAgents
<1>2. /\ node[d].seqno \in Nat /\ node'[d].seqno \in Nat
      /\ node[d].seqno <= node'[d].seqno
  BY SeqnoGrows
<1>3. node[x].rt[d].seq \in Nat
  BY Agents, AgentFields, RouteFields
<1>4. CASE x # n
  BY <1>1, <1>2, <1>3, <1>4 DEF NumbersKnown, RouteNumbers
<1>5. CASE x = n
  <2> DEFINE r == node[n].rt[d]
             q == t.rt[d]
  <2>1. r.seq \in Nat /\ q.seq \in Nat
    BY <1>1, AgentFields, RouteFields
  <2>2. Up(q) \/ Usable(q)
    BY <1>1, <1>5
  <2>3. RouteStep(node[n], t, m, d)
    BY DEF Step, Effect
  <2>4. CASE SameRoute(r, q) \/ Repaired(node[n], t, m, d)
    <3>1. q.seq = r.seq /\ (Up(r) \/ Usable(r))
      BY <2>2, <2>4 DEF SameRoute, Repaired, IntoRepair, OutOfRepair, Up, Usable
    <3> QED
      BY <1>1, <1>2, <1>5, <2>1, <3>1 DEF NumbersKnown, RouteNumbers
  <2>5. CASE Lost(node[n], t, m, d)
    BY <2>2, <2>5 DEF Lost, Up, Usable
  <2>6. CASE Learnt(node[n], t, m, d)
    <3>1. /\ m.kind \in {"RREQ", "RREP"}
          /\ m.kind = "RREQ" => m.src = d /\ q.seq = m.sseq
          /\ m.kind = "RREP" => m.dst = d /\ q.seq = m.seq
      BY <2>6 DEF Learnt, Offers
    <3>2. PICK f \in air : f.msg = m
      BY <3>1, StepMessage
    <3>3. q.seq <= node[d].seqno
      BY <3>1, <3>2 DEF NumbersKnown, RequestNumbers, ReplyNumbers
    <3> QED
      BY <1>1, <1>2, <1>5, <2>1, <3>3
  <2> QED
    BY <2>3, <2>4, <2>5, <2>6 DEF RouteStep
<1> QED
  BY <1>4, <1>5

LEMMA NumbersKnownStep ==
    ASSUME Basic, NumbersKnown, NEW n, NEW t, NEW m, Step(n, t, m)
    PROVE  NumbersKnown'
<1>1. RouteNumbers'
  BY RouteNumbersStep
<1>2. /\ n \in Node /\ IsAgent(t) /\ IsAgent(node[n]) /\ node'[n].rt = t.rt
      /\ node'[n].seqno = t.seqno /\ node[n].me = n
  BY StepAgents, Agents
<1>3. RequestNumbers'
  <2> SUFFICES ASSUME NEW f \in air', f.msg.kind = "RREQ"
               PROVE  f.msg.sseq <= node'[f.msg.src].seqno
    BY DEF RequestNumbers
  <2>1. f.msg \in Msg /\ (f \in air \/ Sends(node[n], t, m, f.msg))
    BY StepAir
  <2>2. f.msg.src \in Node /\ f.msg.sseq \in Nat
    BY <2>1, KindsOfMsg DEF RequestMsg
  <2>3. /\ node[f.msg.src].seqno \in Nat /\ node'[f.msg.src].seqno \in Nat
        /\ node[f.msg.src].seqno <= node'[f.msg.src].seqno
    BY <2>2, SeqnoGrows
  <2>4. CASE f \in air
    BY <2>2, <2>3, <2>4 DEF NumbersKnown, RequestNumbers
  <2>5. CASE Sends(node[n], t, m, f.msg)
    <3>1. \/ OwnRequest(node[n], f.msg) /\ f.msg.sseq <= t.seqno
          \/ m.kind = "RREQ" /\ f.msg.src = m.src /\ f.msg.sseq = m.sseq
      BY <2>5, MsgKinds DEF Sends
    <3>2. CASE OwnRequest(node[n], f.msg) /\ f.msg.sseq <= t.seqno
      BY <1>2, <3>2 DEF OwnRequest
    <3>3. CASE m.kind = "RREQ" /\ f.msg.src = m.src /\ f.msg.sseq = m.sseq
      <4>1. PICK g \in air : g.msg = m
        BY <3>3, StepMessage
      <4>2. m.sseq <= node[m.src].seqno
        BY <3>3, <4>1 DEF NumbersKnown, RequestNumbers
      <4> QED
        BY <2>2, <2>3, <3>3, <4>2
    <3> QED
      BY <3>1, <3>2, <3>3
  <2> QED
    BY <2>1, <2>4, <2>5
<1>4. ReplyNumbers'
  <2> SUFFICES ASSUME NEW f \in air', f.msg.kind = "RREP"
               PROVE  f.msg.seq <= node'[f.msg.dst].seqno
    BY DEF ReplyNumbers
  <2>1. f.msg \in Msg /\ (f \in air \/ Sends(node[n], t, m, f.msg))
    BY StepAir
  <2>2. f.msg.dst \in Node /\ f.msg.seq \in Nat
    BY <2>1, KindsOfMsg DEF ReplyMsg
  <2>3. /\ node[f.msg.dst].seqno \in Nat /\ node'[f.msg.dst].seqno \in Nat
        /\ node[f.msg.dst].seqno <= node'[f.msg.dst].seqno
    BY <2>2, SeqnoGrows
  <2>4. CASE f \in air
    BY <2>2, <2>3, <2>4 DEF NumbersKnown, ReplyNumbers
  <2>5. CASE Sends(node[n], t, m, f.msg)
    <3>1. \/ f.msg.dst = node[n].me /\ f.msg.seq = t.seqno
          \/ LET r == t.rt[f.msg.dst]
             IN (Up(r) \/ Usable(r)) /\ f.msg.seq = r.seq
      BY <2>5, MsgKinds DEF Sends, OwnRequest
    <3>2. CASE f.msg.dst = node[n].me /\ f.msg.seq = t.seqno
      BY <1>2, <2>2, <3>2
    <3>3. CASE LET r == t.rt[f.msg.dst]
               IN (Up(r) \/ Usable(r)) /\ f.msg.seq = r.seq
      <4>1. /\ Up(node'[n].rt[f.msg.dst]) \/ Usable(node'[n].rt[f.msg.dst])
            /\ f.msg.seq = node'[n].rt[f.msg.dst].seq
        BY <1>2, <3>3
      <4> QED
        BY <1>1, <1>2, <2>2, <4>1 DEF RouteNumbers, Up, Usable
    <3> QED
      BY <3>1, <3>2, <3>3
  <2> QED
    BY <2>1, <2>4, <2>5
<1> QED
  BY <1>1, <1>3, <1>4 DEF NumbersKnown

LEMMA NumbersKnownInvariant == Spec => []NumbersKnown
<1>1. Init => NumbersKnown
  <2> SUFFICES ASSUME Init PROVE NumbersKnown
    OBVIOUS
  <2>1. \A n, d \in Node : node[n].rt[d] = NewRoute
    BY InitAgents
  <2>2. ~Up(NewRoute) /\ ~Usable(NewRoute)
    BY DEF NewRoute, Up, Usable
  <2>3. air = {}
    BY DEF Init
  <2> QED
    BY <2>1, <2>2, <2>3 DEF NumbersKnown, RouteNumbers, RequestNumbers, ReplyNumbers
<1>2. Basic /\ NumbersKnown /\ [Next]_vars => NumbersKnown'
  <2> SUFFICES ASSUME Basic, NumbersKnown, [Next]_vars PROVE NumbersKnown'
    OBVIOUS
  <2>1. CASE Rest
    BY <2>1 DEF Rest, NumbersKnown, RouteNumbers, RequestNumbers, ReplyNumbers,
                Up, Usable
  <2> QED
    BY <2>1, NextIsStep, NumbersKnownStep
<1> QED
  BY <1>1, <1>2, BasicInvariant, PTL DEF Spec

(* Whatever requests, replies, errors and repairs overtake each other, no  *)
(* node has a route that is up under a number beyond that of the           *)
(* destination: recvRequest() keeps the number it answers with.            *)
THEOREM NumbersComeFromDestination == Spec => []NumbersFromDestination
<1>1. NumbersKnown => NumbersFromDestination
  BY DEF NumbersKnown, RouteNumbers, NumbersFromDestination
<1> QED
  BY <1>1, NumbersKnownInvariant, PTL

-----------------------------------------------------------------------------
(* A repair ends.                                                          *)

(* rt_ll_failed() sets the timer of the repair that it begins, and the     *)
(* timer leaves no route under repair: packets are not held back for ever. *)
THEOREM RepairsAreTimed == Spec => []RepairTimed
<1>1. Init => RepairTimed
  <2>1. NewRoute.flag = "DOWN"
    BY DEF NewRoute
  <2> QED
    BY <2>1, InitAgents DEF RepairTimed
<1>2. Basic /\ RepairTimed /\ [Next]_vars => RepairTimed'
  <2> SUFFICES ASSUME Basic, RepairTimed, [Next]_vars PROVE RepairTimed'
    OBVIOUS
  <2>1. CASE Rest
    BY <2>1 DEF Rest, RepairTimed
  <2>2. ASSUME NEW n, NEW t, NEW m, Step(n, t, m),
               NEW x \in Node, NEW d \in Node,
               node'[x].rt[d].flag = "IN_REPAIR"
        PROVE  \E r \in repairs' : r.at = x /\ r.dst = d
    <3>1. /\ n \in Node /\ node'[n].rt = t.rt
          /\ \A y \in Node \ {n} : node'[y] = node[y]
      BY <2>2, StepAgents
    <3>2. \A r \in repairs \ repairs' :
             r.at = n /\ t.rt[r.dst].flag # "IN_REPAIR"
      BY <2>2 DEF Step, Timed
    <3>3. CASE node[x].rt[d].flag = "IN_REPAIR"
      <4>1. PICK r \in repairs : r.at = x /\ r.dst = d
        BY <3>3 DEF RepairTimed
      <4>2. r \in repairs'
        BY <2>2, <3>1, <3>2, <4>1
      <4> QED
        BY <4>1, <4>2
    <3>4. CASE node[x].rt[d].flag # "IN_REPAIR"
      <4>1. x = n
        BY <2>2, <3>1, <3>4
      <4>2. t.rt[d].flag = "IN_REPAIR" /\ node[n].rt[d].flag # "IN_REPAIR"
        BY <2>2, <3>1, <3>4, <4>1
      <4>3. RouteStep(node[n], t, m, d)
        BY <2>2 DEF Step, Effect
      <4>4. IntoRepair(node[n], t, m, d)
        BY <4>2, <4>3 DEF RouteStep, SameRoute, Learnt, Lost, Repaired,
                          OutOfRepair, Up
      <4>5. Up(node[n].rt[d])
        <5>1. node[n].rt[d] \in Route
          BY <3>1, Agents, AgentFields
        <5> QED
          BY <4>2, <4>4, <5>1, RouteFields DEF IntoRepair, Up
      <4> QED
        BY <2>2, <4>1, <4>4, <4>5 DEF Step, Timed, IntoRepair
    <3> QED
      BY <3>3, <3>4
  <2> QED
    BY <2>1, <2>2, NextIsStep DEF RepairTimed
<1> QED
  BY <1>1, <1>2, BasicInvariant, PTL DEF Spec

-----------------------------------------------------------------------------
(* A number is even while its route is up, or under repair.  It is odd     *)
(* while the route is down, until a local repair of routes to that         *)
(* destination fails: rt_down() then keeps the even number.                *)

GoodNumber(k) == k > 0 /\ k % 2 = 0
BadNumber(k) == k = 0 \/ k % 2 = 1

(* r, a route to d, holds its number rightly; the repairs of routes to the *)
(* destinations in F have failed.                                          *)
Tells(r, d, F) ==
    IF r.flag = "DOWN" THEN d \notin F => BadNumber(r.seq) ELSE GoodNumber(r.seq)

AgentsTell == \A n \in Node : /\ GoodNumber(node[n].seqno)
                              /\ \A d \in Node : Tells(node[n].rt[d], d, failed)

(* Requests and replies announce good numbers, errors bad ones. *)
Announces(x, F) ==
    /\ x.kind = "RREQ" => GoodNumber(x.sseq)
    /\ x.kind = "RREP" => GoodNumber(x.seq)
    /\ x.kind = "RERR" => \A d \in DOMAIN x.lost \ F : BadNumber(x.lost[d])

Parity == AgentsTell /\ \A f \in air : Announces(f.msg, failed)

(* A good number comes before a bad one that is not smaller. *)
LEMMA GoodBeforeBad ==
    ASSUME NEW a \in Nat, NEW b \in Nat, GoodNumber(a), BadNumber(b), a <= b
    PROVE  a < b
BY DEF GoodNumber, BadNumber

LEMMA NextOfGood ==
    ASSUME NEW a \in Nat, GoodNumber(a)
    PROVE  BadNumber(a + 1)
BY DEF GoodNumber, BadNumber

(* Routes that are lost were not down. *)
LEMMA LostWasUsed ==
    ASSUME NEW s, NEW t, NEW m, NEW d \in Node, NEW F, Sane(s),
           Tells(s.rt[d], d, F), Lost(s, t, m, d)
    PROVE  s.rt[d].flag # "DOWN" /\ GoodNumber(s.rt[d].seq)
BY DEF Sane, Tells, Lost, Up, Usable

(* A route keeps its number and its length while it comes under repair. *)
ComesUnderRepair(r, q) ==
    /\ r.flag # "DOWN" /\ q.flag = "IN_REPAIR"
    /\ q.seq = r.seq /\ q.hops = r.hops /\ q.next = r.next

(* What happens to a route to which no local repair has failed: nothing,   *)
(* or it is learnt, or it comes under repair, or it goes down under a      *)
(* larger number, a bad one.                                               *)
LEMMA RouteChange ==
    ASSUME Basic, Parity, NEW n, NEW t, NEW m, Step(n, t, m),
           NEW d \in Node \ failed'
    PROVE  LET r == node[n].rt[d]
               q == t.rt[d]
           IN /\ r \in Route /\ q \in Route
              /\ \/ SameRoute(r, q)
                 \/ Learnt(node[n], t, m, d)
                 \/ ComesUnderRepair(r, q)
                 \/ q.flag = "DOWN" /\ r.seq < q.seq /\ BadNumber(q.seq)
<1> DEFINE r == node[n].rt[d]
           q == t.rt[d]
<1>1. n \in Node /\ IsAgent(node[n]) /\ Sane(node[n]) /\ IsAgent(t)
  BY StepAgents, Agents
<1>2. r \in Route /\ q \in Route /\ r.seq \in Nat /\ q.seq \in Nat
  BY <1>1, AgentFields, RouteFields
<1>3. Tells(r, d, failed) /\ d \notin failed
  BY <1>1 DEF Parity, AgentsTell, Step, Timed
<1>4. RouteStep(node[n], t, m, d)
  BY DEF Step, Effect
<1>5. CASE Repaired(node[n], t, m, d)
  <2>1. ~OutOfRepair(node[n], t, m, d)
    BY DEF OutOfRepair, Step, Timed
  <2> QED
    BY <1>2, <1>5, <2>1 DEF Repaired, IntoRepair, ComesUnderRepair
<1>6. CASE Lost(node[n], t, m, d)
  <2>1. GoodNumber(r.seq) /\ q.flag = "DOWN"
    BY <1>1, <1>3, <1>6, LostWasUsed DEF Lost
  <2>2. CASE q.seq = r.seq + 1
    BY <1>2, <2>1, <2>2, NextOfGood
  <2>3. CASE /\ m.kind = "RERR" /\ d \in DOMAIN m.lost
             /\ q.seq = m.lost[d] /\ r.seq <= q.seq
    <3>1. PICK f \in air : f.msg = m
      BY <2>3, StepMessage
    <3>2. BadNumber(q.seq)
      BY <1>3, <2>3, <3>1 DEF Parity, Announces
    <3> QED
      BY <1>2, <2>1, <2>3, <3>2, GoodBeforeBad
  <2> QED
    BY <1>6, <1>2, <2>1, <2>2, <2>3 DEF Lost
<1> QED
  BY <1>2, <1>4, <1>5, <1>6 DEF RouteStep

(* The numbers of a message that is learnt from *)
LEMMA LearntFrom ==
    ASSUME Basic, NEW n, NEW t, NEW m, Step(n, t, m), NEW d \in Node,
           Learnt(node[n], t, m, d)
    PROVE  /\ \E f \in air : f.msg = m
           /\ \/ /\ m \in RequestMsg /\ m.kind = "RREQ" /\ d = m.src
                 /\ t.rt[d].seq = m.sseq
              \/ /\ m \in ReplyMsg /\ m.kind = "RREP" /\ d = m.dst
                 /\ t.rt[d].seq = m.seq
           /\ t.rt[d].hops = m.hops /\ t.rt[d].next = m.from /\ m.from \in Node
<1>1. \/ /\ m.kind = "RREQ" /\ d = m.src /\ t.rt[d].seq = m.sseq
      \/ /\ m.kind = "RREP" /\ d = m.dst /\ t.rt[d].seq = m.seq
  BY DEF Learnt, Offers
<1>2. t.rt[d].hops = m.hops /\ t.rt[d].next = m.from
  BY DEF Learnt, Offers
<1>3. (\E f \in air : f.msg = m) /\ m \in Msg
  BY <1>1, StepMessage
<1>4. /\ m.kind = "RREQ" => m \in RequestMsg
      /\ m.kind = "RREP" => m \in ReplyMsg
  BY <1>3, KindsOfMsg
<1>5. m.from \in Node
  BY <1>1, <1>4 DEF RequestMsg, ReplyMsg
<1> QED
  BY <1>1, <1>2, <1>3, <1>4, <1>5

LEMMA AgentsTellStep ==
    ASSUME Basic, Parity, NEW n, NEW t, NEW m, Step(n, t, m)
    PROVE  /\ \A x \in Node : GoodNumber(node'[x].seqno)
           /\ \A x, d \in Node : Tells(node'[x].rt[d], d, failed')
<1>1. /\ n \in Node /\ node'[n].rt = t.rt /\ node'[n].seqno = t.seqno
      /\ \A x \in Node \ {n} : node'[x] = node[x]
  BY StepAgents
<1>2. ASSUME NEW x \in Node PROVE GoodNumber(node'[x].seqno)
  <2>1. GoodNumber(node[x].seqno)
    BY DEF Parity, AgentsTell
  <2>2. /\ node[x].seqno \in Nat /\ node'[x].seqno \in Nat
        /\ node[x].seqno <= node'[x].seqno
    BY SeqnoGrows
  <2>3. x = n => node'[x].seqno % 2 = 0
    BY <1>1, <2>1 DEF Step, Effect, NumberStep, GoodNumber
  <2> QED
    BY <1>1, <2>1, <2>2, <2>3 DEF GoodNumber
<1>3. ASSUME NEW x \in Node, NEW d \in Node
      PROVE  Tells(node'[x].rt[d], d, failed')
  <2>1. Tells(node[x].rt[d], d, failed) /\ failed \subseteq failed'
    BY DEF Parity, AgentsTell, Step, Timed
  <2>2. CASE x # n
    BY <1>1, <2>1, <2>2 DEF Tells
  <2>3. CASE x = n
    <3> DEFINE r == node[n].rt[d]
               q == t.rt[d]
    <3>1. CASE q.flag = "DOWN"
      <4>1. CASE d \in failed'
        BY <1>1, <2>3, <3>1, <4>1 DEF Tells
      <4>2. CASE d \notin failed'
        <5>1. \/ SameRoute(r, q)
              \/ BadNumber(q.seq)
          BY <3>1, <4>2, RouteChange DEF Learnt, ComesUnderRepair, Up
        <5>2. SameRoute(r, q) => BadNumber(q.seq)
          BY <2>1, <2>3, <3>1, <4>2 DEF SameRoute, Tells
        <5> QED
          BY <1>1, <2>3, <3>1, <5>1, <5>2 DEF Tells
      <4> QED
        BY <4>1, <4>2
    <3>2. CASE q.flag # "DOWN"
      <4>1. \/ SameRoute(r, q) \/ IntoRepair(node[n], t, m, d)
            \/ Learnt(node[n], t, m, d)
        BY <1>1, <3>2 DEF Step, Effect, RouteStep, Lost, Repaired, OutOfRepair
      <4>2. CASE SameRoute(r, q) \/ IntoRepair(node[n], t, m, d)
        <5>1. r.flag # "DOWN" /\ q.seq = r.seq
          BY <3>2, <4>2 DEF SameRoute, IntoRepair
        <5> QED
          BY <1>1, <2>1, <2>3, <3>2, <5>1 DEF Tells
      <4>3. CASE Learnt(node[n], t, m, d)
        <5>1. PICK f \in air : f.msg = m
          BY <4>3, LearntFrom
        <5>2. GoodNumber(q.seq)
          BY <4>3, <5>1, LearntFrom DEF Parity, Announces
        <5> QED
          BY <1>1, <2>3, <3>2, <5>2 DEF Tells
      <4> QED
        BY <4>1, <4>2, <4>3
    <3> QED
      BY <3>1, <3>2
  <2> QED
    BY <2>2, <2>3
<1> QED
  BY <1>2, <1>3

(* A number of its own that a node requests or answers with is good. *)
LEMMA OwnNumberGood ==
    ASSUME NEW k \in Nat, GoodNumber(k), NEW i \in Nat
    PROVE  GoodNumber(k + 2 * i)
BY DEF GoodNumber

LEMMA AnnouncesStep ==
    ASSUME Basic, Parity, NEW n, NEW t, NEW m, Step(n, t, m),
           NEW f \in air'
    PROVE  Announces(f.msg, failed')
<1> DEFINE x == f.msg
           s == node[n]
<1>1. /\ n \in Node /\ IsAgent(s) /\ IsAgent(t) /\ node'[n].rt = t.rt
      /\ node'[n].seqno = t.seqno
  BY StepAgents
<1>2. x \in Msg /\ (f \in air \/ Sends(s, t, m, x))
  BY StepAir
<1>3. GoodNumber(s.seqno) /\ s.seqno \in Nat
  BY <1>1, AgentFields DEF Parity, AgentsTell
<1>4. GoodNumber(t.seqno) /\ \A d \in Node : Tells(t.rt[d], d, failed')
  BY <1>1, AgentsTellStep
<1>5. CASE f \in air
  <2>1. Announces(x, failed) /\ failed \subseteq failed'
    BY <1>5 DEF Parity, Step, Timed
  <2> QED
    BY <2>1 DEF Announces
<1>6. CASE Sends(s, t, m, x) /\ x.kind = "RREQ"
  <2>1. \/ OwnRequest(s, x)
        \/ m.kind = "RREQ" /\ x.sseq = m.sseq
    BY <1>6, MsgKinds DEF Sends
  <2>2. CASE OwnRequest(s, x)
    <3>1. PICK k \in Nat : x.sseq = s.seqno + 2 * k
      BY <2>2 DEF OwnRequest
    <3>2. GoodNumber(x.sseq)
      BY <1>3, <3>1, OwnNumberGood
    <3> QED
      BY <1>6, <3>2 DEF Announces
  <2>3. CASE m.kind = "RREQ" /\ x.sseq = m.sseq
    <3>1. PICK g \in air : g.msg = m
      BY <2>3, StepMessage
    <3>2. GoodNumber(x.sseq)
      BY <2>3, <3>1 DEF Parity, Announces
    <3> QED
      BY <1>6, <3>2 DEF Announces
  <2> QED
    BY <2>1, <2>2, <2>3
<1>7. CASE Sends(s, t, m, x) /\ x.kind = "RREP"
  <2>1. \/ x.seq = t.seqno
        \/ /\ x.dst \in Node /\ x.seq = t.rt[x.dst].seq
           /\ Up(t.rt[x.dst]) \/ Usable(t.rt[x.dst])
    BY <1>7, MsgKinds DEF Sends, OwnRequest
  <2>2. \A d \in Node : Sane(t) /\ t.rt[d].flag = "DOWN" => ~Usable(t.rt[d])
    BY DEF Sane, Usable
  <2>3. Sane(t)
    BY <1>1, Agents, EffectSane DEF Step
  <2>4. GoodNumber(x.seq)
    BY <1>4, <2>1, <2>2, <2>3 DEF Tells, Up
  <2> QED
    BY <1>7, <2>4 DEF Announces
<1>8. CASE Sends(s, t, m, x) /\ x.kind = "RERR"
  <2>1. \A d \in DOMAIN x.lost : /\ t.rt[d].flag = "DOWN"
                                 /\ x.lost[d] = t.rt[d].seq
    BY <1>8, MsgKinds DEF Sends, OwnRequest
  <2>2. \A d \in DOMAIN x.lost : d \in Node
    BY <1>2, <1>8, KindsOfMsg DEF ErrorMsg
  <2>3. \A d \in DOMAIN x.lost \ failed' : BadNumber(x.lost[d])
    BY <1>4, <2>1, <2>2 DEF Tells
  <2> QED
    BY <1>8, <2>3 DEF Announces
<1>9. CASE x.kind = "DATA"
  BY <1>9 DEF Announces
<1> QED
  BY <1>2, <1>5, <1>6, <1>7, <1>8, <1>9, KindsOfMsg DEF x

LEMMA ParityInvariant == Spec => []Parity
<1>1. Init => Parity
  <2> SUFFICES ASSUME Init PROVE Parity
    OBVIOUS
  <2>1. \A n \in Node : node[n].seqno = 2 /\ \A d \in Node : node[n].rt[d] = NewRoute
    BY InitAgents
  <2>2. GoodNumber(2) /\ \A d \in Node : Tells(NewRoute, d, failed)
    BY DEF Tells, NewRoute, BadNumber, GoodNumber
  <2>3. air = {}
    BY DEF Init
  <2> QED
    BY <2>1, <2>2, <2>3 DEF Parity, AgentsTell
<1>2. Basic /\ Parity /\ [Next]_vars => Parity'
  <2> SUFFICES ASSUME Basic, Parity, [Next]_vars PROVE Parity'
    OBVIOUS
  <2>1. CASE Rest
    BY <2>1 DEF Rest, Parity, AgentsTell
  <2>2. ASSUME NEW n, NEW t, NEW m, Step(n, t, m)
        PROVE  Parity'
    BY <2>2, AgentsTellStep, AnnouncesStep DEF Parity, AgentsTell
  <2> QED
    BY <2>1, <2>2, NextIsStep
<1> QED
  BY <1>1, <1>2, BasicInvariant, PTL DEF Spec

-----------------------------------------------------------------------------
(* Next hops know newer or shorter routes to those destinations to which   *)
(* no local repair has failed.                                             *)

(* A route with the number and the length of r is better than one with seq *)
(* and hops, or as good.                                                   *)
Newer(r, seq, hops) == r.seq > seq \/ (r.seq = seq /\ r.hops < hops)
AsGood(r, seq, hops) == r.seq > seq \/ (r.seq = seq /\ r.hops <= hops)

(* Who offers a route to d is d, or it has a better one itself. *)
Knows(n, d, seq, hops) == n = d \/ Newer(node[n].rt[d], seq, hops)

RoutesKnown ==
    \A n \in Node : \A d \in Node \ failed :
        LET r == node[n].rt[d]
        IN Up(r) /\ n # d => Knows(r.next, d, r.seq, r.hops)
OffersKnown ==
    \A f \in air :
        LET m == f.msg
        IN /\ m.kind = "RREQ" /\ m.src \notin failed
                 => Knows(m.from, m.src, m.sseq, m.hops)
           /\ m.kind = "RREP" /\ m.dst \notin failed
                 => Knows(m.from, m.dst, m.seq, m.hops)

(* The number and the length of a route only get better. *)
LEMMA RouteGrows ==
    ASSUME Basic, Parity, NEW n, NEW t, NEW m, Step(n, t, m), NEW x \in Node,
           NEW d \in Node \ failed', NEW seq \in Nat, NEW hops \in Nat
    PROVE  /\ Newer(node[x].rt[d], seq, hops) => Newer(node'[x].rt[d], seq, hops)
           /\ AsGood(node[x].rt[d], seq, hops) => AsGood(node'[x].rt[d], seq, hops)
<1>1. /\ n \in Node /\ node'[n].rt = t.rt
      /\ \A y \in Node \ {n} : node'[y] = node[y]
  BY StepAgents
<1>2. CASE x # n
  BY <1>1, <1>2
<1>3. CASE x = n
  <2> DEFINE r == node[n].rt[d]
             q == t.rt[d]
  <2>1. /\ r \in Route /\ q \in Route
        /\ \/ SameRoute(r, q)
           \/ Learnt(node[n], t, m, d)
           \/ ComesUnderRepair(r, q)
           \/ r.seq < q.seq
    BY RouteChange
  <2>2. r.seq \in Nat /\ r.hops \in Nat /\ q.seq \in Nat /\ q.hops \in Nat
    BY <2>1, RouteFields
  <2>3. \/ r.seq = q.seq /\ r.hops = q.hops
        \/ q.seq > r.seq \/ (q.seq = r.seq /\ q.hops < r.hops)
    BY <2>1, <2>2 DEF SameRoute, Learnt, ComesUnderRepair, Fresher
  <2> HIDE DEF r, q
  <2>4. /\ Newer(r, seq, hops) => Newer(q, seq, hops)
        /\ AsGood(r, seq, hops) => AsGood(q, seq, hops)
    BY <2>2, <2>3 DEF Newer, AsGood
  <2> QED
    BY <1>1, <1>3, <2>4 DEF r, q
<1> QED
  BY <1>2, <1>3

(* The fields of what offers routes *)
LEMMA OfferFields ==
    ASSUME NEW m \in Msg
    PROVE  /\ m.kind = "RREQ" => /\ m.src \in Node /\ m.sseq \in Nat
                                 /\ m.hops \in Nat /\ m.from \in Node
                                 /\ m.bid \in Nat
           /\ m.kind = "RREP" => /\ m.dst \in Node /\ m.seq \in Nat
                                 /\ m.hops \in Nat /\ m.from \in Node
<1>1. m.kind = "RREQ" => m \in RequestMsg
  BY KindsOfMsg
<1>2. m.kind = "RREP" => m \in ReplyMsg
  BY KindsOfMsg
<1> QED
  BY <1>1, <1>2 DEF RequestMsg, ReplyMsg

(* Who knows a route keeps knowing it. *)
LEMMA KnowsOn ==
    ASSUME Basic, Parity, NEW n, NEW t, NEW m, Step(n, t, m), NEW x \in Node,
           NEW d \in Node \ failed', NEW seq \in Nat, NEW hops \in Nat,
           Knows(x, d, seq, hops)
    PROVE  x = d \/ Newer(node'[x].rt[d], seq, hops)
BY RouteGrows DEF Knows

LEMMA RoutesKnownStep ==
    ASSUME Basic, Parity, RoutesKnown, OffersKnown,
           NEW n, NEW t, NEW m, Step(n, t, m)
    PROVE  RoutesKnown'
<1> SUFFICES ASSUME NEW x \in Node, NEW d \in Node \ failed',
                    Up(node'[x].rt[d]), x # d
             PROVE  \/ node'[x].rt[d].next = d
                    \/ Newer(node'[node'[x].rt[d].next].rt[d],
                             node'[x].rt[d].seq, node'[x].rt[d].hops)
  BY DEF RoutesKnown, Knows, Up, Newer
<1>1. /\ n \in Node /\ IsAgent(t) /\ node'[n].rt = t.rt
      /\ \A y \in Node \ {n} : node'[y] = node[y]
  BY StepAgents
<1>2. node[x].rt[d] \in Route /\ d \notin failed
  BY Agents, AgentFields DEF Step, Timed
<1>3. CASE /\ node'[x].rt[d].next = node[x].rt[d].next
           /\ node'[x].rt[d].seq = node[x].rt[d].seq
           /\ node'[x].rt[d].hops = node[x].rt[d].hops
           /\ Up(node[x].rt[d])
  <2>1. Knows(node[x].rt[d].next, d, node[x].rt[d].seq, node[x].rt[d].hops)
    BY <1>2, <1>3 DEF RoutesKnown
  <2> QED
    BY <1>2, <1>3, <2>1, RouteFields, KnowsOn
<1>4. CASE x # n
  BY <1>1, <1>3, <1>4
<1>5. CASE x = n
  <2>1. CASE SameRoute(node[n].rt[d], t.rt[d])
    BY <1>1, <1>3, <1>5, <2>1 DEF SameRoute, Up
  <2>2. CASE Learnt(node[n], t, m, d)
    <3>1. PICK f \in air : f.msg = m
      BY <2>2, LearntFrom
    <3>2. /\ m \in Msg
          /\ \/ m.kind = "RREQ" /\ d = m.src /\ t.rt[d].seq = m.sseq
             \/ m.kind = "RREP" /\ d = m.dst /\ t.rt[d].seq = m.seq
          /\ t.rt[d].hops = m.hops /\ t.rt[d].next = m.from /\ m.from \in Node
      BY <2>2, <3>1, LearntFrom, FrameFields
    <3>3. Knows(m.from, d, t.rt[d].seq, t.rt[d].hops)
      BY <1>2, <3>1, <3>2 DEF OffersKnown
    <3>4. t.rt[d].seq \in Nat /\ t.rt[d].hops \in Nat
      BY <3>2, OfferFields
    <3> QED
      BY <1>1, <1>5, <3>2, <3>3, <3>4, KnowsOn
  <2>3. CASE t.rt[d].flag \in {"DOWN", "IN_REPAIR"}
    BY <1>1, <1>5, <2>3 DEF Up
  <2> QED
    BY <2>1, <2>2, <2>3, RouteChange DEF ComesUnderRepair
<1> QED
  BY <1>4, <1>5

(* What is not better than a route is at most as good. *)
LEMMA NotFresher ==
    ASSUME NEW r \in Route, NEW seq \in Nat, NEW hops \in Nat,
           ~Fresher(seq, hops, r)
    PROVE  AsGood(r, seq, hops) /\ Newer(r, seq, hops + 1)
BY RouteFields DEF Fresher, AsGood, Newer

LEMMA OffersKnownStep ==
    ASSUME Basic, Parity, RoutesKnown, OffersKnown,
           NEW n, NEW t, NEW m, Step(n, t, m)
    PROVE  OffersKnown'
<1> SUFFICES ASSUME NEW f \in air'
             PROVE  /\ f.msg.kind = "RREQ" /\ f.msg.src \notin failed' =>
                         \/ f.msg.from = f.msg.src
                         \/ Newer(node'[f.msg.from].rt[f.msg.src],
                                  f.msg.sseq, f.msg.hops)
                    /\ f.msg.kind = "RREP" /\ f.msg.dst \notin failed' =>
                         \/ f.msg.from = f.msg.dst
                         \/ Newer(node'[f.msg.from].rt[f.msg.dst],
                                  f.msg.seq, f.msg.hops)
  BY DEF OffersKnown, Knows, Newer
<1> DEFINE x == f.msg
           s == node[n]
<1>1. /\ n \in Node /\ IsAgent(s) /\ IsAgent(t) /\ node'[n].rt = t.rt /\ s.me = n
  BY StepAgents, Agents
<1>2. x \in Msg /\ (f \in air \/ Sends(s, t, m, x))
  BY StepAir
<1>3. CASE f \in air
  <2>1. failed \subseteq failed'
    BY DEF Step, Timed
  <2>2. /\ x.kind = "RREQ" /\ x.src \notin failed'
             => Knows(x.from, x.src, x.sseq, x.hops)
        /\ x.kind = "RREP" /\ x.dst \notin failed'
             => Knows(x.from, x.dst, x.seq, x.hops)
    BY <1>3, <2>1 DEF OffersKnown
  <2> QED
    BY <1>2, <2>2, OfferFields, KnowsOn
<1>4. CASE Sends(s, t, m, x) /\ x.kind = "RREQ"
  <2>1. \/ OwnRequest(s, x)
        \/ /\ m.kind = "RREQ" /\ x.from = s.me /\ x.src = m.src
           /\ x.sseq = m.sseq /\ x.hops = m.hops + 1
           /\ ~Fresher(m.sseq, m.hops, t.rt[m.src])
    BY <1>4, MsgKinds DEF Sends
  <2>2. CASE OwnRequest(s, x)
    BY <1>4, <2>2 DEF OwnRequest
  <2>3. CASE /\ m.kind = "RREQ" /\ x.from = s.me /\ x.src = m.src
             /\ x.sseq = m.sseq /\ x.hops = m.hops + 1
             /\ ~Fresher(m.sseq, m.hops, t.rt[m.src])
    <3>1. m.src \in Node /\ m.sseq \in Nat /\ m.hops \in Nat
      BY <2>3, StepMessage, OfferFields
    <3>2. t.rt[m.src] \in Route
      BY <1>1, <3>1, AgentFields
    <3>3. Newer(t.rt[m.src], m.sseq, m.hops + 1)
      BY <2>3, <3>1, <3>2, NotFresher
    <3> QED
      BY <1>1, <1>4, <2>3, <3>3
  <2> QED
    BY <2>1, <2>2, <2>3
<1>5. CASE Sends(s, t, m, x) /\ x.kind = "RREP"
  <2>1. /\ x.from = n
        /\ \/ x.dst = n
           \/ /\ x.dst \in Node /\ x.seq = t.rt[x.dst].seq
              /\ x.hops = t.rt[x.dst].hops + 1
    BY <1>1, <1>5, MsgKinds DEF Sends, OwnRequest
  <2>2. CASE x.dst = n
    BY <1>5, <2>1, <2>2
  <2>3. CASE /\ x.dst \in Node /\ x.seq = t.rt[x.dst].seq
             /\ x.hops = t.rt[x.dst].hops + 1
    <3>1. t.rt[x.dst].seq \in Nat /\ t.rt[x.dst].hops \in Nat
      BY <1>1, <2>3, AgentFields, RouteFields
    <3>2. Newer(t.rt[x.dst], x.seq, x.hops)
      BY <2>3, <3>1 DEF Newer
    <3> QED
      BY <1>1, <1>5, <2>1, <3>2
  <2> QED
    BY <2>1, <2>2, <2>3
<1> QED
  BY <1>2, <1>3, <1>4, <1>5

LEMMA KnownInvariant == Spec => [](RoutesKnown /\ OffersKnown)
<1> DEFINE Known == RoutesKnown /\ OffersKnown
<1>1. Init => Known
  <2> SUFFICES ASSUME Init PROVE Known
    OBVIOUS
  <2>1. \A n, d \in Node : node[n].rt[d] = NewRoute
    BY InitAgents
  <2>2. ~Up(NewRoute)
    BY DEF NewRoute, Up
  <2>3. air = {}
    BY DEF Init
  <2> QED
    BY <2>1, <2>2, <2>3 DEF RoutesKnown, OffersKnown
<1>2. Basic /\ Parity /\ Known /\ [Next]_vars => Known'
  <2> SUFFICES ASSUME Basic, Parity, Known, [Next]_vars PROVE Known'
    OBVIOUS
  <2>1. CASE Rest
    BY <2>1 DEF Rest, RoutesKnown, OffersKnown, Knows, Newer, Up
  <2>2. ASSUME NEW n, NEW t, NEW m, Step(n, t, m)
        PROVE  Known'
    BY <2>2, RoutesKnownStep, OffersKnownStep
  <2> QED
    BY <2>1, <2>2, NextIsStep
<1>3. Spec => []Parity
  BY ParityInvariant
<1> HIDE DEF Known
<1>4. Spec => []Known
  BY <1>1, <1>2, <1>3, BasicInvariant, PTL DEF Spec
<1> QED
  BY <1>4 DEF Known

(* Until a local repair of routes to a destination fails and rt_down()     *)
(* keeps its number, every next hop on the way to it knows a newer route   *)
(* than the node that uses it, or as new and shorter, whatever floods,     *)
(* replies, errors and repairs overtake each other.                        *)
THEOREM NextHopsAreFresher == Spec => []NextHopFresher
<1>1. RoutesKnown => NextHopFresher
  BY DEF RoutesKnown, NextHopFresher, Knows, Newer, Fresher
<1>2. Spec => [](RoutesKnown /\ OffersKnown)
  BY KnownInvariant
<1> QED
  BY <1>1, <1>2, PTL

-----------------------------------------------------------------------------
(* No loops.                                                               *)

(* Until a local repair of routes to d fails, routes that are up never     *)
(* lead round in a circle: no set of nodes other than d passes data for d  *)
(* only among its own members, as recv() and forward() would do for ever.  *)
NoRoutingLoop ==
    \A d \in Node \ failed : \A S \in SUBSET (Node \ {d}) :
        (\A n \in S : Up(node[n].rt[d]) /\ node[n].rt[d].next \in S) => S = {}

(* The order of the natural numbers, as a well-founded relation.           *)
LEMMA NatOrder ==
    \E R : /\ IsWellFoundedOn(R, Nat)
           /\ \A a, b \in Nat : a < b => <<a, b>> \in R
<1>1. IsWellFoundedOn(OpToRel(<, Nat), Nat)
  BY NatLessThanWellFounded, Zenon
<1>2. \A a, b \in Nat : a < b => <<a, b>> \in OpToRel(<, Nat)
  BY SMT DEF OpToRel
<1> QED
  BY <1>1, <1>2, Zenon

(* A nonempty set of natural numbers has a least element.                  *)
LEMMA LeastNumber ==
    ASSUME NEW S, S \subseteq Nat, S # {}
    PROVE  \E x \in S : \A y \in S : x <= y
<1>1. PICK R : /\ IsWellFoundedOn(R, Nat)
               /\ \A a, b \in Nat : a < b => <<a, b>> \in R
  BY NatOrder
<1>2. PICK x \in S : \A y \in S : ~(<<y, x>> \in R)
  <2>1. IsWellFoundedOn(R, Nat)
    BY <1>1, Zenon
  <2>2. \E x \in S : \A y \in S : ~(<<y, x>> \in R)
    BY ONLY <2>1, S \subseteq Nat, S # {}, WFMin, ZenonT(60)
  <2> QED
    BY <2>2, Zenon
<1>3. ASSUME NEW y \in S PROVE x <= y
  <2>1. x \in Nat /\ y \in Nat
    OBVIOUS
  <2>2. ~(y < x)
    BY <1>1, <1>2, <2>1
  <2> QED
    BY <2>1, <2>2
<1> QED
  BY <1>3

(* Among nodes whose routes to d are up there is one with a best route:    *)
(* its number is nearest to that of d, and of those it is the shortest.    *)
LEMMA BestRoute ==
    ASSUME Basic, RouteNumbers, NEW d \in Node, NEW S \in SUBSET Node, S # {},
           \A n \in S : Up(node[n].rt[d])
    PROVE  \E n \in S : \A x \in S :
              ~Newer(node[x].rt[d], node[n].rt[d].seq, node[n].rt[d].hops)
<1> DEFINE seq(n) == node[n].rt[d].seq
           hops(n) == node[n].rt[d].hops
           age(n) == node[d].seqno - seq(n)
           ages == {age(n) : n \in S}
<1>1. node[d].seqno \in Nat
  BY Agents, AgentFields
<1>2. \A n \in S : seq(n) \in Nat /\ hops(n) \in Nat /\ age(n) \in Nat
  <2> SUFFICES ASSUME NEW n \in S
               PROVE  seq(n) \in Nat /\ hops(n) \in Nat /\ age(n) \in Nat
    OBVIOUS
  <2>1. seq(n) \in Nat /\ hops(n) \in Nat
    BY Agents, AgentFields, RouteFields
  <2>2. seq(n) <= node[d].seqno
    BY DEF RouteNumbers
  <2> QED
    BY <1>1, <2>1, <2>2
<1> HIDE DEF seq, hops
<1>3. PICK a \in ages : \A x \in ages : a <= x
  <2>1. ages # {} /\ ages \subseteq Nat
    BY <1>2
  <2> QED
    BY <2>1, LeastNumber
<1> DEFINE newest == {n \in S : age(n) = a}
           lengths == {hops(n) : n \in newest}
<1>4. PICK h \in lengths : \A x \in lengths : h <= x
  <2>1. lengths # {} /\ lengths \subseteq Nat
    BY <1>2, <1>3
  <2> QED
    BY <2>1, LeastNumber
<1>5. PICK n \in newest : hops(n) = h
  BY <1>4
<1>6. ASSUME NEW x \in S
      PROVE  ~(seq(x) > seq(n) \/ (seq(x) = seq(n) /\ hops(x) < hops(n)))
  <2>1. age(n) = a /\ a <= age(x) /\ n \in S
    BY <1>3, <1>5
  <2>2. seq(x) <= seq(n)
    BY <1>1, <1>2, <2>1
  <2>3. CASE seq(x) = seq(n)
    <3>1. x \in newest
      BY <2>1, <2>3
    <3>2. h <= hops(x)
      BY <1>4, <3>1
    <3> QED
      BY <1>2, <1>5, <2>1, <2>3, <3>2
  <2>4. CASE seq(x) # seq(n)
    BY <1>2, <2>1, <2>2, <2>4
  <2> QED
    BY <2>3, <2>4
<1> QED
  BY <1>5, <1>6 DEF Newer, seq, hops

(* There is no loop in a network of any size, whether routes are repaired  *)
(* locally (AODV_LOCAL_REPAIR) or not, as long as no such repair has       *)
(* failed: the best route of a loop would have a next hop with a better    *)
(* one.                                                                    *)
THEOREM RoutesAreAcyclic == Spec => []NoRoutingLoop
<1>1. Basic /\ NumbersKnown /\ RoutesKnown => NoRoutingLoop
  <2> SUFFICES ASSUME Basic, RouteNumbers, RoutesKnown,
                      NEW d \in Node \ failed,
                      NEW S \in SUBSET (Node \ {d}), S # {},
                      \A n \in S : Up(node[n].rt[d]) /\ node[n].rt[d].next \in S
               PROVE  FALSE
    BY DEF NoRoutingLoop, NumbersKnown
  <2>1. PICK n \in S : \A x \in S :
           ~Newer(node[x].rt[d], node[n].rt[d].seq, node[n].rt[d].hops)
    BY BestRoute
  <2>2. Knows(node[n].rt[d].next, d, node[n].rt[d].seq, node[n].rt[d].hops)
    BY DEF RoutesKnown
  <2> QED
    BY <2>1, <2>2 DEF Knows
<1>2. Spec => [](RoutesKnown /\ OffersKnown)
  BY KnownInvariant
<1> QED
  BY <1>1, <1>2, BasicInvariant, NumbersKnownInvariant, PTL

-----------------------------------------------------------------------------
(* A route of k hops has k nodes that vouch for it, and so no route is as  *)
(* long as INFINITY2, until a local repair to its destination fails.       *)

(* The nodes that have a route to d as good as seq and hops say; a is the  *)
(* agents.                                                                 *)
Holders(a, d, seq, hops) == {x \in Node : AsGood(a[x].rt[d], seq, hops)}

(* Those of them that have seen the request m *)
Relays(a, m) ==
    {x \in Holders(a, m.src, m.sseq, m.hops - 1) : <<m.src, m.bid>> \in a[x].seen}

RoutesCounted ==
    \A n \in Node : \A d \in Node \ failed :
        LET r == node[n].rt[d]
        IN r.flag # "DOWN" => Cardinality(Holders(node, d, r.seq, r.hops)) >= r.hops
OffersCounted ==
    \A f \in air :
        LET m == f.msg
        IN /\ m.kind = "RREQ" /\ m.src \notin failed =>
                 m.hops >= 1 /\ Cardinality(Relays(node, m)) >= m.hops - 1
           /\ m.kind = "RREP" /\ m.dst \notin failed =>
                 /\ m.hops >= 1
                 /\ Cardinality(Holders(node, m.dst, m.seq, m.hops - 1)) >= m.hops - 1

(* Cardinalities of sets of nodes *)
LEMMA Count ==
    ASSUME NEW S, NEW T, S \subseteq T, T \subseteq Node
    PROVE  /\ Cardinality(S) \in Nat /\ Cardinality(T) \in Nat
           /\ Cardinality(S) <= Cardinality(T)
<1>1. IsFiniteSet(T)
  BY NodeAssumption, FS_Subset
<1> QED
  BY <1>1, FS_Subset, FS_CardinalityType

LEMMA CountOneMore ==
    ASSUME NEW S, NEW T, S \subseteq T, T \subseteq Node, NEW x \in T, x \notin S
    PROVE  /\ Cardinality(S) \in Nat /\ Cardinality(T) \in Nat
           /\ Cardinality(S) + 1 <= Cardinality(T)
<1>1. IsFiniteSet(S)
  <2>1. S \subseteq Node
    OBVIOUS
  <2> QED
    BY <2>1, NodeAssumption, FS_Subset
<1>2. Cardinality(S \cup {x}) = Cardinality(S) + 1
  BY <1>1, FS_AddElement
<1>3. S \cup {x} \subseteq T
  OBVIOUS
<1>4. /\ Cardinality(S \cup {x}) \in Nat /\ Cardinality(T) \in Nat
      /\ Cardinality(S \cup {x}) <= Cardinality(T)
  BY <1>3, Count
<1>5. Cardinality(S) \in Nat
  BY <1>1, FS_CardinalityType
<1> QED
  BY <1>2, <1>4, <1>5

(* A node that vouches for a route goes on doing so. *)
LEMMA HoldersGrow ==
    ASSUME Basic, Parity, NEW n, NEW t, NEW m, Step(n, t, m),
           NEW d \in Node \ failed', NEW seq \in Nat, NEW hops \in Nat
    PROVE  Holders(node, d, seq, hops) \subseteq Holders(node', d, seq, hops)
BY RouteGrows DEF Holders

LEMMA SeenGrows ==
    ASSUME Basic, NEW n, NEW t, NEW m, Step(n, t, m), NEW x \in Node
    PROVE  node[x].seen \subseteq node'[x].seen
BY StepAgents DEF Step, Effect

LEMMA RelaysGrow ==
    ASSUME Basic, Parity, NEW n, NEW t, NEW m, Step(n, t, m),
           NEW x, x.src \in Node \ failed', x.sseq \in Nat, x.hops \in Nat, x.hops >= 1
    PROVE  Relays(node, x) \subseteq Relays(node', x)
<1>1. x.hops - 1 \in Nat
  OBVIOUS
<1>2. Holders(node, x.src, x.sseq, x.hops - 1)
        \subseteq Holders(node', x.src, x.sseq, x.hops - 1)
  BY <1>1, HoldersGrow
<1>3. \A y \in Holders(node, x.src, x.sseq, x.hops - 1) : y \in Node
  BY DEF Holders
<1>4. \A y \in Node : node[y].seen \subseteq node'[y].seen
  BY SeenGrows
<1> QED
  BY <1>2, <1>3, <1>4 DEF Relays

(* A longer route is vouched for by those that vouch for a shorter one. *)
LEMMA HoldersOfLonger ==
    ASSUME Basic, NEW d \in Node, NEW seq \in Nat, NEW hops \in Nat, hops >= 1
    PROVE  Holders(node, d, seq, hops - 1) \subseteq Holders(node, d, seq, hops)
<1> SUFFICES ASSUME NEW x \in Node, AsGood(node[x].rt[d], seq, hops - 1)
             PROVE  AsGood(node[x].rt[d], seq, hops)
  BY DEF Holders
<1>1. node[x].rt[d].seq \in Nat /\ node[x].rt[d].hops \in Nat
  BY Agents, AgentFields, RouteFields
<1> QED
  BY <1>1 DEF AsGood

(* What a reply, or the first copy of a request, offers to a node that has *)
(* nothing as good is vouched for by others.                               *)
LEMMA OfferedByOthers ==
    ASSUME Basic, OffersCounted, NEW n \in Node, NEW f \in air,
           NEW d \in Node \ failed, NEW seq \in Nat,
           \/ /\ f.msg.kind = "RREQ" /\ d = f.msg.src /\ seq = f.msg.sseq
              /\ <<f.msg.src, f.msg.bid>> \notin node[n].seen
           \/ /\ f.msg.kind = "RREP" /\ d = f.msg.dst /\ seq = f.msg.seq
              /\ Fresher(seq, f.msg.hops, node[n].rt[d])
    PROVE  /\ f.msg.hops \in Nat /\ f.msg.hops >= 1
           /\ \E S \in SUBSET (Node \ {n}) :
                 /\ S \subseteq Holders(node, d, seq, f.msg.hops)
                 /\ Cardinality(S) >= f.msg.hops - 1
<1> DEFINE m == f.msg
           H == Holders(node, d, seq, m.hops - 1)
<1>1. m \in Msg /\ m.hops \in Nat
  BY FrameFields, OfferFields
<1>2. m.hops >= 1
  BY DEF OffersCounted
<1>3. H \subseteq Holders(node, d, seq, m.hops) /\ H \subseteq Node
  BY <1>1, <1>2, HoldersOfLonger DEF Holders
<1>4. CASE /\ m.kind = "RREQ" /\ d = m.src /\ seq = m.sseq
           /\ <<m.src, m.bid>> \notin node[n].seen
  <2>1. Relays(node, m) \subseteq H /\ n \notin Relays(node, m)
    BY <1>4 DEF Relays
  <2>2. Cardinality(Relays(node, m)) >= m.hops - 1
    BY <1>4 DEF OffersCounted
  <2> QED
    BY <1>1, <1>2, <1>3, <2>1, <2>2
<1>5. CASE /\ m.kind = "RREP" /\ d = m.dst /\ seq = m.seq
           /\ Fresher(seq, m.hops, node[n].rt[d])
  <2>1. node[n].rt[d].seq \in Nat /\ node[n].rt[d].hops \in Nat
    BY Agents, AgentFields, RouteFields
  <2>2. n \notin H
    BY <1>1, <1>5, <2>1 DEF Holders, AsGood, Fresher
  <2>3. Cardinality(H) >= m.hops - 1
    BY <1>5 DEF OffersCounted
  <2> QED
    BY <1>1, <1>2, <1>3, <2>2, <2>3
<1> QED
  BY <1>4, <1>5

LEMMA RoutesCountedStep ==
    ASSUME Basic, Parity, RoutesCounted, OffersCounted,
           NEW n, NEW t, NEW m, Step(n, t, m)
    PROVE  \A x \in Node : \A d \in Node \ failed' :
              LET r == node'[x].rt[d]
              IN r.flag # "DOWN" => Cardinality(Holders(node', d, r.seq, r.hops)) >= r.hops
<1> SUFFICES ASSUME NEW x \in Node, NEW d \in Node \ failed',
                    node'[x].rt[d].flag # "DOWN"
             PROVE  Cardinality(Holders(node', d, node'[x].rt[d].seq,
                                        node'[x].rt[d].hops))
                      >= node'[x].rt[d].hops
  OBVIOUS
<1>1. /\ n \in Node /\ IsAgent(t) /\ node'[n].rt = t.rt
      /\ \A y \in Node \ {n} : node'[y] = node[y]
  BY StepAgents
<1>2. d \notin failed
  BY DEF Step, Timed
<1>3. ASSUME NEW seq \in Nat, NEW hops \in Nat,
             Cardinality(Holders(node, d, seq, hops)) >= hops
      PROVE  Cardinality(Holders(node', d, seq, hops)) >= hops
  <2>1. Holders(node, d, seq, hops) \subseteq Holders(node', d, seq, hops)
    BY HoldersGrow
  <2>2. Holders(node', d, seq, hops) \subseteq Node
    BY DEF Holders
  <2> HIDE DEF Holders
  <2>3. /\ Cardinality(Holders(node, d, seq, hops)) \in Nat
        /\ Cardinality(Holders(node', d, seq, hops)) \in Nat
        /\ Cardinality(Holders(node, d, seq, hops))
             <= Cardinality(Holders(node', d, seq, hops))
    BY <2>1, <2>2, Count
  <2> QED
    BY <1>3, <2>3
<1>4. CASE /\ node'[x].rt[d].seq = node[x].rt[d].seq
           /\ node'[x].rt[d].hops = node[x].rt[d].hops
           /\ node[x].rt[d].flag # "DOWN"
  <2>1. node[x].rt[d].seq \in Nat /\ node[x].rt[d].hops \in Nat
    BY Agents, AgentFields, RouteFields
  <2>2. Cardinality(Holders(node, d, node[x].rt[d].seq, node[x].rt[d].hops))
          >= node[x].rt[d].hops
    BY <1>4, <1>2 DEF RoutesCounted
  <2> QED
    BY <1>3, <1>4, <2>1, <2>2
<1>5. CASE x # n
  BY <1>1, <1>4, <1>5
<1>6. CASE x = n
  <2>1. CASE \/ SameRoute(node[n].rt[d], t.rt[d])
             \/ ComesUnderRepair(node[n].rt[d], t.rt[d])
    BY <1>1, <1>4, <1>6, <2>1 DEF SameRoute, ComesUnderRepair
  <2>2. CASE Learnt(node[n], t, m, d)
    <3> DEFINE q == t.rt[d]
    <3>1. PICK f \in air : f.msg = m
      BY <2>2, LearntFrom
    <3>2. /\ \/ m.kind = "RREQ" /\ d = m.src /\ q.seq = m.sseq
             \/ m.kind = "RREP" /\ d = m.dst /\ q.seq = m.seq
          /\ q.hops = m.hops
      BY <2>2, LearntFrom
    <3>3. q.seq \in Nat /\ q.hops \in Nat
      BY <1>1, AgentFields, RouteFields
    <3>4. /\ m.kind = "RREQ" => <<m.src, m.bid>> \notin node[n].seen
          /\ m.kind = "RREP" => Fresher(q.seq, m.hops, node[n].rt[d])
      BY <2>2, <3>2 DEF Learnt
    <3> HIDE DEF q
    <3>5. PICK S \in SUBSET (Node \ {n}) :
             /\ S \subseteq Holders(node, d, q.seq, m.hops)
             /\ Cardinality(S) >= m.hops - 1
      BY <1>1, <1>2, <3>1, <3>2, <3>3, <3>4, OfferedByOthers
    <3> DEFINE T == Holders(node', d, q.seq, q.hops)
    <3>6. Holders(node, d, q.seq, q.hops) \subseteq T
      BY <3>3, HoldersGrow
    <3>7. n \in T /\ T \subseteq Node
      BY <1>1, <3>3 DEF Holders, AsGood, q
    <3> HIDE DEF T
    <3>8. S \subseteq T /\ n \notin S
      BY <3>2, <3>5, <3>6
    <3>9. /\ Cardinality(S) \in Nat /\ Cardinality(T) \in Nat
          /\ Cardinality(S) + 1 <= Cardinality(T)
      BY <3>7, <3>8, CountOneMore
    <3>10. Cardinality(T) >= q.hops
      BY <3>2, <3>3, <3>5, <3>9
    <3> QED
      BY <1>1, <1>6, <3>10 DEF T, q
  <2>3. CASE t.rt[d].flag = "DOWN"
    BY <1>1, <1>6, <2>3
  <2> QED
    BY <2>1, <2>2, <2>3, RouteChange
<1> QED
  BY <1>5, <1>6

LEMMA OffersCountedStep ==
    ASSUME Basic, Parity, RoutesCounted, OffersCounted,
           NEW n, NEW t, NEW m, Step(n, t, m), NEW f \in air'
    PROVE  LET x == f.msg
           IN /\ x.kind = "RREQ" /\ x.src \notin failed' =>
                    x.hops >= 1 /\ Cardinality(Relays(node', x)) >= x.hops - 1
              /\ x.kind = "RREP" /\ x.dst \notin failed' =>
                    /\ x.hops >= 1
                    /\ Cardinality(Holders(node', x.dst, x.seq, x.hops - 1))
                         >= x.hops - 1
<1> DEFINE x == f.msg
           s == node[n]
<1>1. /\ n \in Node /\ IsAgent(s) /\ IsAgent(t) /\ s.me = n
      /\ node'[n].rt = t.rt /\ node'[n].seen = t.seen
  BY StepAgents, Agents
<1>2. x \in Msg /\ (f \in air \/ Sends(s, t, m, x))
  BY StepAir
<1>3. failed \subseteq failed'
  BY DEF Step, Timed
<1>4. /\ Relays(node', x) \subseteq Node
      /\ \A d, seq, hops : Holders(node', d, seq, hops) \subseteq Node
  BY DEF Relays, Holders
<1>5. ASSUME f \in air, x.kind = "RREQ", x.src \notin failed'
      PROVE  x.hops >= 1 /\ Cardinality(Relays(node', x)) >= x.hops - 1
  <2>1. x.hops >= 1 /\ Cardinality(Relays(node, x)) >= x.hops - 1
    BY <1>5, <1>3 DEF OffersCounted
  <2>2. x.src \in Node /\ x.sseq \in Nat /\ x.hops \in Nat
    BY <1>2, <1>5, OfferFields
  <2>3. Relays(node, x) \subseteq Relays(node', x)
    BY <1>5, <2>1, <2>2, RelaysGrow
  <2>4. /\ Cardinality(Relays(node, x)) \in Nat
        /\ Cardinality(Relays(node', x)) \in Nat
        /\ Cardinality(Relays(node, x)) <= Cardinality(Relays(node', x))
    BY <1>4, <2>3, Count
  <2> QED
    BY <2>1, <2>2, <2>4
<1>6. ASSUME f \in air, x.kind = "RREP", x.dst \notin failed'
      PROVE  /\ x.hops >= 1
             /\ Cardinality(Holders(node', x.dst, x.seq, x.hops - 1))
                  >= x.hops - 1
  <2> DEFINE S == Holders(node, x.dst, x.seq, x.hops - 1)
             T == Holders(node', x.dst, x.seq, x.hops - 1)
  <2>1. x.hops >= 1 /\ Cardinality(S) >= x.hops - 1
    BY <1>6, <1>3 DEF OffersCounted
  <2>2. x.dst \in Node /\ x.seq \in Nat /\ x.hops \in Nat /\ x.hops - 1 \in Nat
    BY <1>2, <1>6, <2>1, OfferFields
  <2>3. S \subseteq T /\ T \subseteq Node
    BY <1>4, <1>6, <2>2, HoldersGrow
  <2> HIDE DEF S, T
  <2>4. Cardinality(S) \in Nat /\ Cardinality(T) \in Nat /\ Cardinality(S) <= Cardinality(T)
    BY <2>3, Count
  <2>5. Cardinality(T) >= x.hops - 1
    BY <2>1, <2>2, <2>4
  <2> QED
    BY <2>1, <2>5 DEF T
<1>7. ASSUME Sends(s, t, m, x), x.kind = "RREQ", x.src \notin failed'
      PROVE  x.hops >= 1 /\ Cardinality(Relays(node', x)) >= x.hops - 1
  <2>1. \/ OwnRequest(s, x)
        \/ /\ m.kind = "RREQ" /\ x.from = s.me /\ x.src = m.src
           /\ x.bid = m.bid /\ x.sseq = m.sseq /\ x.hops = m.hops + 1
           /\ <<m.src, m.bid>> \in t.seen \ s.seen
           /\ ~Fresher(m.sseq, m.hops, t.rt[m.src])
    BY <1>7, MsgKinds DEF Sends
  <2>2. CASE OwnRequest(s, x)
    <3>1. x.hops = 1 /\ Cardinality(Relays(node', x)) \in Nat
      BY <1>4, <2>2, Count DEF OwnRequest
    <3> QED
      BY <3>1
  <2>3. CASE /\ m.kind = "RREQ" /\ x.src = m.src
             /\ x.bid = m.bid /\ x.sseq = m.sseq /\ x.hops = m.hops + 1
             /\ <<m.src, m.bid>> \in t.seen \ s.seen
             /\ ~Fresher(m.sseq, m.hops, t.rt[m.src])
    <3>1. PICK g \in air : g.msg = m
      BY <2>3, StepMessage
    <3>2. m.src \in Node /\ m.sseq \in Nat /\ m.hops \in Nat
      BY <2>3, StepMessage, OfferFields
    <3>3. m.hops >= 1 /\ Cardinality(Relays(node, m)) >= m.hops - 1
      BY <1>7, <1>3, <2>3, <3>1 DEF OffersCounted
    <3>4. AsGood(t.rt[m.src], m.sseq, m.hops)
      BY <1>1, <2>3, <3>2, AgentFields, NotFresher
    <3>5. x.hops - 1 = m.hops
      BY <2>3, <3>2
    <3>6. n \in Relays(node', x) /\ n \notin Relays(node, m)
      BY <1>1, <2>3, <3>4, <3>5 DEF Relays, Holders
    <3>7. ASSUME NEW y \in Relays(node, m)
          PROVE  y \in Relays(node', x)
      <4>1. /\ y \in Node /\ y \in Holders(node, m.src, m.sseq, m.hops - 1)
            /\ <<m.src, m.bid>> \in node[y].seen
        BY DEF Relays, Holders
      <4>2. y \in Holders(node, m.src, m.sseq, m.hops)
        BY <3>2, <3>3, <4>1, HoldersOfLonger
      <4>3. y \in Holders(node', m.src, m.sseq, m.hops)
        BY <1>7, <2>3, <3>2, <4>2, HoldersGrow
      <4>4. <<m.src, m.bid>> \in node'[y].seen
        BY <4>1, SeenGrows
      <4> QED
        BY <2>3, <3>5, <4>3, <4>4 DEF Relays
    <3>8. /\ Cardinality(Relays(node, m)) \in Nat
          /\ Cardinality(Relays(node', x)) \in Nat
          /\ Cardinality(Relays(node, m)) + 1 <= Cardinality(Relays(node', x))
      BY <1>4, <3>6, <3>7, CountOneMore
    <3> QED
      BY <2>3, <3>2, <3>3, <3>8
  <2> QED
    BY <2>1, <2>2, <2>3
<1>8. ASSUME Sends(s, t, m, x), x.kind = "RREP", x.dst \notin failed'
      PROVE  /\ x.hops >= 1
             /\ Cardinality(Holders(node', x.dst, x.seq, x.hops - 1))
                  >= x.hops - 1
  <2> DEFINE T == Holders(node', x.dst, x.seq, x.hops - 1)
  <2>1. \/ x.hops = 1
        \/ /\ x.dst \in Node /\ x.seq = t.rt[x.dst].seq
           /\ x.hops = t.rt[x.dst].hops + 1
           /\ Up(t.rt[x.dst]) \/ Usable(t.rt[x.dst])
    BY <1>8, MsgKinds DEF Sends, OwnRequest
  <2>2. Cardinality(T) \in Nat
    BY <1>4, Count
  <2>3. CASE x.hops = 1
    BY <2>2, <2>3
  <2>4. CASE /\ x.dst \in Node /\ x.seq = t.rt[x.dst].seq
             /\ x.hops = t.rt[x.dst].hops + 1
             /\ Up(t.rt[x.dst]) \/ Usable(t.rt[x.dst])
    <3> DEFINE q == t.rt[x.dst]
    <3>1. q.hops \in Nat
      BY <1>1, <2>4, AgentFields, RouteFields
    <3>2. q.flag # "DOWN"
      <4>1. Sane(t)
        BY <1>1, Agents, EffectSane DEF Step
      <4> QED
        BY <2>4, <4>1 DEF Sane, Up, Usable
    <3>3. Cardinality(Holders(node', x.dst, q.seq, q.hops)) >= q.hops
      BY <1>1, <1>8, <2>4, <3>2, RoutesCountedStep
    <3>4. x.hops - 1 = q.hops /\ x.seq = q.seq
      BY <2>4, <3>1
    <3>5. x.hops >= 1
      BY <2>4, <3>1
    <3>6. T = Holders(node', x.dst, q.seq, q.hops)
      BY <3>4
    <3>7. Cardinality(T) >= x.hops - 1
      <4> HIDE DEF T, q
      <4> QED
        BY <3>3, <3>4, <3>6
    <3> QED
      BY <3>5, <3>7
  <2> QED
    BY <2>1, <2>3, <2>4
<1> QED
  BY <1>2, <1>5, <1>6, <1>7, <1>8

(* Fewer nodes than INFINITY2 *)
Small == Cardinality(Node) < Infinity

(* Routes are then as the assertions expect them, unless one is under      *)
(* repair, and so are offers.                                              *)
LEMMA CountedIsSound ==
    ASSUME Small, Basic, Parity, RoutesCounted, failed = {}, NEW n \in Node,
           \A d \in Node : node[n].rt[d].flag # "IN_REPAIR"
    PROVE  SoundRoutes(node[n])
<1> SUFFICES ASSUME NEW d \in Node
             PROVE  /\ Up(node[n].rt[d]) <=> Usable(node[n].rt[d])
                    /\ Up(node[n].rt[d]) => node[n].rt[d].seq % 2 = 0
  BY DEF SoundRoutes
<1> DEFINE r == node[n].rt[d]
           H == Holders(node, d, r.seq, r.hops)
<1>1. Tells(r, d, failed) /\ Sane(node[n]) /\ r \in Route
  BY Agents, AgentFields DEF Parity, AgentsTell
<1>2. CASE Up(r)
  <2>1. Cardinality(H) >= r.hops
    BY <1>2 DEF RoutesCounted, Up
  <2>2. H \subseteq Node
    BY DEF Holders
  <2> HIDE DEF H
  <2>3. /\ Cardinality(H) \in Nat /\ Cardinality(Node) \in Nat
        /\ Cardinality(H) <= Cardinality(Node)
    BY <2>2, Count
  <2>4. r.hops # Infinity
    BY <1>1, <2>1, <2>3, RouteFields, NetworkTypes DEF Small
  <2>5. r.seq % 2 = 0
    BY <1>1, <1>2 DEF Tells, Up, GoodNumber
  <2> QED
    BY <1>2, <2>4, <2>5 DEF Usable
<1>3. CASE ~Up(r)
  <2>1. r.flag = "DOWN"
    BY <1>1, <1>3, RouteFields DEF Up
  <2> QED
    BY <1>1, <1>3, <2>1 DEF Usable, Sane
<1> QED
  BY <1>2, <1>3

LEMMA CountedIsShort ==
    ASSUME Small, Basic, OffersCounted, failed = {},
           NEW n, NEW t, NEW m, Step(n, t, m)
    PROVE  OfferShort(node[n], m)
<1> SUFFICES ASSUME m.kind = "RREQ", <<m.src, m.bid>> \notin node[n].seen
             PROVE  m.hops # Infinity
  BY DEF OfferShort
<1>1. n \in Node
  BY StepAgents
<1>2. PICK f \in air : f.msg = m
  BY StepMessage
<1>3. m.src \in Node /\ m.sseq \in Nat
  BY <1>2, FrameFields, OfferFields
<1>4. PICK S \in SUBSET (Node \ {n}) : Cardinality(S) >= m.hops - 1
  BY <1>1, <1>2, <1>3, OfferedByOthers
<1>5. m.hops \in Nat
  BY <1>2, FrameFields, OfferFields
<1>6. /\ Cardinality(S) \in Nat /\ Cardinality(Node) \in Nat
      /\ Cardinality(S) + 1 <= Cardinality(Node)
  BY <1>1, <1>4, CountOneMore
<1> QED
  BY <1>4, <1>5, <1>6, NetworkTypes DEF Small

Counted == RoutesCounted /\ OffersCounted

LEMMA CountedInvariant == Spec => []Counted
<1>1. Init => Counted
  <2> SUFFICES ASSUME Init PROVE Counted
    OBVIOUS
  <2>1. \A n, d \in Node : node[n].rt[d] = NewRoute
    BY InitAgents
  <2>2. NewRoute.flag = "DOWN"
    BY DEF NewRoute
  <2>3. air = {}
    BY DEF Init
  <2> QED
    BY <2>1, <2>2, <2>3 DEF Counted, RoutesCounted, OffersCounted
<1>2. Basic /\ Parity /\ Counted /\ [Next]_vars => Counted'
  <2> SUFFICES ASSUME Basic, Parity, Counted, [Next]_vars PROVE Counted'
    OBVIOUS
  <2>1. CASE Rest
    BY <2>1 DEF Rest, Counted, RoutesCounted, OffersCounted, Relays, Holders,
                AsGood
  <2>2. ASSUME NEW n, NEW t, NEW m, Step(n, t, m)
        PROVE  Counted'
    <3>1. RoutesCounted'
      BY <2>2, RoutesCountedStep DEF Counted, RoutesCounted, Holders, AsGood
    <3>2. OffersCounted'
      BY <2>2, OffersCountedStep DEF Counted, OffersCounted, Relays, Holders, AsGood
    <3> QED
      BY <3>1, <3>2 DEF Counted
  <2> QED
    BY <2>1, <2>2, NextIsStep
<1> QED
  BY <1>1, <1>2, BasicInvariant, ParityInvariant, PTL DEF Spec

(* In a network of fewer nodes than INFINITY2 the assertions of            *)
(* handle_link_failure(), recvError(), recvReply(), rt_purge(), ... do not *)
(* fail at a node that repairs no route, as long as no local repair has    *)
(* failed anywhere: a route is then up if and only if it has a length, and *)
(* its number is even.                                                     *)
THEOREM AssertionsAlwaysHold ==
    ASSUME Cardinality(Node) < Infinity
    PROVE  Spec => AssertionsHold
<1> DEFINE Holds == \A n \in Node : node[n].ok /\ ~node'[n].ok =>
                       \/ failed # {}
                       \/ \E d \in Node : node[n].rt[d].flag = "IN_REPAIR"
<1>1. Basic /\ Parity /\ Counted /\ [Next]_vars => [Holds]_vars
  <2> SUFFICES ASSUME Basic, Parity, Counted, [Next]_vars,
                      NEW x \in Node, node[x].ok, ~node'[x].ok, failed = {},
                      \A d \in Node : node[x].rt[d].flag # "IN_REPAIR"
               PROVE  FALSE
    OBVIOUS
  <2>1. CASE Rest
    BY <2>1 DEF Rest
  <2>2. ASSUME NEW n, NEW t, NEW m, Step(n, t, m)
        PROVE  FALSE
    <3>1. /\ n \in Node /\ node'[n].ok = t.ok
          /\ \A y \in Node \ {n} : node'[y] = node[y]
      BY <2>2, StepAgents
    <3>2. x = n
      BY <3>1
    <3>3. SoundRoutes(node[n])
      BY <3>2, CountedIsSound DEF Counted, Small
    <3>4. OfferShort(node[n], m)
      BY <2>2, CountedIsShort DEF Counted, Small
    <3>5. t.ok
      BY <2>2, <3>2, <3>3, <3>4 DEF Step, Effect
    <3> QED
      BY <3>1, <3>2, <3>5
  <2> QED
    BY <2>1, <2>2, NextIsStep
<1>2. Spec => [][Holds]_vars
  BY <1>1, BasicInvariant, ParityInvariant, CountedInvariant, PTL DEF Spec
<1> QED
  BY <1>2 DEF AssertionsHold
=============================================================================
