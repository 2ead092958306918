-------------------------- MODULE LinkStackProofs --------------------------
(***************************************************************************)
(* Proofs about LinkStack for any number of nodes and packets, any limit   *)
(* of the interface queue above one and any number of ARP requests.        *)
(***************************************************************************)
EXTENDS LinkStack, FiniteSetTheorems, TLAPS

-----------------------------------------------------------------------------
(* Sequences: what the operations of the queues do to their elements.      *)

LEMMA AppendElements ==
    ASSUME NEW S, NEW s \in Seq(S), NEW x \in S
    PROVE  /\ Append(s, x) \in Seq(S)
           /\ ToSet(Append(s, x)) = ToSet(s) \cup {x}
<1>1. /\ Append(s, x) \in Seq(S) /\ Len(s) \in Nat
      /\ DOMAIN s = 1..Len(s)
      /\ DOMAIN Append(s, x) = 1..Len(s) + 1
      /\ \A i \in 1..Len(s) : Append(s, x)[i] = s[i]
      /\ Append(s, x)[Len(s) + 1] = x
  OBVIOUS
<1> QED
  BY <1>1 DEF ToSet

LEMMA ConcatElements ==
    ASSUME NEW S, NEW s \in Seq(S), NEW t \in Seq(S)
    PROVE  s \o t \in Seq(S) /\ ToSet(s \o t) = ToSet(s) \cup ToSet(t)
<1>1. /\ s \o t \in Seq(S) /\ Len(s) \in Nat /\ Len(t) \in Nat
      /\ DOMAIN s = 1..Len(s) /\ DOMAIN t = 1..Len(t)
      /\ DOMAIN (s \o t) = 1..Len(s) + Len(t)
      /\ \A i \in 1..Len(s) : (s \o t)[i] = s[i]
      /\ \A i \in 1..Len(t) : (s \o t)[Len(s) + i] = t[i]
  OBVIOUS
<1>2. \A i \in 1..Len(s) + Len(t) :
         i \in 1..Len(s) \/ (i - Len(s) \in 1..Len(t)
                             /\ Len(s) + (i - Len(s)) = i)
  BY <1>1
<1>3. ToSet(s \o t) \subseteq ToSet(s) \cup ToSet(t)
  BY <1>1, <1>2 DEF ToSet
<1>4. \A i \in 1..Len(t) : Len(s) + i \in 1..Len(s) + Len(t)
  BY <1>1
<1>5. 1..Len(s) \subseteq 1..Len(s) + Len(t)
  BY <1>1
<1>6. ToSet(s) \cup ToSet(t) \subseteq ToSet(s \o t)
  BY <1>1, <1>4, <1>5 DEF ToSet
<1> QED
  BY <1>1, <1>3, <1>6

LEMMA RemoveElements ==
    ASSUME NEW S, NEW s \in Seq(S), NEW i \in DOMAIN s
    PROVE  /\ s[i] \in S /\ s[i] \in ToSet(s)
           /\ RemoveAt(s, i) \in Seq(S)
           /\ ToSet(RemoveAt(s, i)) \subseteq ToSet(s)
<1>1. s[i] \in S /\ s[i] \in ToSet(s)
  BY DEF ToSet
<1>2. /\ Len(s) \in Nat /\ i \in 1..Len(s)
      /\ DOMAIN s = 1..Len(s)
  OBVIOUS
<1> DEFINE a == SubSeq(s, 1, i - 1)
           b == SubSeq(s, i + 1, Len(s))
<1>3. /\ a \in Seq(S) /\ Len(a) = i - 1
      /\ \A j \in 1..Len(a) : a[j] = s[j] /\ j \in 1..Len(s)
  BY <1>2
<1>4. /\ b \in Seq(S) /\ Len(b) = Len(s) - i
      /\ \A j \in 1..Len(b) : b[j] = s[i + j] /\ i + j \in 1..Len(s)
  BY <1>2, SMTT(60)
<1>5. ToSet(a) \subseteq ToSet(s) /\ ToSet(b) \subseteq ToSet(s)
  <2>1. DOMAIN a = 1..Len(a) /\ DOMAIN b = 1..Len(b)
    BY <1>3, <1>4
  <2> HIDE DEF a, b
  <2> QED
    BY <1>2, <1>3, <1>4, <2>1 DEF ToSet
<1>6. RemoveAt(s, i) = a \o b
  BY DEF RemoveAt
<1> HIDE DEF a, b
<1> QED
  BY <1>1, <1>3, <1>4, <1>5, <1>6, ConcatElements

LEMMA TailElements ==
    ASSUME NEW S, NEW s \in Seq(S), s # <<>>
    PROVE  /\ Head(s) \in S /\ Head(s) \in ToSet(s)
           /\ Tail(s) \in Seq(S) /\ ToSet(Tail(s)) \subseteq ToSet(s)
<1>1. /\ Len(s) \in Nat \ {0} /\ DOMAIN s = 1..Len(s)
      /\ Head(s) = s[1] /\ Tail(s) \in Seq(S)
      /\ DOMAIN Tail(s) = 1..Len(s) - 1
      /\ \A i \in 1..Len(s) - 1 : Tail(s)[i] = s[i + 1]
  OBVIOUS
<1>2. \A i \in 1..Len(s) - 1 : i + 1 \in 1..Len(s)
  BY <1>1
<1> QED
  BY <1>1, <1>2 DEF ToSet

(* PriQueue::recv() adds the frame or drops one: nothing else gets in.     *)
LEMMA EnqueuedElements ==
    ASSUME NEW q \in Seq(Frame), NEW f \in Frame
    PROVE  /\ Enqueued(q, f) \in Seq(Frame)
           /\ ToSet(Enqueued(q, f)) \subseteq ToSet(q) \cup {f}
           /\ Enqueued(<<>>, f) = <<f>>
<1>1. /\ AtTail(q, f) \in Seq(Frame)
      /\ ToSet(AtTail(q, f)) \subseteq ToSet(q) \cup {f}
  BY AppendElements DEF AtTail
<1>2. <<f>> \in Seq(Frame) /\ ToSet(<<f>>) = {f}
  BY DEF ToSet
<1>3. /\ <<f>> \o q \in Seq(Frame)
      /\ ToSet(<<f>> \o q) = {f} \cup ToSet(q)
  <2>1. PICK s : s = <<f>>
    OBVIOUS
  <2>2. s \in Seq(Frame) /\ ToSet(s) = {f}
    BY <1>2, <2>1
  <2>3. s \o q \in Seq(Frame) /\ ToSet(s \o q) = {f} \cup ToSet(q)
    BY <2>2, ConcatElements
  <2> QED
    BY <2>1, <2>3
<1>4. ASSUME NEW s \in Seq(Frame), s # <<>>
      PROVE  Front(s) \in Seq(Frame) /\ ToSet(Front(s)) \subseteq ToSet(s)
  <2>1. /\ Len(s) \in Nat \ {0} /\ DOMAIN s = 1..Len(s)
        /\ Front(s) \in Seq(Frame)
        /\ DOMAIN Front(s) = 1..Len(s) - 1
        /\ \A i \in 1..Len(s) - 1 : Front(s)[i] = s[i]
    BY <1>4 DEF Front
  <2> QED
    BY <2>1 DEF ToSet
<1>5. <<f>> \o q # <<>>
  OBVIOUS
<1>6. /\ AtHead(q, f) \in Seq(Frame)
      /\ ToSet(AtHead(q, f)) \subseteq ToSet(q) \cup {f}
  BY <1>3, <1>4, <1>5 DEF AtHead
<1>7. Enqueued(<<>>, f) = <<f>>
  <2>1. ~(Len(<<>>) + 1 >= QueueLimit)
    BY LimitAssumption DEF LimitAssumption
  <2> QED
    BY <2>1 DEF Enqueued, AtHead, AtTail
<1> QED
  BY <1>1, <1>6, <1>7 DEF Enqueued

-----------------------------------------------------------------------------
(* Frames and their packets.                                               *)

LEMMA FrameKinds ==
    /\ \A p \in Packet : /\ Data(p) \in Frame /\ Data(p).type = "DATA"
                         /\ Data(p).packet = p /\ Data(p).to = NextHop[p]
    /\ \A n, d \in Node : /\ Request(n, d) \in Frame
                          /\ Request(n, d).type # "DATA"
                          /\ Reply(n, d) \in Frame /\ Reply(n, d).type # "DATA"
    /\ \A f \in Frame : \/ \E p \in Packet : f = Data(p)
                        \/ \E n, d \in Node : f = Request(n, d) \/ f = Reply(n, d)
<1>1. /\ \A p \in Packet : Data(p) \in Frame
      /\ \A n, d \in Node : Request(n, d) \in Frame /\ Reply(n, d) \in Frame
      /\ \A f \in Frame :
            \/ \E p \in Packet : f = Data(p)
            \/ \E n, d \in Node : f = Request(n, d) \/ f = Reply(n, d)
  <2>1. \A p \in Packet : Data(p) \in Frame
    BY DEF Frame
  <2>2. \A n, d \in Node : Request(n, d) \in Frame /\ Reply(n, d) \in Frame
    BY DEF Frame
  <2>3. ASSUME NEW f \in Frame
        PROVE  \/ \E p \in Packet : f = Data(p)
               \/ \E n, d \in Node : f = Request(n, d) \/ f = Reply(n, d)
    BY DEF Frame
  <2> QED
    BY <2>1, <2>2, <2>3, Zenon
<1>2. /\ \A p \in Packet : /\ Data(p).type = "DATA"
                           /\ Data(p).packet = p /\ Data(p).to = NextHop[p]
      /\ \A n, d \in Node : Request(n, d).type # "DATA" /\ Reply(n, d).type # "DATA"
  BY DEF Data, Request, Reply
<1> QED
  BY <1>1, <1>2

(* A packet waits in a stack when its frame does. *)
LEMMA FrameFields ==
    ASSUME NEW f \in Frame
    PROVE  /\ f.type = "DATA" => f.packet \in Packet /\ f = Data(f.packet)
           /\ f.type # "DATA" => f.spa \in Node
           /\ f # NoFrame
<1>1. \/ \E p \in Packet : f = Data(p)
      \/ \E n, d \in Node : f = Request(n, d) \/ f = Reply(n, d)
  BY FrameKinds
<1>2. f # NoFrame
  BY NoPacketAssumption DEF NoPacketAssumption, NoFrame
<1> QED
  BY <1>1, <1>2 DEF Data, Request, Reply

-----------------------------------------------------------------------------
(* Type correctness.                                                       *)

(* The link layer or ARP schedules a frame for the interface queue.        *)
LEMMA ScheduledType ==
    ASSUME TypeOK, NEW n \in Node, NEW f \in Frame, NEW by \in {"LL", "ARP"},
           Scheduled(n, f, by)
    PROVE  down' \in [Node -> Seq(Event)]
<1>1. [frame |-> f, by |-> by] \in Event
  BY DEF Event
<1>2. Append(down[n], [frame |-> f, by |-> by]) \in Seq(Event)
  BY <1>1, AppendElements DEF TypeOK
<1> QED
  BY <1>2 DEF Scheduled, TypeOK

(* ARP's answers and released packets are well-formed events.              *)
LEMMA HeardArpEvents ==
    ASSUME TypeOK, NEW n \in Node, NEW f \in Frame, f.type # "DATA"
    PROVE  /\ Released(n, f) \in Seq(Event)
           /\ Answer(n, f) \in Seq(Event)
           /\ Learn(arp[n][f.spa]) \in Entry
<1>1. f.spa \in Node
  BY FrameFields
<1>2. arp[n][f.spa] \in Entry
  BY <1>1 DEF TypeOK
<1>3. /\ arp[n][f.spa].hold \in Packet \cup {NoPacket}
      /\ Learn(arp[n][f.spa]) \in Entry
  BY <1>2 DEF Entry, Learn
<1>4. Released(n, f) \in Seq(Event)
  <2>1. CASE arp[n][f.spa].hold = NoPacket
    BY <2>1 DEF Released
  <2>2. CASE arp[n][f.spa].hold # NoPacket
    <3> DEFINE e == [frame |-> Data(arp[n][f.spa].hold), by |-> "ARP"]
    <3>1. e \in Event
      BY <1>3, <2>2, FrameKinds DEF Event
    <3>2. Released(n, f) = <<e>>
      BY <2>2 DEF Released
    <3> QED
      BY <3>1, <3>2
  <2> QED
    BY <2>1, <2>2
<1>5. Answer(n, f) \in Seq(Event)
  <2>1. [frame |-> Reply(n, f.spa), by |-> "ARP"] \in Event
    BY <1>1, FrameKinds DEF Event
  <2>2. <<[frame |-> Reply(n, f.spa), by |-> "ARP"]>> \in Seq(Event)
    BY <2>1
  <2> QED
    BY <2>2 DEF Answer
<1> QED
  BY <1>3, <1>4, <1>5

(* Serving a queue moves its first frame to the MAC.                       *)
LEMMA ServedType ==
    ASSUME TypeOK, NEW n \in Node, NEW q \in Seq(Frame), Served(n, q)
    PROVE  /\ queue' \in [Node -> Seq(Frame)]
           /\ mac' \in [Node -> Frame \cup {NoFrame}]
           /\ blocked' \in [Node -> BOOLEAN]
<1>1. CASE q = <<>>
  BY <1>1 DEF Served, TypeOK
<1>2. CASE q # <<>>
  <2>1. Head(q) \in Frame /\ Tail(q) \in Seq(Frame)
    BY <1>2, TailElements
  <2> QED
    BY <1>2, <2>1 DEF Served, TypeOK
<1> QED
  BY <1>1, <1>2

LEMMA SendType ==
    ASSUME TypeOK, NEW p \in Packet, Send(p)
    PROVE  TypeOK'
<1> DEFINE n == Origin[p]
           d == NextHop[p]
<1>1. /\ n \in Node /\ d \in Node \cup {Everyone}
  BY PacketAssumption DEF PacketAssumption
<1>2. sent' \in Seq(Packet)
  BY AppendElements DEF Send, TypeOK
<1>3. UNCHANGED <<queue, blocked, mac, passedUp, lossy>>
  BY DEF Send
<1>4. CASE SendResolved(n, d, p)
  <2>1. down' \in [Node -> Seq(Event)]
    BY <1>1, <1>4, FrameKinds, ScheduledType DEF SendResolved
  <2> QED
    BY <1>2, <1>3, <1>4, <2>1 DEF SendResolved, TypeOK
<1>5. CASE SendHeld(n, d, p)
  <2>1. d \in Node /\ arp[n][d] \in Entry
    BY <1>1, <1>5 DEF SendHeld, TypeOK
  <2>0. arp[n][d].hold \in Packet \cup {NoPacket}
    BY <2>1 DEF Entry
  <2>2. down' \in [Node -> Seq(Event)]
    BY <1>1, <1>5, <2>1, FrameKinds, ScheduledType DEF SendHeld
  <2>3. dropped' \in SUBSET Packet
    BY <1>5, <2>0 DEF SendHeld, TypeOK
  <2>4. arp[n][d].count + 1 \in 0..MaxRequests
    BY <1>5, <2>1, LimitAssumption
    DEF SendHeld, AskedOften, Entry, LimitAssumption
  <2>5. [up |-> FALSE, count |-> arp[n][d].count + 1, hold |-> p] \in Entry
    BY <2>1, <2>4 DEF Entry
  <2>6. arp' \in [Node -> [Node -> Entry]]
    BY <1>1, <1>5, <2>1, <2>5 DEF SendHeld, TypeOK
  <2> QED
    BY <1>2, <1>3, <2>2, <2>3, <2>6 DEF TypeOK
<1>6. CASE SendRefused(n, d, p)
  <2>1. d \in Node /\ arp[n][d] \in Entry
    BY <1>1, <1>6 DEF SendRefused, TypeOK
  <2>0. arp[n][d].hold \in Packet \cup {NoPacket}
    BY <2>1 DEF Entry
  <2>2. dropped' \in SUBSET Packet
    <3>1. dropped' = dropped \cup ({arp[n][d].hold, p} \ {NoPacket})
      BY <1>6 DEF SendRefused
    <3> QED
      BY <2>0, <3>1 DEF TypeOK
  <2>3. [up |-> FALSE, count |-> 0, hold |-> NoPacket] \in Entry
    BY LimitAssumption DEF Entry, LimitAssumption
  <2>4. arp' \in [Node -> [Node -> Entry]]
    BY <1>1, <1>6, <2>1, <2>3 DEF SendRefused, TypeOK
  <2> QED
    BY <1>2, <1>3, <1>6, <2>2, <2>4 DEF SendRefused, TypeOK
<1> QED
  BY <1>4, <1>5, <1>6 DEF Send

(* The frame that enters the interface queue, and the queue afterwards.    *)
LEMMA EnqueueType ==
    ASSUME TypeOK, NEW n \in Node, Enqueue(n)
    PROVE  TypeOK'
<1>1. PICK i \in DOMAIN down[n] :
        LET f == down[n][i].frame
            q == Enqueued(queue[n], f)
        IN  /\ Due(n, i)
            /\ down' = [down EXCEPT ![n] = RemoveAt(@, i)]
            /\ IF blocked[n]
               THEN /\ queue' = [queue EXCEPT ![n] = q]
                    /\ UNCHANGED <<mac, blocked>>
               ELSE Served(n, q)
            /\ dropped' = dropped \cup
                 (Packets(ToSet(queue[n]) \cup {f}) \ Packets(ToSet(q)))
            /\ UNCHANGED <<arp, sent, passedUp, lossy>>
  BY DEF Enqueue
<1> DEFINE f == down[n][i].frame
           q == Enqueued(queue[n], f)
<1>2. down[n] \in Seq(Event) /\ queue[n] \in Seq(Frame)
  BY DEF TypeOK
<1>3. down[n][i] \in Event /\ RemoveAt(down[n], i) \in Seq(Event)
  BY <1>2, RemoveElements
<1>4. f \in Frame
  BY <1>3 DEF Event
<1>5. q \in Seq(Frame)
  BY <1>2, <1>4, EnqueuedElements
<1>6. down' \in [Node -> Seq(Event)]
  BY <1>1, <1>3 DEF TypeOK
<1>7. ToSet(queue[n]) \cup {f} \subseteq Frame
  BY <1>2, <1>4 DEF ToSet
<1>8. Packets(ToSet(queue[n]) \cup {f}) \subseteq Packet
  BY <1>7, FrameFields DEF Packets
<1>9. dropped' \in SUBSET Packet
  BY <1>1, <1>8 DEF TypeOK
<1> HIDE DEF f, q
<1>10. /\ queue' \in [Node -> Seq(Frame)]
       /\ mac' \in [Node -> Frame \cup {NoFrame}]
       /\ blocked' \in [Node -> BOOLEAN]
  <2>1. IF blocked[n] THEN /\ queue' = [queue EXCEPT ![n] = q]
                           /\ UNCHANGED <<mac, blocked>>
                      ELSE Served(n, q)
    BY <1>1 DEF f, q
  <2>2. CASE blocked[n]
    BY <1>5, <2>1, <2>2 DEF TypeOK
  <2>3. CASE ~blocked[n]
    BY <1>5, <2>1, <2>3, ServedType
  <2> QED
    BY <2>2, <2>3
<1>11. UNCHANGED <<arp, sent, passedUp, lossy>>
  BY <1>1
<1> QED
  BY <1>6, <1>9, <1>10, <1>11 DEF TypeOK

(* Who hears a frame is among the nodes.                                   *)
LEMMA HearersAreNodes ==
    ASSUME TypeOK, NEW n \in Node, NEW f \in Frame, NEW hearers \in Hearers(n, f)
    PROVE  hearers \subseteq Node
<1>1. f.to \in Node \cup {Everyone}
  BY PacketAssumption DEF PacketAssumption, Frame, Data, Request, Reply
<1> QED
  BY <1>1 DEF Hearers

LEMMA TransmitType ==
    ASSUME TypeOK, NEW n \in Node, Transmit(n)
    PROVE  TypeOK'
<1>1. mac[n] \in Frame
  BY DEF Transmit, TypeOK
<1>2. /\ queue' \in [Node -> Seq(Frame)]
      /\ mac' \in [Node -> Frame \cup {NoFrame}]
      /\ blocked' \in [Node -> BOOLEAN]
      /\ UNCHANGED <<sent, lossy>>
  <2>1. queue[n] \in Seq(Frame) /\ Served(n, queue[n])
    BY DEF TypeOK, Transmit
  <2> QED
    BY <2>1, ServedType DEF Transmit
<1>3. PICK hearers \in Hearers(n, mac[n]) :
         /\ IF mac[n].type = "DATA" THEN HearData(hearers, mac[n])
                                    ELSE HearArp(hearers, mac[n])
         /\ dropped' = IF mac[n].type = "DATA" /\ hearers = {}
                       THEN dropped \cup {mac[n].packet} ELSE dropped
  BY DEF Transmit
<1>4. dropped' \in SUBSET Packet
  BY <1>1, <1>3, FrameFields DEF TypeOK
<1>5. CASE mac[n].type = "DATA"
  <2>1. HearData(hearers, mac[n]) /\ mac[n].packet \in Packet
    BY <1>1, <1>3, <1>5, FrameFields
  <2>2. passedUp' \in [Node -> Seq(Packet)]
    BY <2>1, AppendElements DEF HearData, TypeOK
  <2> QED
    BY <1>2, <1>4, <2>1, <2>2 DEF HearData, TypeOK
<1>6. CASE mac[n].type # "DATA"
  <2>1. HearArp(hearers, mac[n]) /\ mac[n].spa \in Node
    BY <1>1, <1>3, <1>6, FrameFields
  <2>2. ASSUME NEW m \in Node
        PROVE  /\ down[m] \o Released(m, mac[n]) \o Answer(m, mac[n]) \in Seq(Event)
               /\ down[m] \in Seq(Event)
               /\ Learn(arp[m][mac[n].spa]) \in Entry
    BY <1>1, <1>6, HeardArpEvents, ConcatElements DEF TypeOK
  <2>3. down' \in [Node -> Seq(Event)]
    BY <2>1, <2>2 DEF HearArp
  <2>4. arp' \in [Node -> [Node -> Entry]]
    <3>1. ASSUME NEW m \in Node
          PROVE  /\ arp[m] \in [Node -> Entry]
                 /\ [arp[m] EXCEPT ![mac[n].spa] = Learn(@)] \in [Node -> Entry]
      BY <2>1, <2>2 DEF TypeOK
    <3> QED
      BY <2>1, <3>1 DEF HearArp
  <2> QED
    BY <1>2, <1>4, <2>1, <2>3, <2>4 DEF HearArp, TypeOK
<1> QED
  BY <1>5, <1>6

(* Every step of the link layer, ARP, the interface queue and the MAC      *)
(* keeps the state well-typed.                                             *)
THEOREM TypeCorrect == Spec => []TypeOK
<1>1. Init => TypeOK
  <2> SUFFICES ASSUME Init PROVE TypeOK
    OBVIOUS
  <2>1. arp \in [Node -> [Node -> Entry]]
    BY LimitAssumption DEF Init, Entry, LimitAssumption
  <2>2. <<>> \in Seq(Event) /\ <<>> \in Seq(Frame) /\ <<>> \in Seq(Packet)
    OBVIOUS
  <2> QED
    BY <2>1, <2>2 DEF Init, TypeOK
<1>2. TypeOK /\ [Next]_vars => TypeOK'
  <2> SUFFICES ASSUME TypeOK, [Next]_vars PROVE TypeOK'
    OBVIOUS
  <2>1. CASE UNCHANGED vars
    BY <2>1 DEF vars, TypeOK
  <2> QED
    BY <2>1, SendType, EnqueueType, TransmitType DEF Next
<1> QED
  BY <1>1, <1>2, PTL DEF Spec

-----------------------------------------------------------------------------
(* The handshake of the interface queue and the MAC.                       *)

LEMMA ServedHandshake ==
    ASSUME TypeOK, NeverBlockedIdle, NEW n \in Node, NEW q \in Seq(Frame),
           Served(n, q)
    PROVE  NeverBlockedIdle'
<1> SUFFICES ASSUME NEW m \in Node
             PROVE  /\ blocked'[m] = (mac'[m] # NoFrame)
                    /\ ~blocked'[m] => queue'[m] = <<>>
  BY DEF NeverBlockedIdle
<1>1. CASE m # n
  <2>1. /\ blocked'[m] = blocked[m] /\ mac'[m] = mac[m]
        /\ queue'[m] = queue[m]
    BY <1>1 DEF Served, TypeOK
  <2> QED
    BY <2>1 DEF NeverBlockedIdle
<1>2. CASE m = n /\ q = <<>>
  <2>1. blocked'[m] = FALSE /\ mac'[m] = NoFrame /\ queue'[m] = <<>>
    BY <1>2 DEF Served, TypeOK
  <2> QED
    BY <2>1, Zenon
<1>3. CASE m = n /\ q # <<>>
  <2>1. Head(q) \in Frame
    BY <1>3, TailElements
  <2>2. Head(q) # NoFrame
    BY <2>1, FrameFields
  <2>3. blocked'[m] = TRUE /\ mac'[m] = Head(q)
    BY <1>3 DEF Served, TypeOK
  <2> QED
    BY <2>2, <2>3, Zenon
<1> QED
  BY <1>1, <1>2, <1>3

LEMMA NeverBlockedIdleStep ==
    ASSUME TypeOK, NeverBlockedIdle, [Next]_vars
    PROVE  NeverBlockedIdle'
<1>1. CASE UNCHANGED <<queue, blocked, mac>>
  BY <1>1 DEF NeverBlockedIdle
<1>2. ASSUME NEW n \in Node, Enqueue(n) PROVE NeverBlockedIdle'
  <2>1. PICK i \in DOMAIN down[n] :
          LET q == Enqueued(queue[n], down[n][i].frame)
          IN  IF blocked[n]
              THEN /\ queue' = [queue EXCEPT ![n] = q]
                   /\ UNCHANGED <<mac, blocked>>
              ELSE Served(n, q)
    BY <1>2 DEF Enqueue
  <2> DEFINE q == Enqueued(queue[n], down[n][i].frame)
  <2>2. queue[n] \in Seq(Frame) /\ down[n] \in Seq(Event)
    BY DEF TypeOK
  <2>3. down[n][i] \in Event
    BY <2>2, RemoveElements
  <2>4. q \in Seq(Frame)
    BY <2>2, <2>3, EnqueuedElements DEF Event
  <2> HIDE DEF q
  <2>5. CASE blocked[n]
    <3>1. /\ UNCHANGED <<mac, blocked>>
          /\ \A m \in Node \ {n} : queue'[m] = queue[m]
      BY <2>1, <2>5 DEF TypeOK
    <3> QED
      BY <2>5, <3>1 DEF NeverBlockedIdle
  <2>6. CASE ~blocked[n]
    BY <2>1, <2>4, <2>6, ServedHandshake DEF q
  <2> QED
    BY <2>5, <2>6
<1>3. ASSUME NEW n \in Node, Transmit(n) PROVE NeverBlockedIdle'
  <2>1. queue[n] \in Seq(Frame) /\ Served(n, queue[n])
    BY <1>3 DEF Transmit, TypeOK
  <2> QED
    BY <2>1, ServedHandshake
<1> QED
  BY <1>1, <1>2, <1>3 DEF Next, Send, vars

(* Queue::recv(), recvHighPriority() and resume(): the queue waits for the *)
(* MAC exactly while the MAC has a frame, whatever is dropped, so that no  *)
(* interface is dead for want of a resume().                               *)
THEOREM QueueNeverStuck == Spec => []NeverBlockedIdle
<1>1. Init => NeverBlockedIdle
  <2> SUFFICES ASSUME Init, NEW n \in Node
               PROVE  /\ blocked[n] = (mac[n] # NoFrame)
                      /\ ~blocked[n] => queue[n] = <<>>
    BY DEF NeverBlockedIdle
  <2>1. blocked[n] = FALSE /\ mac[n] = NoFrame /\ queue[n] = <<>>
    BY DEF Init
  <2> QED
    BY <2>1, Zenon
<1>2. TypeOK /\ NeverBlockedIdle /\ [Next]_vars => NeverBlockedIdle'
  BY NeverBlockedIdleStep
<1> QED
  BY <1>1, <1>2, TypeCorrect, PTL DEF Spec

-----------------------------------------------------------------------------
(* Held packets and unknown addresses.                                     *)

(* The frames of n that are scheduled, queued or with the MAC.             *)
FramesIn(n) ==
    {e.frame : e \in ToSet(down[n])} \cup ToSet(queue[n])
    \cup ({mac[n]} \ {NoFrame})

LEMMA WaitingFrames ==
    ASSUME NEW n \in Node
    PROVE  Waiting(n) = Packets(FramesIn(n))
BY DEF Waiting, FramesIn, Packets

LEMMA ServedFrames ==
    ASSUME TypeOK, NEW n \in Node, NEW q \in Seq(Frame), Served(n, q)
    PROVE  /\ ToSet(queue'[n]) \cup ({mac'[n]} \ {NoFrame}) \subseteq ToSet(q)
           /\ \A m \in Node \ {n} : queue'[m] = queue[m] /\ mac'[m] = mac[m]
<1>1. \A m \in Node \ {n} : queue'[m] = queue[m] /\ mac'[m] = mac[m]
  BY DEF Served, TypeOK
<1>2. CASE q = <<>>
  BY <1>1, <1>2 DEF Served, TypeOK
<1>3. CASE q # <<>>
  <2>1. queue'[n] = Tail(q) /\ mac'[n] = Head(q)
    BY <1>3 DEF Served, TypeOK
  <2> QED
    BY <1>1, <1>3, <2>1, TailElements
<1> QED
  BY <1>2, <1>3

(* A step that adds no frame but ones that need no address.                *)
Resolved(n, f) ==
    f.type = "DATA" => \A d \in Node : ~arp'[n][d].up => f.to # d

LEMMA FramesStayResolved ==
    ASSUME TypeOK, HeldWhileUnknown, NEW n \in Node,
           \A d \in Node : arp[n][d].up => arp'[n][d].up,
           \A f \in FramesIn(n)' \ FramesIn(n) : f \in Frame /\ Resolved(n, f)
    PROVE  \A d \in Node : ~arp'[n][d].up => \A p \in Waiting(n)' : NextHop[p] # d
<1> SUFFICES ASSUME NEW d \in Node, ~arp'[n][d].up, NEW p \in Waiting(n)'
             PROVE  NextHop[p] # d
  OBVIOUS
<1>1. Waiting(n)' = Packets(FramesIn(n)')
  BY DEF Waiting, FramesIn, Packets
<1>2. PICK f \in FramesIn(n)' : f.type = "DATA" /\ p = f.packet
  BY <1>1 DEF Packets
<1>3. CASE f \in FramesIn(n)
  <2>1. p \in Waiting(n)
    BY <1>2, <1>3, WaitingFrames DEF Packets
  <2> QED
    BY <2>1 DEF HeldWhileUnknown
<1>4. CASE f \notin FramesIn(n)
  <2>1. f.to # d /\ f \in Frame
    BY <1>2, <1>4 DEF Resolved
  <2>2. f.packet \in Packet /\ f = Data(f.packet)
    BY <1>2, <2>1, FrameFields
  <2>3. f.to = NextHop[p]
    BY <1>2, <2>2, FrameKinds
  <2> QED
    BY <2>1, <2>3
<1> QED
  BY <1>3, <1>4

(* What ARP schedules at m when it hears f.                                *)
LEMMA HeardFrames ==
    ASSUME TypeOK, HeldWhileUnknown, NEW m \in Node, NEW f \in Frame,
           f.type # "DATA", arp'[m][f.spa].up,
           NEW e \in ToSet(Released(m, f)) \cup ToSet(Answer(m, f))
    PROVE  e.frame \in Frame /\ Resolved(m, e.frame)
<1>1. f.spa \in Node /\ arp[m][f.spa] \in Entry
  BY FrameFields DEF TypeOK
<1>2. CASE e \in ToSet(Answer(m, f))
  <2>1. e = [frame |-> Reply(m, f.spa), by |-> "ARP"]
    BY <1>2 DEF Answer, ToSet
  <2> QED
    BY <1>1, <2>1, FrameKinds DEF Resolved
<1>3. CASE e \in ToSet(Released(m, f))
  <2> DEFINE p == arp[m][f.spa].hold
  <2>1. p # NoPacket /\ e = [frame |-> Data(p), by |-> "ARP"]
    BY <1>3 DEF Released, ToSet
  <2>2. p \in Packet /\ NextHop[p] = f.spa
    BY <1>1, <2>1 DEF HeldWhileUnknown, Entry
  <2>3. Data(p) \in Frame /\ Data(p).to = f.spa
    BY <2>2, FrameKinds
  <2> QED
    BY <2>1, <2>3 DEF Resolved
<1> QED
  BY <1>2, <1>3

(* The two parts of HeldWhileUnknown. *)
HeldUnknown(n) ==
    \A d \in Node : arp[n][d].hold # NoPacket
                      => ~arp[n][d].up /\ NextHop[arp[n][d].hold] = d
WaitingKnown(n) ==
    \A d \in Node : ~arp[n][d].up => \A p \in Waiting(n) : NextHop[p] # d

LEMMA HeldParts ==
    HeldWhileUnknown <=> \A n \in Node : HeldUnknown(n) /\ WaitingKnown(n)
BY DEF HeldWhileUnknown, HeldUnknown, WaitingKnown

LEMMA SendKeepsHeld ==
    ASSUME TypeOK, HeldWhileUnknown, NEW p \in Packet, Send(p)
    PROVE  HeldWhileUnknown'
<1> SUFFICES ASSUME NEW m \in Node PROVE HeldUnknown(m)' /\ WaitingKnown(m)'
  BY DEF HeldWhileUnknown, HeldUnknown, WaitingKnown
<1> DEFINE n == Origin[p]
           d == NextHop[p]
<1>1. n \in Node /\ d \in Node \cup {Everyone} /\ Everyone \notin Node
  BY PacketAssumption DEF PacketAssumption
<1>2. UNCHANGED <<queue, mac>>
  BY DEF Send
<1>3. HeldUnknown(m) /\ WaitingKnown(m)
  BY HeldParts
<1>4. p # NoPacket
  BY NoPacketAssumption DEF NoPacketAssumption
<1>5. ASSUME NEW f, NEW by, Scheduled(n, f, by)
      PROVE  FramesIn(m)' \ FramesIn(m) \subseteq {f}
  <2>1. CASE m # n
    BY <1>2, <1>5, <2>1 DEF Scheduled, FramesIn, TypeOK
  <2>2. CASE m = n
    <3>1. down'[n] = Append(down[n], [frame |-> f, by |-> by])
      BY <1>1, <1>5 DEF Scheduled, TypeOK
    <3>2. PICK S : down[n] \in Seq(S) /\ [frame |-> f, by |-> by] \in S
      <4>1. down[n] \in Seq(Event \cup {[frame |-> f, by |-> by]})
        BY <1>1 DEF TypeOK
      <4> QED
        BY <4>1
    <3>3. ToSet(down'[n]) = ToSet(down[n]) \cup {[frame |-> f, by |-> by]}
      BY <3>1, <3>2, AppendElements
    <3> QED
      BY <1>2, <2>2, <3>3 DEF FramesIn
  <2> QED
    BY <2>1, <2>2
<1>6. CASE SendResolved(n, d, p)
  <2>1. arp' = arp
    BY <1>6 DEF SendResolved
  <2>2. FramesIn(m)' \ FramesIn(m) \subseteq {Data(p)}
    BY <1>5, <1>6 DEF SendResolved
  <2>3. HeldUnknown(m)'
    BY <1>3, <2>1 DEF HeldUnknown
  <2>4. WaitingKnown(m)'
    <3>1. CASE m = n
      <4>1. Resolved(m, Data(p))
        BY <1>1, <1>6, <2>1, <3>1, FrameKinds DEF SendResolved, Resolved
      <4> QED
        BY <2>1, <2>2, <4>1, FrameKinds, FramesStayResolved DEF WaitingKnown
    <3>2. CASE m # n
      <4>1. FramesIn(m)' = FramesIn(m)
        BY <1>2, <1>6, <3>2 DEF SendResolved, Scheduled, FramesIn, TypeOK
      <4> QED
        BY <2>1, <4>1, FramesStayResolved DEF WaitingKnown
    <3> QED
      BY <3>1, <3>2
  <2> QED
    BY <2>3, <2>4
<1>7. CASE SendHeld(n, d, p)
  <2>1. d \in Node /\ ~arp[n][d].up
    BY <1>1, <1>7 DEF SendHeld
  <2>2. arp' = [arp EXCEPT ![n][d] =
                  [up |-> FALSE, count |-> @.count + 1, hold |-> p]]
    BY <1>7 DEF SendHeld
  <2>3. \A c \in Node : /\ arp'[m][c].up = arp[m][c].up
                        /\ \/ arp'[m][c].hold = arp[m][c].hold
                           \/ m = n /\ c = d /\ arp'[m][c].hold = p
    <3> SUFFICES ASSUME NEW c \in Node
                 PROVE  /\ arp'[m][c].up = arp[m][c].up
                        /\ \/ arp'[m][c].hold = arp[m][c].hold
                           \/ m = n /\ c = d /\ arp'[m][c].hold = p
      OBVIOUS
    <3>1. CASE m = n /\ c = d
      <4>1. arp'[m][c] =
              [up |-> FALSE, count |-> arp[n][d].count + 1, hold |-> p]
        BY <1>1, <2>1, <2>2, <3>1 DEF TypeOK
      <4>2. arp[m][c].up = FALSE
        BY <1>1, <2>1, <3>1 DEF TypeOK, Entry
      <4>3. arp'[m][c].up = FALSE
        BY <4>1
      <4>4. arp'[m][c].hold = p
        BY <4>1
      <4> QED
        BY <3>1, <4>2, <4>3, <4>4, Zenon
    <3>2. CASE ~(m = n /\ c = d)
      BY <1>1, <2>1, <2>2, <3>2 DEF TypeOK
    <3> QED
      BY <3>1, <3>2
  <2>4. FramesIn(m)' \ FramesIn(m) \subseteq {Request(n, d)}
    BY <1>5, <1>7 DEF SendHeld
  <2>5. HeldUnknown(m)'
    BY <1>3, <2>1, <2>3 DEF HeldUnknown
  <2>6. Request(n, d) \in Frame /\ Resolved(m, Request(n, d))
    BY <1>1, <2>1, FrameKinds DEF Resolved
  <2>7. WaitingKnown(m)'
    BY <2>3, <2>4, <2>6, FramesStayResolved DEF WaitingKnown
  <2> QED
    BY <2>5, <2>7
<1>8. CASE SendRefused(n, d, p)
  <2>1. d \in Node /\ ~arp[n][d].up /\ down' = down
    BY <1>1, <1>8 DEF SendRefused
  <2>2. arp' = [arp EXCEPT ![n][d] =
                  [up |-> FALSE, count |-> 0, hold |-> NoPacket]]
    BY <1>8 DEF SendRefused
  <2>3. \A c \in Node : /\ arp'[m][c].up = arp[m][c].up
                        /\ \/ arp'[m][c].hold = arp[m][c].hold
                           \/ arp'[m][c].hold = NoPacket
    <3> SUFFICES ASSUME NEW c \in Node
                 PROVE  /\ arp'[m][c].up = arp[m][c].up
                        /\ \/ arp'[m][c].hold = arp[m][c].hold
                           \/ arp'[m][c].hold = NoPacket
      OBVIOUS
    <3>1. CASE m = n /\ c = d
      <4>1. arp'[m][c] = [up |-> FALSE, count |-> 0, hold |-> NoPacket]
        BY <1>1, <2>1, <2>2, <3>1 DEF TypeOK
      <4>2. arp[m][c].up = FALSE
        BY <1>1, <2>1, <3>1 DEF TypeOK, Entry
      <4>3. arp'[m][c].up = FALSE
        BY <4>1
      <4>4. arp'[m][c].hold = NoPacket
        BY <4>1
      <4> QED
        BY <3>1, <4>2, <4>3, <4>4, Zenon
    <3>2. CASE ~(m = n /\ c = d)
      BY <1>1, <2>1, <2>2, <3>2 DEF TypeOK
    <3> QED
      BY <3>1, <3>2
  <2>4. HeldUnknown(m)'
    BY <1>3, <2>3 DEF HeldUnknown
  <2>5. Waiting(m)' = Waiting(m)
    BY <1>2, <2>1 DEF Waiting
  <2>6. WaitingKnown(m)'
    BY <1>3, <2>3, <2>5 DEF WaitingKnown
  <2> QED
    BY <2>4, <2>6
<1> QED
  BY <1>6, <1>7, <1>8 DEF Send

LEMMA EnqueueKeepsHeld ==
    ASSUME TypeOK, HeldWhileUnknown, NEW n \in Node, Enqueue(n)
    PROVE  HeldWhileUnknown'
<1> SUFFICES ASSUME NEW m \in Node PROVE HeldUnknown(m)' /\ WaitingKnown(m)'
  BY DEF HeldWhileUnknown, HeldUnknown, WaitingKnown
<1>1. HeldUnknown(m) /\ WaitingKnown(m)
  BY HeldParts
<1>2. arp' = arp
  BY DEF Enqueue
<1>3. FramesIn(m)' \subseteq FramesIn(m)
  <2>1. PICK i \in DOMAIN down[n] :
          LET q == Enqueued(queue[n], down[n][i].frame)
          IN  /\ down' = [down EXCEPT ![n] = RemoveAt(@, i)]
              /\ IF blocked[n]
                 THEN /\ queue' = [queue EXCEPT ![n] = q]
                      /\ UNCHANGED <<mac, blocked>>
                 ELSE Served(n, q)
    BY DEF Enqueue
  <2> DEFINE q == Enqueued(queue[n], down[n][i].frame)
  <2>2. queue[n] \in Seq(Frame) /\ down[n] \in Seq(Event)
    BY DEF TypeOK
  <2>3. /\ down[n][i] \in Event /\ down[n][i] \in ToSet(down[n])
        /\ ToSet(RemoveAt(down[n], i)) \subseteq ToSet(down[n])
    BY <2>2, RemoveElements
  <2>4. /\ q \in Seq(Frame)
        /\ ToSet(q) \subseteq ToSet(queue[n]) \cup {down[n][i].frame}
    BY <2>2, <2>3, EnqueuedElements, ZenonT(60) DEF Event
  <2> HIDE DEF q
  <2>5. /\ ToSet(queue'[n]) \cup ({mac'[n]} \ {NoFrame})
             \subseteq ToSet(q) \cup ({mac[n]} \ {NoFrame})
        /\ m # n => queue'[m] = queue[m] /\ mac'[m] = mac[m]
    <3>1. CASE blocked[n]
      BY <2>1, <3>1 DEF q, TypeOK
    <3>2. CASE ~blocked[n]
      BY <2>1, <2>4, <3>2, ServedFrames DEF q
    <3> QED
      BY <3>1, <3>2
  <2>6. down'[n] = RemoveAt(down[n], i) /\ (m # n => down'[m] = down[m])
    BY <2>1 DEF TypeOK
  <2>7. CASE m # n
    BY <2>5, <2>6, <2>7 DEF FramesIn
  <2>8. CASE m = n
    BY <2>3, <2>4, <2>5, <2>6, <2>8 DEF FramesIn
  <2> QED
    BY <2>7, <2>8
<1>4. HeldUnknown(m)'
  BY <1>1, <1>2 DEF HeldUnknown
<1>5. WaitingKnown(m)'
  BY <1>2, <1>3, FramesStayResolved DEF WaitingKnown
<1> QED
  BY <1>4, <1>5

LEMMA TransmitKeepsHeld ==
    ASSUME TypeOK, HeldWhileUnknown, NEW n \in Node, Transmit(n)
    PROVE  HeldWhileUnknown'
<1> SUFFICES ASSUME NEW m \in Node PROVE HeldUnknown(m)' /\ WaitingKnown(m)'
  BY DEF HeldWhileUnknown, HeldUnknown, WaitingKnown
<1>1. HeldUnknown(m) /\ WaitingKnown(m)
  BY HeldParts
<1> DEFINE f == mac[n]
<1>2. f \in Frame
  BY DEF Transmit, TypeOK
<1>3. PICK hearers : IF f.type = "DATA" THEN HearData(hearers, f)
                                        ELSE HearArp(hearers, f)
  BY DEF Transmit
<1>4. ToSet(queue'[m]) \cup ({mac'[m]} \ {NoFrame})
        \subseteq ToSet(queue[m]) \cup ({mac[m]} \ {NoFrame})
  <2>1. queue[n] \in Seq(Frame) /\ Served(n, queue[n])
    BY DEF Transmit, TypeOK
  <2> QED
    BY <2>1, ServedFrames
<1>5. CASE f.type = "DATA"
  <2>1. arp' = arp /\ down' = down
    BY <1>3, <1>5 DEF HearData
  <2>2. FramesIn(m)' \subseteq FramesIn(m)
    BY <1>4, <2>1 DEF FramesIn
  <2>3. HeldUnknown(m)'
    BY <1>1, <2>1 DEF HeldUnknown
  <2>4. WaitingKnown(m)'
    BY <2>1, <2>2, FramesStayResolved DEF WaitingKnown
  <2> QED
    BY <2>3, <2>4
<1>6. CASE f.type # "DATA"
  <2>1. HearArp(hearers, f) /\ f.spa \in Node
    BY <1>2, <1>3, <1>6, FrameFields
  <2>2. arp[m] \in [Node -> Entry]
    BY DEF TypeOK
  <2>3. CASE m \in hearers
    <3>1. /\ arp'[m] = [arp[m] EXCEPT ![f.spa] = Learn(@)]
          /\ down'[m] = down[m] \o Released(m, f) \o Answer(m, f)
      BY <2>1, <2>3 DEF HearArp
    <3>2. \A c \in Node :
             arp'[m][c] = IF c = f.spa THEN Learn(arp[m][c]) ELSE arp[m][c]
      BY <2>1, <2>2, <3>1
    <3>3. /\ arp'[m][f.spa].up /\ arp'[m][f.spa].hold = NoPacket
          /\ \A c \in Node \ {f.spa} : arp'[m][c] = arp[m][c]
      BY <2>1, <2>2, <3>2, ZenonT(60) DEF Learn, Entry
    <3>4. HeldUnknown(m)'
      BY <1>1, <3>3 DEF HeldUnknown
    <3>5. /\ down[m] \in Seq(Event) /\ Released(m, f) \in Seq(Event)
          /\ Answer(m, f) \in Seq(Event)
      BY <1>2, <1>6, HeardArpEvents DEF TypeOK
    <3>6. ToSet(down'[m]) = ToSet(down[m]) \cup ToSet(Released(m, f))
                              \cup ToSet(Answer(m, f))
      <4>1. PICK s : s = down[m] \o Released(m, f)
        OBVIOUS
      <4>2. /\ s \in Seq(Event)
            /\ ToSet(s) = ToSet(down[m]) \cup ToSet(Released(m, f))
        BY <3>5, <4>1, ConcatElements
      <4>3. ToSet(s \o Answer(m, f)) = ToSet(s) \cup ToSet(Answer(m, f))
        BY <3>5, <4>2, ConcatElements
      <4>4. down'[m] = s \o Answer(m, f)
        BY <3>1, <4>1
      <4> QED
        BY <4>2, <4>3, <4>4
    <3> HIDE DEF f
    <3>7. ASSUME NEW g \in FramesIn(m)' \ FramesIn(m)
          PROVE  g \in Frame /\ Resolved(m, g)
      <4>1. PICK e \in ToSet(Released(m, f)) \cup ToSet(Answer(m, f)) :
               g = e.frame
        BY <1>4, <3>6, <3>7 DEF FramesIn
      <4> QED
        BY <1>2, <1>6, <3>3, <4>1, HeardFrames
    <3>8. WaitingKnown(m)'
      BY <3>3, <3>7, FramesStayResolved DEF WaitingKnown
    <3> QED
      BY <3>4, <3>8
  <2>4. CASE m \notin hearers
    <3>1. arp'[m] = arp[m] /\ down'[m] = down[m]
      BY <2>1, <2>4 DEF HearArp
    <3>2. FramesIn(m)' \subseteq FramesIn(m)
      BY <1>4, <3>1 DEF FramesIn
    <3>3. HeldUnknown(m)'
      BY <1>1, <3>1 DEF HeldUnknown
    <3>4. WaitingKnown(m)'
      BY <3>1, <3>2, FramesStayResolved DEF WaitingKnown
    <3> QED
      BY <3>3, <3>4
  <2> QED
    BY <2>3, <2>4
<1> QED
  BY <1>5, <1>6

(* arpresolve() and arpinput(): a packet is held only while its next hop's *)
(* address is unknown, and nothing for an unknown address gets past ARP,   *)
(* whatever requests and replies cross each other.                         *)
THEOREM HoldsOnlyUnknown == Spec => []HeldWhileUnknown
<1>1. Init => HeldWhileUnknown
  <2> SUFFICES ASSUME Init, NEW n \in Node PROVE HeldUnknown(n) /\ WaitingKnown(n)
    BY HeldParts
  <2>1. \A d \in Node : arp[n][d].hold = NoPacket
    BY DEF Init
  <2>2. down[n] = <<>> /\ queue[n] = <<>> /\ mac[n] = NoFrame
    BY DEF Init
  <2>3. Waiting(n) = {}
    BY <2>2 DEF Waiting, Packets, ToSet
  <2> QED
    BY <2>1, <2>3 DEF HeldUnknown, WaitingKnown
<1>2. TypeOK /\ HeldWhileUnknown /\ [Next]_vars => HeldWhileUnknown'
  <2> SUFFICES ASSUME TypeOK, HeldWhileUnknown, [Next]_vars
               PROVE  HeldWhileUnknown'
    OBVIOUS
  <2>1. CASE UNCHANGED vars
    BY <2>1 DEF vars, HeldWhileUnknown, Waiting
  <2> QED
    BY <2>1, SendKeepsHeld, EnqueueKeepsHeld, TransmitKeepsHeld DEF Next
<1> QED
  BY <1>1, <1>2, TypeCorrect, PTL DEF Spec

-----------------------------------------------------------------------------
(* What is left of a burst.                                                *)

LEMMA Remainder ==
    ASSUME NEW c \in Nat, NEW m \in Nat \ {0}, NEW k \in Nat, NEW r \in 0..m - 1,
           c = m * k + r
    PROVE  c % m = r
OBVIOUS

LEMMA NextRemainder ==
    ASSUME NEW c \in Nat, NEW m \in Nat \ {0}
    PROVE  (c + 1) % m = IF (c % m) + 1 = m THEN 0 ELSE (c % m) + 1
<1> DEFINE k == c \div m
           r == c % m
<1>1. r \in 0..m - 1 /\ k \in Nat /\ c = m * k + r
  OBVIOUS
<1>2. ASSUME NEW j \in Nat, NEW s \in 0..m - 1, c + 1 = m * j + s
      PROVE  (c + 1) % m = s
  <2>1. c + 1 \in Nat
    OBVIOUS
  <2> QED
    BY ONLY <1>2, <2>1, m \in Nat \ {0}, j \in Nat, s \in 0..m - 1, Remainder
<1> HIDE DEF k, r
<1>3. CASE r + 1 # m
  <2>1. r + 1 \in 0..m - 1 /\ c + 1 = m * k + (r + 1)
    BY <1>1, <1>3
  <2>2. (c + 1) % m = r + 1
    BY <1>1, <1>2, <2>1
  <2> QED
    BY <1>1, <1>3, <2>2 DEF r
<1>4. CASE r + 1 = m
  <2>1. m * (k + 1) = m * k + m
    BY <1>1
  <2>2. c + 1 = m * (k + 1) + 0 /\ k + 1 \in Nat /\ 0 \in 0..m - 1
    BY <1>1, <1>4, <2>1
  <2>3. (c + 1) % m = 0
    BY <1>2, <2>2
  <2> QED
    BY <1>1, <1>4, <2>3 DEF r
<1> QED
  BY <1>3, <1>4

(* The places in sent of what n sent to d. *)
Burst(n, d) == {k \in DOMAIN sent : Origin[sent[k]] = n /\ NextHop[sent[k]] = d}

(* p is the last packet of the burst. *)
Latest(n, d, p) ==
    \E k \in Burst(n, d) : (\A j \in Burst(n, d) : k >= j) /\ sent[k] = p

(* ARP counts the burst, and starts over when it gives up. *)
Counted(n, d) ==
    /\ arp[n][d].count = Cardinality(Burst(n, d)) % (MaxRequests + 1)
    /\ IF arp[n][d].count = 0
       THEN arp[n][d].hold = NoPacket
       ELSE Latest(n, d, arp[n][d].hold)
BurstsCounted == \A n, d \in Node : ~arp[n][d].up => Counted(n, d)

LEMMA BurstIsFinite ==
    ASSUME TypeOK, NEW n, NEW d
    PROVE  /\ IsFiniteSet(Burst(n, d)) /\ Cardinality(Burst(n, d)) \in Nat
           /\ \A k \in Burst(n, d) : k \in 1..Len(sent)
<1>1. sent \in Seq(Packet)
  BY DEF TypeOK
<1>2. Len(sent) \in Nat /\ DOMAIN sent = 1..Len(sent)
  BY <1>1
<1>3. IsFiniteSet(1..Len(sent)) /\ Burst(n, d) \in SUBSET (1..Len(sent))
  BY <1>2, FS_Interval DEF Burst
<1> QED
  BY <1>3, FS_Subset, FS_CardinalityType

(* One more packet makes one burst longer by one. *)
LEMMA SendLengthens ==
    ASSUME TypeOK, NEW x \in Packet, sent' = Append(sent, x),
           NEW n \in Node, NEW d \in Node
    PROVE  /\ \A k \in Burst(n, d) : sent'[k] = sent[k]
           /\ ~(n = Origin[x] /\ d = NextHop[x]) => Burst(n, d)' = Burst(n, d)
           /\ n = Origin[x] /\ d = NextHop[x]
                => /\ Cardinality(Burst(n, d)') = Cardinality(Burst(n, d)) + 1
                   /\ Latest(n, d, x)'
<1>1. sent \in Seq(Packet)
  BY DEF TypeOK
<1> DEFINE l == Len(sent) + 1
<1>2. /\ Len(sent) \in Nat /\ DOMAIN sent = 1..Len(sent)
      /\ DOMAIN sent' = 1..l /\ sent'[l] = x
      /\ \A k \in 1..Len(sent) : sent'[k] = sent[k] /\ k # l
      /\ 1..l = (1..Len(sent)) \cup {l}
  BY <1>1
<1> HIDE DEF l
<1>3. ASSUME ~(n = Origin[x] /\ d = NextHop[x])
      PROVE  Burst(n, d)' = Burst(n, d)
  BY <1>2, <1>3 DEF Burst
<1>4. ASSUME n = Origin[x], d = NextHop[x]
      PROVE  /\ Cardinality(Burst(n, d)') = Cardinality(Burst(n, d)) + 1
             /\ Latest(n, d, x)'
  <2>1. Burst(n, d)' = Burst(n, d) \cup {l} /\ l \notin Burst(n, d)
    BY <1>2, <1>4 DEF Burst
  <2>2. Cardinality(Burst(n, d)') = Cardinality(Burst(n, d)) + 1
    BY <2>1, BurstIsFinite, FS_AddElement
  <2>3. l \in Burst(n, d)' /\ \A j \in Burst(n, d)' : l >= j
    BY <1>2, <2>1, BurstIsFinite DEF l
  <2> QED
    BY <1>2, <2>2, <2>3 DEF Latest
<1>5. \A k \in Burst(n, d) : sent'[k] = sent[k]
  BY <1>2 DEF Burst
<1> QED
  BY <1>3, <1>4, <1>5

LEMMA SendCounted ==
    ASSUME TypeOK, BurstsCounted, NEW x \in Packet, Send(x)
    PROVE  BurstsCounted'
<1> SUFFICES ASSUME NEW m \in Node, NEW b \in Node, ~arp'[m][b].up
             PROVE  Counted(m, b)'
  BY DEF BurstsCounted
<1> DEFINE n == Origin[x]
           d == NextHop[x]
<1>1. n \in Node /\ d \in Node \cup {Everyone} /\ Everyone \notin Node
  BY PacketAssumption DEF PacketAssumption
<1>2. sent' = Append(sent, x)
  BY DEF Send
<1>3. ASSUME ~(m = n /\ b = d), arp'[m][b] = arp[m][b] PROVE Counted(m, b)'
  <2>1. Counted(m, b)
    BY <1>3 DEF BurstsCounted
  <2>2. Burst(m, b)' = Burst(m, b) /\ \A k \in Burst(m, b) : sent'[k] = sent[k]
    <3>1. ~(m = Origin[x] /\ b = NextHop[x])
      BY <1>3
    <3>2. Burst(m, b)' = Burst(m, b)
      BY <1>2, <3>1, SendLengthens
    <3>3. \A k \in Burst(m, b) : sent'[k] = sent[k]
      BY <1>2, SendLengthens
    <3> QED
      BY <3>2, <3>3
  <2> QED
    BY <1>3, <2>1, <2>2 DEF Counted, Latest
<1>4. CASE SendResolved(n, d, x)
  <2>1. arp' = arp
    BY <1>4 DEF SendResolved
  <2>2. ~(m = n /\ b = d)
    BY <1>1, <1>4, <2>1 DEF SendResolved
  <2> QED
    BY <1>3, <2>1, <2>2
<1>5. ASSUME d \in Node, ~arp[n][d].up
      PROVE  /\ arp[n][d].count \in 0..MaxRequests
             /\ Cardinality(Burst(n, d)') % (MaxRequests + 1)
                  = IF arp[n][d].count = MaxRequests THEN 0
                    ELSE arp[n][d].count + 1
             /\ Latest(n, d, x)'
  <2>1. arp[n][d].count \in 0..MaxRequests
    <3>1. arp[n][d] \in Entry
      BY <1>1, <1>5 DEF TypeOK
    <3> QED
      BY <3>1 DEF Entry
  <2>2. arp[n][d].count = Cardinality(Burst(n, d)) % (MaxRequests + 1)
    BY <1>1, <1>5 DEF BurstsCounted, Counted
  <2>3. /\ Cardinality(Burst(n, d)') = Cardinality(Burst(n, d)) + 1
        /\ Latest(n, d, x)'
    <3>1. PICK m0 \in Node, b0 \in Node : m0 = Origin[x] /\ b0 = NextHop[x]
      BY <1>1, <1>5
    <3>2. Cardinality(Burst(m0, b0)') = Cardinality(Burst(m0, b0)) + 1
      BY <1>2, <3>1, SendLengthens
    <3>3. Latest(m0, b0, x)'
      BY <1>2, <3>1, SendLengthens
    <3> QED
      BY <3>1, <3>2, <3>3
  <2>4. Cardinality(Burst(n, d)) \in Nat
    BY BurstIsFinite
  <2>5. MaxRequests \in Nat /\ MaxRequests + 1 \in Nat \ {0}
    BY LimitAssumption DEF LimitAssumption
  <2> DEFINE c == Cardinality(Burst(n, d))
  <2> HIDE DEF c
  <2>6. c \in Nat
    BY <2>4 DEF c
  <2>7. (c + 1) % (MaxRequests + 1)
          = IF (c % (MaxRequests + 1)) + 1 = MaxRequests + 1 THEN 0
            ELSE (c % (MaxRequests + 1)) + 1
    BY <2>5, <2>6, NextRemainder
  <2>8. Cardinality(Burst(n, d)') % (MaxRequests + 1)
          = IF arp[n][d].count + 1 = MaxRequests + 1 THEN 0
            ELSE arp[n][d].count + 1
    BY <2>2, <2>3, <2>7 DEF c
  <2>9. arp[n][d].count + 1 = MaxRequests + 1 <=> arp[n][d].count = MaxRequests
    BY <2>1, <2>5
  <2> QED
    BY <2>1, <2>3, <2>8, <2>9
<1>6. CASE SendHeld(n, d, x)
  <2> DEFINE e == [up |-> FALSE, count |-> arp[n][d].count + 1, hold |-> x]
  <2>1. d \in Node /\ ~arp[n][d].up /\ arp' = [arp EXCEPT ![n][d] = e]
    BY <1>1, <1>6 DEF SendHeld
  <2>2. arp[n][d].count # MaxRequests /\ arp[n][d].count + 1 # 0
    BY <1>5, <1>6, <2>1, LimitAssumption DEF SendHeld, AskedOften, LimitAssumption
  <2>3. e.count = arp[n][d].count + 1 /\ e.hold = x
    OBVIOUS
  <2> HIDE DEF e
  <2>4. arp'[m][b] = IF m = n /\ b = d THEN e ELSE arp[m][b]
    BY <1>1, <2>1 DEF TypeOK
  <2>5. CASE m = n /\ b = d
    BY <1>5, <2>1, <2>2, <2>3, <2>4, <2>5 DEF Counted
  <2> QED
    BY <1>3, <2>4, <2>5
<1>7. CASE SendRefused(n, d, x)
  <2> DEFINE e == [up |-> FALSE, count |-> 0, hold |-> NoPacket]
  <2>1. d \in Node /\ ~arp[n][d].up /\ arp' = [arp EXCEPT ![n][d] = e]
    BY <1>1, <1>7 DEF SendRefused
  <2>2. arp[n][d].count = MaxRequests
    BY <1>5, <1>7, <2>1, LimitAssumption DEF SendRefused, AskedOften, LimitAssumption
  <2>3. e.count = 0 /\ e.hold = NoPacket
    OBVIOUS
  <2> HIDE DEF e
  <2>4. arp'[m][b] = IF m = n /\ b = d THEN e ELSE arp[m][b]
    BY <1>1, <2>1 DEF TypeOK
  <2>5. CASE m = n /\ b = d
    BY <1>5, <2>1, <2>2, <2>3, <2>4, <2>5 DEF Counted
  <2> QED
    BY <1>3, <2>4, <2>5
<1> QED
  BY <1>4, <1>6, <1>7 DEF Send

LEMMA TransmitLearns ==
    ASSUME TypeOK, NEW n \in Node, Transmit(n), NEW m \in Node, NEW d \in Node,
           ~arp'[m][d].up
    PROVE  arp'[m][d] = arp[m][d]
<1> DEFINE f == mac[n]
<1>1. f \in Frame
  BY DEF Transmit, TypeOK
<1>2. PICK hearers : IF f.type = "DATA" THEN HearData(hearers, f)
                                        ELSE HearArp(hearers, f)
  BY DEF Transmit
<1>3. CASE f.type = "DATA"
  BY <1>2, <1>3 DEF HearData
<1>4. CASE f.type # "DATA"
  <2>1. f.spa \in Node /\ HearArp(hearers, f)
    BY <1>1, <1>2, <1>4, FrameFields
  <2> HIDE DEF f
  <2>2. arp'[m] = IF m \in hearers THEN [arp[m] EXCEPT ![f.spa] = Learn(@)]
                                   ELSE arp[m]
    BY <2>1 DEF HearArp
  <2>3. arp[m] \in [Node -> Entry]
    BY DEF TypeOK
  <2>4. CASE m \in hearers /\ d = f.spa
    <3>1. arp'[m][d] = Learn(arp[m][d]) /\ arp[m][d] \in Entry
      BY <2>2, <2>3, <2>4
    <3>2. arp'[m][d].up
      BY <3>1 DEF Learn, Entry
    <3> QED
      BY <3>2
  <2>5. CASE ~(m \in hearers /\ d = f.spa)
    BY <2>2, <2>3, <2>5
  <2> QED
    BY <2>4, <2>5
<1> QED
  BY <1>3, <1>4

LEMMA NextCounted ==
    ASSUME TypeOK, BurstsCounted, [Next]_vars
    PROVE  BurstsCounted'
<1>1. ASSUME sent' = sent,
             \A m, d \in Node : ~arp'[m][d].up => arp'[m][d] = arp[m][d]
      PROVE  BurstsCounted'
  <2> SUFFICES ASSUME NEW m \in Node, NEW d \in Node, ~arp'[m][d].up
               PROVE  Counted(m, d)'
    BY DEF BurstsCounted
  <2>1. arp'[m][d] = arp[m][d] /\ Counted(m, d)
    BY <1>1 DEF BurstsCounted
  <2>2. Burst(m, d)' = Burst(m, d)
    BY <1>1 DEF Burst
  <2> QED
    BY <1>1, <2>1, <2>2 DEF Counted, Latest
<1>2. ASSUME NEW x \in Packet, Send(x) PROVE BurstsCounted'
  BY <1>2, SendCounted
<1>3. ASSUME NEW n \in Node, Enqueue(n) PROVE BurstsCounted'
  BY <1>1, <1>3 DEF Enqueue
<1>4. ASSUME NEW n \in Node, Transmit(n) PROVE BurstsCounted'
  <2>1. sent' = sent
    BY <1>4 DEF Transmit
  <2> QED
    BY <1>1, <1>4, <2>1, TransmitLearns
<1>5. CASE UNCHANGED vars
  BY <1>1, <1>5 DEF vars
<1> QED
  BY <1>2, <1>3, <1>4, <1>5 DEF Next

(* ARPTable::arpresolve() has one place for a packet, asks with every      *)
(* packet and gives up after ARP_MAX_REQUEST_COUNT of them: of a burst to  *)
(* a neighbour that does not answer the last packet is left, or none.      *)
THEOREM BurstLeftover == Spec => []LastOfBurstHeld
<1>1. Init => BurstsCounted
  <2> SUFFICES ASSUME Init, NEW n \in Node, NEW d \in Node PROVE Counted(n, d)
    BY DEF BurstsCounted
  <2>1. sent = <<>> /\ arp[n][d] = [up |-> FALSE, count |-> 0, hold |-> NoPacket]
    BY DEF Init
  <2>2. Burst(n, d) = {}
    BY <2>1 DEF Burst
  <2>3. Cardinality(Burst(n, d)) = 0
    BY <2>2, FS_EmptySet
  <2>4. MaxRequests + 1 \in Nat \ {0} /\ 0 = (MaxRequests + 1) * 0 + 0
        /\ 0 \in 0..(MaxRequests + 1) - 1
    BY LimitAssumption DEF LimitAssumption
  <2>5. 0 % (MaxRequests + 1) = 0
    BY <2>4, Remainder
  <2> QED
    BY <2>1, <2>3, <2>5 DEF Counted
<1>2. TypeOK /\ BurstsCounted /\ [Next]_vars => BurstsCounted'
  BY NextCounted
<1>3. TypeOK /\ BurstsCounted => LastOfBurstHeld
  <2> SUFFICES ASSUME TypeOK, NEW n \in Node, NEW d \in Node, Counted(n, d)
               PROVE  arp[n][d].hold
                        = IF Cardinality(Burst(n, d)) % (MaxRequests + 1) = 0
                          THEN NoPacket ELSE sent[Max(Burst(n, d))]
    BY DEF BurstsCounted, LastOfBurstHeld, Burst
  <2>1. CASE arp[n][d].count = 0
    BY <2>1 DEF Counted
  <2>2. CASE arp[n][d].count # 0
    <3>1. PICK k \in Burst(n, d) : /\ \A j \in Burst(n, d) : k >= j
                                   /\ arp[n][d].hold = sent[k]
      BY <2>2 DEF Counted, Latest
    <3>2. \A j \in Burst(n, d) : j \in Int
      BY BurstIsFinite DEF TypeOK
    <3>3. \A j \in Burst(n, d) : (\A i \in Burst(n, d) : j >= i) => j = k
      BY <3>1, <3>2
    <3>4. Max(Burst(n, d)) = k
      BY <3>1, <3>3 DEF Max
    <3> QED
      BY <2>2, <3>1, <3>4 DEF Counted
  <2> QED
    BY <2>1, <2>2
<1> QED
  BY <1>1, <1>2, <1>3, TypeCorrect, PTL DEF Spec

-----------------------------------------------------------------------------
(* Where each packet is: at any moment in one place at most, and never     *)
(* lost without a trace.  From this follows that the stack keeps the       *)
(* promises of UnicastLink, and that the packets of a flow no queue        *)
(* prefers arrive in order.                                                *)

(* The places of packet p at node n.                                       *)
Occurs(s, x) == \E i \in DOMAIN s : s[i] = x
Once(s, x) == \A i, j \in DOMAIN s : s[i] = x /\ s[j] = x => i = j

OccursDown(s, x) == \E i \in DOMAIN s : s[i].frame = x
OnceDown(s, x) ==
    \A i, j \in DOMAIN s : s[i].frame = x /\ s[j].frame = x => i = j

IsHeld(n, p) == \E d \in Node : arp[n][d].hold = p
InDown(n, p) == OccursDown(down[n], Data(p))
InQueue(n, p) == Occurs(queue[n], Data(p))
WithMac(n, p) == mac[n] = Data(p)
InStackOf(n, p) == IsHeld(n, p) \/ InDown(n, p) \/ InQueue(n, p) \/ WithMac(n, p)

OnePlace(n, p) ==
    /\ OnceDown(down[n], Data(p))
    /\ Once(queue[n], Data(p))
    /\ ~(InDown(n, p) /\ InQueue(n, p))
    /\ ~(InDown(n, p) /\ WithMac(n, p))
    /\ ~(InQueue(n, p) /\ WithMac(n, p))

(* What is true of every packet. *)
Traced(p) ==
    /\ \A n \in Node : InStackOf(n, p) => n = Origin[p]
    /\ OnePlace(Origin[p], p)
    /\ p \in ToSet(sent)
         <=> InStackOf(Origin[p], p) \/ p \in Arrived \/ p \in dropped
    /\ InStackOf(Origin[p], p) => p \notin Arrived /\ p \notin dropped

AllTraced == \A p \in Packet : Traced(p)

-----------------------------------------------------------------------------
(* Sequences.                                                              *)

LEMMA TailPlaces ==
    ASSUME NEW S, NEW s \in Seq(S), s # <<>>, NEW x
    PROVE  /\ Occurs(s, x) <=> Head(s) = x \/ Occurs(Tail(s), x)
           /\ Once(s, x) => Once(Tail(s), x)
           /\ Once(s, x) => ~(Head(s) = x /\ Occurs(Tail(s), x))
<1>1. /\ Len(s) \in Nat \ {0} /\ DOMAIN s = 1..Len(s)
      /\ Head(s) = s[1] /\ Tail(s) \in Seq(S)
      /\ DOMAIN Tail(s) = 1..Len(s) - 1
      /\ \A i \in 1..Len(s) - 1 : Tail(s)[i] = s[i + 1]
  OBVIOUS
<1>2. \A i \in 1..Len(s) - 1 : i + 1 \in 1..Len(s) /\ i + 1 # 1
  BY <1>1
<1>3. \A i \in 1..Len(s) : i = 1 \/ (i - 1 \in 1..Len(s) - 1 /\ (i - 1) + 1 = i)
  BY <1>1
<1>4. 1 \in 1..Len(s)
  BY <1>1
<1>5. Occurs(s, x) <=> Head(s) = x \/ Occurs(Tail(s), x)
  <2>1. ASSUME Occurs(s, x) PROVE Head(s) = x \/ Occurs(Tail(s), x)
    <3>1. PICK i \in 1..Len(s) : s[i] = x
      BY <1>1, <2>1 DEF Occurs
    <3>2. CASE i # 1
      <4>1. i - 1 \in 1..Len(s) - 1 /\ (i - 1) + 1 = i
        BY <1>3, <3>2
      <4>2. Tail(s)[i - 1] = x
        BY <1>1, <3>1, <4>1
      <4> QED
        BY <1>1, <4>1, <4>2 DEF Occurs
    <3> QED
      BY <1>1, <3>1, <3>2
  <2>2. ASSUME Occurs(Tail(s), x) PROVE Occurs(s, x)
    BY <1>1, <1>2, <2>2 DEF Occurs
  <2>3. ASSUME Head(s) = x PROVE Occurs(s, x)
    BY <1>1, <1>4, <2>3 DEF Occurs
  <2> QED
    BY <2>1, <2>2, <2>3
<1>6. ASSUME Once(s, x) PROVE Once(Tail(s), x)
  <2> SUFFICES ASSUME NEW i \in 1..Len(s) - 1, NEW j \in 1..Len(s) - 1,
                      Tail(s)[i] = x, Tail(s)[j] = x
               PROVE  i = j
    BY <1>1 DEF Once
  <2>1. i + 1 = j + 1
    BY <1>1, <1>2, <1>6 DEF Once
  <2> QED
    BY <2>1
<1>7. ASSUME Once(s, x) PROVE ~(Head(s) = x /\ Occurs(Tail(s), x))
  <2> SUFFICES ASSUME Head(s) = x, NEW i \in 1..Len(s) - 1, Tail(s)[i] = x
               PROVE  FALSE
    BY <1>1 DEF Occurs
  <2>1. 1 = i + 1
    BY <1>1, <1>2, <1>4, <1>7 DEF Once
  <2> QED
    BY <2>1
<1> QED
  BY <1>5, <1>6, <1>7

(* PriQueue::recv() puts a frame into the queue at most once.              *)
LEMMA EnqueuedPlaces ==
    ASSUME NEW q \in Seq(Frame), NEW f \in Frame, NEW x,
           Once(q, x), ~(Occurs(q, x) /\ f = x)
    PROVE  /\ Once(Enqueued(q, f), x)
           /\ Occurs(Enqueued(q, f), x) => Occurs(q, x) \/ f = x
<1>1. /\ Len(q) \in Nat /\ DOMAIN q = 1..Len(q)
  OBVIOUS
<1>2. Once(AtTail(q, f), x) /\ (Occurs(AtTail(q, f), x) => Occurs(q, x) \/ f = x)
  <2>1. /\ DOMAIN Append(q, f) = 1..Len(q) + 1
        /\ \A i \in 1..Len(q) : Append(q, f)[i] = q[i]
        /\ Append(q, f)[Len(q) + 1] = f
    OBVIOUS
  <2>2. \A i \in 1..Len(q) + 1 : i \in 1..Len(q) \/ i = Len(q) + 1
    BY <1>1
  <2>3. Occurs(Append(q, f), x) => Occurs(q, x) \/ f = x
    BY <1>1, <2>1, <2>2 DEF Occurs
  <2>4. Once(Append(q, f), x)
    BY <1>1, <2>1, <2>2 DEF Occurs, Once
  <2> QED
    BY <2>3, <2>4 DEF AtTail
<1> DEFINE r == <<f>> \o q
<1>3. /\ r \in Seq(Frame) /\ Len(r) = Len(q) + 1 /\ DOMAIN r = 1..Len(q) + 1
      /\ r[1] = f
      /\ \A i \in 1..Len(q) : r[i + 1] = q[i]
  OBVIOUS
<1> HIDE DEF r
<1>4. \A i \in 1..Len(q) + 1 : i = 1 \/ (i - 1 \in 1..Len(q) /\ (i - 1) + 1 = i)
  BY <1>1
<1>4a. \A i \in 1..Len(q) + 1 : r[i] = x => \/ i = 1 /\ f = x
                                            \/ i - 1 \in 1..Len(q) /\ q[i - 1] = x
  <2> SUFFICES ASSUME NEW i \in 1..Len(q) + 1, r[i] = x
               PROVE  \/ i = 1 /\ f = x
                      \/ i - 1 \in 1..Len(q) /\ q[i - 1] = x
    OBVIOUS
  <2>1. CASE i = 1
    BY <1>3, <2>1
  <2>2. CASE i # 1
    <3>1. i - 1 \in 1..Len(q) /\ (i - 1) + 1 = i
      BY <1>4, <2>2
    <3>2. r[(i - 1) + 1] = q[i - 1]
      BY <1>3, <3>1
    <3> QED
      BY <3>1, <3>2
  <2> QED
    BY <2>1, <2>2
<1>5. Occurs(r, x) => Occurs(q, x) \/ f = x
  BY <1>1, <1>3, <1>4a DEF Occurs
<1>6. Once(r, x)
  <2> SUFFICES ASSUME NEW i \in 1..Len(q) + 1, NEW j \in 1..Len(q) + 1,
                      r[i] = x, r[j] = x
               PROVE  i = j
    BY <1>3 DEF Once
  <2>1. \/ i = 1 /\ f = x
        \/ i - 1 \in 1..Len(q) /\ q[i - 1] = x
    BY <1>4a
  <2>2. \/ j = 1 /\ f = x
        \/ j - 1 \in 1..Len(q) /\ q[j - 1] = x
    BY <1>4a
  <2>3. CASE f = x
    BY <1>1, <2>1, <2>2, <2>3 DEF Occurs
  <2>4. CASE f # x
    <3>1. i - 1 = j - 1
      BY <1>1, <2>1, <2>2, <2>4 DEF Once
    <3> QED
      BY <3>1
  <2> QED
    BY <2>3, <2>4
<1>7. /\ DOMAIN Front(r) = 1..Len(q)
      /\ \A i \in 1..Len(q) : Front(r)[i] = r[i] /\ i \in 1..Len(q) + 1
  BY <1>1, <1>3 DEF Front
<1>8. Once(Front(r), x) /\ (Occurs(Front(r), x) => Occurs(r, x))
  BY <1>3, <1>6, <1>7 DEF Once, Occurs
<1>9. Once(AtHead(q, f), x) /\ (Occurs(AtHead(q, f), x) => Occurs(q, x) \/ f = x)
  BY <1>5, <1>6, <1>8 DEF AtHead, r
<1> QED
  BY <1>2, <1>9 DEF Enqueued

LEMMA ConcatPlaces ==
    ASSUME NEW S, NEW s \in Seq(S), NEW t \in Seq(S), NEW x
    PROVE  /\ OccursDown(s \o t, x) <=> OccursDown(s, x) \/ OccursDown(t, x)
           /\ OnceDown(s, x) /\ OnceDown(t, x)
              /\ ~(OccursDown(s, x) /\ OccursDown(t, x)) => OnceDown(s \o t, x)
<1> DEFINE r == s \o t
<1>1. /\ r \in Seq(S) /\ Len(s) \in Nat /\ Len(t) \in Nat
      /\ DOMAIN s = 1..Len(s) /\ DOMAIN t = 1..Len(t)
      /\ DOMAIN r = 1..Len(s) + Len(t)
      /\ \A i \in 1..Len(s) : r[i] = s[i]
      /\ \A i \in 1..Len(t) : r[Len(s) + i] = t[i]
  OBVIOUS
<1> HIDE DEF r
<1>2. ASSUME NEW i \in 1..Len(s) + Len(t)
      PROVE  \/ i \in 1..Len(s) /\ r[i] = s[i]
             \/ i - Len(s) \in 1..Len(t) /\ r[i] = t[i - Len(s)]
  <2>1. CASE i \in 1..Len(s)
    BY <1>1, <2>1
  <2>2. CASE i \notin 1..Len(s)
    <3>1. i - Len(s) \in 1..Len(t) /\ Len(s) + (i - Len(s)) = i
      BY <1>1, <2>2
    <3>2. r[Len(s) + (i - Len(s))] = t[i - Len(s)]
      BY <1>1, <3>1
    <3> QED
      BY <3>1, <3>2
  <2> QED
    BY <2>1, <2>2
<1>3. /\ \A i \in 1..Len(s) : i \in 1..Len(s) + Len(t)
      /\ \A i \in 1..Len(t) : Len(s) + i \in 1..Len(s) + Len(t)
  BY <1>1
<1>4. OccursDown(r, x) <=> OccursDown(s, x) \/ OccursDown(t, x)
  <2>1. OccursDown(r, x) => OccursDown(s, x) \/ OccursDown(t, x)
    BY <1>1, <1>2 DEF OccursDown
  <2>2. OccursDown(s, x) => OccursDown(r, x)
    BY <1>1, <1>3 DEF OccursDown
  <2>3. OccursDown(t, x) => OccursDown(r, x)
    BY <1>1, <1>3 DEF OccursDown
  <2> QED
    BY <2>1, <2>2, <2>3
<1>5. ASSUME OnceDown(s, x), OnceDown(t, x),
             ~(OccursDown(s, x) /\ OccursDown(t, x))
      PROVE  OnceDown(r, x)
  <2> SUFFICES ASSUME NEW i \in 1..Len(s) + Len(t), NEW j \in 1..Len(s) + Len(t),
                      r[i].frame = x, r[j].frame = x
               PROVE  i = j
    BY <1>1 DEF OnceDown
  <2>1. \/ i \in 1..Len(s) /\ s[i].frame = x
        \/ i - Len(s) \in 1..Len(t) /\ t[i - Len(s)].frame = x
    BY <1>2
  <2>2. \/ j \in 1..Len(s) /\ s[j].frame = x
        \/ j - Len(s) \in 1..Len(t) /\ t[j - Len(s)].frame = x
    BY <1>2
  <2>3. i = j \/ i - Len(s) = j - Len(s)
    BY <1>1, <1>5, <2>1, <2>2 DEF OnceDown, OccursDown
  <2> QED
    BY <1>1, <2>3
<1> QED
  BY <1>4, <1>5 DEF r

LEMMA AppendPlaces ==
    ASSUME NEW S, NEW s \in Seq(S), NEW e \in S, NEW x
    PROVE  /\ OccursDown(Append(s, e), x) <=> OccursDown(s, x) \/ e.frame = x
           /\ OnceDown(s, x) /\ ~(OccursDown(s, x) /\ e.frame = x)
                => OnceDown(Append(s, e), x)
<1>1. PICK t : t = <<e>>
  OBVIOUS
<1>2. t \in Seq(S) /\ DOMAIN t = {1} /\ t[1] = e
  BY <1>1
<1>3. OnceDown(t, x) /\ (OccursDown(t, x) <=> e.frame = x)
  BY <1>2 DEF OnceDown, OccursDown
<1>4. Append(s, e) = s \o t
  BY <1>1
<1> QED
  BY <1>2, <1>3, <1>4, ConcatPlaces

LEMMA RemovePlaces ==
    ASSUME NEW S, NEW s \in Seq(S), NEW i \in DOMAIN s, NEW x, OnceDown(s, x)
    PROVE  /\ OnceDown(RemoveAt(s, i), x)
           /\ OccursDown(RemoveAt(s, i), x)
                <=> OccursDown(s, x) /\ s[i].frame # x
<1>1. /\ Len(s) \in Nat /\ i \in 1..Len(s)
      /\ DOMAIN s = 1..Len(s)
  OBVIOUS
<1> DEFINE a == SubSeq(s, 1, i - 1)
           b == SubSeq(s, i + 1, Len(s))
<1>2. /\ a \in Seq(S) /\ Len(a) = i - 1
      /\ \A j \in 1..i - 1 : a[j] = s[j] /\ j \in 1..Len(s) /\ j # i
  BY <1>1
<1>3. /\ b \in Seq(S) /\ Len(b) = Len(s) - i
      /\ \A j \in 1..Len(s) - i : /\ b[j] = s[i + j] /\ i + j \in 1..Len(s)
                                  /\ i + j # i
  <2>1. /\ b \in Seq(S) /\ Len(b) = Len(s) - i
        /\ \A j \in 1..Len(b) : b[j] = s[i + j] /\ i + j \in 1..Len(s)
    BY <1>1, SMTT(60)
  <2> HIDE DEF b
  <2> QED
    BY <1>1, <2>1
<1>4. DOMAIN a = 1..i - 1 /\ DOMAIN b = 1..Len(s) - i
  BY <1>2, <1>3
<1>5. RemoveAt(s, i) = a \o b
  BY DEF RemoveAt
<1> HIDE DEF a, b
<1>6. OnceDown(a, x)
  BY <1>1, <1>2, <1>4 DEF OnceDown
<1>7. OnceDown(b, x)
  <2> SUFFICES ASSUME NEW j \in 1..Len(s) - i, NEW k \in 1..Len(s) - i,
                      b[j].frame = x, b[k].frame = x
               PROVE  j = k
    BY <1>4 DEF OnceDown
  <2>1. i + j = i + k
    BY <1>1, <1>3 DEF OnceDown
  <2> QED
    BY <1>1, <2>1
<1>8. ~(OccursDown(a, x) /\ OccursDown(b, x))
  <2> SUFFICES ASSUME NEW j \in 1..i - 1, NEW k \in 1..Len(s) - i,
                      a[j].frame = x, b[k].frame = x
               PROVE  FALSE
    BY <1>4 DEF OccursDown
  <2>1. j = i + k
    BY <1>1, <1>2, <1>3 DEF OnceDown
  <2> QED
    BY <1>1, <2>1
<1>9. OccursDown(a, x) \/ OccursDown(b, x) <=> OccursDown(s, x) /\ s[i].frame # x
  <2>1. ASSUME OccursDown(a, x) PROVE OccursDown(s, x) /\ s[i].frame # x
    BY <1>1, <1>2, <1>4, <2>1 DEF OccursDown, OnceDown
  <2>2. ASSUME OccursDown(b, x) PROVE OccursDown(s, x) /\ s[i].frame # x
    BY <1>1, <1>3, <1>4, <2>2 DEF OccursDown, OnceDown
  <2>3. ASSUME OccursDown(s, x), s[i].frame # x
        PROVE  OccursDown(a, x) \/ OccursDown(b, x)
    <3>1. PICK k \in 1..Len(s) : s[k].frame = x
      BY <1>1, <2>3 DEF OccursDown
    <3>2. CASE k \in 1..i - 1
      BY <1>2, <1>4, <3>1, <3>2 DEF OccursDown
    <3>3. CASE k \notin 1..i - 1
      <4>1. k - i \in 1..Len(s) - i /\ i + (k - i) = k
        BY <1>1, <2>3, <3>1, <3>3
      <4>2. b[k - i] = s[k]
        BY <1>3, <4>1
      <4> QED
        BY <1>4, <3>1, <4>1, <4>2 DEF OccursDown
    <3> QED
      BY <3>2, <3>3
  <2> QED
    BY <2>1, <2>2, <2>3
<1> QED
  BY <1>2, <1>3, <1>5, <1>6, <1>7, <1>8, <1>9, ConcatPlaces

-----------------------------------------------------------------------------
(* Places and the state.                                                   *)

LEMMA PacketsOf ==
    ASSUME NEW S, S \subseteq Frame
    PROVE  /\ Packets(S) \subseteq Packet
           /\ \A p \in Packet : p \in Packets(S) <=> Data(p) \in S
BY FrameFields, FrameKinds DEF Packets

LEMMA DataFrames ==
    ASSUME NEW p \in Packet
    PROVE  /\ Data(p) \in Frame /\ Data(p) # NoFrame /\ p # NoPacket
           /\ \A x \in Packet : Data(x) = Data(p) => x = p
           /\ \A n, d \in Node : Request(n, d) # Data(p) /\ Reply(n, d) # Data(p)
<1>1. p # NoPacket
  BY NoPacketAssumption DEF NoPacketAssumption
<1>2. Data(p) \in Frame /\ Data(p) # NoFrame
  BY FrameKinds, FrameFields
<1> QED
  BY <1>1, <1>2, FrameKinds

LEMMA WaitingPlaces ==
    ASSUME TypeOK, NEW n \in Node, NEW p \in Packet
    PROVE  p \in Waiting(n) <=> InDown(n, p) \/ InQueue(n, p) \/ WithMac(n, p)
<1>1. down[n] \in Seq(Event) /\ queue[n] \in Seq(Frame)
      /\ mac[n] \in Frame \cup {NoFrame}
  BY DEF TypeOK
<1>2. /\ \A e \in ToSet(down[n]) : e \in Event
      /\ ToSet(queue[n]) \subseteq Frame
  BY <1>1 DEF ToSet
<1>3. FramesIn(n) \subseteq Frame
  BY <1>1, <1>2 DEF FramesIn, Event
<1>4. p \in Waiting(n) <=> Data(p) \in FramesIn(n)
  BY <1>3, PacketsOf, WaitingFrames
<1>5. Data(p) \in FramesIn(n) <=>
        \/ \E e \in ToSet(down[n]) : e.frame = Data(p)
        \/ Data(p) \in ToSet(queue[n])
        \/ mac[n] = Data(p)
  BY DataFrames DEF FramesIn
<1>6. (\E e \in ToSet(down[n]) : e.frame = Data(p)) <=> InDown(n, p)
  BY DEF InDown, OccursDown, ToSet
<1>7. Data(p) \in ToSet(queue[n]) <=> InQueue(n, p)
  BY DEF InQueue, Occurs, ToSet
<1> QED
  BY <1>4, <1>5, <1>6, <1>7 DEF WithMac

LEMMA StackPlaces ==
    ASSUME TypeOK, NEW p \in Packet
    PROVE  p \in InStack <=> \E n \in Node : InStackOf(n, p)
<1>1. ASSUME NEW n \in Node PROVE p \in Held(n) <=> IsHeld(n, p)
  BY DataFrames DEF Held, IsHeld
<1>2. ASSUME NEW n \in Node
      PROVE  p \in Held(n) \cup Waiting(n) <=> InStackOf(n, p)
  BY <1>1, WaitingPlaces DEF InStackOf
<1> QED
  BY <1>2 DEF InStack

(* A packet that ARP holds is nowhere else, and held for its next hop.     *)
LEMMA HeldPlaces ==
    ASSUME TypeOK, HeldWhileUnknown, NEW n \in Node, NEW p \in Packet,
           NEW d \in Node, arp[n][d].hold = p
    PROVE  /\ d = NextHop[p] /\ ~arp[n][d].up
           /\ ~InDown(n, p) /\ ~InQueue(n, p) /\ ~WithMac(n, p)
<1>1. NextHop[p] = d /\ ~arp[n][d].up
  BY DataFrames DEF HeldWhileUnknown
<1>2. p \notin Waiting(n)
  BY <1>1 DEF HeldWhileUnknown
<1> QED
  BY <1>1, <1>2, WaitingPlaces

(* Serving a queue leaves each of its packets in the queue or the MAC.     *)
LEMMA ServedPlaces ==
    ASSUME TypeOK, NEW n \in Node, NEW q \in Seq(Frame), Served(n, q),
           NEW p \in Packet, Once(q, Data(p))
    PROVE  /\ InQueue(n, p)' \/ WithMac(n, p)' <=> Occurs(q, Data(p))
           /\ Once(queue'[n], Data(p))
           /\ ~(InQueue(n, p)' /\ WithMac(n, p)')
           /\ \A m \in Node \ {n} : queue'[m] = queue[m] /\ mac'[m] = mac[m]
<1>1. \A m \in Node \ {n} : queue'[m] = queue[m] /\ mac'[m] = mac[m]
  BY DEF Served, TypeOK
<1>2. CASE q = <<>>
  <2>1. queue'[n] = <<>> /\ mac'[n] = NoFrame
    BY <1>2 DEF Served, TypeOK
  <2>2. ~WithMac(n, p)'
    BY <2>1, DataFrames DEF WithMac
  <2>3. ~Occurs(<<>>, Data(p)) /\ Once(<<>>, Data(p))
    BY DEF Occurs, Once
  <2> QED
    BY <1>1, <1>2, <2>1, <2>2, <2>3 DEF InQueue
<1>3. CASE q # <<>>
  <2>1. queue'[n] = Tail(q) /\ mac'[n] = Head(q)
    BY <1>3 DEF Served, TypeOK
  <2>2. /\ InQueue(n, p)' <=> Occurs(Tail(q), Data(p))
        /\ WithMac(n, p)' <=> Head(q) = Data(p)
    BY <2>1 DEF InQueue, WithMac
  <2>3. /\ Occurs(q, Data(p)) <=> Head(q) = Data(p) \/ Occurs(Tail(q), Data(p))
        /\ Once(Tail(q), Data(p))
        /\ ~(Head(q) = Data(p) /\ Occurs(Tail(q), Data(p)))
    BY <1>3, TailPlaces
  <2> QED
    BY <1>1, <2>1, <2>2, <2>3
<1> QED
  BY <1>2, <1>3

-----------------------------------------------------------------------------
(* Each step keeps every packet traced.                                    *)

LEMMA OriginIsNode ==
    \A p \in Packet : Origin[p] \in Node /\ NextHop[p] \in Node \cup {Everyone}
BY PacketAssumption DEF PacketAssumption

(* What LL or ARP schedules at n is one more frame below n's ARP.          *)
LEMMA ScheduledPlaces ==
    ASSUME TypeOK, NEW n \in Node, NEW f \in Frame, NEW by \in {"LL", "ARP"},
           Scheduled(n, f, by), NEW m \in Node, NEW p \in Packet
    PROVE  /\ InDown(m, p)' <=> InDown(m, p) \/ (m = n /\ f = Data(p))
           /\ OnceDown(down[m], Data(p)) /\ ~(InDown(m, p) /\ f = Data(p))
                => OnceDown(down'[m], Data(p))
<1>1. CASE m # n
  <2>1. down'[m] = down[m]
    BY <1>1 DEF Scheduled, TypeOK
  <2> QED
    BY <1>1, <2>1 DEF InDown
<1>2. CASE m = n
  <2> DEFINE e == [frame |-> f, by |-> by]
  <2>1. e \in Event /\ e.frame = f
    BY DEF Event
  <2>2. down'[n] = Append(down[n], e) /\ down[n] \in Seq(Event)
    BY DEF Scheduled, TypeOK
  <2> HIDE DEF e
  <2> QED
    BY <1>2, <2>1, <2>2, AppendPlaces DEF InDown
<1> QED
  BY <1>1, <1>2

LEMMA SendTraced ==
    ASSUME TypeOK, HeldWhileUnknown, AllTraced, NEW x \in Packet, Send(x),
           NEW p \in Packet
    PROVE  Traced(p)'
<1> DEFINE n == Origin[x]
           d == NextHop[x]
           o == Origin[p]
<1>1. n \in Node /\ d \in Node \cup {Everyone} /\ o \in Node /\ Everyone \notin Node
  BY OriginIsNode, PacketAssumption DEF PacketAssumption
<1>2. /\ Arrived' = Arrived
      /\ \A m \in Node : InQueue(m, p)' <=> InQueue(m, p)
      /\ \A m \in Node : WithMac(m, p)' <=> WithMac(m, p)
      /\ queue' = queue
  BY DEF Send, Arrived, InQueue, WithMac
<1>3. x \notin ToSet(sent) /\ (p \in ToSet(sent)' <=> p \in ToSet(sent) \/ p = x)
  BY AppendElements DEF Send, TypeOK
<1>4. Traced(p) /\ Traced(x)
  BY DEF AllTraced
<1>5. /\ \A m \in Node : ~InStackOf(m, x)
      /\ x \notin Arrived /\ x \notin dropped
  BY <1>1, <1>3, <1>4 DEF Traced
<1>6. /\ \A m \in Node : InStackOf(m, p) => m = o
      /\ OnceDown(down[o], Data(p)) /\ Once(queue[o], Data(p))
      /\ ~(InDown(o, p) /\ InQueue(o, p))
      /\ ~(InDown(o, p) /\ WithMac(o, p))
      /\ ~(InQueue(o, p) /\ WithMac(o, p))
      /\ p \in ToSet(sent) <=> InStackOf(o, p) \/ p \in Arrived \/ p \in dropped
      /\ InStackOf(o, p) => p \notin Arrived /\ p \notin dropped
  BY <1>4 DEF Traced, OnePlace
<1>7. Data(x) \in Frame /\ (Data(x) = Data(p) <=> p = x)
  BY DataFrames
<1>8. CASE SendResolved(n, d, x)
  <2>1. arp' = arp /\ dropped' = dropped
    BY <1>8 DEF SendResolved
  <2>2. ASSUME NEW m \in Node
        PROVE  /\ InDown(m, p)' <=> InDown(m, p) \/ (m = n /\ p = x)
               /\ OnceDown(down[m], Data(p)) /\ ~(InDown(m, p) /\ p = x)
                    => OnceDown(down'[m], Data(p))
    BY <1>1, <1>7, <1>8, ScheduledPlaces DEF SendResolved
  <2>3. \A m \in Node : IsHeld(m, p)' <=> IsHeld(m, p)
    BY <2>1 DEF IsHeld
  <2>4. \A m \in Node : InStackOf(m, p)' <=> InStackOf(m, p) \/ (m = n /\ p = x)
    BY <1>2, <2>2, <2>3 DEF InStackOf
  <2>5. p = x => ~InDown(o, p) /\ ~InQueue(o, p) /\ ~WithMac(o, p)
    BY <1>1, <1>5 DEF InStackOf
  <2>6. OnePlace(o, p)'
    BY <1>1, <1>2, <1>6, <2>2, <2>5 DEF OnePlace
  <2> QED
    BY <1>1, <1>2, <1>3, <1>5, <1>6, <2>1, <2>4, <2>6 DEF Traced
<1>9. ASSUME d \in Node, NEW c, ~arp[n][d].up,
             arp' = [arp EXCEPT ![n][d] = [up |-> FALSE, count |-> c,
                                           hold |-> arp'[n][d].hold]],
             arp'[n][d].hold \in {x, NoPacket},
             p # x
      PROVE  \A m \in Node : IsHeld(m, p)' <=> IsHeld(m, p) /\ p # arp[n][d].hold
  <2>1. ASSUME NEW m \in Node, NEW b \in Node, m # n \/ b # d
        PROVE  arp'[m][b] = arp[m][b]
    BY <1>1, <1>9, <2>1 DEF TypeOK
  <2>2. p # arp'[n][d].hold
    BY <1>9, DataFrames
  <2>3. ASSUME NEW m \in Node, p = arp[n][d].hold PROVE ~IsHeld(m, p)'
    <3>1. IsHeld(n, p)
      BY <1>9, <2>3 DEF IsHeld
    <3>2. n = o
      BY <1>1, <1>6, <3>1 DEF InStackOf
    <3>3. CASE m = n
      <4>1. \A b \in Node : b # d => arp[n][b].hold # p
        <5> SUFFICES ASSUME NEW b \in Node, b # d, arp[n][b].hold = p
                     PROVE  FALSE
          OBVIOUS
        <5>1. b = NextHop[p] /\ d = NextHop[p]
          BY <1>1, <1>9, <2>3, HeldPlaces
        <5> QED
          BY <5>1
      <4> QED
        BY <1>1, <2>1, <2>2, <3>3, <4>1 DEF IsHeld
    <3>4. CASE m # n
      <4>1. ~IsHeld(m, p)
        BY <1>6, <3>2, <3>4 DEF InStackOf
      <4> QED
        BY <2>1, <3>4, <4>1 DEF IsHeld
    <3> QED
      BY <3>3, <3>4
  <2>4. ASSUME NEW m \in Node, p # arp[n][d].hold
        PROVE  IsHeld(m, p)' <=> IsHeld(m, p)
    <3>1. ASSUME NEW b \in Node PROVE arp'[m][b].hold = p <=> arp[m][b].hold = p
      <4>1. CASE m = n /\ b = d
        BY <2>2, <2>4, <4>1
      <4>2. CASE m # n \/ b # d
        BY <2>1, <4>2
      <4> QED
        BY <4>1, <4>2
    <3> QED
      BY <3>1 DEF IsHeld
  <2> QED
    BY <2>3, <2>4
<1>10. ASSUME d \in Node, NEW c, ~arp[n][d].up,
              arp' = [arp EXCEPT ![n][d] = [up |-> FALSE, count |-> c,
                                            hold |-> arp'[n][d].hold]],
              arp'[n][d].hold \in {x, NoPacket},
              p # x,
              \A m \in Node : InDown(m, p)' <=> InDown(m, p),
              OnceDown(down'[o], Data(p)),
              p \in dropped' <=> p \in dropped \/ p = arp[n][d].hold
       PROVE  Traced(p)'
  <2>1. \A m \in Node : IsHeld(m, p)' <=> IsHeld(m, p) /\ p # arp[n][d].hold
    BY <1>9, <1>10
  <2>2. OnePlace(o, p)'
    BY <1>1, <1>2, <1>6, <1>10 DEF OnePlace
  <2>3. CASE p = arp[n][d].hold
    <3>1. IsHeld(n, p)
      BY <1>10, <2>3 DEF IsHeld
    <3>2. n = o
      BY <1>1, <1>6, <3>1 DEF InStackOf
    <3>3. ~InDown(n, p) /\ ~InQueue(n, p) /\ ~WithMac(n, p)
      BY <1>1, <1>10, <2>3, HeldPlaces
    <3>4. \A m \in Node : ~InStackOf(m, p)'
      BY <1>2, <1>6, <1>10, <2>1, <2>3, <3>2, <3>3 DEF InStackOf
    <3>5. p \in ToSet(sent) /\ p \in dropped'
      BY <1>6, <1>10, <2>3, <3>1, <3>2 DEF InStackOf
    <3> QED
      BY <1>1, <1>2, <1>3, <2>2, <3>4, <3>5 DEF Traced
  <2>4. CASE p # arp[n][d].hold
    <3>1. \A m \in Node : InStackOf(m, p)' <=> InStackOf(m, p)
      BY <1>2, <1>10, <2>1, <2>4 DEF InStackOf
    <3> QED
      BY <1>1, <1>2, <1>3, <1>6, <1>10, <2>2, <2>4, <3>1 DEF Traced
  <2> QED
    BY <2>3, <2>4
<1>11. ASSUME d \in Node PROVE arp[n][d].hold # x
  BY <1>1, <1>5, <1>11 DEF InStackOf, IsHeld
<1>12. CASE SendHeld(n, d, x)
  <2>1. d \in Node /\ ~arp[n][d].up
    BY <1>1, <1>12 DEF SendHeld
  <2>2. arp' = [arp EXCEPT ![n][d] =
                  [up |-> FALSE, count |-> @.count + 1, hold |-> x]]
    BY <1>12 DEF SendHeld
  <2>3. arp'[n][d].hold = x
    BY <1>1, <2>1, <2>2 DEF TypeOK
  <2>4. ASSUME NEW m \in Node
        PROVE  /\ InDown(m, p)' <=> InDown(m, p)
               /\ OnceDown(down[m], Data(p)) => OnceDown(down'[m], Data(p))
    <3>1. Request(n, d) \in Frame /\ Request(n, d) # Data(p)
      BY <1>1, <2>1, FrameKinds, DataFrames
    <3> QED
      BY <1>1, <1>12, <3>1, ScheduledPlaces DEF SendHeld
  <2>5. dropped' = dropped \cup ({arp[n][d].hold} \ {NoPacket})
    BY <1>12 DEF SendHeld
  <2>6. CASE p = x
    <3>1. IsHeld(n, p)'
      BY <2>1, <2>3, <2>6 DEF IsHeld
    <3>2. ASSUME NEW m \in Node, m # n PROVE ~IsHeld(m, p)'
      <4>1. arp'[m] = arp[m]
        BY <1>1, <2>2, <3>2 DEF TypeOK
      <4> QED
        BY <1>5, <2>6, <4>1 DEF InStackOf, IsHeld
    <3>3. ASSUME NEW m \in Node
          PROVE  ~InDown(m, p)' /\ ~InQueue(m, p)' /\ ~WithMac(m, p)'
      BY <1>2, <1>5, <2>4, <2>6 DEF InStackOf
    <3>4. \A m \in Node : InStackOf(m, p)' <=> m = n
      BY <1>1, <3>1, <3>2, <3>3 DEF InStackOf
    <3>5. OnePlace(o, p)'
      BY <1>1, <1>2, <1>6, <2>4, <3>3 DEF OnePlace
    <3>6. p \notin dropped' /\ p \notin Arrived'
      BY <1>2, <1>5, <1>11, <2>1, <2>5, <2>6
    <3> QED
      BY <1>1, <1>3, <2>6, <3>4, <3>5, <3>6 DEF Traced
  <2>7. CASE p # x
    <3>1. p \in dropped' <=> p \in dropped \/ p = arp[n][d].hold
      BY <2>5, DataFrames
    <3>2. arp' = [arp EXCEPT ![n][d] = [up |-> FALSE, count |-> arp[n][d].count + 1,
                                        hold |-> arp'[n][d].hold]]
      BY <1>1, <2>1, <2>2, <2>3 DEF TypeOK
    <3> QED
      BY <1>1, <1>6, <1>10, <2>1, <2>3, <2>4, <2>7, <3>1, <3>2
  <2> QED
    BY <2>6, <2>7
<1>13. CASE SendRefused(n, d, x)
  <2>1. d \in Node /\ ~arp[n][d].up /\ down' = down
    BY <1>1, <1>13 DEF SendRefused
  <2>2. arp' = [arp EXCEPT ![n][d] =
                  [up |-> FALSE, count |-> 0, hold |-> NoPacket]]
    BY <1>13 DEF SendRefused
  <2>3. arp'[n][d].hold = NoPacket
    BY <1>1, <2>1, <2>2 DEF TypeOK
  <2>4. \A m \in Node : InDown(m, p)' <=> InDown(m, p)
    BY <2>1 DEF InDown
  <2>5. dropped' = dropped \cup ({arp[n][d].hold, x} \ {NoPacket})
    BY <1>13 DEF SendRefused
  <2>6. CASE p = x
    <3>1. ASSUME NEW m \in Node PROVE ~IsHeld(m, p)'
      <4>1. ASSUME NEW b \in Node PROVE arp'[m][b].hold \in {arp[m][b].hold, NoPacket}
        <5>1. CASE m = n /\ b = d
          BY <2>3, <5>1
        <5>2. CASE m # n \/ b # d
          BY <1>1, <2>1, <2>2, <5>2 DEF TypeOK
        <5> QED
          BY <5>1, <5>2
      <4>2. ~IsHeld(m, p)
        BY <1>5, <2>6 DEF InStackOf
      <4> QED
        BY <4>1, <4>2, DataFrames DEF IsHeld
    <3>2. \A m \in Node : ~InStackOf(m, p)'
      BY <1>2, <1>5, <2>4, <2>6, <3>1 DEF InStackOf
    <3>3. OnePlace(o, p)'
      BY <1>1, <1>2, <1>6, <2>1, <2>4 DEF OnePlace
    <3>4. p \in dropped'
      BY <2>5, <2>6, DataFrames
    <3> QED
      BY <1>1, <1>3, <2>6, <3>2, <3>3, <3>4 DEF Traced
  <2>7. CASE p # x
    <3>1. p \in dropped' <=> p \in dropped \/ p = arp[n][d].hold
      BY <2>5, <2>7, DataFrames
    <3>2. arp' = [arp EXCEPT ![n][d] = [up |-> FALSE, count |-> 0,
                                        hold |-> arp'[n][d].hold]]
      BY <2>2, <2>3
    <3>3. OnceDown(down'[o], Data(p))
      BY <1>6, <2>1
    <3> QED
      BY <1>10, <2>1, <2>3, <2>4, <2>7, <3>1, <3>2, <3>3
  <2> QED
    BY <2>6, <2>7
<1> QED
  BY <1>8, <1>12, <1>13 DEF Send

(* A traced packet has one place at its origin and none at other nodes.    *)
LEMMA OnePlaceEverywhere ==
    ASSUME TypeOK, HeldWhileUnknown, NEW p \in Packet, Traced(p), NEW n \in Node
    PROVE  /\ OnePlace(n, p)
           /\ IsHeld(n, p) => ~InDown(n, p) /\ ~InQueue(n, p) /\ ~WithMac(n, p)
<1>1. n = Origin[p] => OnePlace(n, p)
  BY DEF Traced
<1>2. ASSUME n # Origin[p] PROVE OnePlace(n, p)
  <2>1. ~InDown(n, p) /\ ~InQueue(n, p) /\ ~WithMac(n, p)
    BY <1>2 DEF Traced, InStackOf
  <2>2. OnceDown(down[n], Data(p)) /\ Once(queue[n], Data(p))
    BY <2>1 DEF InDown, InQueue, OccursDown, Occurs, OnceDown, Once
  <2> QED
    BY <2>1, <2>2 DEF OnePlace
<1>3. IsHeld(n, p) => ~InDown(n, p) /\ ~InQueue(n, p) /\ ~WithMac(n, p)
  BY HeldPlaces DEF IsHeld
<1> QED
  BY <1>1, <1>2, <1>3

LEMMA EnqueueTraced ==
    ASSUME TypeOK, HeldWhileUnknown, NeverBlockedIdle, AllTraced,
           NEW n \in Node, Enqueue(n), NEW p \in Packet
    PROVE  Traced(p)'
<1> DEFINE x == Data(p)
           o == Origin[p]
<1>1. PICK i \in DOMAIN down[n] :
        LET q == Enqueued(queue[n], down[n][i].frame)
        IN  /\ down' = [down EXCEPT ![n] = RemoveAt(@, i)]
            /\ IF blocked[n]
               THEN /\ queue' = [queue EXCEPT ![n] = q]
                    /\ UNCHANGED <<mac, blocked>>
               ELSE Served(n, q)
            /\ dropped' = dropped \cup
                 (Packets(ToSet(queue[n]) \cup {down[n][i].frame})
                    \ Packets(ToSet(q)))
            /\ UNCHANGED <<arp, sent, passedUp, lossy>>
  BY DEF Enqueue
<1> DEFINE f == down[n][i].frame
           q == Enqueued(queue[n], f)
<1>2. queue[n] \in Seq(Frame) /\ down[n] \in Seq(Event) /\ o \in Node
  BY OriginIsNode DEF TypeOK
<1>3. down[n][i] \in Event /\ f \in Frame
  <2>1. down[n][i] \in Event
    BY <1>2, RemoveElements
  <2> QED
    BY <2>1 DEF Event
<1>4. q \in Seq(Frame) /\ Enqueued(<<>>, f) = <<f>>
  BY <1>2, <1>3, EnqueuedElements
<1>5. Traced(p)
  BY DEF AllTraced
<1>6. ASSUME NEW m \in Node
      PROVE  /\ OnePlace(m, p)
             /\ IsHeld(m, p) => ~InDown(m, p) /\ ~InQueue(m, p) /\ ~WithMac(m, p)
  BY <1>5, OnePlaceEverywhere
<1>7. f = x => InDown(n, p)
  BY DEF InDown, OccursDown
<1>8. /\ OnceDown(RemoveAt(down[n], i), x)
      /\ OccursDown(RemoveAt(down[n], i), x) <=> InDown(n, p) /\ f # x
  BY <1>2, <1>6, RemovePlaces DEF OnePlace, InDown
<1>9. /\ OnceDown(down'[n], x) /\ (InDown(n, p)' <=> InDown(n, p) /\ f # x)
      /\ \A m \in Node \ {n} : InDown(m, p)' <=> InDown(m, p)
  BY <1>1, <1>8 DEF TypeOK, InDown
<1>10. /\ Once(q, x)
       /\ Occurs(q, x) => InQueue(n, p) \/ f = x
  BY <1>2, <1>3, <1>6, <1>7, EnqueuedPlaces DEF OnePlace, InQueue
<1>11. p \in dropped' <=> \/ p \in dropped
                          \/ (InQueue(n, p) \/ f = x) /\ ~Occurs(q, x)
  <2>1. ToSet(queue[n]) \cup {f} \subseteq Frame /\ ToSet(q) \subseteq Frame
    BY <1>2, <1>3, <1>4 DEF ToSet
  <2>2. /\ p \in Packets(ToSet(queue[n]) \cup {f})
             <=> x \in ToSet(queue[n]) \cup {f}
        /\ p \in Packets(ToSet(q)) <=> x \in ToSet(q)
    BY <2>1, PacketsOf
  <2>3. /\ x \in ToSet(queue[n]) <=> InQueue(n, p)
        /\ x \in ToSet(q) <=> Occurs(q, x)
    BY DEF ToSet, InQueue, Occurs
  <2>4. dropped' = dropped \cup (Packets(ToSet(queue[n]) \cup {f})
                                   \ Packets(ToSet(q)))
    BY <1>1
  <2> QED
    BY <2>2, <2>3, <2>4
<1>12. UNCHANGED <<arp, sent, passedUp>>
  BY <1>1
<1>13. /\ Arrived' = Arrived
       /\ \A m \in Node : IsHeld(m, p)' <=> IsHeld(m, p)
  BY <1>12 DEF Arrived, IsHeld
<1> HIDE DEF q, f, x
<1>14. /\ InQueue(n, p)' \/ WithMac(n, p)' <=> Occurs(q, x) \/ WithMac(n, p)
       /\ Once(queue'[n], x) /\ ~(InQueue(n, p)' /\ WithMac(n, p)')
       /\ \A m \in Node \ {n} : queue'[m] = queue[m] /\ mac'[m] = mac[m]
  <2>1. CASE blocked[n]
    <3>1. queue' = [queue EXCEPT ![n] = q] /\ mac' = mac
      BY <1>1, <2>1 DEF q, f
    <3>2. queue'[n] = q /\ \A m \in Node \ {n} : queue'[m] = queue[m]
      BY <3>1 DEF TypeOK
    <3>3. /\ InQueue(n, p)' <=> Occurs(q, x)
          /\ WithMac(n, p)' <=> WithMac(n, p)
      BY <3>1, <3>2 DEF InQueue, WithMac, x
    <3>4. ~(Occurs(q, x) /\ WithMac(n, p))
      BY <1>6, <1>7, <1>10 DEF OnePlace
    <3> QED
      BY <1>10, <3>1, <3>2, <3>3, <3>4
  <2>2. CASE ~blocked[n]
    <3>1. Served(n, q)
      BY <1>1, <2>2 DEF q, f
    <3>2. ~WithMac(n, p)
      <4>1. mac[n] = NoFrame
        BY <2>2 DEF NeverBlockedIdle
      <4> QED
        BY <4>1, DataFrames DEF WithMac
    <3> QED
      BY <1>4, <1>10, <3>1, <3>2, ServedPlaces DEF x
  <2> QED
    BY <2>1, <2>2
<1>15. ASSUME NEW m \in Node, m # n
       PROVE  (InStackOf(m, p)' <=> InStackOf(m, p)) /\ OnePlace(m, p)'
  <2>1. down'[m] = down[m] /\ queue'[m] = queue[m] /\ mac'[m] = mac[m]
    BY <1>1, <1>14, <1>15 DEF TypeOK
  <2> QED
    BY <1>6, <1>13, <2>1 DEF InStackOf, OnePlace, InDown, InQueue, WithMac
<1>16. OnePlace(n, p)'
  <2>1. ~(InDown(n, p)' /\ (InQueue(n, p)' \/ WithMac(n, p)'))
    BY <1>6, <1>9, <1>10, <1>14 DEF OnePlace
  <2> QED
    BY <1>9, <1>14, <2>1 DEF OnePlace, x
<1>17. InStackOf(n, p)' <=> /\ InStackOf(n, p)
                            /\ ~((InQueue(n, p) \/ f = x) /\ ~Occurs(q, x))
  BY <1>6, <1>7, <1>9, <1>10, <1>13, <1>14 DEF InStackOf, OnePlace
<1>18. InStackOf(o, p) <=> \/ InStackOf(o, p)' 
                           \/ (InQueue(n, p) \/ f = x) /\ ~Occurs(q, x)
  <2>1. InQueue(n, p) \/ f = x => n = o /\ InStackOf(n, p)
    BY <1>5, <1>7 DEF Traced, InStackOf
  <2> QED
    BY <1>2, <1>15, <1>17, <2>1
<1>19. \A m \in Node : InStackOf(m, p)' => InStackOf(m, p)
  BY <1>15, <1>17
<1>20. InStackOf(o, p)' => ~((InQueue(n, p) \/ f = x) /\ ~Occurs(q, x))
  BY <1>2, <1>5, <1>7, <1>17 DEF Traced, InStackOf
<1> QED
  BY <1>2, <1>5, <1>11, <1>12, <1>13, <1>15, <1>16, <1>18, <1>19, <1>20
  DEF Traced

(* ARP's replies are no packets, and what it releases is what it held.     *)
LEMMA ArpSchedules ==
    ASSUME TypeOK, NEW m \in Node, NEW f \in Frame, f.type # "DATA",
           NEW p \in Packet
    PROVE  /\ OnceDown(Released(m, f), Data(p))
           /\ OccursDown(Released(m, f), Data(p)) <=> arp[m][f.spa].hold = p
           /\ OnceDown(Answer(m, f), Data(p))
           /\ ~OccursDown(Answer(m, f), Data(p))
<1> DEFINE h == arp[m][f.spa].hold
<1>1. /\ down[m] \in Seq(Event) /\ Released(m, f) \in Seq(Event)
      /\ Answer(m, f) \in Seq(Event) /\ f.spa \in Node
  BY HeardArpEvents, FrameFields DEF TypeOK
<1>2. h \in Packet \cup {NoPacket}
  BY <1>1 DEF TypeOK, Entry
<1>3. /\ OnceDown(Released(m, f), Data(p))
      /\ OccursDown(Released(m, f), Data(p)) <=> h = p
  <2>1. CASE h = NoPacket
    <3>1. Released(m, f) = <<>> /\ h # p
      BY <2>1, DataFrames DEF Released
    <3> QED
      BY <3>1 DEF OnceDown, OccursDown
  <2>2. CASE h # NoPacket
    <3> DEFINE e == [frame |-> Data(h), by |-> "ARP"]
    <3>1. Released(m, f) = <<e>>
      BY <2>2 DEF Released
    <3>2. e.frame = Data(p) <=> h = p
      BY <1>2, <2>2, DataFrames
    <3>3. PICK t : t = <<e>>
      OBVIOUS
    <3> HIDE DEF e
    <3>4. DOMAIN t = {1} /\ t[1] = e
      BY <3>3
    <3>5. OnceDown(t, Data(p)) /\ (OccursDown(t, Data(p)) <=> h = p)
      BY <3>2, <3>4 DEF OnceDown, OccursDown
    <3> QED
      BY <3>1, <3>3, <3>5
  <2> QED
    BY <2>1, <2>2
<1>4. OnceDown(Answer(m, f), Data(p)) /\ ~OccursDown(Answer(m, f), Data(p))
  <2> SUFFICES \A i \in DOMAIN Answer(m, f) : Answer(m, f)[i].frame # Data(p)
    BY DEF OnceDown, OccursDown
  <2>1. \A i \in DOMAIN Answer(m, f) : Answer(m, f)[i].frame = Reply(m, f.spa)
    BY DEF Answer
  <2> QED
    BY <1>1, <2>1, DataFrames
<1> QED
  BY <1>3, <1>4

(* What arpinput() does to what is scheduled. *)
LEMMA HeardArpPlaces ==
    ASSUME TypeOK, NEW m \in Node, NEW f \in Frame, f.type # "DATA",
           NEW p \in Packet,
           down'[m] = down[m] \o Released(m, f) \o Answer(m, f)
    PROVE  /\ InDown(m, p)' <=> InDown(m, p) \/ arp[m][f.spa].hold = p
           /\ OnceDown(down[m], Data(p)) /\ ~(InDown(m, p) /\ arp[m][f.spa].hold = p)
                => OnceDown(down'[m], Data(p))
<1> DEFINE h == arp[m][f.spa].hold
<1>1. /\ down[m] \in Seq(Event) /\ Released(m, f) \in Seq(Event)
      /\ Answer(m, f) \in Seq(Event) /\ f.spa \in Node
  BY HeardArpEvents, FrameFields DEF TypeOK
<1>3. /\ OnceDown(Released(m, f), Data(p))
      /\ OccursDown(Released(m, f), Data(p)) <=> h = p
  BY ArpSchedules
<1>4. OnceDown(Answer(m, f), Data(p)) /\ ~OccursDown(Answer(m, f), Data(p))
  BY ArpSchedules
<1>5. PICK s : s = down[m] \o Released(m, f)
  OBVIOUS
<1>6. /\ s \in Seq(Event)
      /\ OccursDown(s, Data(p)) <=> InDown(m, p) \/ h = p
      /\ OnceDown(down[m], Data(p)) /\ ~(InDown(m, p) /\ h = p)
           => OnceDown(s, Data(p))
  <2>1. s \in Seq(Event)
    BY <1>1, <1>5, ConcatElements
  <2> QED
    BY <1>1, <1>3, <1>5, <2>1, ConcatPlaces DEF InDown
<1>7. down'[m] = s \o Answer(m, f)
  BY <1>5
<1>8. /\ OccursDown(s \o Answer(m, f), Data(p)) <=> OccursDown(s, Data(p))
      /\ OnceDown(s, Data(p)) => OnceDown(s \o Answer(m, f), Data(p))
  BY <1>1, <1>4, <1>6, ConcatPlaces
<1> QED
  BY <1>6, <1>7, <1>8 DEF InDown

(* What arpinput() does to what ARP holds: what was held for the sender of *)
(* the ARP packet is held no more.                                         *)
LEMMA HeardArpHeld ==
    ASSUME TypeOK, HeldWhileUnknown, NEW hearers \in SUBSET Node, NEW f,
           f.spa \in Node, HearArp(hearers, f), NEW m \in Node, NEW p \in Packet
    PROVE  LET here == m \in hearers /\ arp[m][f.spa].hold = p
           IN  /\ here => IsHeld(m, p)
               /\ IsHeld(m, p)' <=> IsHeld(m, p) /\ ~here
<1> DEFINE here == m \in hearers /\ arp[m][f.spa].hold = p
<1>1. arp[m] \in [Node -> Entry]
  BY DEF TypeOK
<1>2. CASE m \in hearers
  <2>1. arp'[m] = [arp[m] EXCEPT ![f.spa] = Learn(@)]
    BY <1>2 DEF HearArp
  <2>2. \A b \in Node :
           arp'[m][b].hold = IF b = f.spa THEN NoPacket ELSE arp[m][b].hold
    <3> SUFFICES ASSUME NEW b \in Node
                 PROVE  arp'[m][b].hold = IF b = f.spa THEN NoPacket
                                          ELSE arp[m][b].hold
      OBVIOUS
    <3>1. CASE b = f.spa
      <4>1. arp'[m][b] = Learn(arp[m][b]) /\ arp[m][b] \in Entry
        BY <1>1, <2>1, <3>1
      <4> QED
        BY <3>1, <4>1 DEF Learn, Entry
    <3>2. CASE b # f.spa
      BY <1>1, <2>1, <3>2
    <3> QED
      BY <3>1, <3>2
  <2>3. ASSUME NEW b \in Node, here, arp[m][b].hold = p PROVE b = f.spa
    <3>1. b = NextHop[p] /\ f.spa = NextHop[p]
      BY <2>3, HeldPlaces
    <3> QED
      BY <3>1
  <2>4. p # NoPacket
    BY DataFrames
  <2> QED
    BY <1>2, <2>2, <2>3, <2>4 DEF IsHeld
<1>3. CASE m \notin hearers
  <2>1. arp'[m] = arp[m]
    BY <1>3 DEF HearArp
  <2> QED
    BY <1>3, <2>1 DEF IsHeld
<1>4. here => IsHeld(m, p)
  BY DEF IsHeld
<1> QED
  BY <1>2, <1>3, <1>4

LEMMA TransmitTraced ==
    ASSUME TypeOK, HeldWhileUnknown, AllTraced, NEW n \in Node, Transmit(n),
           NEW p \in Packet
    PROVE  Traced(p)'
<1> DEFINE f == mac[n]
           o == Origin[p]
<1>1. f \in Frame /\ queue[n] \in Seq(Frame) /\ o \in Node /\ sent' = sent
  BY OriginIsNode DEF Transmit, TypeOK
<1>2. PICK hearers \in Hearers(n, f) :
         /\ IF f.type = "DATA" THEN HearData(hearers, f) ELSE HearArp(hearers, f)
         /\ dropped' = IF f.type = "DATA" /\ hearers = {}
                       THEN dropped \cup {f.packet} ELSE dropped
  BY DEF Transmit
<1>3. hearers \subseteq Node
  BY <1>1, <1>2, HearersAreNodes
<1>4. Traced(p)
  BY DEF AllTraced
<1>5. ASSUME NEW m \in Node
      PROVE  /\ OnePlace(m, p)
             /\ IsHeld(m, p) => ~InDown(m, p) /\ ~InQueue(m, p) /\ ~WithMac(m, p)
  BY <1>4, OnePlaceEverywhere
<1>6. /\ InQueue(n, p)' \/ WithMac(n, p)' <=> InQueue(n, p)
      /\ Once(queue'[n], Data(p)) /\ ~(InQueue(n, p)' /\ WithMac(n, p)')
      /\ \A m \in Node \ {n} : queue'[m] = queue[m] /\ mac'[m] = mac[m]
  <2>1. Served(n, queue[n]) /\ Once(queue[n], Data(p))
    BY <1>5 DEF Transmit, OnePlace
  <2> QED
    BY <1>1, <2>1, ServedPlaces DEF InQueue
<1>7. ASSUME NEW m \in Node
      PROVE  /\ InQueue(m, p)' \/ WithMac(m, p)'
                  <=> InQueue(m, p) \/ (WithMac(m, p) /\ m # n)
             /\ Once(queue'[m], Data(p)) /\ ~(InQueue(m, p)' /\ WithMac(m, p)')
  BY <1>5, <1>6 DEF OnePlace, InQueue, WithMac
<1> HIDE DEF f
<1>8. CASE f.type = "DATA"
  <2> DEFINE x == f.packet
  <2>1. x \in Packet /\ f = Data(x) /\ HearData(hearers, f)
    BY <1>1, <1>2, <1>8, FrameFields
  <2>2. WithMac(n, p) <=> p = x
    BY <2>1, DataFrames DEF WithMac, f
  <2>3. arp' = arp /\ down' = down
    BY <2>1 DEF HearData
  <2>4. ASSUME NEW m \in Node
        PROVE  p \in ToSet(passedUp[m])'
                 <=> p \in ToSet(passedUp[m]) \/ (m \in hearers /\ p = x)
    <3>1. passedUp[m] \in Seq(Packet)
      BY DEF TypeOK
    <3>2. passedUp'[m] = IF m \in hearers THEN Append(passedUp[m], x)
                                          ELSE passedUp[m]
      BY <2>1 DEF HearData
    <3> QED
      BY <2>1, <3>1, <3>2, AppendElements
  <2>5. p \in Arrived' <=> p \in Arrived \/ (p = x /\ hearers # {})
    BY <1>3, <2>4 DEF Arrived
  <2>6. p \in dropped' <=> p \in dropped \/ (p = x /\ hearers = {})
    BY <1>2, <1>8
  <2>7. ASSUME NEW m \in Node
        PROVE  /\ IsHeld(m, p)' <=> IsHeld(m, p)
               /\ InDown(m, p)' <=> InDown(m, p)
               /\ OnePlace(m, p)'
    BY <1>5, <1>7, <2>3 DEF OnePlace, IsHeld, InDown
  <2>8. ASSUME NEW m \in Node
        PROVE  InStackOf(m, p)' <=> InStackOf(m, p) /\ ~(m = n /\ p = x)
    BY <1>5, <1>7, <2>2, <2>7 DEF InStackOf, OnePlace
  <2>9. p = x => n = o /\ InStackOf(n, p)
    BY <1>4, <2>2 DEF Traced, InStackOf
  <2> QED
    BY <1>1, <1>4, <2>5, <2>6, <2>7, <2>8, <2>9 DEF Traced
<1>9. CASE f.type # "DATA"
  <2>1. HearArp(hearers, f) /\ dropped' = dropped /\ f.spa \in Node
    BY <1>1, <1>2, <1>9, FrameFields
  <2>2. Arrived' = Arrived
    BY <2>1 DEF HearArp, Arrived
  <2>3. ~WithMac(n, p)
    BY <1>9, FrameKinds DEF WithMac, f
  <2>4. ASSUME NEW m \in Node
        PROVE  /\ InStackOf(m, p)' <=> InStackOf(m, p)
               /\ OnePlace(m, p)'
    <3> DEFINE here == m \in hearers /\ arp[m][f.spa].hold = p
    <3>1. /\ here => IsHeld(m, p)
          /\ IsHeld(m, p)' <=> IsHeld(m, p) /\ ~here
      BY <1>3, <2>1, HeardArpHeld
    <3>2. here => IsHeld(m, p)
      BY <3>1
    <3>3. /\ InDown(m, p)' <=> InDown(m, p) \/ here
          /\ OnceDown(down'[m], Data(p))
      <4>1. CASE m \in hearers
        <5>1. down'[m] = down[m] \o Released(m, f) \o Answer(m, f)
          BY <2>1, <4>1 DEF HearArp
        <5> QED
          BY <1>1, <1>5, <1>9, <3>2, <4>1, <5>1, HeardArpPlaces DEF OnePlace
      <4>2. CASE m \notin hearers
        <5>1. down'[m] = down[m]
          BY <2>1, <4>2 DEF HearArp
        <5> QED
          BY <1>5, <4>2, <5>1 DEF OnePlace, InDown
      <4> QED
        BY <4>1, <4>2
    <3>4. IsHeld(m, p)' <=> IsHeld(m, p) /\ ~here
      BY <3>1
    <3> HIDE DEF here
    <3>5. InQueue(m, p)' \/ WithMac(m, p)' <=> InQueue(m, p) \/ WithMac(m, p)
      BY <1>7, <2>3
    <3>6. InStackOf(m, p)' <=> InStackOf(m, p)
      BY <3>2, <3>3, <3>4, <3>5 DEF InStackOf
    <3>7. OnePlace(m, p)'
      BY <1>5, <1>7, <3>2, <3>3, <3>5 DEF OnePlace
    <3> QED
      BY <3>6, <3>7
  <2> QED
    BY <1>1, <1>4, <2>1, <2>2, <2>4 DEF Traced
<1> QED
  BY <1>8, <1>9

-----------------------------------------------------------------------------
(* Nothing is sent at first, and every step keeps every packet traced.     *)

LEMMA InitTraced == Init => AllTraced
<1> SUFFICES ASSUME Init, NEW p \in Packet PROVE Traced(p)
  BY DEF AllTraced
<1>1. ASSUME NEW n \in Node PROVE ~InStackOf(n, p) /\ OnePlace(n, p)
  <2>1. down[n] = <<>> /\ queue[n] = <<>> /\ mac[n] = NoFrame
    BY DEF Init
  <2>2. \A d \in Node : arp[n][d].hold = NoPacket
    BY DEF Init
  <2>3. ~IsHeld(n, p)
    BY <2>2, DataFrames DEF IsHeld
  <2>4. /\ ~InDown(n, p) /\ ~InQueue(n, p) /\ ~WithMac(n, p)
        /\ OnceDown(down[n], Data(p)) /\ Once(queue[n], Data(p))
    BY <2>1, DataFrames
    DEF InDown, InQueue, WithMac, OccursDown, Occurs, OnceDown, Once
  <2> QED
    BY <2>3, <2>4 DEF InStackOf, OnePlace
<1>2. p \notin ToSet(sent) /\ p \notin Arrived /\ p \notin dropped
  BY DEF Init, Arrived, ToSet
<1> QED
  BY <1>1, <1>2, OriginIsNode DEF Traced

LEMMA NextTraced ==
    TypeOK /\ HeldWhileUnknown /\ NeverBlockedIdle /\ AllTraced /\ [Next]_vars
      => AllTraced'
<1> SUFFICES ASSUME TypeOK, HeldWhileUnknown, NeverBlockedIdle, AllTraced,
                    [Next]_vars, NEW p \in Packet
             PROVE  Traced(p)'
  BY DEF AllTraced
<1>1. ASSUME NEW x \in Packet, Send(x) PROVE Traced(p)'
  BY <1>1, SendTraced
<1>2. ASSUME NEW n \in Node, Enqueue(n) PROVE Traced(p)'
  BY <1>2, EnqueueTraced
<1>3. ASSUME NEW n \in Node, Transmit(n) PROVE Traced(p)'
  BY <1>3, TransmitTraced
<1>4. CASE UNCHANGED vars
  <2>1. Traced(p)
    BY DEF AllTraced
  <2> QED
    BY <1>4, <2>1
    DEF vars, Traced, InStackOf, OnePlace, IsHeld, InDown, InQueue, WithMac, Arrived
<1> QED
  BY <1>1, <1>2, <1>3, <1>4 DEF Next

LEMMA TracedAreAccounted ==
    ASSUME TypeOK, AllTraced
    PROVE  Accounted
<1>1. ASSUME NEW p \in Packet
      PROVE  /\ Traced(p)
             /\ p \in InStack <=> InStackOf(Origin[p], p)
  <2>1. Traced(p)
    BY DEF AllTraced
  <2> QED
    BY <2>1, StackPlaces, OriginIsNode DEF Traced
<1>2. /\ ToSet(sent) \subseteq Packet /\ Arrived \subseteq Packet
      /\ dropped \subseteq Packet
  BY DEF TypeOK, ToSet, Arrived
<1>3. ASSUME NEW n \in Node
      PROVE  Held(n) \cup Waiting(n) \subseteq Packet
  <2>1. Held(n) \subseteq Packet
    BY DEF TypeOK, Entry, Held
  <2>2. FramesIn(n) \subseteq Frame
    <3>1. /\ down[n] \in Seq(Event) /\ queue[n] \in Seq(Frame)
          /\ mac[n] \in Frame \cup {NoFrame}
      BY DEF TypeOK
    <3>2. /\ \A e \in ToSet(down[n]) : e \in Event
          /\ ToSet(queue[n]) \subseteq Frame
      BY <3>1 DEF ToSet
    <3> QED
      BY <3>1, <3>2 DEF FramesIn, Event
  <2> QED
    BY <2>1, <2>2, WaitingFrames, PacketsOf
<1>4. InStack \subseteq Packet
  BY <1>3 DEF InStack
<1>5. ToSet(sent) = InStack \cup Arrived \cup dropped
  BY <1>1, <1>2, <1>4 DEF Traced
<1>6. InStack \cap (Arrived \cup dropped) = {}
  BY <1>1, <1>4 DEF Traced
<1>7. ASSUME NEW n \in Node, NEW p \in Held(n) \cup Waiting(n)
      PROVE  Origin[p] = n
  <2>1. p \in Packet
    BY <1>3
  <2>2. IsHeld(n, p) \/ InDown(n, p) \/ InQueue(n, p) \/ WithMac(n, p)
    BY <2>1, WaitingPlaces DEF Held, IsHeld
  <2> QED
    BY <1>1, <2>1, <2>2 DEF Traced, InStackOf
<1> QED
  BY <1>5, <1>6, <1>7 DEF Accounted

LEMMA TracedAlways == Spec => []AllTraced
BY InitTraced, NextTraced, TypeCorrect, HoldsOnlyUnknown, QueueNeverStuck, PTL
DEF Spec

(* LL::sendDown(), ARPTable::arpresolve() and arpinput(), PriQueue::recv() *)
(* and the MAC: a packet an agent hands down is in one place of the stack  *)
(* of its origin until it arrives or is dropped.  ARP's replaced packet,   *)
(* the one a full queue pushes out and the one nobody heard are all        *)
(* dropped, none of them is forgotten and none kept twice.                 *)
THEOREM EverythingAccounted == Spec => []Accounted
<1>1. TypeOK /\ AllTraced => Accounted
  BY TracedAreAccounted
<1> QED
  BY <1>1, TracedAlways, TypeCorrect, PTL

-----------------------------------------------------------------------------
(* The promises of UnicastLink.                                            *)

Arrival(m, i) == [packet |-> passedUp[m][i], at |-> m, nth |-> i]

LEMMA ArrivalsAre ==
    \A x : x \in Arrivals <=> \E m \in Node : \E i \in DOMAIN passedUp[m] :
                                x = Arrival(m, i)
BY DEF Arrivals, Arrival

(* Appending x to the packets passed up at the hearers adds an arrival of  *)
(* x for each of them, and takes none away.                                *)
Hears(hearers, x) ==
    passedUp' = [m \in Node |-> IF m \in hearers THEN Append(passedUp[m], x)
                                ELSE passedUp[m]]

LEMMA HeardArrivals ==
    ASSUME TypeOK, NEW hearers, NEW x \in Packet, Hears(hearers, x)
    PROVE  /\ Arrivals \subseteq Arrivals'
           /\ \A y \in Arrivals' \ Arrivals :
                \E m \in Node \cap hearers :
                    y = [packet |-> x, at |-> m, nth |-> Len(passedUp[m]) + 1]
<1>1. ASSUME NEW m \in Node
      PROVE  /\ \A i \in DOMAIN passedUp[m] : /\ i \in DOMAIN passedUp'[m]
                                              /\ passedUp'[m][i] = passedUp[m][i]
             /\ \A i \in DOMAIN passedUp'[m] :
                  \/ i \in DOMAIN passedUp[m] /\ passedUp'[m][i] = passedUp[m][i]
                  \/ /\ m \in hearers /\ i = Len(passedUp[m]) + 1
                     /\ passedUp'[m][i] = x
  <2>1. passedUp[m] \in Seq(Packet)
    BY DEF TypeOK
  <2>2. CASE m \in hearers
    <3>1. passedUp'[m] = Append(passedUp[m], x)
      BY <2>2 DEF Hears
    <3> QED
      BY <2>1, <2>2, <3>1
  <2>3. CASE m \notin hearers
    BY <2>3 DEF Hears
  <2> QED
    BY <2>2, <2>3
<1>2. ASSUME NEW y \in Arrivals
      PROVE  y \in Arrivals'
  <2>0. PICK m \in Node : \E i \in DOMAIN passedUp[m] :
          y = Arrival(m, i)
    BY <1>2, ArrivalsAre
  <2>1. PICK i \in DOMAIN passedUp[m] :
          y = Arrival(m, i)
    BY <2>0
  <2>2. i \in DOMAIN passedUp'[m] /\ passedUp'[m][i] = passedUp[m][i]
    BY <1>1
  <2> QED
    BY <2>1, <2>2 DEF Arrivals, Arrival
<1>3. ASSUME NEW y \in Arrivals', y \notin Arrivals
      PROVE  \E m \in Node \cap hearers :
               y = [packet |-> x, at |-> m, nth |-> Len(passedUp[m]) + 1]
  <2>0. PICK m \in Node : \E i \in DOMAIN passedUp'[m] :
          y = [packet |-> passedUp'[m][i], at |-> m, nth |-> i]
    BY <1>3 DEF Arrivals
  <2>1. PICK i \in DOMAIN passedUp'[m] :
          y = [packet |-> passedUp'[m][i], at |-> m, nth |-> i]
    BY <2>0
  <2>2. CASE i \in DOMAIN passedUp[m] /\ passedUp'[m][i] = passedUp[m][i]
    BY <1>3, <2>1, <2>2 DEF Arrivals
  <2>3. CASE m \in hearers /\ i = Len(passedUp[m]) + 1 /\ passedUp'[m][i] = x
    BY <2>1, <2>3
  <2> QED
    BY <1>1, <2>2, <2>3
<1> QED
  BY <1>2, <1>3

(* A unicast is heard by its next hop or by nobody.                        *)
LEMMA UnicastHearers ==
    ASSUME NEW n, NEW x \in Unicasts, NEW hearers \in Hearers(n, Data(x))
    PROVE  hearers \subseteq {NextHop[x]}
<1>1. Data(x).to = NextHop[x] /\ NextHop[x] # Everyone
  BY PacketAssumption DEF PacketAssumption, Data, Unicasts
<1> QED
  BY <1>1 DEF Hearers

(* Nothing is taken back, and what arrives comes from a stack and arrives  *)
(* in one place.                                                           *)
LEMMA NothingTakenBack ==
    ASSUME TypeOK, [Next]_vars
    PROVE  /\ ToSet(sent) \subseteq ToSet(sent)'
           /\ Arrivals \subseteq Arrivals'
           /\ dropped \subseteq dropped'
           /\ \A y \in Arrivals' \ Arrivals : y.packet \in InStack
           /\ \A y, z \in Arrivals' \ Arrivals :
                y.packet \in Unicasts /\ y.packet = z.packet => y = z
<1>1. ASSUME NEW x \in Packet, Send(x)
      PROVE  /\ ToSet(sent) \subseteq ToSet(sent)' /\ Arrivals' = Arrivals
             /\ dropped \subseteq dropped'
  <2>1. sent \in Seq(Packet) /\ sent' = Append(sent, x) /\ passedUp' = passedUp
    BY <1>1 DEF Send, TypeOK
  <2>2. ToSet(sent) \subseteq ToSet(sent')
    BY <2>1, AppendElements
  <2>3. dropped \subseteq dropped'
    BY <1>1 DEF Send, SendResolved, SendHeld, SendRefused
  <2> QED
    BY <2>1, <2>2, <2>3 DEF Arrivals
<1>2. ASSUME NEW n \in Node, Enqueue(n)
      PROVE  sent' = sent /\ Arrivals' = Arrivals /\ dropped \subseteq dropped'
  BY <1>2 DEF Enqueue, Arrivals
<1>3. ASSUME NEW n \in Node, Transmit(n)
      PROVE  /\ sent' = sent /\ Arrivals \subseteq Arrivals'
             /\ dropped \subseteq dropped'
             /\ \A y \in Arrivals' \ Arrivals : y.packet \in InStack
             /\ \A y, z \in Arrivals' \ Arrivals :
                  y.packet \in Unicasts /\ y.packet = z.packet => y = z
  <2> DEFINE f == mac[n]
  <2>1. f \in Frame /\ sent' = sent
    BY <1>3 DEF Transmit, TypeOK
  <2>2. PICK hearers \in Hearers(n, f) :
           /\ IF f.type = "DATA" THEN HearData(hearers, f) ELSE HearArp(hearers, f)
           /\ dropped' = IF f.type = "DATA" /\ hearers = {}
                         THEN dropped \cup {f.packet} ELSE dropped
    BY <1>3 DEF Transmit
  <2>3. dropped \subseteq dropped'
    BY <2>2
  <2>4. CASE f.type # "DATA"
    <3>1. Arrivals' = Arrivals
      BY <2>2, <2>4 DEF HearArp, Arrivals
    <3> QED
      BY <2>1, <2>3, <3>1
  <2>5. CASE f.type = "DATA"
    <3> DEFINE x == f.packet
    <3>1. x \in Packet /\ f = Data(x) /\ HearData(hearers, f)
      BY <2>1, <2>2, <2>5, FrameFields
    <3>2. Hears(hearers, x)
      BY <3>1 DEF HearData, Hears
    <3>3. x \in InStack
      BY <3>1, StackPlaces DEF InStackOf, WithMac
    <3>4. x \in Unicasts => hearers \subseteq {NextHop[x]}
      BY <2>2, <3>1, UnicastHearers
    <3> HIDE DEF x
    <3>5. /\ Arrivals \subseteq Arrivals'
          /\ \A y \in Arrivals' \ Arrivals :
               \E m \in Node \cap hearers :
                   y = [packet |-> x, at |-> m, nth |-> Len(passedUp[m]) + 1]
      BY <3>1, <3>2, HeardArrivals
    <3>6. \A y \in Arrivals' \ Arrivals : y.packet = x
      BY <3>5
    <3>7. ASSUME NEW y \in Arrivals' \ Arrivals, NEW z \in Arrivals' \ Arrivals,
                 y.packet \in Unicasts
          PROVE  y = z
      <4>1. x \in Unicasts
        BY <3>6, <3>7
      <4>2. PICK m \in Node \cap hearers :
              y = [packet |-> x, at |-> m, nth |-> Len(passedUp[m]) + 1]
        BY <3>5
      <4>3. PICK k \in Node \cap hearers :
              z = [packet |-> x, at |-> k, nth |-> Len(passedUp[k]) + 1]
        BY <3>5
      <4>4. m = k
        BY <3>4, <4>1
      <4> QED
        BY <4>2, <4>3, <4>4
    <3> QED
      BY <2>1, <2>3, <3>3, <3>5, <3>6, <3>7
  <2> QED
    BY <2>4, <2>5
<1>4. CASE UNCHANGED vars
  BY <1>4 DEF vars, Arrivals
<1> QED
  BY <1>1, <1>2, <1>3, <1>4 DEF Next

LEMMA ArrivedIs ==
    Arrived = {y.packet : y \in Arrivals}
<1>1. ASSUME NEW p \in Arrived
      PROVE  \E y \in Arrivals : y.packet = p
  <2>0. PICK m \in Node : \E i \in DOMAIN passedUp[m] :
          passedUp[m][i] = p
    BY <1>1 DEF Arrived, ToSet
  <2>1. PICK i \in DOMAIN passedUp[m] :
          passedUp[m][i] = p
    BY <2>0
  <2>2. Arrival(m, i) \in Arrivals /\ Arrival(m, i).packet = p
    BY <2>1, ArrivalsAre DEF Arrival
  <2> QED
    BY <2>2
<1>2. ASSUME NEW y \in Arrivals
      PROVE  y.packet \in Arrived
  <2>0. PICK m \in Node : \E i \in DOMAIN passedUp[m] :
          y = Arrival(m, i)
    BY <1>2, ArrivalsAre
  <2>1. PICK i \in DOMAIN passedUp[m] :
          y = Arrival(m, i)
    BY <2>0
  <2> QED
    BY <2>1 DEF Arrived, Arrival, ToSet
<1> QED
  BY <1>1, <1>2

(* No unicast has arrived twice.                                           *)
ArrivedOnce ==
    \A y, z \in Arrivals : y.packet \in Unicasts /\ y.packet = z.packet => y = z

LEMMA ArrivesOnce ==
    ASSUME TypeOK, Accounted, ArrivedOnce, [Next]_vars
    PROVE  ArrivedOnce'
<1>1. ASSUME NEW y \in Arrivals' \ Arrivals
      PROVE  \A z \in Arrivals : z.packet # y.packet
  <2>1. y.packet \in InStack
    BY NothingTakenBack
  <2> QED
    BY <2>1, ArrivedIs DEF Accounted
<1>2. \A y, z \in Arrivals' \ Arrivals :
        y.packet \in Unicasts /\ y.packet = z.packet => y = z
  BY NothingTakenBack
<1>3. Unicasts' = Unicasts
  BY DEF Unicasts
<1> QED
  BY <1>1, <1>2, <1>3 DEF ArrivedOnce

(* Whatever ARP, the interface queue and the MAC do in between: a unicast  *)
(* an agent hands to its link layer arrives only after that, never after   *)
(* the stack has dropped it, and not twice.                                *)
THEOREM LinkRefinement == Spec => ImplementsUnicastLink
<1> DEFINE S == ToSet(sent) \cap Unicasts
           A == {y \in Arrivals : y.packet \in Unicasts}
           T == (dropped \cup (Arrived \ InStack)) \cap Unicasts
<1>1. Init => Link!Init /\ ArrivedOnce
  <2> SUFFICES ASSUME Init PROVE Link!Init /\ ArrivedOnce
    OBVIOUS
  <2>1. ToSet(sent) = {} /\ Arrived = {} /\ dropped = {} /\ Arrivals = {}
    BY DEF Init, ToSet, Arrived, Arrivals
  <2> QED
    BY <2>1 DEF Link!Init, ArrivedOnce
<1>2. TypeOK /\ Accounted /\ Accounted' /\ ArrivedOnce /\ [Next]_vars
        => [Link!Next]_(Link!vars) /\ ArrivedOnce'
  <2> SUFFICES ASSUME TypeOK, Accounted, Accounted', ArrivedOnce, [Next]_vars
               PROVE  Link!Next /\ ArrivedOnce'
    OBVIOUS
  <2>1. ArrivedOnce'
    BY ArrivesOnce
  <2>2. /\ ToSet(sent) \subseteq ToSet(sent)' /\ Arrivals \subseteq Arrivals'
        /\ dropped \subseteq dropped'
        /\ \A y \in Arrivals' \ Arrivals : y.packet \in InStack
    BY NothingTakenBack
  <2>3. /\ T = (dropped \cup Arrived) \cap Unicasts
        /\ T' = (dropped' \cup Arrived') \cap Unicasts
    <3>1. Arrived \ InStack = Arrived /\ Arrived' \ InStack' = Arrived'
      BY DEF Accounted
    <3>2. Unicasts' = Unicasts
      BY DEF Unicasts
    <3> QED
      BY <3>1, <3>2
  <2>4. Arrived \subseteq Arrived' /\ Arrived' = {y.packet : y \in Arrivals'}
    <3>1. (Arrived = {y.packet : y \in Arrivals})'
      BY ArrivedIs, PTL
    <3> QED
      BY <2>2, <3>1, ArrivedIs
  <2>5. S \subseteq S' /\ S' \subseteq Unicasts
    BY <2>2 DEF Unicasts
  <2>6. T \subseteq T'
    BY <2>2, <2>3, <2>4
  <2>7. T' \subseteq S'
    BY <2>3 DEF Accounted, Unicasts
  <2>8. A \subseteq A'
    BY <2>2 DEF Unicasts
  <2>9. ASSUME NEW y \in A' \ A PROVE y.packet \in S' \ T
    <3>1. y \in Arrivals' \ Arrivals /\ y.packet \in Unicasts
      BY <2>9 DEF Unicasts
    <3>2. y.packet \in InStack
      BY <2>2, <3>1
    <3>3. y.packet \in ToSet(sent)'
      BY <2>2, <3>2 DEF Accounted
    <3>4. y.packet \notin T
      BY <2>3, <3>2 DEF Accounted
    <3> QED
      BY <3>1, <3>3, <3>4 DEF Unicasts
  <2>10. Link!Once'
    BY <2>1 DEF ArrivedOnce, Link!Once, Unicasts
  <2> QED
    BY <2>1, <2>5, <2>6, <2>7, <2>8, <2>9, <2>10 DEF Link!Next
<1> QED
  BY <1>1, <1>2, TypeCorrect, EverythingAccounted, PTL
  DEF Spec, ImplementsUnicastLink, Link!Spec

-----------------------------------------------------------------------------
(* The order of packets.                                                   *)

(* Wherever x and y are both in s, x is first. *)
Ordered(s, x, y) == \A i, j \in DOMAIN s : s[i] = x /\ s[j] = y => i < j
OrderedDown(s, x, y) ==
    \A i, j \in DOMAIN s : s[i].frame = x /\ s[j].frame = y => i < j

LEMMA OrderedAlone ==
    ASSUME NEW s, NEW x, NEW y
    PROVE  /\ ~Occurs(s, x) \/ ~Occurs(s, y) => Ordered(s, x, y)
           /\ ~OccursDown(s, x) \/ ~OccursDown(s, y) => OrderedDown(s, x, y)
BY DEF Ordered, Occurs, OrderedDown, OccursDown

LEMMA AppendOrdered ==
    ASSUME NEW S, NEW s \in Seq(S), NEW e \in S, NEW x, NEW y, x # y,
           Ordered(s, x, y), ~(e = x /\ Occurs(s, y))
    PROVE  Ordered(Append(s, e), x, y)
<1>1. /\ Len(s) \in Nat /\ DOMAIN s = 1..Len(s)
      /\ DOMAIN Append(s, e) = 1..Len(s) + 1
      /\ \A i \in 1..Len(s) : Append(s, e)[i] = s[i]
      /\ Append(s, e)[Len(s) + 1] = e
  OBVIOUS
<1> SUFFICES ASSUME NEW i \in 1..Len(s) + 1, NEW j \in 1..Len(s) + 1,
                    Append(s, e)[i] = x, Append(s, e)[j] = y
             PROVE  i < j
  BY <1>1 DEF Ordered
<1>2. CASE i \in 1..Len(s) /\ j \in 1..Len(s)
  BY <1>1, <1>2 DEF Ordered
<1>3. CASE i = Len(s) + 1
  <2>1. e = x
    BY <1>1, <1>3
  <2>2. j \in 1..Len(s) /\ s[j] = y
    BY <1>1, <1>3, <2>1
  <2> QED
    BY <1>1, <2>1, <2>2 DEF Occurs
<1>4. CASE i \in 1..Len(s) /\ j = Len(s) + 1
  BY <1>1, <1>4
<1> QED
  BY <1>1, <1>2, <1>3, <1>4

LEMMA TailOrdered ==
    ASSUME NEW S, NEW s \in Seq(S), s # <<>>, NEW x, NEW y, Ordered(s, x, y)
    PROVE  Ordered(Tail(s), x, y) /\ ~(Head(s) = y /\ Occurs(Tail(s), x))
<1>1. /\ Len(s) \in Nat \ {0} /\ DOMAIN s = 1..Len(s)
      /\ Head(s) = s[1] /\ DOMAIN Tail(s) = 1..Len(s) - 1
      /\ \A i \in 1..Len(s) - 1 : Tail(s)[i] = s[i + 1]
  OBVIOUS
<1>2. 1 \in 1..Len(s) /\ \A i \in 1..Len(s) - 1 : i + 1 \in 1..Len(s)
  BY <1>1
<1>3. ASSUME NEW i \in 1..Len(s) - 1, NEW j \in 1..Len(s) - 1,
             Tail(s)[i] = x, Tail(s)[j] = y
      PROVE  i < j
  <2>1. i + 1 < j + 1
    BY <1>1, <1>2, <1>3 DEF Ordered
  <2> QED
    BY <2>1
<1>4. ASSUME NEW i \in 1..Len(s) - 1, Tail(s)[i] = x, Head(s) = y
      PROVE  FALSE
  <2>1. i + 1 < 1
    BY <1>1, <1>2, <1>4 DEF Ordered
  <2> QED
    BY <2>1
<1> QED
  BY <1>1, <1>3, <1>4 DEF Ordered, Occurs

(* PriQueue::recv() keeps the order of all frames but the new one, which   *)
(* is behind the others unless it is preferred.                            *)
LEMMA EnqueuedOrdered ==
    ASSUME NEW q \in Seq(Frame), NEW f \in Frame, NEW x, NEW y, x # y,
           Ordered(q, x, y), ~(f = x /\ Occurs(q, y)), f = y => ~Preferred(f)
    PROVE  Ordered(Enqueued(q, f), x, y)
<1>1. Ordered(AtTail(q, f), x, y)
  BY AppendOrdered DEF AtTail
<1>2. ASSUME f # y PROVE Ordered(AtHead(q, f), x, y)
  <2> DEFINE r == <<f>> \o q
  <2>1. /\ Len(q) \in Nat /\ DOMAIN q = 1..Len(q)
        /\ r \in Seq(Frame) /\ Len(r) = Len(q) + 1 /\ DOMAIN r = 1..Len(q) + 1
        /\ r[1] = f
        /\ \A i \in 1..Len(q) : r[i + 1] = q[i]
    OBVIOUS
  <2> HIDE DEF r
  <2>2. \A i \in 1..Len(q) + 1 : i = 1 \/ (i - 1 \in 1..Len(q) /\ (i - 1) + 1 = i)
    BY <2>1
  <2>3. Ordered(r, x, y)
    <3> SUFFICES ASSUME NEW i \in 1..Len(q) + 1, NEW j \in 1..Len(q) + 1,
                        r[i] = x, r[j] = y
                 PROVE  i < j
      BY <2>1 DEF Ordered
    <3>1. j - 1 \in 1..Len(q) /\ q[j - 1] = y
      <4>1. j - 1 \in 1..Len(q) /\ (j - 1) + 1 = j
        BY <1>2, <2>1, <2>2
      <4>2. r[(j - 1) + 1] = q[j - 1]
        BY <2>1, <4>1
      <4> QED
        BY <4>1, <4>2
    <3>2. i # 1
      BY <2>1, <3>1 DEF Occurs
    <3>3. i - 1 \in 1..Len(q) /\ q[i - 1] = x
      <4>1. i - 1 \in 1..Len(q) /\ (i - 1) + 1 = i
        BY <2>2, <3>2
      <4>2. r[(i - 1) + 1] = q[i - 1]
        BY <2>1, <4>1
      <4> QED
        BY <4>1, <4>2
    <3>4. i - 1 < j - 1
      BY <2>1, <3>1, <3>3 DEF Ordered
    <3> QED
      BY <3>4
  <2>4. /\ DOMAIN Front(r) = 1..Len(q)
        /\ \A i \in 1..Len(q) : Front(r)[i] = r[i] /\ i \in 1..Len(q) + 1
    BY <2>1 DEF Front
  <2>5. Ordered(Front(r), x, y)
    BY <2>1, <2>3, <2>4 DEF Ordered
  <2> QED
    BY <2>3, <2>5 DEF AtHead, r
<1> QED
  BY <1>1, <1>2 DEF Enqueued

(* What LL and ARP schedule comes behind what is scheduled already. *)
LEMMA ConcatOrdered ==
    ASSUME NEW S, NEW s \in Seq(S), NEW t \in Seq(S), NEW x, NEW y,
           OrderedDown(s, x, y), ~OccursDown(t, x), ~OccursDown(t, y)
    PROVE  OrderedDown(s \o t, x, y)
<1> DEFINE r == s \o t
<1>1. /\ Len(s) \in Nat /\ Len(t) \in Nat
      /\ DOMAIN s = 1..Len(s) /\ DOMAIN t = 1..Len(t)
      /\ DOMAIN r = 1..Len(s) + Len(t)
      /\ \A i \in 1..Len(s) : r[i] = s[i]
      /\ \A i \in 1..Len(t) : r[Len(s) + i] = t[i]
  OBVIOUS
<1> HIDE DEF r
<1>2. ASSUME NEW i \in 1..Len(s) + Len(t), r[i].frame \in {x, y}
      PROVE  i \in 1..Len(s) /\ r[i] = s[i]
  <2>1. CASE i \in 1..Len(s)
    BY <1>1, <2>1
  <2>2. CASE i \notin 1..Len(s)
    <3>1. i - Len(s) \in 1..Len(t) /\ Len(s) + (i - Len(s)) = i
      BY <1>1, <2>2
    <3>2. r[Len(s) + (i - Len(s))] = t[i - Len(s)]
      BY <1>1, <3>1
    <3>3. t[i - Len(s)].frame \in {x, y}
      BY <1>2, <3>1, <3>2
    <3> QED
      BY <1>1, <3>1, <3>3 DEF OccursDown
  <2> QED
    BY <2>1, <2>2
<1>3. OrderedDown(r, x, y)
  BY <1>1, <1>2 DEF OrderedDown
<1> QED
  BY <1>3 DEF r

LEMMA AppendOrderedDown ==
    ASSUME NEW S, NEW s \in Seq(S), NEW e \in S, NEW x, NEW y, x # y,
           OrderedDown(s, x, y), e.frame # x
    PROVE  OrderedDown(Append(s, e), x, y)
<1>1. /\ Len(s) \in Nat /\ DOMAIN s = 1..Len(s)
      /\ DOMAIN Append(s, e) = 1..Len(s) + 1
      /\ \A i \in 1..Len(s) : Append(s, e)[i] = s[i]
      /\ Append(s, e)[Len(s) + 1] = e
  OBVIOUS
<1> SUFFICES ASSUME NEW i \in 1..Len(s) + 1, NEW j \in 1..Len(s) + 1,
                    Append(s, e)[i].frame = x, Append(s, e)[j].frame = y
             PROVE  i < j
  BY <1>1 DEF OrderedDown
<1>2. i \in 1..Len(s)
  BY <1>1
<1>3. CASE j \in 1..Len(s)
  BY <1>1, <1>2, <1>3 DEF OrderedDown
<1>4. CASE j = Len(s) + 1
  BY <1>1, <1>2, <1>4
<1> QED
  BY <1>1, <1>3, <1>4

LEMMA RemoveOrdered ==
    ASSUME NEW S, NEW s \in Seq(S), NEW k \in DOMAIN s, NEW x, NEW y,
           OrderedDown(s, x, y)
    PROVE  OrderedDown(RemoveAt(s, k), x, y)
<1>1. /\ Len(s) \in Nat \ {0} /\ k \in 1..Len(s) /\ DOMAIN s = 1..Len(s)
  OBVIOUS
<1> DEFINE a == SubSeq(s, 1, k - 1)
           b == SubSeq(s, k + 1, Len(s))
           r == RemoveAt(s, k)
<1>2. /\ a \in Seq(S) /\ Len(a) = k - 1
      /\ \A j \in 1..k - 1 : a[j] = s[j]
  BY <1>1
<1>3. /\ b \in Seq(S) /\ Len(b) = Len(s) - k
      /\ \A j \in 1..Len(s) - k : b[j] = s[k + j]
  <2>1. /\ b \in Seq(S) /\ Len(b) = Len(s) - k
        /\ \A j \in 1..Len(b) : b[j] = s[k + j]
    BY <1>1, SMTT(60)
  <2> HIDE DEF b
  <2> QED
    BY <1>1, <2>1
<1>4. r = a \o b
  BY DEF RemoveAt
<1> HIDE DEF a, b, r
<1>5. /\ DOMAIN r = 1..Len(s) - 1
      /\ \A i \in 1..k - 1 : r[i] = a[i]
      /\ \A i \in 1..Len(s) - k : r[k - 1 + i] = b[i]
  <2>1. a \in Seq(S) /\ b \in Seq(S)
    BY <1>2, <1>3
  <2>2. /\ DOMAIN (a \o b) = 1..Len(a) + Len(b)
        /\ \A i \in 1..Len(a) : (a \o b)[i] = a[i]
        /\ \A i \in 1..Len(b) : (a \o b)[Len(a) + i] = b[i]
    BY ONLY <2>1
  <2>3. Len(a) = k - 1 /\ Len(b) = Len(s) - k /\ Len(a) + Len(b) = Len(s) - 1
    BY <1>1, <1>2, <1>3
  <2> QED
    BY <1>4, <2>2, <2>3
<1>6. \A i \in 1..Len(s) - 1 :
         r[i] = IF i < k THEN s[i] ELSE s[i + 1]
  <2> SUFFICES ASSUME NEW i \in 1..Len(s) - 1
               PROVE  r[i] = IF i < k THEN s[i] ELSE s[i + 1]
    OBVIOUS
  <2>1. CASE i < k
    <3>1. i \in 1..k - 1
      BY <1>1, <2>1
    <3> QED
      BY <1>2, <1>5, <2>1, <3>1
  <2>2. CASE ~(i < k)
    <3>1. /\ i - (k - 1) \in 1..Len(s) - k
          /\ k - 1 + (i - (k - 1)) = i
          /\ k + (i - (k - 1)) = i + 1
      BY <1>1, <2>2
    <3>2. r[k - 1 + (i - (k - 1))] = b[i - (k - 1)]
      BY <1>5, <3>1
    <3>3. b[i - (k - 1)] = s[k + (i - (k - 1))]
      BY <1>3, <3>1
    <3> QED
      BY <2>2, <3>1, <3>2, <3>3
  <2> QED
    BY <2>1, <2>2
<1>7. ASSUME NEW i \in 1..Len(s) - 1, NEW j \in 1..Len(s) - 1,
             r[i].frame = x, r[j].frame = y
      PROVE  i < j
  <2> DEFINE g(h) == IF h < k THEN h ELSE h + 1
  <2>1. g(i) \in 1..Len(s) /\ g(j) \in 1..Len(s)
    BY <1>1
  <2>2. r[i] = s[g(i)] /\ r[j] = s[g(j)]
    BY <1>6
  <2>3. g(i) < g(j)
    BY <1>1, <1>7, <2>1, <2>2 DEF OrderedDown
  <2> QED
    BY <1>1, <2>3
<1>8. OrderedDown(r, x, y)
  BY <1>5, <1>7 DEF OrderedDown
<1> QED
  BY <1>8 DEF r

(* The packets of a flow: one after the other from one node to another,    *)
(* and PriQueue prefers none of them.                                      *)
SentBefore(p, q) == \E i, j \in DOMAIN sent : i < j /\ sent[i] = p /\ sent[j] = q
Follows(q, p) ==
    /\ Origin[p] = Origin[q] /\ NextHop[p] = NextHop[q] /\ NextHop[p] \in Node
    /\ {p, q} \cap Routing = {} /\ SentBefore(p, q)

(* ARP has released p, and the interface queue has not got it yet. *)
FromArp(n, p) == [frame |-> Data(p), by |-> "ARP"] \in ToSet(down[n])

(* p is ahead of q: as long as p is in the stack q has not got further.    *)
(* ARP holds the last packet only, and its shorter delay does not let that *)
(* packet overtake, because nothing of its flow is left by then.           *)
Ahead(p, q) ==
    LET n == Origin[p]
        d == NextHop[p]
    IN  /\ InStackOf(n, p) => ~Occurs(passedUp[d], q)
        /\ IsHeld(n, p) => ~InStackOf(n, q)
        /\ InDown(n, p) => ~InQueue(n, q) /\ ~WithMac(n, q)
        /\ InQueue(n, p) => ~WithMac(n, q)
        /\ OrderedDown(down[n], Data(p), Data(q))
        /\ Ordered(queue[n], Data(p), Data(q))
        /\ Ordered(passedUp[d], p, q)
        /\ FromArp(n, q) => ~InStackOf(n, p)

InLine ==
    /\ \A i, j \in DOMAIN sent : sent[i] = sent[j] => i = j
    /\ \A n \in Node, p \in Packet : Once(passedUp[n], p)
    /\ \A p, q \in Packet : Follows(q, p) => Ahead(p, q)

(* A packet comes after those that were sent before, and is another one.   *)
LEMMA SentOnce ==
    ASSUME TypeOK, InLine, NEW p, NEW q, Follows(q, p)
    PROVE  /\ p # q /\ p \in ToSet(sent) /\ q \in ToSet(sent)
           /\ p \in Packet /\ q \in Packet /\ Data(p) # Data(q)
<1>1. PICK i, j \in DOMAIN sent : i < j /\ sent[i] = p /\ sent[j] = q
  BY DEF Follows, SentBefore
<1>2. sent \in Seq(Packet)
  BY DEF TypeOK
<1>3. i \in Int /\ j \in Int /\ p \in Packet /\ q \in Packet
  BY <1>1, <1>2
<1>4. p # q
  BY <1>1, <1>3 DEF InLine
<1> QED
  BY <1>1, <1>3, <1>4, DataFrames DEF ToSet

(* When places are only left, and order is kept, p stays ahead. *)
LEMMA StillAhead ==
    ASSUME NEW p, NEW q, Ahead(p, q),
           LET n == Origin[p]
           IN  /\ InStackOf(n, p)' => InStackOf(n, p)
               /\ InStackOf(n, q)' => InStackOf(n, q)
               /\ IsHeld(n, p)' => IsHeld(n, p)
               /\ InDown(n, p)' => InDown(n, p)
               /\ InQueue(n, p)' => InQueue(n, p)
               /\ InQueue(n, q)' => InQueue(n, q)
               /\ WithMac(n, q)' => WithMac(n, q)
               /\ FromArp(n, q)' => FromArp(n, q)
               /\ OrderedDown(down[n], Data(p), Data(q))'
               /\ Ordered(queue[n], Data(p), Data(q))',
           passedUp' = passedUp
    PROVE  Ahead(p, q)'
BY DEF Ahead

(* An agent sends x. *)
LEMMA SendFollows ==
    ASSUME TypeOK, InLine, NEW x \in Packet, Send(x),
           NEW p \in Packet, NEW q \in Packet, Follows(q, p)'
    PROVE  /\ p # x
           /\ Follows(q, p) \/ (q = x /\ p \in ToSet(sent))
<1>1. /\ sent \in Seq(Packet) /\ sent' = Append(sent, x) /\ x \notin ToSet(sent)
  BY DEF Send, TypeOK
<1>2. /\ Len(sent) \in Nat /\ DOMAIN sent = 1..Len(sent)
      /\ DOMAIN sent' = 1..Len(sent) + 1
      /\ \A i \in 1..Len(sent) : sent'[i] = sent[i]
      /\ sent'[Len(sent) + 1] = x
  BY <1>1
<1>3. PICK i, j \in 1..Len(sent) + 1 : i < j /\ sent'[i] = p /\ sent'[j] = q
  BY <1>2 DEF Follows, SentBefore
<1>4. i \in 1..Len(sent) /\ sent[i] = p
  BY <1>2, <1>3
<1>5. p \in ToSet(sent)
  BY <1>2, <1>4 DEF ToSet
<1>6. CASE j = Len(sent) + 1
  BY <1>1, <1>2, <1>3, <1>5, <1>6
<1>7. CASE j # Len(sent) + 1
  <2>1. j \in 1..Len(sent) /\ sent[j] = q
    BY <1>2, <1>3, <1>7
  <2>2. SentBefore(p, q)
    BY <1>2, <1>3, <1>4, <2>1 DEF SentBefore
  <2> QED
    BY <1>1, <1>5, <2>2 DEF Follows
<1> QED
  BY <1>6, <1>7

LEMMA SendOnce ==
    ASSUME TypeOK, InLine, NEW x \in Packet, Send(x)
    PROVE  \A i, j \in DOMAIN sent' : sent'[i] = sent'[j] => i = j
<1>1. /\ sent \in Seq(Packet) /\ sent' = Append(sent, x) /\ x \notin ToSet(sent)
  BY DEF Send, TypeOK
<1>2. /\ Len(sent) \in Nat /\ DOMAIN sent = 1..Len(sent)
      /\ DOMAIN sent' = 1..Len(sent) + 1
      /\ \A i \in 1..Len(sent) : sent'[i] = sent[i]
      /\ sent'[Len(sent) + 1] = x
  BY <1>1
<1>3. \A i \in 1..Len(sent) : sent[i] # x
  BY <1>1, <1>2 DEF ToSet
<1> SUFFICES ASSUME NEW i \in 1..Len(sent) + 1, NEW j \in 1..Len(sent) + 1,
                    sent'[i] = sent'[j]
             PROVE  i = j
  BY <1>2
<1>4. i \in 1..Len(sent) <=> j \in 1..Len(sent)
  BY <1>2, <1>3
<1> QED
  BY <1>2, <1>4 DEF InLine

(* What x's sending changes at a node: ARP may schedule a request or hold  *)
(* x, or the link layer schedules x.                                       *)
LEMMA SendPlaces ==
    ASSUME TypeOK, NEW x \in Packet, Send(x), NEW n \in Node
    PROVE  /\ queue' = queue /\ mac' = mac /\ passedUp' = passedUp
           /\ \/ /\ down'[n] = down[n]
              \/ \E e \in Event : /\ down'[n] = Append(down[n], e)
                                  /\ \/ e = [frame |-> Data(x), by |-> "LL"]
                                     \/ \A p \in Packet : e.frame # Data(p)
<1>1. queue' = queue /\ mac' = mac /\ passedUp' = passedUp
  BY DEF Send
<1> DEFINE o == Origin[x]
           d == NextHop[x]
<1>2. o \in Node /\ d \in Node \cup {Everyone}
  BY OriginIsNode
<1>3. ASSUME NEW f \in Frame, NEW by \in {"LL", "ARP"}, Scheduled(o, f, by)
      PROVE  \/ down'[n] = down[n]
             \/ down'[n] = Append(down[n], [frame |-> f, by |-> by])
  BY <1>3 DEF Scheduled, TypeOK
<1>4. CASE SendResolved(o, d, x)
  <2>1. Scheduled(o, Data(x), "LL") /\ Data(x) \in Frame
    BY <1>4, FrameKinds DEF SendResolved
  <2>2. [frame |-> Data(x), by |-> "LL"] \in Event
    BY <2>1 DEF Event
  <2> QED
    BY <1>1, <1>3, <2>1, <2>2
<1>5. CASE SendHeld(o, d, x)
  <2>1. /\ Scheduled(o, Request(o, d), "ARP") /\ Request(o, d) \in Frame
        /\ \A p \in Packet : Request(o, d) # Data(p)
    BY <1>2, <1>5, FrameKinds, DataFrames DEF SendHeld
  <2>2. [frame |-> Request(o, d), by |-> "ARP"] \in Event
    BY <2>1 DEF Event
  <2> QED
    BY <1>1, <1>3, <2>1, <2>2
<1>6. CASE SendRefused(o, d, x)
  BY <1>1, <1>6 DEF SendRefused
<1> QED
  BY <1>1, <1>4, <1>5, <1>6 DEF Send

(* No packet but x gets into ARP's hands, and x takes the place of others. *)
LEMMA SendHolds ==
    ASSUME TypeOK, HeldWhileUnknown, NEW x \in Packet, Send(x),
           NEW p \in Packet, p # x, NEW n \in Node
    PROVE  /\ IsHeld(n, p)' => IsHeld(n, p)
           /\ n = Origin[x] /\ NextHop[p] = NextHop[x] /\ NextHop[x] \in Node
                => ~IsHeld(n, p)'
<1> DEFINE o == Origin[x]
           d == NextHop[x]
<1>1. /\ o \in Node /\ d \in Node \cup {Everyone} /\ Everyone \notin Node
      /\ p # NoPacket
  BY OriginIsNode, DataFrames, PacketAssumption DEF PacketAssumption
<1>2. CASE SendResolved(o, d, x)
  <2>1. arp' = arp
    BY <1>2 DEF SendResolved
  <2>2. ASSUME n = o, NextHop[p] = d, d \in Node PROVE ~IsHeld(n, p)
    <3>1. arp[o][d].up
      BY <1>1, <1>2, <2>2 DEF SendResolved
    <3> QED
      BY <2>2, <3>1, HeldPlaces DEF IsHeld
  <2> QED
    BY <2>1, <2>2 DEF IsHeld
<1>3. ASSUME d \in Node, NEW e, e.hold # p, arp' = [arp EXCEPT ![o][d] = e]
      PROVE  /\ IsHeld(n, p)' => IsHeld(n, p)
             /\ n = o /\ NextHop[p] = d => ~IsHeld(n, p)'
  <2>1. /\ \A m, b \in Node : ~(m = o /\ b = d) => arp'[m][b] = arp[m][b]
        /\ arp'[o][d] = e
    BY <1>1, <1>3 DEF TypeOK
  <2>2. IsHeld(n, p)' => IsHeld(n, p)
    BY <1>3, <2>1 DEF IsHeld
  <2>3. ASSUME n = o, NextHop[p] = d, NEW b \in Node, arp'[n][b].hold = p
        PROVE  FALSE
    <3>1. b # d /\ arp[n][b].hold = p
      BY <1>1, <1>3, <2>1, <2>3
    <3>2. b = NextHop[p]
      BY <3>1, HeldPlaces
    <3> QED
      BY <2>3, <3>1, <3>2
  <2> QED
    BY <2>2, <2>3 DEF IsHeld
<1>4. CASE SendHeld(o, d, x)
  <2> DEFINE e == [up |-> FALSE, count |-> arp[o][d].count + 1, hold |-> x]
  <2>1. arp' = [arp EXCEPT ![o][d] = e] /\ e.hold # p
    BY <1>4 DEF SendHeld
  <2>2. d \in Node
    BY <1>1, <1>4 DEF SendHeld
  <2> HIDE DEF e
  <2> QED
    BY <1>3, <2>1, <2>2
<1>5. CASE SendRefused(o, d, x)
  <2> DEFINE e == [up |-> FALSE, count |-> 0, hold |-> NoPacket]
  <2>1. arp' = [arp EXCEPT ![o][d] = e] /\ e.hold # p
    BY <1>1, <1>5 DEF SendRefused
  <2>2. d \in Node
    BY <1>1, <1>5 DEF SendRefused
  <2> HIDE DEF e
  <2> QED
    BY <1>3, <2>1, <2>2
<1> QED
  BY <1>2, <1>4, <1>5 DEF Send

(* ARP releases what was scheduled and named as such. *)
LEMMA FromArpInDown ==
    ASSUME NEW n \in Node, NEW p, FromArp(n, p)
    PROVE  InDown(n, p)
<1>1. PICK i \in DOMAIN down[n] : down[n][i] = [frame |-> Data(p), by |-> "ARP"]
  BY DEF FromArp, ToSet
<1> QED
  BY <1>1 DEF InDown, OccursDown

(* A packet that was not sent yet is nowhere. *)
LEMMA UnsentNowhere ==
    ASSUME TypeOK, AllTraced, NEW x \in Packet, x \notin ToSet(sent), NEW n \in Node
    PROVE  ~InStackOf(n, x) /\ ~Occurs(passedUp[n], x)
<1>1. Traced(x)
  BY DEF AllTraced
<1>2. x \notin Arrived /\ ~InStackOf(n, x)
  BY <1>1 DEF Traced
<1>3. x \notin ToSet(passedUp[n])
  BY <1>2 DEF Arrived
<1> QED
  BY <1>2, <1>3 DEF Occurs, ToSet

LEMMA SendLeaves ==
    ASSUME TypeOK, HeldWhileUnknown, NEW x \in Packet, Send(x),
           NEW p \in Packet, p # x, NEW n \in Node
    PROVE  /\ IsHeld(n, p)' => IsHeld(n, p)
           /\ InDown(n, p)' => InDown(n, p)
           /\ InQueue(n, p)' <=> InQueue(n, p)
           /\ WithMac(n, p)' <=> WithMac(n, p)
           /\ InStackOf(n, p)' => InStackOf(n, p)
           /\ FromArp(n, p)' => FromArp(n, p)
<1>1. down[n] \in Seq(Event) /\ Data(p) # Data(x)
  BY DataFrames DEF TypeOK
<1>2. InQueue(n, p)' <=> InQueue(n, p)
  BY SendPlaces DEF InQueue
<1>3. WithMac(n, p)' <=> WithMac(n, p)
  BY SendPlaces DEF WithMac
<1>4. IsHeld(n, p)' => IsHeld(n, p)
  BY SendHolds
<1>5. (InDown(n, p)' => InDown(n, p)) /\ (FromArp(n, p)' => FromArp(n, p))
  <2>1. CASE down'[n] = down[n]
    BY <2>1 DEF InDown, FromArp
  <2>2. ASSUME NEW e \in Event, down'[n] = Append(down[n], e), e.frame # Data(p)
        PROVE  (InDown(n, p)' => InDown(n, p)) /\ (FromArp(n, p)' => FromArp(n, p))
    <3>1. InDown(n, p)' => InDown(n, p)
      BY <1>1, <2>2, AppendPlaces DEF InDown
    <3>2. ToSet(down'[n]) = ToSet(down[n]) \cup {e}
      BY <1>1, <2>2, AppendElements
    <3>3. [frame |-> Data(p), by |-> "ARP"] # e
      BY <2>2
    <3> QED
      BY <3>1, <3>2, <3>3 DEF FromArp
  <2> QED
    BY <1>1, <2>1, <2>2, SendPlaces
<1> QED
  BY <1>2, <1>3, <1>4, <1>5 DEF InStackOf

LEMMA SendInLine ==
    ASSUME TypeOK, HeldWhileUnknown, AllTraced, InLine, NEW x \in Packet, Send(x)
    PROVE  InLine'
<1>1. passedUp' = passedUp /\ queue' = queue /\ mac' = mac
  BY SendPlaces, OriginIsNode
<1>2. ASSUME NEW p \in Packet, NEW q \in Packet, Follows(q, p)'
      PROVE  Ahead(p, q)'
  <2> DEFINE n == Origin[p]
             d == NextHop[p]
  <2>1. /\ p # x /\ n \in Node /\ d \in Node /\ n = Origin[q] /\ d = NextHop[q]
        /\ Follows(q, p) \/ (q = x /\ p \in ToSet(sent))
    BY <1>2, SendFollows, OriginIsNode DEF Follows
  <2>2. x \notin ToSet(sent) /\ down[n] \in Seq(Event)
    BY <2>1 DEF Send, TypeOK
  <2>3. /\ down'[n] = down[n]
        \/ \E e \in Event : /\ down'[n] = Append(down[n], e)
                            /\ \/ e = [frame |-> Data(x), by |-> "LL"]
                               \/ \A z \in Packet : e.frame # Data(z)
    BY <2>1, SendPlaces
  <2>4. ASSUME OrderedDown(down[n], Data(p), Data(q)), p # q
        PROVE  OrderedDown(down[n], Data(p), Data(q))'
    <3>1. Data(p) # Data(q) /\ Data(x) # Data(p)
      BY <2>1, <2>4, DataFrames
    <3>2. ASSUME NEW e \in Event, down'[n] = Append(down[n], e), e.frame # Data(p)
          PROVE  OrderedDown(down'[n], Data(p), Data(q))
      BY <2>2, <2>4, <3>1, <3>2, AppendOrderedDown
    <3>3. OrderedDown(down'[n], Data(p), Data(q))
      BY <2>3, <2>4, <3>1, <3>2
    <3> QED
      BY <3>3
  <2>5. CASE Follows(q, p)
    <3>1. q # x /\ p # q /\ Ahead(p, q)
      BY <2>2, <2>5, SentOnce DEF InLine
    <3>2. OrderedDown(down[n], Data(p), Data(q))'
      BY <2>4, <3>1 DEF Ahead
    <3>3. Ordered(queue[n], Data(p), Data(q))'
      BY <1>1, <3>1 DEF Ahead
    <3> QED
      BY <1>1, <2>1, <3>1, <3>2, <3>3, SendLeaves, StillAhead
  <2>6. CASE q = x /\ p \in ToSet(sent)
    <3>1. /\ ~InDown(n, x) /\ ~InQueue(n, x) /\ ~WithMac(n, x)
          /\ ~Occurs(passedUp[d], x)
      BY <2>1, <2>2, UnsentNowhere DEF InStackOf
    <3>2. ~InQueue(n, x)' /\ ~WithMac(n, x)' /\ ~Occurs(passedUp[d], x)'
      BY <1>1, <3>1 DEF InQueue, WithMac
    <3>3. ~IsHeld(n, p)'
      BY <2>1, <2>6, SendHolds
    <3>4. OrderedDown(down[n], Data(p), Data(q))'
      BY <2>1, <2>4, <2>6, <3>1, OrderedAlone DEF InDown
    <3>5. Ordered(queue[n], Data(p), Data(x))' /\ Ordered(passedUp[d], p, x)'
      BY <3>2, OrderedAlone DEF InQueue
    <3>6. ~FromArp(n, x)'
      <4>1. ~FromArp(n, x)
        BY <2>1, <3>1, FromArpInDown
      <4>2. ASSUME NEW e \in Event, down'[n] = Append(down[n], e),
                   e # [frame |-> Data(x), by |-> "ARP"]
            PROVE  ~FromArp(n, x)'
        <5>1. ToSet(down'[n]) = ToSet(down[n]) \cup {e}
          BY <2>2, <4>2, AppendElements
        <5> QED
          BY <4>1, <4>2, <5>1 DEF FromArp
      <4>3. CASE down'[n] = down[n]
        BY <4>1, <4>3 DEF FromArp
      <4> QED
        BY <2>3, <4>2, <4>3
    <3> QED
      BY <2>6, <3>2, <3>3, <3>4, <3>5, <3>6 DEF Ahead
  <2> QED
    BY <2>1, <2>5, <2>6
<1>3. \A n \in Node, p \in Packet : Once(passedUp[n], p)'
  BY <1>1 DEF InLine
<1> QED
  BY <1>2, <1>3, SendOnce DEF InLine

(* The i-th frame that n has scheduled enters n's interface queue. *)
Enters(n, i) ==
    LET f == down[n][i].frame
        q == Enqueued(queue[n], f)
    IN  /\ Due(n, i)
        /\ down' = [down EXCEPT ![n] = RemoveAt(@, i)]
        /\ IF blocked[n]
           THEN /\ queue' = [queue EXCEPT ![n] = q]
                /\ UNCHANGED <<mac, blocked>>
           ELSE Served(n, q)
        /\ UNCHANGED <<arp, sent, passedUp>>

(* An idle MAC gets it at once; otherwise it waits in the queue. *)
LEMMA EntersQueue ==
    ASSUME TypeOK, NeverBlockedIdle, NEW n \in Node, NEW i \in DOMAIN down[n],
           Enters(n, i)
    PROVE  LET f == down[n][i].frame
           IN  /\ f \in Frame /\ down[n] \in Seq(Event)
               /\ down'[n] = RemoveAt(down[n], i)
               /\ \/ /\ queue'[n] = Enqueued(queue[n], f) /\ mac'[n] = mac[n]
                  \/ queue'[n] = <<>> /\ mac'[n] = f /\ mac[n] = NoFrame
               /\ \A m \in Node \ {n} : /\ down'[m] = down[m]
                                        /\ queue'[m] = queue[m]
                                        /\ mac'[m] = mac[m]
<1> DEFINE f == down[n][i].frame
           q == Enqueued(queue[n], f)
<1>1. down[n] \in Seq(Event) /\ queue[n] \in Seq(Frame)
  BY DEF TypeOK
<1>2. f \in Frame
  <2>1. down[n][i] \in Event
    BY <1>1, RemoveElements
  <2> QED
    BY <2>1 DEF Event
<1>3. /\ down'[n] = RemoveAt(down[n], i)
      /\ \A m \in Node \ {n} : down'[m] = down[m]
  BY DEF Enters, TypeOK
<1>4. IF blocked[n] THEN /\ queue' = [queue EXCEPT ![n] = q]
                         /\ UNCHANGED <<mac, blocked>>
                    ELSE Served(n, q)
  BY DEF Enters
<1> HIDE DEF f
<1>5. CASE blocked[n]
  <2>1. /\ queue'[n] = q /\ mac' = mac
        /\ \A m \in Node \ {n} : queue'[m] = queue[m]
    BY <1>4, <1>5 DEF TypeOK
  <2> QED
    BY <1>1, <1>2, <1>3, <2>1 DEF f
<1>6. CASE ~blocked[n]
  <2>1. mac[n] = NoFrame /\ queue[n] = <<>>
    BY <1>6 DEF NeverBlockedIdle
  <2>2. q = <<f>>
    <3>1. Enqueued(<<>>, f) = <<f>>
      BY <1>1, <1>2, EnqueuedElements
    <3> QED
      BY <2>1, <3>1
  <2>3. <<f>> # <<>> /\ Head(<<f>>) = f /\ Tail(<<f>>) = <<>>
    OBVIOUS
  <2>4. /\ queue'[n] = <<>> /\ mac'[n] = f
        /\ \A m \in Node \ {n} : queue'[m] = queue[m] /\ mac'[m] = mac[m]
    BY <1>4, <1>6, <2>2, <2>3 DEF Served, TypeOK
  <2> QED
    BY <1>1, <1>2, <1>3, <2>1, <2>4 DEF f
<1> QED
  BY <1>5, <1>6

LEMMA EntersPlaces ==
    ASSUME TypeOK, HeldWhileUnknown, NeverBlockedIdle, AllTraced,
           NEW n \in Node, NEW i \in DOMAIN down[n], Enters(n, i),
           NEW z \in Packet, NEW m \in Node
    PROVE  LET here == m = n /\ down[n][i].frame = Data(z)
           IN  /\ here => InDown(m, z)
               /\ IsHeld(m, z)' <=> IsHeld(m, z)
               /\ InDown(m, z)' <=> InDown(m, z) /\ ~here
               /\ InQueue(m, z)' => InQueue(m, z) \/ here
               /\ WithMac(m, z)' => WithMac(m, z) \/ here
               /\ InStackOf(m, z)' => InStackOf(m, z)
               /\ FromArp(m, z)' => FromArp(m, z)
<1> DEFINE f == down[n][i].frame
           here == m = n /\ f = Data(z)
<1>1. /\ f \in Frame /\ down[n] \in Seq(Event) /\ queue[n] \in Seq(Frame)
      /\ down'[n] = RemoveAt(down[n], i)
      /\ \/ queue'[n] = Enqueued(queue[n], f) /\ mac'[n] = mac[n]
         \/ queue'[n] = <<>> /\ mac'[n] = f
      /\ m # n => down'[m] = down[m] /\ queue'[m] = queue[m] /\ mac'[m] = mac[m]
  BY EntersQueue DEF TypeOK
<1>2. OnePlace(m, z)
  BY OnePlaceEverywhere DEF AllTraced
<1>3. here => InDown(m, z)
  BY DEF InDown, OccursDown
<1>4. IsHeld(m, z)' <=> IsHeld(m, z)
  BY DEF Enters, IsHeld
<1> HIDE DEF f
<1>5. CASE m # n
  BY <1>1, <1>3, <1>4, <1>5
  DEF f, InDown, InQueue, WithMac, InStackOf, FromArp
<1>6. CASE m = n
  <2>1. /\ OccursDown(RemoveAt(down[n], i), Data(z))
             <=> OccursDown(down[n], Data(z)) /\ f # Data(z)
    BY <1>1, <1>2, <1>6, RemovePlaces DEF OnePlace, f
  <2>2. InDown(m, z)' <=> InDown(m, z) /\ ~here
    BY <1>1, <1>6, <2>1 DEF InDown
  <2>3. ToSet(down'[n]) \subseteq ToSet(down[n])
    BY <1>1, RemoveElements
  <2>4. FromArp(m, z)' => FromArp(m, z)
    BY <1>6, <2>3 DEF FromArp
  <2>5. (InQueue(m, z)' => InQueue(m, z) \/ here)
        /\ (WithMac(m, z)' => WithMac(m, z) \/ here)
    <3>1. CASE queue'[n] = Enqueued(queue[n], f) /\ mac'[n] = mac[n]
      <4>1. Once(queue[n], Data(z)) /\ ~(Occurs(queue[n], Data(z)) /\ f = Data(z))
        BY <1>2, <1>3, <1>6 DEF OnePlace, InQueue
      <4>2. Occurs(Enqueued(queue[n], f), Data(z))
              => Occurs(queue[n], Data(z)) \/ f = Data(z)
        BY <1>1, <4>1, EnqueuedPlaces
      <4> QED
        BY <1>6, <3>1, <4>2 DEF InQueue, WithMac
    <3>2. CASE queue'[n] = <<>> /\ mac'[n] = f
      <4>1. ~Occurs(queue'[n], Data(z))
        BY <3>2 DEF Occurs
      <4> QED
        BY <1>6, <3>2, <4>1 DEF InQueue, WithMac
    <3> QED
      BY <1>1, <3>1, <3>2
  <2> QED
    BY <1>3, <1>4, <2>2, <2>4, <2>5 DEF f, InStackOf
<1> QED
  BY <1>5, <1>6

(* What is due does not overtake what was scheduled before it. *)
LEMMA DueInLine ==
    ASSUME TypeOK, NEW p \in Packet, NEW q \in Packet, Ahead(p, q),
           NEW i \in DOMAIN down[Origin[p]], Due(Origin[p], i),
           down[Origin[p]][i].frame = Data(q)
    PROVE  ~InDown(Origin[p], p)
<1> DEFINE n == Origin[p]
<1>1. n \in Node /\ down[n] \in Seq(Event)
  BY OriginIsNode DEF TypeOK
<1> SUFFICES ASSUME NEW k \in DOMAIN down[n], down[n][k].frame = Data(p)
             PROVE  FALSE
  BY DEF InDown, OccursDown
<1>2. CASE i = 1
  <2>1. k < i
    BY DEF Ahead, OrderedDown
  <2>2. k \in 1..Len(down[n])
    BY <1>1
  <2> QED
    BY <1>2, <2>1, <2>2
<1>3. CASE down[n][i].by = "ARP"
  <2>1. down[n][i] \in Event
    BY <1>1, RemoveElements
  <2>2. down[n][i] = [frame |-> Data(q), by |-> "ARP"]
    BY <1>3, <2>1 DEF Event
  <2>3. FromArp(n, q)
    BY <2>2 DEF FromArp, ToSet
  <2> QED
    BY <2>3 DEF Ahead, InStackOf, InDown, OccursDown
<1> QED
  BY <1>2, <1>3 DEF Due

LEMMA EntersInLine ==
    ASSUME TypeOK, HeldWhileUnknown, NeverBlockedIdle, AllTraced, InLine,
           NEW n \in Node, NEW i \in DOMAIN down[n], Enters(n, i)
    PROVE  InLine'
<1>1. sent' = sent /\ passedUp' = passedUp
  BY DEF Enters
<1>2. ASSUME NEW p \in Packet, NEW q \in Packet, Follows(q, p)'
      PROVE  Ahead(p, q)'
  <2> DEFINE o == Origin[p]
             f == down[n][i].frame
  <2>1. Follows(q, p)
    BY <1>1, <1>2 DEF Follows, SentBefore
  <2>2. /\ p # q /\ Data(p) # Data(q) /\ Ahead(p, q) /\ o \in Node
        /\ q \notin Routing
    BY <2>1, SentOnce, OriginIsNode DEF InLine, Follows
  <2> DEFINE here(z) == o = n /\ f = Data(z)
  <2>3. ASSUME NEW z \in Packet
        PROVE  /\ here(z) => InDown(o, z)
               /\ IsHeld(o, z)' <=> IsHeld(o, z)
               /\ InDown(o, z)' <=> InDown(o, z) /\ ~here(z)
               /\ InQueue(o, z)' => InQueue(o, z) \/ here(z)
               /\ WithMac(o, z)' => WithMac(o, z) \/ here(z)
               /\ InStackOf(o, z)' => InStackOf(o, z)
               /\ FromArp(o, z)' => FromArp(o, z)
    BY <2>2, EntersPlaces
  <2>4. ~(here(q) /\ InDown(o, p))
    BY <2>2, DueInLine DEF Enters
  <2>5. ASSUME o # n
        PROVE  down'[o] = down[o] /\ queue'[o] = queue[o] /\ mac'[o] = mac[o]
    BY <2>2, <2>5, EntersQueue
  <2>6. ASSUME o = n
        PROVE  /\ f \in Frame /\ down[o] \in Seq(Event) /\ queue[o] \in Seq(Frame)
               /\ down'[o] = RemoveAt(down[o], i)
               /\ \/ queue'[o] = Enqueued(queue[o], f) /\ mac'[o] = mac[o]
                  \/ queue'[o] = <<>> /\ mac'[o] = f
    BY <2>6, EntersQueue DEF TypeOK
  <2>7. OrderedDown(down[o], Data(p), Data(q))'
    <3>1. OrderedDown(down[o], Data(p), Data(q))
      BY <2>2 DEF Ahead
    <3>2. CASE o # n
      BY <2>5, <3>1, <3>2
    <3>3. CASE o = n
      BY <2>6, <3>1, <3>3, RemoveOrdered
    <3> QED
      BY <3>2, <3>3
  <2>8. Ordered(queue[o], Data(p), Data(q))' /\ (InQueue(o, p)' => ~WithMac(o, q)')
    <3>1. /\ Ordered(queue[o], Data(p), Data(q))
          /\ InQueue(o, p) => ~WithMac(o, q)
          /\ InDown(o, p) => ~InQueue(o, q) /\ ~WithMac(o, q)
      BY <2>2 DEF Ahead
    <3>2. CASE o # n
      BY <2>5, <3>1, <3>2 DEF InQueue, WithMac
    <3>3. CASE o = n /\ queue'[o] = <<>>
      <4>1. ~Occurs(queue'[o], Data(p))
        BY <3>3 DEF Occurs
      <4>2. Ordered(queue'[o], Data(p), Data(q))
        BY <4>1, OrderedAlone
      <4> QED
        BY <4>1, <4>2 DEF InQueue
    <3>4. CASE o = n /\ queue'[o] = Enqueued(queue[o], f) /\ mac'[o] = mac[o]
      <4>1. f = Data(q) => ~Preferred(f)
        BY <2>2, FrameKinds DEF Preferred
      <4>2. ~(f = Data(p) /\ Occurs(queue[o], Data(q)))
        BY <2>3, <3>1, <3>4 DEF InQueue
      <4> HIDE DEF f
      <4>3. Ordered(Enqueued(queue[o], f), Data(p), Data(q))
        BY <2>2, <2>6, <3>1, <3>4, <4>1, <4>2, EnqueuedOrdered
      <4>4. WithMac(o, q)' <=> WithMac(o, q)
        BY <3>4 DEF WithMac
      <4>5. InQueue(o, p)' => InQueue(o, p) \/ InDown(o, p)
        BY <2>3
      <4> QED
        BY <3>1, <3>4, <4>3, <4>4, <4>5
    <3> QED
      BY <2>6, <3>2, <3>3, <3>4
  <2> HIDE DEF here
  <2> QED
    BY <1>1, <2>2, <2>3, <2>4, <2>7, <2>8 DEF Ahead
<1>3. \A m \in Node, p \in Packet : Once(passedUp[m], p)'
  BY <1>1 DEF InLine
<1>4. \A j, k \in DOMAIN sent' : sent'[j] = sent'[k] => j = k
  BY <1>1 DEF InLine
<1> QED
  BY <1>2, <1>3, <1>4 DEF InLine

LEMMA AppendOnce ==
    ASSUME NEW S, NEW s \in Seq(S), NEW e \in S, NEW x,
           Once(s, x), e = x => ~Occurs(s, x)
    PROVE  Once(Append(s, e), x)
<1>1. /\ Len(s) \in Nat /\ DOMAIN s = 1..Len(s)
      /\ DOMAIN Append(s, e) = 1..Len(s) + 1
      /\ \A i \in 1..Len(s) : Append(s, e)[i] = s[i]
      /\ Append(s, e)[Len(s) + 1] = e
  OBVIOUS
<1>2. \A i \in 1..Len(s) + 1 : i \in 1..Len(s) \/ i = Len(s) + 1
  BY <1>1
<1> QED
  BY <1>1, <1>2 DEF Once, Occurs

(* Serving a queue keeps the order of what was in it. *)
LEMMA ServedInLine ==
    ASSUME TypeOK, AllTraced, HeldWhileUnknown, NEW n \in Node, Served(n, queue[n]),
           NEW m \in Node, NEW p \in Packet, NEW q \in Packet,
           Ordered(queue[m], Data(p), Data(q)), InQueue(m, p) => ~WithMac(m, q)
    PROVE  /\ Ordered(queue[m], Data(p), Data(q))'
           /\ InQueue(m, p)' => ~WithMac(m, q)'
           /\ \A z \in Packet :
                /\ InQueue(m, z)' => InQueue(m, z)
                /\ WithMac(m, z)' => InQueue(m, z) \/ (WithMac(m, z) /\ m # n)
<1>1. queue[n] \in Seq(Frame)
  BY DEF TypeOK
<1>2. ASSUME NEW z \in Packet
      PROVE  /\ InQueue(n, z)' \/ WithMac(n, z)' <=> InQueue(n, z)
             /\ \A k \in Node \ {n} : queue'[k] = queue[k] /\ mac'[k] = mac[k]
  <2>1. Once(queue[n], Data(z))
    BY OnePlaceEverywhere DEF AllTraced, OnePlace
  <2> QED
    BY <1>1, <2>1, ServedPlaces DEF InQueue
<1>3. CASE m # n
  BY <1>2, <1>3 DEF InQueue, WithMac
<1>4. CASE m = n /\ queue[n] = <<>>
  <2>1. queue'[n] = <<>>
    BY <1>4 DEF Served, TypeOK
  <2>2. ~Occurs(queue'[n], Data(p))
    BY <2>1 DEF Occurs
  <2>3. Ordered(queue'[n], Data(p), Data(q))
    BY <2>2, OrderedAlone
  <2> QED
    BY <1>2, <1>4, <2>2, <2>3 DEF InQueue
<1>5. CASE m = n /\ queue[n] # <<>>
  <2>1. queue'[n] = Tail(queue[n]) /\ mac'[n] = Head(queue[n])
    BY <1>5 DEF Served, TypeOK
  <2>2. /\ Ordered(Tail(queue[n]), Data(p), Data(q))
        /\ ~(Head(queue[n]) = Data(q) /\ Occurs(Tail(queue[n]), Data(p)))
    BY <1>1, <1>5, TailOrdered
  <2> QED
    BY <1>2, <1>5, <2>1, <2>2 DEF InQueue, WithMac
<1> QED
  BY <1>3, <1>4, <1>5

(* While p is in the stack the MAC is not busy with q. *)
LEMMA BehindMac ==
    ASSUME NEW p \in Packet, NEW q \in Packet, p # q, Ahead(p, q),
           WithMac(Origin[p], q)
    PROVE  ~InStackOf(Origin[p], p)
<1>1. ~WithMac(Origin[p], p)
  BY DataFrames DEF WithMac
<1>2. InStackOf(Origin[p], q)
  BY DEF InStackOf
<1> QED
  BY <1>1, <1>2 DEF Ahead, InStackOf

LEMMA DataInLine ==
    ASSUME TypeOK, HeldWhileUnknown, AllTraced, InLine, NEW n \in Node,
           mac[n] \in Frame, mac[n].type = "DATA", NEW hearers \in SUBSET Node,
           HearData(hearers, mac[n]), Served(n, queue[n]), sent' = sent
    PROVE  InLine'
<1> DEFINE f == mac[n]
           x == f.packet
<1>1. x \in Packet /\ f = Data(x) /\ WithMac(n, x)
  BY FrameFields DEF WithMac
<1>2. n = Origin[x] /\ InStackOf(n, x) /\ x \notin Arrived
  BY <1>1 DEF AllTraced, Traced, InStackOf
<1>3. ASSUME NEW m \in Node
      PROVE  /\ passedUp[m] \in Seq(Packet) /\ ~Occurs(passedUp[m], x)
             /\ passedUp'[m] = IF m \in hearers THEN Append(passedUp[m], x)
                                                ELSE passedUp[m]
  BY <1>2 DEF TypeOK, HearData, Arrived, Occurs, ToSet
<1>4. arp' = arp /\ down' = down
  BY DEF HearData
<1> HIDE DEF f, x
<1>5. ASSUME NEW p \in Packet, NEW q \in Packet, Follows(q, p)'
      PROVE  Ahead(p, q)'
  <2> DEFINE o == Origin[p]
             d == NextHop[p]
  <2>1. Follows(q, p)
    BY <1>5 DEF Follows, SentBefore
  <2>2. /\ p # q /\ Ahead(p, q) /\ o \in Node /\ d \in Node /\ o = Origin[q]
    BY <2>1, SentOnce, OriginIsNode DEF InLine, Follows
  <2>3. /\ Ordered(queue[o], Data(p), Data(q))'
        /\ InQueue(o, p)' => ~WithMac(o, q)'
        /\ \A z \in Packet :
             /\ InQueue(o, z)' => InQueue(o, z)
             /\ WithMac(o, z)' => InQueue(o, z) \/ (WithMac(o, z) /\ o # n)
    BY <2>2, ServedInLine DEF Ahead
  <2>4. ASSUME NEW z \in Packet
        PROVE  /\ IsHeld(o, z)' <=> IsHeld(o, z)
               /\ InDown(o, z)' <=> InDown(o, z)
               /\ FromArp(o, z)' <=> FromArp(o, z)
               /\ InStackOf(o, z)' => InStackOf(o, z)
    BY <1>4, <2>3 DEF IsHeld, InDown, FromArp, InStackOf
  <2>5. InStackOf(o, p) => ~Occurs(passedUp[d], q)'
    <3>1. ASSUME InStackOf(o, p) PROVE x # q /\ ~Occurs(passedUp[d], q)
      BY <1>1, <1>2, <2>2, <3>1, BehindMac DEF Ahead
    <3>2. ASSUME x # q, ~Occurs(passedUp[d], q) PROVE ~Occurs(passedUp'[d], q)
      <4>1. ToSet(passedUp'[d]) \subseteq ToSet(passedUp[d]) \cup {x}
        BY <1>1, <1>3, <2>2, AppendElements
      <4> QED
        BY <3>2, <4>1 DEF Occurs, ToSet
    <3> QED
      BY <3>1, <3>2
  <2>6. Ordered(passedUp[d], p, q)'
    <3>1. Ordered(passedUp[d], p, q)
      BY <2>2 DEF Ahead
    <3>2. ~(x = p /\ Occurs(passedUp[d], q))
      BY <1>2, <2>2 DEF Ahead
    <3>3. Ordered(Append(passedUp[d], x), p, q)
      BY <1>1, <1>3, <2>2, <3>1, <3>2, AppendOrdered
    <3> QED
      BY <1>3, <2>2, <3>1, <3>3
  <2>7. OrderedDown(down[o], Data(p), Data(q))'
    BY <1>4, <2>2 DEF Ahead
  <2> QED
    BY <2>2, <2>3, <2>4, <2>5, <2>6, <2>7 DEF Ahead
<1>6. ASSUME NEW m \in Node, NEW p \in Packet PROVE Once(passedUp[m], p)'
  <2>1. Once(passedUp[m], p)
    BY DEF InLine
  <2>2. Once(Append(passedUp[m], x), p)
    BY <1>1, <1>3, <2>1, AppendOnce
  <2> QED
    BY <1>3, <2>1, <2>2
<1>7. \A j, k \in DOMAIN sent' : sent'[j] = sent'[k] => j = k
  BY DEF InLine
<1> QED
  BY <1>5, <1>6, <1>7 DEF InLine

(* What ARP schedules at m when it hears f comes last, and of p and q, one *)
(* of which it may release, then nothing else is scheduled.                *)
LEMMA HeardArpOrdered ==
    ASSUME TypeOK, NEW m \in Node, NEW f \in Frame, f.type # "DATA",
           NEW p \in Packet, NEW q \in Packet, p # q,
           down'[m] = down[m] \o Released(m, f) \o Answer(m, f),
           OrderedDown(down[m], Data(p), Data(q)),
           arp[m][f.spa].hold = p => ~InDown(m, q),
           arp[m][f.spa].hold = q => ~InDown(m, p)
    PROVE  OrderedDown(down'[m], Data(p), Data(q))
<1> DEFINE h == arp[m][f.spa].hold
<1>1. /\ down[m] \in Seq(Event) /\ Released(m, f) \in Seq(Event)
      /\ Answer(m, f) \in Seq(Event)
  BY HeardArpEvents DEF TypeOK
<1>2. ASSUME NEW z \in Packet
      PROVE  /\ OccursDown(Released(m, f), Data(z)) <=> h = z
             /\ ~OccursDown(Answer(m, f), Data(z))
             /\ InDown(m, z)' <=> InDown(m, z) \/ h = z
  BY ArpSchedules, HeardArpPlaces
<1> HIDE DEF h
<1>3. CASE h = p \/ h = q
  <2>1. ~InDown(m, p)' \/ ~InDown(m, q)'
    BY <1>2, <1>3 DEF h
  <2> QED
    BY <2>1, OrderedAlone DEF InDown
<1>4. CASE h # p /\ h # q
  <2>1. PICK s : s = down[m] \o Released(m, f)
    OBVIOUS
  <2>2. s \in Seq(Event) /\ OrderedDown(s, Data(p), Data(q))
    BY <1>1, <1>2, <1>4, <2>1, ConcatElements, ConcatOrdered
  <2>3. OrderedDown(s \o Answer(m, f), Data(p), Data(q))
    BY <1>1, <1>2, <2>2, ConcatOrdered
  <2>4. down'[m] = s \o Answer(m, f)
    BY <2>1
  <2> QED
    BY <2>3, <2>4
<1> QED
  BY <1>3, <1>4

LEMMA HeardFromArp ==
    ASSUME TypeOK, NEW m \in Node, NEW f \in Frame, f.type # "DATA",
           NEW q \in Packet,
           down'[m] = down[m] \o Released(m, f) \o Answer(m, f), FromArp(m, q)'
    PROVE  FromArp(m, q) \/ arp[m][f.spa].hold = q
<1> DEFINE e == [frame |-> Data(q), by |-> "ARP"]
<1>1. /\ down[m] \in Seq(Event) /\ Released(m, f) \in Seq(Event)
      /\ Answer(m, f) \in Seq(Event)
  BY HeardArpEvents DEF TypeOK
<1>2. PICK s : s = down[m] \o Released(m, f)
  OBVIOUS
<1>3. /\ s \in Seq(Event)
      /\ ToSet(s) = ToSet(down[m]) \cup ToSet(Released(m, f))
  BY <1>1, <1>2, ConcatElements
<1>4. ToSet(s \o Answer(m, f)) = ToSet(s) \cup ToSet(Answer(m, f))
  BY <1>1, <1>3, ConcatElements
<1>5. down'[m] = s \o Answer(m, f)
  BY <1>2
<1>6. e \in ToSet(down[m]) \cup ToSet(Released(m, f)) \cup ToSet(Answer(m, f))
  BY <1>3, <1>4, <1>5 DEF FromArp
<1>7. e.frame = Data(q)
  OBVIOUS
<1> HIDE DEF e
<1>8. ASSUME NEW t, e \in ToSet(t) PROVE OccursDown(t, Data(q))
  BY <1>7, <1>8 DEF ToSet, OccursDown
<1>9. CASE e \in ToSet(down[m])
  BY <1>9 DEF FromArp, e
<1>10. CASE e \in ToSet(Released(m, f))
  BY <1>8, <1>10, ArpSchedules
<1>11. CASE e \in ToSet(Answer(m, f))
  BY <1>8, <1>11, ArpSchedules
<1> QED
  BY <1>6, <1>9, <1>10, <1>11

(* Of a flow ARP holds the last packet, and nothing else of the flow is    *)
(* left below it then.                                                     *)
LEMMA HeldInLine ==
    ASSUME TypeOK, HeldWhileUnknown, NEW p \in Packet, NEW q \in Packet,
           Origin[p] = Origin[q], NextHop[p] = NextHop[q], Ahead(p, q),
           IsHeld(Origin[p], q)
    PROVE  ~InStackOf(Origin[p], p)
<1> DEFINE n == Origin[p]
<1>1. n \in Node /\ InStackOf(n, q)
  BY OriginIsNode DEF InStackOf
<1>2. ~IsHeld(n, p)
  BY <1>1 DEF Ahead
<1>3. PICK d \in Node : arp[n][d].hold = q
  BY DEF IsHeld
<1>4. d = NextHop[p] /\ ~arp[n][d].up
  BY <1>1, <1>3, HeldPlaces
<1>5. p \notin Waiting(n)
  BY <1>1, <1>4 DEF HeldWhileUnknown
<1> QED
  BY <1>1, <1>2, <1>5, WaitingPlaces DEF InStackOf

LEMMA ArpInLine ==
    ASSUME TypeOK, HeldWhileUnknown, AllTraced, InLine, NEW n \in Node,
           mac[n] \in Frame, mac[n].type # "DATA", NEW hearers \in SUBSET Node,
           HearArp(hearers, mac[n]), Served(n, queue[n]), sent' = sent
    PROVE  InLine'
<1> DEFINE f == mac[n]
<1>1. f.spa \in Node /\ passedUp' = passedUp
  BY FrameFields DEF HearArp
<1>2. ASSUME NEW p \in Packet, NEW q \in Packet, Follows(q, p)'
      PROVE  Ahead(p, q)'
  <2> DEFINE o == Origin[p]
             d == NextHop[p]
             here(z) == o \in hearers /\ arp[o][f.spa].hold = z
  <2>1. Follows(q, p)
    BY <1>2 DEF Follows, SentBefore
  <2>2. /\ p # q /\ Ahead(p, q) /\ o \in Node /\ o = Origin[q] /\ d = NextHop[q]
    BY <2>1, SentOnce, OriginIsNode DEF InLine, Follows
  <2>3. /\ Ordered(queue[o], Data(p), Data(q))'
        /\ InQueue(o, p)' => ~WithMac(o, q)'
        /\ \A z \in Packet :
             /\ InQueue(o, z)' => InQueue(o, z)
             /\ WithMac(o, z)' => InQueue(o, z) \/ WithMac(o, z)
    BY <2>2, ServedInLine DEF Ahead
  <2>4. /\ o \in hearers => down'[o] = down[o] \o Released(o, f) \o Answer(o, f)
        /\ o \notin hearers => down'[o] = down[o]
    BY <2>2 DEF HearArp
  <2> HIDE DEF f
  <2>5. ASSUME NEW z \in Packet
        PROVE  /\ here(z) => IsHeld(o, z)
               /\ IsHeld(o, z)' => IsHeld(o, z)
               /\ InDown(o, z)' <=> InDown(o, z) \/ here(z)
               /\ FromArp(o, z)' => FromArp(o, z) \/ here(z)
    <3>1. (here(z) => IsHeld(o, z)) /\ (IsHeld(o, z)' => IsHeld(o, z))
      BY <1>1, <2>2, HeardArpHeld DEF f
    <3>2. CASE o \in hearers
      BY <2>2, <2>4, <3>1, <3>2, HeardArpPlaces, HeardFromArp DEF f
    <3>3. CASE o \notin hearers
      BY <2>4, <3>1, <3>3 DEF InDown, FromArp
    <3> QED
      BY <3>2, <3>3
  <2>6. ASSUME NEW z \in Packet PROVE InStackOf(o, z)' => InStackOf(o, z)
    BY <2>3, <2>5 DEF InStackOf
  <2>7. here(p) => ~InStackOf(o, q)
    BY <2>2, <2>5 DEF Ahead
  <2>8. here(q) => ~InStackOf(o, p)
    BY <2>2, <2>5, HeldInLine
  <2>9. OrderedDown(down[o], Data(p), Data(q))'
    <3>1. OrderedDown(down[o], Data(p), Data(q))
      BY <2>2 DEF Ahead
    <3>2. CASE o \in hearers
      <4>1. /\ arp[o][f.spa].hold = p => ~InDown(o, q)
            /\ arp[o][f.spa].hold = q => ~InDown(o, p)
        BY <2>7, <2>8, <3>2 DEF InStackOf
      <4>2. OrderedDown(down'[o], Data(p), Data(q))
        BY <2>2, <2>4, <3>1, <3>2, <4>1, HeardArpOrdered DEF f
      <4> QED
        BY <4>2
    <3>3. CASE o \notin hearers
      BY <2>4, <3>1, <3>3
    <3> QED
      BY <3>2, <3>3
  <2> HIDE DEF here
  <2>10. InDown(o, p)' => ~InQueue(o, q)' /\ ~WithMac(o, q)'
    BY <2>2, <2>3, <2>5, <2>7 DEF Ahead, InStackOf
  <2> QED
    BY <1>1, <2>2, <2>3, <2>5, <2>6, <2>8, <2>9, <2>10 DEF Ahead
<1>3. \A m \in Node, p \in Packet : Once(passedUp[m], p)'
  BY <1>1 DEF InLine
<1>4. \A j, k \in DOMAIN sent' : sent'[j] = sent'[k] => j = k
  BY DEF InLine
<1> QED
  BY <1>2, <1>3, <1>4 DEF InLine

LEMMA NextInLine ==
    ASSUME TypeOK, HeldWhileUnknown, NeverBlockedIdle, AllTraced, InLine,
           [Next]_vars
    PROVE  InLine'
<1>1. ASSUME NEW x \in Packet, Send(x) PROVE InLine'
  BY <1>1, SendInLine
<1>2. ASSUME NEW n \in Node, Enqueue(n) PROVE InLine'
  <2>1. PICK i \in DOMAIN down[n] : Enters(n, i)
    BY <1>2 DEF Enqueue, Enters
  <2> QED
    BY <2>1, EntersInLine
<1>3. ASSUME NEW n \in Node, Transmit(n) PROVE InLine'
  <2>1. mac[n] \in Frame /\ Served(n, queue[n]) /\ sent' = sent
    BY <1>3 DEF Transmit, TypeOK
  <2>2. PICK hearers \in Hearers(n, mac[n]) :
           IF mac[n].type = "DATA" THEN HearData(hearers, mac[n])
                                   ELSE HearArp(hearers, mac[n])
    BY <1>3 DEF Transmit
  <2>3. hearers \in SUBSET Node
    BY <2>1, <2>2, HearersAreNodes
  <2> QED
    BY <2>1, <2>2, <2>3, DataInLine, ArpInLine
<1>4. CASE UNCHANGED vars
  <2>1. ASSUME NEW p \in Packet, NEW q \in Packet, Follows(q, p)'
        PROVE  Ahead(p, q)'
    <3>1. Follows(q, p)
      BY <1>4, <2>1 DEF vars, Follows, SentBefore
    <3>2. Ahead(p, q)
      BY <3>1 DEF InLine
    <3> QED
      BY <1>4, <3>2
      DEF vars, Ahead, InStackOf, IsHeld, InDown, InQueue, WithMac, FromArp
  <2>2. /\ \A n \in Node, p \in Packet : Once(passedUp[n], p)'
        /\ \A i, j \in DOMAIN sent' : sent'[i] = sent'[j] => i = j
    BY <1>4 DEF vars, InLine
  <2> QED
    BY <2>1, <2>2 DEF InLine
<1> QED
  BY <1>1, <1>2, <1>3, <1>4 DEF Next

LEMMA InLineInOrder ==
    ASSUME TypeOK, AllTraced, InLine
    PROVE  InOrder
<1> DEFINE At(x) == CHOOSE k \in DOMAIN sent : sent[k] = x
<1> SUFFICES ASSUME NEW n \in Node,
                    NEW i \in DOMAIN passedUp[n], NEW j \in DOMAIN passedUp[n],
                    i < j, NextHop[passedUp[n][i]] = n, NextHop[passedUp[n][j]] = n,
                    Origin[passedUp[n][i]] = Origin[passedUp[n][j]],
                    {passedUp[n][i], passedUp[n][j]} \cap Routing = {}
             PROVE  At(passedUp[n][i]) < At(passedUp[n][j])
  BY DEF InOrder
<1>1. passedUp[n] \in Seq(Packet) /\ sent \in Seq(Packet)
  BY DEF TypeOK
<1>2. ASSUME NEW k \in DOMAIN passedUp[n]
      PROVE  \E a \in DOMAIN sent : sent[a] = passedUp[n][k] /\ At(passedUp[n][k]) = a
  <2> DEFINE x == passedUp[n][k]
  <2>1. x \in Packet /\ x \in Arrived
    BY <1>1 DEF Arrived, ToSet
  <2>2. x \in ToSet(sent)
    BY <2>1 DEF AllTraced, Traced
  <2>3. \E a \in DOMAIN sent : sent[a] = x
    BY <2>2 DEF ToSet
  <2>4. At(x) \in DOMAIN sent /\ sent[At(x)] = x
    BY <2>3
  <2> QED
    BY <2>4
<1> DEFINE p == passedUp[n][i]
           q == passedUp[n][j]
<1>3. PICK a \in DOMAIN sent : sent[a] = p /\ At(p) = a
  BY <1>2
<1>4. PICK b \in DOMAIN sent : sent[b] = q /\ At(q) = b
  BY <1>2
<1>5. p \in Packet /\ q \in Packet /\ a \in Nat /\ b \in Nat /\ i \in Nat /\ j \in Nat
  BY <1>1
<1>6. p # q
  BY <1>5 DEF InLine, Once
<1>7. ASSUME b < a PROVE FALSE
  <2>1. Follows(p, q)
    BY <1>3, <1>4, <1>7 DEF Follows, SentBefore
  <2>2. Ordered(passedUp[n], q, p)
    BY <1>5, <2>1 DEF InLine, Ahead
  <2> QED
    BY <1>5, <2>2 DEF Ordered
<1> HIDE DEF At
<1> QED
  BY <1>3, <1>4, <1>5, <1>6, <1>7

(* LL::sendDown(), ARPTable::arpresolve() and arpinput(), PriQueue::recv() *)
(* and DropTail: the packets of a flow that PriQueue does not prefer are   *)
(* passed up at the next hop in the order the agent sent them.  ARP holds  *)
(* the last packet only, so the shorter delay of what it releases does not *)
(* let that packet overtake, and no packet waits behind a later one.       *)
THEOREM OrderKept == Spec => []InOrder
<1>1. Init => InLine
  <2> SUFFICES ASSUME Init PROVE InLine
    OBVIOUS
  <2>1. sent = <<>> /\ \A n \in Node : passedUp[n] = <<>>
    BY DEF Init
  <2> QED
    BY <2>1 DEF InLine, Follows, SentBefore, Once
<1>2. TypeOK /\ HeldWhileUnknown /\ NeverBlockedIdle /\ AllTraced /\ InLine
        /\ [Next]_vars => InLine'
  BY NextInLine
<1>3. TypeOK /\ AllTraced /\ InLine => InOrder
  BY InLineInOrder
<1> QED
  BY <1>1, <1>2, <1>3, TracedAlways, TypeCorrect, HoldsOnlyUnknown,
     QueueNeverStuck, PTL
  DEF Spec
=============================================================================
