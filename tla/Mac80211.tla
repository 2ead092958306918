------------------------------ MODULE Mac80211 ------------------------------
(***************************************************************************)
(* The 802.11 MAC of ad hoc nodes (mac/mac-802_11.cc, mac/mac-timers.cc):  *)
(* carrier sense, virtual carrier sense (NAV), backoff, the RTS, CTS,      *)
(* DATA, ACK exchange, its timeouts and retries, and the filter for        *)
(* duplicates.  Above it, the interface queue with its blocked_ flag       *)
(* (queue/queue.cc); below it, a channel that a frame crosses in PropDelay *)
(* and that may lose it.                                                   *)
(*                                                                         *)
(* Time is in microseconds and relative: a timer is what it has left, or   *)
(* Off.  A step runs one event that is due; what is due at the same        *)
(* instant runs in any order; when nothing is due time passes.             *)
(*                                                                         *)
(* A handler is a function of the record of its node's MAC, so that the    *)
(* calls it makes compose as in the code.  r is the slot Random::random()  *)
(* draws, which a handler does at most once; the contention window cw_     *)
(* only bounds it.  Management frames (infrastructure mode) are left out.  *)
(***************************************************************************)
EXTENDS Integers, Sequences, FiniteSets, SequencesExt

CONSTANTS
    Node,
    Networks,       \* who may hear whom: what hears may be
    Packet, Origin, NextHop, Everyone,
    Size,           \* of a packet with its MAC header, in bytes
    Traffic,        \* when the link layer may hand down each packet
    Slots,          \* the backoff slots drawn, a subset of 0..cw_ - 1
    RTSThreshold, ShortRetryLimit, LongRetryLimit,
    BugFixTimer,    \* bugFix_timer_
    Capture,        \* whether the frame being received may be the stronger
    FirstSeqno,     \* the next number each node uses
    SeqnoMod,         \* 2^16: sta_seqno_ is a u_int16_t
    MaxLosses,      \* bound: how many frames the channel loses
    None

SIFS == 10
SlotTime == 20
DIFS == SIFS + 2 * SlotTime
PropDelay == 1
MaxPropDelay == 2               \* DSSS_MaxPropagationDelay
TxTime(bytes) == 8 * bytes      \* 1 Mb/s, the default of both rates
RTSTime == TxTime(24 + 20)
CTSTime == TxTime(24 + 14)
ACKTime == TxTime(24 + 14)
EIFS == SIFS + DIFS + ACKTime

ASSUME PacketAssumption ==
    /\ Networks \subseteq [Node -> SUBSET Node] /\ Networks # {}
    /\ Origin \in [Packet -> Node]
    /\ NextHop \in [Packet -> Node \cup {Everyone}]
    /\ Everyone \notin Node
    /\ Size \in [Packet -> Nat]
    /\ \A p \in Packet : TxTime(Size[p]) > SIFS    \* the header alone does
    /\ Traffic \subseteq [Packet -> Nat] /\ Traffic # {}

ASSUME MibAssumption ==
    /\ Slots \subseteq Nat /\ Slots # {}
    /\ {RTSThreshold, ShortRetryLimit, LongRetryLimit} \subseteq Nat
    /\ BugFixTimer \in BOOLEAN
    /\ Capture \subseteq BOOLEAN /\ Capture # {}
    /\ SeqnoMod \in Nat \ {0} /\ FirstSeqno \in 0..SeqnoMod - 1

(* What is on the air: no frame is as short as a SIFS. *)
Frame == [kind : {"RTS", "CTS", "DATA", "ACK"}, ta : Node,
          ra : Node \cup {Everyone}, packet : Packet \cup {None}, seq : Nat,
          time : {t \in Nat : t > SIFS}, dur : Nat]
ASSUME NoneAssumption == None \notin Packet \cup Frame

VARIABLES
    mac,        \* the MAC of each node, with its interface queue
    air,        \* frames on their way to a node
    coming,     \* coming[p]: what is left until p is handed down, or Off
    losses,     \* how many frames were lost so far
    hears       \* hears[n]: the nodes in reach of n, which stand still

vars == <<mac, air, coming, losses, hears>>

-----------------------------------------------------------------------------
Off == -1
Timer == {"send", "defer", "recv", "if", "nav"}

USec(t) == t % 65536            \* durations are u_int16_t

NeedsRTS(p) == NextHop[p] # Everyone /\ Size[p] >= RTSThreshold

DataFrame(p, seq) ==
    [kind |-> "DATA", ta |-> Origin[p], ra |-> NextHop[p], packet |-> p,
     seq |-> seq, time |-> TxTime(Size[p]),
     dur |-> IF NextHop[p] = Everyone THEN 0 ELSE USec(ACKTime + SIFS)]

Control(kind, n, to, time, dur) ==
    [kind |-> kind, ta |-> n, ra |-> to, packet |-> None, seq |-> 0,
     time |-> time, dur |-> dur]

RTSFrame(p) ==
    Control("RTS", Origin[p], NextHop[p], RTSTime,
            USec(3 * SIFS + CTSTime + TxTime(Size[p]) + ACKTime))

CTSFrame(n, rts) ==
    Control("CTS", n, rts.ta, CTSTime, USec(rts.dur - SIFS - CTSTime))

ACKFrame(n, to) == Control("ACK", n, to, ACKTime, 0)

NoBackoff == [on |-> FALSE, paused |-> FALSE, rtime |-> 0, left |-> 0]

Idle(n) ==
    [self |-> n,
     tx |-> "IDLE", rx |-> "IDLE",              \* tx_state_, rx_state_
     pktTx |-> None, seq |-> 0,                 \* and its number
     pktRTS |-> FALSE,                          \* an RTS for pktTx_
     pktCTRL |-> None,
     pktRx |-> None, error |-> FALSE,           \* its error()
     ssrc |-> 0, slrc |-> 0,                    \* retry counts
     seqno |-> FirstSeqno,                      \* sta_seqno_
     cache |-> [s \in Node |-> 0],
     callback |-> FALSE,
     timer |-> [t \in Timer |-> Off],           \* mhIF_ runs while tx_active_
     backoff |-> NoBackoff,
     queue |-> <<>>, blocked |-> FALSE,
     up |-> <<>>,                               \* passed to the link layer
     acked |-> {}, given |-> {},                \* how packets were done with
     out |-> None,                              \* for the channel
     failed |-> FALSE]                          \* an assertion failed

Init ==
    /\ mac = [n \in Node |-> Idle(n)]
    /\ air = {}
    /\ coming \in Traffic
    /\ losses = 0
    /\ hears \in Networks

-----------------------------------------------------------------------------
Check(m, holds) == IF holds THEN m ELSE [m EXCEPT !.failed = TRUE]

TxActive(m) == m.timer["if"] # Off

(* Mutant: only what the node itself sends makes the medium busy. *)
IsIdle_TxOnly(m) == m.tx = "IDLE"
IsIdle(m) == m.rx = "IDLE" /\ m.tx = "IDLE" /\ m.timer["nav"] <= 0

(* MacTimer::start() and stop() *)
StartTimer(m, t, time) ==
    [Check(m, m.timer[t] = Off) EXCEPT !.timer[t] = time]
StopTimer(m, t) ==
    [Check(m, m.timer[t] # Off) EXCEPT !.timer[t] = Off]

(* set_nav(); a duration of 0 changes nothing. *)
SetNav(m, us) ==
    IF us > m.timer["nav"] /\ us > 0 THEN [m EXCEPT !.timer["nav"] = us] ELSE m

(* BackoffTimer::start(), resume() and pause(): a paused timer has its     *)
(* slots left and starts again after a DIFS; only whole slots count.       *)
StartBackoff(m, r, difs) ==
    [Check(m, ~m.backoff.on) EXCEPT !.backoff =
        [on |-> TRUE, paused |-> ~IsIdle(m), rtime |-> r * SlotTime,
         left |-> IF IsIdle(m) THEN r * SlotTime + difs ELSE 0]]

ResumeBackoff(m) ==
    [m EXCEPT !.backoff.paused = FALSE, !.backoff.left = m.backoff.rtime + DIFS]

PauseBackoff(m) ==
    LET b == m.backoff
        slots == IF b.left > b.rtime THEN 0
                 ELSE (b.rtime - b.left) \div SlotTime
    IN  [m EXCEPT !.backoff = [on |-> TRUE, paused |-> TRUE, left |-> 0,
                               rtime |-> b.rtime - slots * SlotTime]]

(* Mutant: a backoff that is paused is left to navHandler(). *)
CheckBackoff_NoResume(m) ==
    IF ~IsIdle(m) /\ m.backoff.on /\ ~m.backoff.paused THEN PauseBackoff(m)
    ELSE m

(* checkBackoffTimer() *)
CheckBackoff(m) ==
    IF IsIdle(m) /\ m.backoff.paused THEN ResumeBackoff(m)
    ELSE IF ~IsIdle(m) /\ m.backoff.on /\ ~m.backoff.paused THEN PauseBackoff(m)
    ELSE m

SetTx(m, state) == CheckBackoff([m EXCEPT !.tx = state])
SetRx(m, state) == CheckBackoff([m EXCEPT !.rx = state])

(* transmit(): what is being received is spoilt. *)
Transmit(m, frame, timeout) ==
    LET m1 == IF m.rx = "IDLE" THEN m
              ELSE [Check(m, m.pktRx # None) EXCEPT !.error = TRUE]
    IN  [StartTimer(StartTimer(m1, "send", timeout), "if", frame.time)
           EXCEPT !.out = frame]

-----------------------------------------------------------------------------
(* sendRTS() *)
SendRTS(m) ==
    [Check(m, m.pktTx # None /\ ~m.pktRTS) EXCEPT !.pktRTS = NeedsRTS(m.pktTx)]

(* Wait for a DIFS and a backoff; bugFix_timer_ says with which timer. *)
Contend(m, r) ==
    IF BugFixTimer THEN StartBackoff(m, r, DIFS)
    ELSE StartTimer(m, "defer", DIFS + r * SlotTime)

(* send() *)
Send(m, p, r) ==
    LET m1 == SendRTS([Check(m, m.pktTx = None) EXCEPT
                         !.callback = TRUE, !.pktTx = p, !.seq = m.seqno,
                         !.seqno = (m.seqno + 1) % SeqnoMod])
    IN  IF m1.backoff.on THEN m1
        ELSE IF ~IsIdle(m1) THEN StartBackoff(m1, r, 0)
        ELSE IF m1.timer["defer"] = Off THEN Contend(m1, r)
        ELSE m1

(* Queue::resume() *)
ResumeQueue(m, r) ==
    IF m.queue = <<>> THEN [m EXCEPT !.blocked = FALSE]
    ELSE Send([m EXCEPT !.queue = Tail(m.queue)], Head(m.queue), r)

(* tx_resume() *)
TxResume(m, r) ==
    LET m1 == Check(m, m.timer["send"] = Off /\ m.timer["defer"] = Off)
        m2 == IF m1.pktCTRL # None THEN StartTimer(m1, "defer", SIFS)
              ELSE IF m1.pktRTS
                THEN IF m1.backoff.on THEN m1 ELSE Contend(m1, r)
              ELSE IF m1.pktTx # None
                THEN IF m1.backoff.on THEN m1
                     ELSE IF NeedsRTS(m1.pktTx) THEN StartTimer(m1, "defer", SIFS)
                     ELSE Contend(m1, r)
              ELSE IF m1.callback THEN ResumeQueue([m1 EXCEPT !.callback = FALSE], r)
              ELSE m1
    IN  SetTx(m2, "IDLE")

-----------------------------------------------------------------------------
(* check_pktCTRL(): a CTS is not sent into a busy medium, an ACK is.       *)
CheckCTRL(m) ==
    IF m.pktCTRL.kind = "ACK"
    THEN Transmit(SetTx(m, "ACK"), m.pktCTRL, ACKTime)
    ELSE IF ~IsIdle(m) THEN [m EXCEPT !.pktCTRL = None]
    ELSE Transmit(SetTx(m, "CTS"), m.pktCTRL,
                  CTSTime + 2 * MaxPropDelay + m.pktCTRL.dur - SIFS - ACKTime)

(* check_pktRTS() *)
CheckRTS(m, r) ==
    IF ~IsIdle(m) THEN StartBackoff(m, r, 0)
    ELSE Transmit(SetTx(m, "RTS"), RTSFrame(m.pktTx),
                  RTSTime + SIFS + CTSTime + 2 * MaxPropDelay)

(* Mutant: the timeout of a broadcast for all. *)
CheckTx_NoWait(m, r) ==
    IF ~IsIdle(m) THEN StartBackoff(SendRTS(m), r, 0)
    ELSE LET f == DataFrame(m.pktTx, m.seq)
         IN  Transmit(SetTx(m, "SEND"), f, f.time)

(* check_pktTx() *)
CheckTx(m, r) ==
    IF ~IsIdle(m) THEN StartBackoff(SendRTS(m), r, 0)
    ELSE LET f == DataFrame(m.pktTx, m.seq)
         IN  Transmit(SetTx(m, "SEND"), f,
                      IF f.ra = Everyone THEN f.time
                      ELSE f.time + SIFS + ACKTime + 2 * MaxPropDelay)

CheckRTSThenTx(m, r) ==
    LET m1 == Check(m, ~m.backoff.on)
    IN  IF m1.pktRTS THEN CheckRTS(m1, r)
        ELSE IF m1.pktTx # None THEN CheckTx(m1, r) ELSE m1

(* deferHandler() *)
DeferHandler(m, r) ==
    LET m1 == Check(m, m.pktCTRL # None \/ m.pktRTS \/ m.pktTx # None)
    IN  IF m1.pktCTRL # None /\ m1.tx \notin {"CTS", "ACK"} THEN CheckCTRL(m1)
        ELSE CheckRTSThenTx(m1, r)

(* backoffHandler() *)
BackoffHandler(m, r) ==
    IF m.pktCTRL # None
    THEN Check(m, m.timer["send"] # Off \/ m.timer["defer"] # Off)
    ELSE CheckRTSThenTx(m, r)

(* navHandler() *)
NavHandler(m) ==
    IF IsIdle(m) /\ m.backoff.paused THEN ResumeBackoff(m) ELSE m

-----------------------------------------------------------------------------
(* Done with pktTx_ after too many retries. *)
GiveUp(m) ==
    [m EXCEPT !.given = @ \cup {m.pktTx}, !.pktTx = None, !.pktRTS = FALSE]

(* RetransmitRTS() *)
RetransmitRTS(m, r) ==
    LET m1 == [Check(m, m.pktTx # None /\ m.pktRTS /\ ~m.backoff.on)
                 EXCEPT !.ssrc = @ + 1]
    IN  IF m1.ssrc >= ShortRetryLimit THEN [GiveUp(m1) EXCEPT !.ssrc = 0]
        ELSE StartBackoff(m1, r, 0)

(* RetransmitDATA(); which of the two counts, and its limit, depends on    *)
(* the size.                                                               *)
IsShort(p) == Size[p] <= RTSThreshold
RetransmitDATA(m, r) ==
    LET m1 == Check(m, m.pktTx # None /\ ~m.pktRTS /\ ~m.backoff.on)
        m2 == IF IsShort(m1.pktTx) THEN [m1 EXCEPT !.ssrc = @ + 1]
                                   ELSE [m1 EXCEPT !.slrc = @ + 1]
    IN  IF NextHop[m1.pktTx] = Everyone THEN StartBackoff(GiveUp(m1), r, 0)
        ELSE IF IsShort(m1.pktTx) /\ m2.ssrc >= ShortRetryLimit
          THEN [GiveUp(m2) EXCEPT !.ssrc = 0]
        ELSE IF ~IsShort(m1.pktTx) /\ m2.slrc >= LongRetryLimit
          THEN [GiveUp(m2) EXCEPT !.slrc = 0]
        ELSE StartBackoff(SendRTS(m2), r, 0)

(* send_timer() *)
SendHandler(m, r) ==
    TxResume(CASE m.tx = "RTS"  -> RetransmitRTS(m, r)
               [] m.tx = "SEND" -> RetransmitDATA(m, r)
               [] m.tx \in {"CTS", "ACK"} ->
                    [Check(m, m.pktCTRL # None) EXCEPT !.pktCTRL = None]
               [] m.tx = "IDLE" -> m, r)

-----------------------------------------------------------------------------
(* recv(): the first bit of frame f arrives.  A frame that arrives while   *)
(* another one is received is ignored if that one is stronger, or else     *)
(* spoils it; the one that takes longer goes on.                           *)
Recv(m, f, captured) ==
    IF m.rx = "IDLE"
    THEN StartTimer([SetRx(m, "RECV") EXCEPT !.pktRx = f, !.error = TxActive(m)],
                    "recv", f.time)
    ELSE IF captured THEN SetNav(m, USec(EIFS + f.time))
    ELSE LET m1 == Check(SetRx(m, "COLL"),
                          m.pktRx # None /\ m.timer["recv"] # Off)
         IN  IF f.time > m.timer["recv"]
             THEN [m1 EXCEPT !.pktRx = f, !.error = TxActive(m),
                             !.timer["recv"] = f.time]
             ELSE m1

(* recvRTS() *)
RecvRTS(m, f, r) ==
    IF m.tx # "IDLE" \/ m.pktCTRL # None THEN m
    ELSE TxResume([m EXCEPT !.pktCTRL = CTSFrame(m.self, f),
                            !.timer["defer"] = Off], r)

(* Mutant: the timeout for the CTS runs on. *)
RecvCTS_NoStop(m, r) ==
    IF m.tx # "RTS" THEN m
    ELSE TxResume([m EXCEPT !.pktRTS = FALSE, !.ssrc = 0], r)

(* recvCTS() *)
RecvCTS(m, r) ==
    IF m.tx # "RTS" THEN m
    ELSE TxResume([StopTimer(Check(m, m.pktRTS /\ m.pktTx # None), "send")
                     EXCEPT !.pktRTS = FALSE, !.ssrc = 0], r)

(* Mutants: no filter; one that drops what is not newer. *)
PassUp_Always(m, f) == [m EXCEPT !.up = Append(@, f)]

PassUp_NotNewer(m, f) ==
    IF f.ra # Everyone /\ m.cache[f.ta] # 0 /\ f.seq <= m.cache[f.ta] THEN m
    ELSE [m EXCEPT !.cache[f.ta] = IF f.ra = Everyone THEN @ ELSE f.seq,
                   !.up = Append(@, f)]

(* The end of recvDATA(): duplicates of the last frame from its sender are *)
(* dropped, others passed up.                                              *)
PassUp(m, f) ==
    IF f.ra # Everyone /\ m.cache[f.ta] # 0 /\ m.cache[f.ta] = f.seq THEN m
    ELSE [m EXCEPT !.cache[f.ta] = IF f.ra = Everyone THEN @ ELSE f.seq,
                   !.up = Append(@, f)]

(* recvDATA() *)
RecvDATA(m, f, r) ==
    LET ack(x) == [Check(x, x.pktCTRL = None)
                     EXCEPT !.pktCTRL = ACKFrame(m.self, f.ta)]
    IN  IF f.ra = Everyone THEN PassUp(m, f)
        ELSE IF Size[f.packet] >= RTSThreshold
          THEN IF m.tx # "CTS" THEN m
               ELSE LET m1 == StopTimer([Check(m, m.pktCTRL # None)
                                           EXCEPT !.pktCTRL = None], "send")
                    IN  PassUp(TxResume(ack(m1), r), f)
        ELSE IF m.pktCTRL # None THEN m
        ELSE IF m.timer["send"] # Off THEN PassUp(ack(m), f)
        ELSE PassUp(TxResume(ack(m), r), f)

(* recvACK() *)
RecvACK(m, r) ==
    IF m.tx # "SEND" THEN m
    ELSE LET p == m.pktTx
             m1 == StopTimer(Check(m, p # None), "send")
             m2 == IF IsShort(p) THEN [m1 EXCEPT !.ssrc = 0]
                                 ELSE [m1 EXCEPT !.slrc = 0]
             m3 == [m2 EXCEPT !.pktTx = None, !.acked = @ \cup {p}]
         IN  TxResume(StartBackoff(m3, r, 0), r)

(* recv_timer(): the last bit has arrived. *)
Received(m, f, r) ==
    LET m1 == IF f.ra = m.self THEN m ELSE SetNav(m, f.dur)
    IN  IF f.ra \notin {m.self, Everyone} THEN m1
        ELSE CASE f.kind = "RTS" -> RecvRTS(m1, f, r)
               [] f.kind = "CTS" -> RecvCTS(m1, r)
               [] f.kind = "DATA" -> RecvDATA(m1, f, r)
               [] f.kind = "ACK" -> RecvACK(m1, r)

RecvHandler(m, r) ==
    LET m1 == Check(m, m.pktRx # None /\ m.rx # "IDLE")
        m2 == IF TxActive(m1) THEN m1
              ELSE IF m1.rx = "COLL" \/ m1.error THEN SetNav(m1, USec(EIFS))
              ELSE Received(m1, m1.pktRx, r)
        m3 == [Check(m2, m2.timer["recv"] = Off)
                 EXCEPT !.pktRx = None, !.error = FALSE]
    IN  SetRx(m3, "IDLE")

-----------------------------------------------------------------------------
(* The handler of the event e that is due at a node. *)
Handled(m, e, r) ==
    CASE e = "send"    -> SendHandler([m EXCEPT !.timer[e] = Off], r)
      [] e = "defer"   -> DeferHandler([m EXCEPT !.timer[e] = Off], r)
      [] e = "recv"    -> RecvHandler([m EXCEPT !.timer[e] = Off], r)
      [] e = "nav"     -> NavHandler([m EXCEPT !.timer[e] = Off])
      [] e = "if"      -> [m EXCEPT !.timer[e] = Off]
      [] e = "backoff" -> BackoffHandler([m EXCEPT !.backoff = NoBackoff], r)

EventDue(m, e) ==
    IF e = "backoff" THEN m.backoff.on /\ ~m.backoff.paused /\ m.backoff.left = 0
    ELSE m.timer[e] = 0

(* Node n becomes m; the frame m transmits, if any, reaches those in range *)
(* of n but the ones for which the channel loses it.                       *)
Becomes(n, m) ==
    /\ mac' = [mac EXCEPT ![n] = [m EXCEPT !.out = None]]
    /\ IF m.out = None THEN UNCHANGED <<air, losses>>
       ELSE \E lost \in SUBSET hears[n] :
              /\ losses + Cardinality(lost) <= MaxLosses
              /\ losses' = losses + Cardinality(lost)
              /\ air' = air \cup {[to |-> x, frame |-> m.out, in |-> PropDelay] :
                                    x \in hears[n] \ lost}

Timeout(n) ==
    /\ \E e \in Timer \cup {"backoff"}, r \in Slots :
         /\ EventDue(mac[n], e)
         /\ Becomes(n, Handled(mac[n], e, r))
    /\ UNCHANGED <<coming, hears>>

Arrival(n) ==
    /\ \E x \in air, captured \in Capture :
         /\ x.to = n /\ x.in = 0
         /\ mac' = [mac EXCEPT ![n] = Recv(@, x.frame, captured)]
         /\ air' = air \ {x}
    /\ UNCHANGED <<coming, losses, hears>>

(* Queue::recv() *)
HandDown(p) ==
    /\ coming[p] = 0
    /\ coming' = [coming EXCEPT ![p] = Off]
    /\ UNCHANGED hears
    /\ LET n == Origin[p]
       IN  IF mac[n].blocked
           THEN /\ mac' = [mac EXCEPT ![n].queue = Append(@, p)]
                /\ UNCHANGED <<air, losses>>
           ELSE \E r \in Slots :
                  Becomes(n, Send([mac[n] EXCEPT !.blocked = TRUE], p, r))

-----------------------------------------------------------------------------
(* What is left until each event. *)
Pending ==
    (UNION {{mac[n].timer[t] : n \in Node, t \in Timer},
            {mac[n].backoff.left : n \in {k \in Node :
                mac[k].backoff.on /\ ~mac[k].backoff.paused}},
            {x.in : x \in air},
            {coming[p] : p \in Packet}}) \ {Off}

Less(t, d) == IF t = Off THEN Off ELSE t - d

Tick ==
    /\ Pending # {} /\ 0 \notin Pending
    /\ LET d == CHOOSE x \in Pending : \A y \in Pending : x <= y
       IN  /\ mac' = [n \in Node |->
                LET m == mac[n] IN
                [m EXCEPT !.timer = [t \in Timer |-> Less(m.timer[t], d)],
                          !.backoff.left = IF m.backoff.on /\ ~m.backoff.paused
                                           THEN @ - d ELSE @]]
           /\ air' = {[x EXCEPT !.in = @ - d] : x \in air}
           /\ coming' = [p \in Packet |-> Less(coming[p], d)]
    /\ UNCHANGED <<losses, hears>>

Next ==
    \/ \E n \in Node : Timeout(n)
    \/ \E n \in Node : Arrival(n)
    \/ \E p \in Packet : HandDown(p)
    \/ Tick

Spec == Init /\ [][Next]_vars

-----------------------------------------------------------------------------
(* None of the assertions of mac-802_11.cc and mac-timers.cc fails: no     *)
(* timer is started that runs or stopped that does not, no frame is        *)
(* replaced that has not been sent, and so on.                             *)
AssertionsHold == \A n \in Node : ~mac[n].failed

(* A MAC that has something to send has a timer that makes it go on.       *)
GoesOn(m) ==
    m.pktTx # None \/ m.pktRTS \/ m.pktCTRL # None
        => m.timer["send"] # Off \/ m.timer["defer"] # Off \/ m.backoff.on

(* A backoff that is paused has something that resumes it: a frame being   *)
(* sent or received or the NAV.  The queue waits only for what is coming.  *)
IsServed(m) ==
    /\ m.backoff.paused => \E t \in {"send", "recv", "nav"} : m.timer[t] # Off
    /\ m.blocked = (m.pktTx # None \/ m.callback)

(* The one way in which a MAC is left with a packet and no timer, until    *)
(* somebody happens to talk to it: send() relied on the timer of a CTS,    *)
(* and check_pktCTRL() drops the CTS because a frame has just arrived.     *)
DropsCTS(m) ==
    /\ m.timer["defer"] = 0 /\ ~IsIdle(m)
    /\ m.pktCTRL # None /\ m.pktCTRL.kind = "CTS"

(* No MAC dies: what it has to send has a timer and a paused backoff an    *)
(* event that resumes it, whatever order frames and timers come in; but    *)
(* for the CTS that is dropped.                                            *)
NeverStalls ==
    [][\A n \in Node :
          /\ IsServed(mac'[n])
          /\ GoesOn(mac[n]) => GoesOn(mac'[n]) \/ DropsCTS(mac[n])]_vars

ArrivedAt(n) == {f.packet : f \in ToSet(mac[n].up)}

(* A packet is done with as acknowledged only if its next hop has it: no   *)
(* acknowledgement is taken for that of another packet, although an ACK    *)
(* names neither its sender nor what it acknowledges.                      *)
AckedArrived ==
    \A n \in Node : \A p \in mac[n].acked : p \in ArrivedAt(NextHop[p])

(* However often a frame is retransmitted, the link layer gets it once;    *)
(* except the one with number 0, which the filter takes for "none yet".    *)
OnceUnlessZero ==
    \A n \in Node : \A i, j \in DOMAIN mac[n].up :
        LET f == mac[n].up[i]
            g == mac[n].up[j]
        IN  i # j /\ f.packet = g.packet => f.seq = 0

(* Where everyone hears everyone and no frame is lost, the NAV keeps the   *)
(* air free for data that an RTS announced: it does not collide.           *)
EveryoneHears == \A n \in Node : hears[n] = Node \ {n}
AnnouncedDataIsClear ==
    EveryoneHears /\ losses = 0 =>
    \A n \in Node : mac[n].rx = "COLL" /\ mac[n].pktRx.kind = "DATA"
                    => ~NeedsRTS(mac[n].pktRx.packet)

(* Every time a frame was passed up, wherever *)
Arrivals ==
    UNION {{[packet |-> mac[n].up[i].packet, at |-> n, nth |-> i] :
              i \in DOMAIN mac[n].up} : n \in Node}

(* The MAC is a link as UnicastLink promises: a packet passes up while its *)
(* sender has it, and once.  Frames with number 0 are those in which it    *)
(* may pass up again.                                                      *)
Unicasts == {p \in Packet : NextHop[p] \in Node}
Done == UNION {mac[n].acked \cup mac[n].given : n \in Node}
InFrameZero == {p \in Unicasts : \E n \in Node : \E f \in ToSet(mac[n].up) :
                                  f.packet = p /\ f.seq = 0}
Link == INSTANCE UnicastLink
    WITH Packet <- Unicasts,
         sent <- {p \in Unicasts : coming[p] = Off},
         arrivals <- {x \in Arrivals : x.packet \in Unicasts},
         settled <- Done \cap Unicasts,
         unnumbered <- InFrameZero
ImplementsUnicastLink == Link!Spec
=============================================================================
