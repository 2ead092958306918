--------------------------- MODULE Mac80211Proofs ---------------------------
(***************************************************************************)
(* Proofs about Mac80211 for any network, traffic and loss, with the timer *)
(* that bugFix_timer_ selects.  What the assertions of a handler rely on   *)
(* is the state of the MAC it runs in, never that of another one; of the   *)
(* others it only matters that no frame is as short as a SIFS.             *)
(***************************************************************************)
EXTENDS Mac80211, WellFoundedInduction, TLAPS

-----------------------------------------------------------------------------
(* Records of MACs.                                                        *)

Backoff == [on : BOOLEAN, paused : BOOLEAN, rtime : Nat, left : Int]
Clock == {t \in Int : t >= Off}

(* No duration is too long for its 16 bits. *)
DurationsFit ==
    \A p \in Packet : 3 * SIFS + CTSTime + TxTime(Size[p]) + ACKTime < 65536

(* An RTS announces all that follows it; a CTS what follows the RTS.       *)
Proper ==
    {f \in Frame : f.kind = "RTS" =>
        f.dur >= 3 * SIFS + CTSTime + ACKTime /\ f.dur < 65536}
Answer ==
    {f \in Frame : /\ f.kind \in {"CTS", "ACK"} /\ f.time = CTSTime
                   /\ f.kind = "CTS" => f.dur >= 2 * SIFS + ACKTime}

Field ==
    {"self", "tx", "rx", "pktTx", "seq", "pktRTS", "pktCTRL", "pktRx", "error",
     "ssrc", "slrc", "seqno", "cache", "callback", "timer", "backoff", "queue",
     "blocked", "up", "acked", "given", "out", "failed"}

(* What the control of a MAC depends on has its type, and no assertion     *)
(* failed so far.                                                          *)
IsMac(m) ==
    /\ DOMAIN m = Field
    /\ m.self \in Node
    /\ m.tx \in {"IDLE", "RTS", "CTS", "SEND", "ACK"}
    /\ m.rx \in {"IDLE", "RECV", "COLL"}
    /\ m.pktTx \in Packet \cup {None} /\ m.pktRTS \in BOOLEAN
    /\ m.seq \in Nat /\ m.seqno \in Nat
    /\ m.pktCTRL \in Answer \cup {None} /\ m.pktRx \in Proper \cup {None}
    /\ m.error \in BOOLEAN /\ m.callback \in BOOLEAN /\ m.blocked \in BOOLEAN
    /\ m.timer \in [Timer -> Clock] /\ m.backoff \in Backoff
    /\ m.queue \in Seq(Packet) /\ m.out \in Proper \cup {None}
    /\ m.failed = FALSE

(* u is m but for the fields F. *)
Changes(m, u, F) ==
    /\ IsMac(m) /\ IsMac(u)
    /\ \A f \in Field \ F : u[f] = m[f]

(* A backoff that counts down *)
Counting(m) == m.backoff.on /\ ~m.backoff.paused

(* What is being received cannot be taken for a frame. *)
Spoilt(m) == m.rx = "COLL" \/ m.error

(* The data may follow: its CTS has come. *)
Cleared(m) == m.pktTx # None /\ ~m.pktRTS /\ NeedsRTS(m.pktTx)

(* recv_timer() finds what it asserts. *)
Receiving(m) ==
    /\ m.rx = "IDLE" <=> m.timer["recv"] = Off
    /\ m.rx # "IDLE" => m.pktRx # None

(* send_timer() finds what it asserts. *)
Transmitting(m) ==
    /\ m.tx = "IDLE" <=> m.timer["send"] = Off
    /\ m.tx # "IDLE" => m.timer["defer"] = Off
    /\ m.tx \in {"CTS", "ACK"} => m.pktCTRL # None
    /\ m.tx = "RTS" => m.pktRTS
    /\ m.tx = "SEND" => m.pktTx # None /\ ~m.pktRTS
    /\ m.tx \in {"RTS", "SEND"} => ~m.backoff.on

(* deferHandler() finds what it asserts. *)
Deferring(m) ==
    /\ m.pktCTRL # None => m.timer["send"] # Off \/ m.timer["defer"] # Off
    /\ m.timer["defer"] <= SIFS
    /\ m.pktCTRL = None /\ m.timer["defer"] # Off =>
         m.pktTx # None /\ ~m.pktRTS /\ ~m.backoff.on

(* Where data that may follow is, and that it waits only for an ACK *)
Following(m) ==
    /\ Cleared(m) =>
         /\ ~m.backoff.on
         /\ \/ m.tx = "SEND"
            \/ m.timer["defer"] # Off /\ m.pktCTRL = None
            \/ /\ m.pktCTRL # None /\ m.pktCTRL.kind = "ACK"
               /\ m.tx \in {"RTS", "ACK"} \/ m.timer["defer"] # Off
    /\ m.tx \in {"RTS", "SEND"} /\ m.pktCTRL # None => m.pktCTRL.kind = "ACK"

(* The transmitter is done before anything can make it start again. *)
Radiating(m) ==
    m.timer["if"] # Off =>
        /\ m.timer["send"] # Off => m.timer["if"] <= m.timer["send"]
        /\ m.timer["send"] = Off => m.timer["if"] = 0
        /\ m.timer["defer"] # Off => m.timer["defer"] > m.timer["if"]
        /\ Counting(m) => m.backoff.left > m.timer["if"]

(* No frame that is any good ends while data is about to follow.           *)
Undisturbed(m) ==
    /\ m.pktCTRL = None /\ m.timer["defer"] # Off =>
         m.rx = "IDLE" \/ Spoilt(m) \/ m.timer["recv"] > m.timer["defer"]
    /\ m.tx = "ACK" =>
         /\ m.timer["if"] \in {m.timer["send"], Off}
         /\ m.timer["if"] = Off => m.timer["send"] = 0
         /\ \/ m.rx = "IDLE" \/ Spoilt(m)
            \/ m.timer["send"] = 0 /\ m.timer["recv"] > SIFS

(* A backoff counts down while the medium is idle and only then. *)
BackingOff(m) ==
    /\ m.backoff.paused => m.backoff.on
    /\ Counting(m) => IsIdle(m) /\ m.backoff.left >= 0
    /\ m.backoff.paused =>
         m.tx # "IDLE" \/ m.rx # "IDLE" \/ m.timer["nav"] # Off

(* The queue is blocked as long as the MAC owes it a call. *)
Serving(m) ==
    /\ m.pktRTS => m.pktTx # None
    /\ m.pktTx # None => m.callback
    /\ m.callback = m.blocked

(* What holds of a MAC within recv_timer(), too ... *)
Core(m) ==
    /\ IsMac(m) /\ Transmitting(m) /\ Deferring(m) /\ Following(m)
    /\ Radiating(m) /\ BackingOff(m) /\ Serving(m)

(* ... and between events *)
Sound(m) == Core(m) /\ Receiving(m) /\ Undisturbed(m)

(* The inductive invariant: every MAC is sound, and frames are on the air. *)
AllSound ==
    /\ DOMAIN mac = Node
    /\ \A n \in Node : Sound(mac[n]) /\ mac[n].self = n
    /\ \A x \in air : x.frame \in Proper /\ x.in \in Nat
    /\ coming \in [Packet -> Clock]

-----------------------------------------------------------------------------
(* The calls that handlers are made of.                                    *)

LEMMA MacFields ==
    ASSUME NEW m, IsMac(m)
    PROVE  /\ m.self \in Node /\ m.pktTx \in Packet \cup {None}
           /\ m.timer \in [Timer -> Clock] /\ m.backoff \in Backoff
           /\ \A t \in Timer : m.timer[t] \in Int /\ m.timer[t] >= Off
           /\ m.backoff.on \in BOOLEAN /\ m.backoff.paused \in BOOLEAN
           /\ m.backoff.rtime \in Nat /\ m.backoff.left \in Int
BY DEF IsMac, Clock, Backoff

LEMMA CheckHolds ==
    ASSUME NEW m, NEW p, p
    PROVE  Check(m, p) = m
BY DEF Check

LEMMA TxSet ==
    ASSUME NEW m, IsMac(m), NEW s \in {"IDLE", "RTS", "CTS", "SEND", "ACK"}
    PROVE  LET u == [m EXCEPT !.tx = s]
           IN  Changes(m, u, {"tx"}) /\ u.tx = s
BY DEF IsMac, Changes, Field

LEMMA BackoffSet ==
    ASSUME NEW m, IsMac(m), NEW b \in Backoff
    PROVE  LET u == [m EXCEPT !.backoff = b]
           IN  Changes(m, u, {"backoff"}) /\ u.backoff = b
BY DEF IsMac, Changes, Field

LEMMA TimerSet ==
    ASSUME NEW m, IsMac(m), NEW t \in Timer, NEW x \in Clock
    PROVE  LET u == [m EXCEPT !.timer[t] = x]
           IN  /\ Changes(m, u, {"timer"}) /\ u.timer[t] = x
               /\ \A s \in Timer \ {t} : u.timer[s] = m.timer[s]
BY DEF IsMac, Changes, Field

(* A backoff that is paused has been started, one that runs is not late. *)
Paces(m) ==
    /\ m.backoff.paused => m.backoff.on
    /\ Counting(m) => m.backoff.left >= 0

(* u waits with its backoff exactly while its medium is busy, and if it is *)
(* the backoff of m, then with what that has left or a DIFS more.          *)
InPace(m, u) ==
    /\ u.backoff.on = m.backoff.on
    /\ u.backoff.paused <=> u.backoff.on /\ ~IsIdle(u)
    /\ Counting(u) => \/ Counting(m) /\ u.backoff.left = m.backoff.left
                      \/ u.backoff.left >= DIFS

LEMMA PauseType ==
    ASSUME NEW rtime \in Nat, NEW left \in Nat, left <= rtime
    PROVE  rtime - ((rtime - left) \div SlotTime) * SlotTime \in Nat
<1>1. (rtime - left) \div 20 \in Nat /\ 20 * ((rtime - left) \div 20) <= rtime - left
  OBVIOUS
<1> QED
  BY <1>1 DEF SlotTime

LEMMA CheckBackoffStep ==
    ASSUME NEW m, IsMac(m), Paces(m)
    PROVE  LET u == CheckBackoff(m)
           IN  Changes(m, u, {"backoff"}) /\ InPace(m, u)
<1> DEFINE u == CheckBackoff(m)
           b == m.backoff
<1>1. /\ b \in Backoff /\ b.on \in BOOLEAN /\ b.paused \in BOOLEAN
      /\ b.rtime \in Nat /\ b.left \in Int
      /\ b.paused => b.on
      /\ b.on /\ ~b.paused => b.left >= 0
  BY MacFields DEF Paces, Counting
<1>2. CASE IsIdle(m) /\ b.paused
  <2> DEFINE c == [b EXCEPT !.paused = FALSE, !.left = b.rtime + DIFS]
  <2>0. b.rtime + DIFS \in Int /\ FALSE \in BOOLEAN
    BY <1>1 DEF DIFS, SIFS, SlotTime
  <2>1. /\ c \in Backoff /\ c.on = b.on /\ c.paused = FALSE
        /\ c.left = b.rtime + DIFS
    BY <1>1, <2>0 DEF Backoff
  <2>2. u = [m EXCEPT !.backoff = c]
    BY <1>2 DEF CheckBackoff, ResumeBackoff, IsMac, Field
  <2> HIDE DEF c
  <2>3. Changes(m, u, {"backoff"}) /\ u.backoff = c
    BY <2>1, <2>2, BackoffSet
  <2>4. IsIdle(u)
    BY <1>2, <2>3 DEF IsIdle, Changes, Field
  <2> QED
    BY <1>1, <1>2, <2>1, <2>3, <2>4 DEF InPace, Counting, DIFS, SIFS, SlotTime
<1>3. CASE ~IsIdle(m) /\ b.on /\ ~b.paused
  <2> DEFINE slots == IF b.left > b.rtime THEN 0
                      ELSE (b.rtime - b.left) \div SlotTime
             c == [on |-> TRUE, paused |-> TRUE, left |-> 0,
                   rtime |-> b.rtime - slots * SlotTime]
  <2>1. b.rtime - slots * SlotTime \in Nat
    <3>1. CASE b.left > b.rtime
      BY <1>1, <3>1 DEF SlotTime
    <3>2. CASE ~(b.left > b.rtime)
      <4>1. b.left \in Nat /\ b.left <= b.rtime /\ b.rtime \in Nat
        BY <1>1, <1>3, <3>2
      <4>2. b.rtime - ((b.rtime - b.left) \div SlotTime) * SlotTime \in Nat
        BY <4>1, PauseType
      <4> QED
        BY <3>2, <4>2
    <3> QED
      BY <3>1, <3>2
  <2>2. c \in Backoff /\ c.on = TRUE /\ c.paused = TRUE
    BY <2>1 DEF Backoff
  <2>3. u = [m EXCEPT !.backoff = c]
    BY <1>3 DEF CheckBackoff, PauseBackoff
  <2> HIDE DEF c
  <2>4. Changes(m, u, {"backoff"}) /\ u.backoff = c
    BY <2>2, <2>3, BackoffSet
  <2>5. ~IsIdle(u)
    BY <1>3, <2>4 DEF IsIdle, Changes, Field
  <2> QED
    BY <1>1, <1>3, <2>2, <2>4, <2>5 DEF InPace, Counting
<1>4. CASE ~(IsIdle(m) /\ b.paused) /\ ~(~IsIdle(m) /\ b.on /\ ~b.paused)
  <2>1. u = m
    BY <1>4 DEF CheckBackoff
  <2> QED
    BY <1>1, <1>4, <2>1 DEF InPace, Changes, Counting
<1> QED
  BY <1>2, <1>3, <1>4

(* setTxState() and setRxState() *)
LEMMA SetTxStep ==
    ASSUME NEW m, IsMac(m), Paces(m), NEW s \in {"IDLE", "RTS", "CTS", "SEND", "ACK"}
    PROVE  LET u == SetTx(m, s)
           IN  Changes(m, u, {"tx", "backoff"}) /\ u.tx = s /\ InPace(m, u)
<1> DEFINE v == [m EXCEPT !.tx = s]
           u == CheckBackoff(v)
<1>1. Changes(m, v, {"tx"}) /\ v.tx = s
  BY TxSet
<1> HIDE DEF v
<1>2. IsMac(v) /\ v.backoff = m.backoff
  BY <1>1 DEF Changes, Field
<1>3. Paces(v)
  BY <1>2 DEF Paces, Counting
<1>4. Changes(v, u, {"backoff"}) /\ InPace(v, u)
  BY <1>2, <1>3, CheckBackoffStep
<1>5. u = SetTx(m, s)
  BY DEF SetTx, v
<1> HIDE DEF u
<1>6. InPace(m, u)
  BY <1>2, <1>4 DEF InPace, Counting
<1>7. Changes(m, u, {"tx", "backoff"}) /\ u.tx = s
  BY <1>1, <1>4 DEF Changes, Field
<1> QED
  BY <1>5, <1>6, <1>7

LEMMA RxSet ==
    ASSUME NEW m, IsMac(m), NEW s \in {"IDLE", "RECV", "COLL"}
    PROVE  LET u == [m EXCEPT !.rx = s]
           IN  Changes(m, u, {"rx"}) /\ u.rx = s
BY DEF IsMac, Changes, Field

LEMMA SetRxStep ==
    ASSUME NEW m, IsMac(m), Paces(m), NEW s \in {"IDLE", "RECV", "COLL"}
    PROVE  LET u == SetRx(m, s)
           IN  Changes(m, u, {"rx", "backoff"}) /\ u.rx = s /\ InPace(m, u)
<1> DEFINE v == [m EXCEPT !.rx = s]
           u == CheckBackoff(v)
<1>1. Changes(m, v, {"rx"}) /\ v.rx = s
  BY RxSet
<1> HIDE DEF v
<1>2. IsMac(v) /\ v.backoff = m.backoff
  BY <1>1 DEF Changes, Field
<1>3. Paces(v)
  BY <1>2 DEF Paces, Counting
<1>4. Changes(v, u, {"backoff"}) /\ InPace(v, u)
  BY <1>2, <1>3, CheckBackoffStep
<1>5. u = SetRx(m, s)
  BY DEF SetRx, v
<1> HIDE DEF u
<1>6. InPace(m, u)
  BY <1>2, <1>4 DEF InPace, Counting
<1>7. Changes(m, u, {"rx", "backoff"}) /\ u.rx = s
  BY <1>1, <1>4 DEF Changes, Field
<1> QED
  BY <1>5, <1>6, <1>7

(* MacTimer::start() and stop() *)
LEMMA StartTimerStep ==
    ASSUME NEW m, IsMac(m), NEW t \in Timer, m.timer[t] = Off, NEW x \in Nat
    PROVE  LET u == StartTimer(m, t, x)
           IN  /\ Changes(m, u, {"timer"}) /\ u.timer[t] = x
               /\ \A s \in Timer \ {t} : u.timer[s] = m.timer[s]
<1>1. Check(m, m.timer[t] = Off) = m
  BY CheckHolds
<1>2. StartTimer(m, t, x) = [m EXCEPT !.timer[t] = x]
  BY <1>1 DEF StartTimer
<1>3. x \in Clock
  BY DEF Clock, Off
<1> QED
  BY <1>2, <1>3, TimerSet

LEMMA StopTimerStep ==
    ASSUME NEW m, IsMac(m), NEW t \in Timer, m.timer[t] # Off
    PROVE  LET u == StopTimer(m, t)
           IN  /\ Changes(m, u, {"timer"}) /\ u.timer[t] = Off
               /\ \A s \in Timer \ {t} : u.timer[s] = m.timer[s]
<1>1. Check(m, m.timer[t] # Off) = m
  BY CheckHolds
<1>2. StopTimer(m, t) = [m EXCEPT !.timer[t] = Off]
  BY <1>1 DEF StopTimer
<1>3. Off \in Clock
  BY DEF Clock, Off
<1> QED
  BY <1>2, <1>3, TimerSet

LEMMA Slot ==
    ASSUME NEW r \in Slots
    PROVE  r * SlotTime \in Nat
<1>1. r \in Nat
  BY MibAssumption
<1> QED
  BY <1>1 DEF SlotTime

(* A backoff of u that has just been started *)
Fresh(u) ==
    /\ u.backoff.on
    /\ u.backoff.paused <=> ~IsIdle(u)
    /\ Counting(u) => u.backoff.left >= DIFS

(* BackoffTimer::start(); without a DIFS only while the medium is busy *)
LEMMA StartBackoffStep ==
    ASSUME NEW m, IsMac(m), ~m.backoff.on, NEW r \in Slots, NEW difs \in {0, DIFS},
           difs = 0 => ~IsIdle(m)
    PROVE  LET u == StartBackoff(m, r, difs)
           IN  Changes(m, u, {"backoff"}) /\ Fresh(u)
<1> DEFINE b == [on |-> TRUE, paused |-> ~IsIdle(m), rtime |-> r * SlotTime,
                 left |-> IF IsIdle(m) THEN r * SlotTime + difs ELSE 0]
           u == StartBackoff(m, r, difs)
<1>1. Check(m, ~m.backoff.on) = m
  BY CheckHolds
<1>2. u = [m EXCEPT !.backoff = b]
  BY <1>1 DEF StartBackoff
<1>3. /\ r * SlotTime \in Nat /\ (~IsIdle(m)) \in BOOLEAN /\ difs \in Nat
      /\ (IF IsIdle(m) THEN r * SlotTime + difs ELSE 0) \in Int
  BY Slot DEF DIFS, SIFS, SlotTime
<1>4. /\ b \in Backoff /\ b.on = TRUE /\ b.paused = ~IsIdle(m)
      /\ IsIdle(m) => b.left >= DIFS
  BY <1>3 DEF Backoff, DIFS, SIFS, SlotTime
<1> HIDE DEF b
<1>5. Changes(m, u, {"backoff"}) /\ u.backoff = b
  BY <1>2, <1>4, BackoffSet
<1>6. IsIdle(u) <=> IsIdle(m)
  BY <1>5 DEF IsIdle, Changes, Field
<1> QED
  BY <1>4, <1>5, <1>6 DEF Fresh, Counting

(* The wait for a DIFS and a backoff, with bugFix_timer_ *)
LEMMA ContendStep ==
    ASSUME BugFixTimer, NEW m, IsMac(m), ~m.backoff.on, NEW r \in Slots
    PROVE  LET u == Contend(m, r)
           IN  Changes(m, u, {"backoff"}) /\ Fresh(u)
<1>1. DIFS # 0
  BY DEF DIFS, SIFS, SlotTime
<1> QED
  BY <1>1, StartBackoffStep DEF Contend

(* sendRTS() *)
LEMMA SendRTSStep ==
    ASSUME NEW m, IsMac(m), m.pktTx # None, ~m.pktRTS
    PROVE  LET u == SendRTS(m)
           IN  Changes(m, u, {"pktRTS"}) /\ u.pktRTS = NeedsRTS(m.pktTx)
<1>1. Check(m, m.pktTx # None /\ ~m.pktRTS) = m
  BY CheckHolds
<1>2. SendRTS(m) = [m EXCEPT !.pktRTS = NeedsRTS(m.pktTx)]
  BY <1>1 DEF SendRTS
<1>3. NeedsRTS(m.pktTx) \in BOOLEAN
  BY DEF NeedsRTS
<1> QED
  BY <1>2, <1>3 DEF IsMac, Changes, Field

(* transmit() *)
LEMMA TransmitStep ==
    ASSUME NEW m, IsMac(m), m.rx # "IDLE" => m.pktRx # None,
           m.timer["send"] = Off, m.timer["if"] = Off,
           NEW f \in Proper, NEW timeout \in Nat
    PROVE  LET u == Transmit(m, f, timeout)
           IN  /\ Changes(m, u, {"timer", "error", "out"})
               /\ u.timer["send"] = timeout /\ u.timer["if"] = f.time
               /\ \A t \in Timer \ {"send", "if"} : u.timer[t] = m.timer[t]
               /\ m.rx # "IDLE" => u.error
<1> DEFINE v == IF m.rx = "IDLE" THEN m
                ELSE [Check(m, m.pktRx # None) EXCEPT !.error = TRUE]
           w == StartTimer(v, "send", timeout)
           x == StartTimer(w, "if", f.time)
           u == [x EXCEPT !.out = f]
<1>1. Changes(m, v, {"error"}) /\ (m.rx # "IDLE" => v.error)
  <2>1. CASE m.rx = "IDLE"
    BY <2>1 DEF Changes
  <2>2. CASE m.rx # "IDLE"
    <3>1. v = [m EXCEPT !.error = TRUE]
      BY <2>2, CheckHolds
    <3> HIDE DEF v
    <3> QED
      BY <3>1 DEF IsMac, Changes, Field
  <2> QED
    BY <2>1, <2>2
<1> HIDE DEF v
<1>2. IsMac(v) /\ v.timer = m.timer
  BY <1>1 DEF Changes, Field
<1>3. /\ Changes(v, w, {"timer"}) /\ w.timer["send"] = timeout
      /\ \A t \in Timer \ {"send"} : w.timer[t] = v.timer[t]
  BY <1>2, StartTimerStep DEF Timer
<1> HIDE DEF w
<1>4. f.time \in Nat
  BY DEF Proper, Frame
<1>5. IsMac(w) /\ w.timer["if"] = Off
  BY <1>2, <1>3 DEF Changes, Timer
<1>6. /\ Changes(w, x, {"timer"}) /\ x.timer["if"] = f.time
      /\ \A t \in Timer \ {"if"} : x.timer[t] = w.timer[t]
  BY <1>4, <1>5, StartTimerStep DEF Timer
<1>7. u = Transmit(m, f, timeout)
  BY DEF Transmit, x, w, v
<1> HIDE DEF x
<1>8. Changes(x, u, {"out"})
  BY <1>6 DEF IsMac, Changes, Field
<1> HIDE DEF u
<1>9. Changes(m, u, {"timer", "error", "out"}) /\ u.timer = x.timer /\ u.error = v.error
  BY <1>1, <1>3, <1>6, <1>8 DEF Changes, Field
<1>10. /\ u.timer["send"] = timeout /\ u.timer["if"] = f.time
       /\ \A t \in Timer \ {"send", "if"} : u.timer[t] = m.timer[t]
  BY <1>2, <1>3, <1>6, <1>9 DEF Timer
<1> QED
  BY <1>1, <1>7, <1>9, <1>10

(* send() *)
SendChanges == {"callback", "pktTx", "seq", "seqno", "pktRTS", "backoff"}

(* u has taken p over from the queue: a backoff or a deferral goes on, or  *)
(* a backoff starts.                                                       *)
Taken(m, u, p) ==
    /\ u.callback /\ u.pktTx = p /\ u.pktRTS = NeedsRTS(p)
    /\ u.backoff = m.backoff \/ (~m.backoff.on /\ Fresh(u))
    /\ u.backoff.on \/ (IsIdle(m) /\ m.timer["defer"] # Off)

LEMMA SendStep ==
    ASSUME BugFixTimer, NEW m, IsMac(m), m.pktTx = None, ~m.pktRTS,
           NEW p \in Packet, NEW r \in Slots
    PROVE  LET u == Send(m, p, r)
           IN  Changes(m, u, SendChanges) /\ Taken(m, u, p)
<1> DEFINE v == [m EXCEPT !.callback = TRUE, !.pktTx = p, !.seq = m.seqno,
                          !.seqno = (m.seqno + 1) % SeqnoMod]
           w == SendRTS(v)
           u == Send(m, p, r)
           F == {"callback", "pktTx", "seq", "seqno"}
<1> SUFFICES Changes(m, u, SendChanges) /\ Taken(m, u, p)
  OBVIOUS
<1>1. m.seqno \in Nat /\ (m.seqno + 1) % SeqnoMod \in Nat
  BY MibAssumption DEF IsMac
<1>2. p # None
  BY NoneAssumption
<1>3. Changes(m, v, F) /\ v.callback /\ v.pktTx = p
  BY <1>1 DEF IsMac, Changes, Field
<1> HIDE DEF v
<1>4. IsMac(v) /\ v.pktTx # None /\ ~v.pktRTS
  BY <1>2, <1>3 DEF Changes, Field
<1>5. Changes(v, w, {"pktRTS"}) /\ w.pktRTS = NeedsRTS(p)
  BY <1>3, <1>4, SendRTSStep
<1>6. u = IF w.backoff.on THEN w
          ELSE IF ~IsIdle(w) THEN StartBackoff(w, r, 0)
          ELSE IF w.timer["defer"] = Off THEN Contend(w, r)
          ELSE w
  BY CheckHolds DEF Send, w, v
<1> HIDE DEF w, u
<1>7. /\ IsMac(w) /\ w.backoff = m.backoff /\ w.timer = m.timer
      /\ w.callback /\ w.pktTx = p /\ (IsIdle(w) <=> IsIdle(m))
      /\ Changes(m, w, SendChanges)
  BY <1>3, <1>5 DEF Changes, Field, IsIdle, SendChanges
<1>8. CASE u = w /\ (w.backoff.on \/ (IsIdle(w) /\ w.timer["defer"] # Off))
  BY <1>5, <1>7, <1>8 DEF Taken
<1>9. CASE Changes(w, u, {"backoff"}) /\ Fresh(u) /\ ~w.backoff.on
  <2>1. u.callback /\ u.pktTx = p /\ u.pktRTS = NeedsRTS(p)
    BY <1>5, <1>7, <1>9 DEF Changes, Field
  <2>2. Changes(m, u, SendChanges)
    BY <1>7, <1>9 DEF Changes, Field, SendChanges
  <2>3. u.backoff.on /\ ~m.backoff.on
    BY <1>7, <1>9 DEF Fresh
  <2> QED
    BY <1>9, <2>1, <2>2, <2>3 DEF Taken
<1>10. CASE ~w.backoff.on /\ ~IsIdle(w)
  BY <1>6, <1>7, <1>9, <1>10, StartBackoffStep
<1>11. CASE ~w.backoff.on /\ IsIdle(w) /\ w.timer["defer"] = Off
  BY <1>6, <1>7, <1>9, <1>11, ContendStep
<1> QED
  BY <1>6, <1>8, <1>10, <1>11

(* Queue::resume(): the next packet, if there is one *)
LEMMA ResumeQueueStep ==
    ASSUME BugFixTimer, NEW m, IsMac(m), m.pktTx = None, ~m.pktRTS, m.blocked,
           NEW r \in Slots, m.timer["defer"] = Off
    PROVE  LET u == ResumeQueue([m EXCEPT !.callback = FALSE], r)
           IN  /\ Changes(m, u, SendChanges \cup {"queue", "blocked"})
               /\ \/ /\ u.backoff = m.backoff /\ u.pktTx = None
                     /\ ~u.pktRTS /\ ~u.callback /\ ~u.blocked
                  \/ /\ u.blocked
                     /\ \E p \in Packet : Taken(m, u, p)
<1> DEFINE v == [m EXCEPT !.callback = FALSE]
           u == ResumeQueue(v, r)
           w == [v EXCEPT !.queue = Tail(v.queue)]
           F == SendChanges \cup {"queue", "blocked"}
           Goal == /\ Changes(m, u, F)
                   /\ \/ /\ u.backoff = m.backoff /\ u.pktTx = None
                         /\ ~u.pktRTS /\ ~u.callback /\ ~u.blocked
                      \/ /\ u.blocked
                         /\ \E p \in Packet : Taken(m, u, p)
<1> SUFFICES Goal
  OBVIOUS
<1>1. Changes(m, v, {"callback"}) /\ ~v.callback
  BY DEF IsMac, Changes, Field
<1> HIDE DEF v
<1>2. /\ IsMac(v) /\ v.pktTx = None /\ ~v.pktRTS /\ v.blocked
      /\ v.backoff = m.backoff /\ v.timer = m.timer /\ v.queue \in Seq(Packet)
      /\ IsIdle(v) <=> IsIdle(m)
  BY <1>1 DEF Changes, Field, IsIdle, IsMac
<1>3. CASE v.queue = <<>>
  <2>1. u = [v EXCEPT !.blocked = FALSE]
    BY <1>3 DEF ResumeQueue
  <2> HIDE DEF u
  <2>2. Changes(v, u, {"blocked"}) /\ ~u.blocked
    BY <1>2, <2>1 DEF IsMac, Changes, Field
  <2>3. Changes(m, u, F)
    BY <1>1, <2>2 DEF Changes, Field, SendChanges
  <2>4. /\ u.backoff = m.backoff /\ u.pktTx = None
        /\ ~u.pktRTS /\ ~u.callback /\ ~u.blocked
    BY <1>1, <1>2, <2>2 DEF Changes, Field
  <2> QED
    BY <2>3, <2>4
<1>4. CASE v.queue # <<>>
  <2>1. Head(v.queue) \in Packet /\ Tail(v.queue) \in Seq(Packet)
    BY <1>2, <1>4
  <2>2. Changes(v, w, {"queue"})
    BY <1>2, <2>1 DEF IsMac, Changes, Field
  <2>3. u = Send(w, Head(v.queue), r)
    BY <1>4 DEF ResumeQueue
  <2> HIDE DEF w, u
  <2>4. /\ IsMac(w) /\ w.pktTx = None /\ ~w.pktRTS /\ w.backoff = m.backoff
        /\ w.timer = m.timer /\ w.blocked /\ (IsIdle(w) <=> IsIdle(m))
    BY <1>2, <2>2 DEF Changes, Field, IsIdle
  <2>5. Changes(w, u, SendChanges) /\ Taken(w, u, Head(v.queue))
    BY <2>1, <2>3, <2>4, SendStep
  <2>6. Changes(m, u, F) /\ u.blocked
    BY <1>1, <2>2, <2>4, <2>5 DEF Changes, Field, SendChanges
  <2>7. Taken(m, u, Head(v.queue))
    BY <2>4, <2>5 DEF Taken
  <2> QED
    BY <2>1, <2>6, <2>7
<1> QED
  BY <1>3, <1>4

(* tx_resume()                                                             *)
ResumeChanges ==
    SendChanges \cup {"tx", "timer", "queue", "blocked"}

(* What tx_resume() asks of the MAC it is called for *)
Resumable(m) ==
    /\ IsMac(m)
    /\ m.timer["send"] = Off /\ m.timer["defer"] = Off
    /\ m.backoff.paused = m.backoff.on
    /\ Cleared(m) => ~m.backoff.on
    /\ Serving(m)

(* ... and what it leaves *)
Resumed(m, u) ==
    /\ Changes(m, u, ResumeChanges) /\ u.tx = "IDLE"
    /\ \A t \in Timer \ {"defer"} : u.timer[t] = m.timer[t]
    /\ u.timer["defer"] \in {Off, SIFS}
    /\ u.pktCTRL # None => u.timer["defer"] # Off
    /\ u.pktCTRL = None /\ u.timer["defer"] # Off =>
         u.pktTx # None /\ ~u.pktRTS /\ ~u.backoff.on /\ Cleared(m)
    /\ Cleared(u) => \/ u.pktCTRL = None /\ u.timer["defer"] # Off
                     \/ u.pktCTRL # None /\ Cleared(m)
    /\ Cleared(u) => ~u.backoff.on
    /\ u.backoff.paused <=> u.backoff.on /\ ~IsIdle(u)
    /\ Counting(u) => u.backoff.left >= DIFS
    /\ Serving(u)
    /\ GoesOn(u)

(* The same before the state of the transmitter becomes idle again *)
Resuming(m, u) ==
    /\ Changes(m, u, ResumeChanges \ {"tx"})
    /\ \A t \in Timer \ {"defer"} : u.timer[t] = m.timer[t]
    /\ u.timer["defer"] \in {Off, SIFS}
    /\ u.pktCTRL # None => u.timer["defer"] # Off
    /\ u.pktCTRL = None /\ u.timer["defer"] # Off =>
         u.pktTx # None /\ ~u.pktRTS /\ ~u.backoff.on /\ Cleared(m)
    /\ Cleared(u) => \/ u.pktCTRL = None /\ u.timer["defer"] # Off
                     \/ u.pktCTRL # None /\ Cleared(m)
    /\ Cleared(u) => ~u.backoff.on
    /\ u.backoff.paused => u.backoff.on
    /\ Counting(u) => u.backoff.left >= DIFS
    /\ Serving(u)
    /\ GoesOn(u)

LEMMA DeferralStep ==
    ASSUME NEW m, Resumable(m), m.pktCTRL # None \/ Cleared(m)
    PROVE  Resuming(m, StartTimer(m, "defer", SIFS))
<1> DEFINE u == StartTimer(m, "defer", SIFS)
<1>1. SIFS \in Nat /\ SIFS # Off /\ "defer" \in Timer
  BY DEF SIFS, Off, Timer
<1>2. /\ Changes(m, u, {"timer"}) /\ u.timer["defer"] = SIFS
      /\ \A s \in Timer \ {"defer"} : u.timer[s] = m.timer[s]
  BY <1>1, StartTimerStep DEF Resumable
<1> HIDE DEF u
<1>3. Changes(m, u, ResumeChanges \ {"tx"})
  BY <1>2 DEF Changes, Field, ResumeChanges, SendChanges
<1>4. /\ u.pktTx = m.pktTx /\ u.pktRTS = m.pktRTS /\ u.pktCTRL = m.pktCTRL
      /\ u.backoff = m.backoff /\ u.callback = m.callback /\ u.blocked = m.blocked
  BY <1>2 DEF Changes, Field
<1>5. Cleared(u) <=> Cleared(m)
  BY <1>4 DEF Cleared
<1>6. Serving(u) /\ GoesOn(u) /\ ~Counting(u) /\ (u.backoff.paused => u.backoff.on)
  BY <1>1, <1>2, <1>4 DEF Resumable, Serving, GoesOn, Counting
<1>7. u.pktCTRL = None => u.pktTx # None /\ ~u.pktRTS /\ ~u.backoff.on /\ Cleared(m)
  BY <1>4 DEF Resumable, Cleared
<1>8. Cleared(u) => ~u.backoff.on
  BY <1>4, <1>5 DEF Resumable
<1> QED
  BY <1>1, <1>2, <1>3, <1>4, <1>5, <1>6, <1>7, <1>8 DEF Resuming, u

LEMMA ContentionStep ==
    ASSUME BugFixTimer, NEW m, Resumable(m), m.pktCTRL = None, ~Cleared(m),
           NEW r \in Slots
    PROVE  Resuming(m, IF m.backoff.on THEN m ELSE Contend(m, r))
<1> DEFINE u == IF m.backoff.on THEN m ELSE Contend(m, r)
<1> SUFFICES Resuming(m, u)
  OBVIOUS
<1>1. CASE m.backoff.on
  <2>1. u = m
    BY <1>1
  <2> HIDE DEF u
  <2> QED
    BY <1>1, <2>1 DEF Resumable, Resuming, Changes, GoesOn, Counting
<1>2. CASE ~m.backoff.on
  <2>1. Changes(m, u, {"backoff"}) /\ Fresh(u)
    BY <1>2, ContendStep DEF Resumable
  <2> HIDE DEF u
  <2>2. Changes(m, u, ResumeChanges \ {"tx"})
    BY <2>1 DEF Changes, Field, ResumeChanges, SendChanges
  <2>3. /\ u.pktTx = m.pktTx /\ u.pktRTS = m.pktRTS /\ u.pktCTRL = m.pktCTRL
        /\ u.timer = m.timer /\ u.callback = m.callback /\ u.blocked = m.blocked
    BY <2>1 DEF Changes, Field
  <2>4. ~Cleared(u) /\ Serving(u)
    BY <2>3 DEF Cleared, Resumable, Serving
  <2>5. GoesOn(u) /\ (u.backoff.paused => u.backoff.on)
        /\ (Counting(u) => u.backoff.left >= DIFS)
    BY <2>1 DEF GoesOn, Fresh
  <2> QED
    BY <2>2, <2>3, <2>4, <2>5 DEF Resuming, Resumable
<1> QED
  BY <1>1, <1>2

LEMMA NextPacketStep ==
    ASSUME BugFixTimer, NEW m, Resumable(m), m.pktCTRL = None, m.pktTx = None,
           m.callback, NEW r \in Slots
    PROVE  Resuming(m, ResumeQueue([m EXCEPT !.callback = FALSE], r))
<1> DEFINE u == ResumeQueue([m EXCEPT !.callback = FALSE], r)
<1> SUFFICES Resuming(m, u)
  OBVIOUS
<1>1. /\ IsMac(m) /\ ~m.pktRTS /\ m.blocked /\ m.timer["defer"] = Off
      /\ m.backoff.paused = m.backoff.on
  BY DEF Resumable, Serving
<1>2. /\ Changes(m, u, SendChanges \cup {"queue", "blocked"})
      /\ \/ /\ u.backoff = m.backoff /\ u.pktTx = None
            /\ ~u.pktRTS /\ ~u.callback /\ ~u.blocked
         \/ /\ u.blocked
            /\ \E p \in Packet : Taken(m, u, p)
  BY <1>1, ResumeQueueStep
<1> HIDE DEF u
<1>3. u.timer = m.timer /\ u.pktCTRL = None
  BY <1>2 DEF Changes, Field, SendChanges
<1>4. Changes(m, u, ResumeChanges \ {"tx"})
  BY <1>2 DEF Changes, Field, ResumeChanges, SendChanges
<1>5. CASE /\ u.backoff = m.backoff /\ u.pktTx = None
           /\ ~u.pktRTS /\ ~u.callback /\ ~u.blocked
  <2>1. u.callback = u.blocked
    BY <1>5, <1>4 DEF Changes, IsMac
  <2>2. ~Cleared(u) /\ Serving(u) /\ GoesOn(u)
    BY <1>3, <1>5, <2>1 DEF Cleared, Serving, GoesOn
  <2> QED
    BY <1>1, <1>3, <1>4, <1>5, <2>2 DEF Resuming, Resumable, Counting
<1>6. CASE u.blocked /\ \E p \in Packet : Taken(m, u, p)
  <2>1. PICK p \in Packet : Taken(m, u, p)
    BY <1>6
  <2>2. p # None
    BY NoneAssumption
  <2>3. /\ u.callback /\ u.pktTx = p /\ u.pktRTS = NeedsRTS(p)
        /\ u.backoff.on
        /\ u.backoff.paused => u.backoff.on
        /\ Counting(u) => u.backoff.left >= DIFS
    BY <1>1, <2>1 DEF Taken, Fresh, Counting
  <2>4. u.callback = u.blocked
    BY <1>4, <1>6, <2>3 DEF Changes, IsMac
  <2>5. ~Cleared(u) /\ Serving(u) /\ GoesOn(u)
    BY <2>2, <2>3, <2>4 DEF Cleared, Serving, GoesOn
  <2> QED
    BY <1>1, <1>3, <1>4, <2>3, <2>5 DEF Resuming, Resumable
<1> QED
  BY <1>2, <1>5, <1>6

LEMMA TxResumeStep ==
    ASSUME BugFixTimer, NEW m, Resumable(m), NEW r \in Slots
    PROVE  Resumed(m, TxResume(m, r))
<1> DEFINE v == IF m.pktCTRL # None THEN StartTimer(m, "defer", SIFS)
                ELSE IF m.pktRTS
                  THEN IF m.backoff.on THEN m ELSE Contend(m, r)
                ELSE IF m.pktTx # None
                  THEN IF m.backoff.on THEN m
                       ELSE IF NeedsRTS(m.pktTx) THEN StartTimer(m, "defer", SIFS)
                       ELSE Contend(m, r)
                ELSE IF m.callback
                  THEN ResumeQueue([m EXCEPT !.callback = FALSE], r)
                ELSE m
           u == SetTx(v, "IDLE")
<1>1. TxResume(m, r) = u
  BY CheckHolds DEF TxResume, Resumable
<1>2. Resuming(m, v)
  <2>1. CASE m.pktCTRL # None
    BY <2>1, DeferralStep
  <2>2. CASE m.pktCTRL = None /\ m.pktRTS
    <3>1. v = IF m.backoff.on THEN m ELSE Contend(m, r)
      BY <2>2
    <3> HIDE DEF v
    <3>2. ~Cleared(m)
      BY <2>2 DEF Cleared
    <3> QED
      BY <2>2, <3>1, <3>2, ContentionStep
  <2>3. CASE m.pktCTRL = None /\ Cleared(m)
    <3>1. v = StartTimer(m, "defer", SIFS)
      BY <2>3 DEF Cleared, Resumable
    <3> HIDE DEF v
    <3> QED
      BY <2>3, <3>1, DeferralStep
  <2>4. CASE m.pktCTRL = None /\ ~m.pktRTS /\ m.pktTx # None /\ ~Cleared(m)
    <3>1. v = IF m.backoff.on THEN m ELSE Contend(m, r)
      BY <2>4 DEF Cleared
    <3> HIDE DEF v
    <3> QED
      BY <2>4, <3>1, ContentionStep
  <2>5. CASE m.pktCTRL = None /\ m.pktTx = None /\ m.callback
    <3>1. v = ResumeQueue([m EXCEPT !.callback = FALSE], r)
      BY <2>5 DEF Resumable, Serving
    <3> HIDE DEF v
    <3> QED
      BY <2>5, <3>1, NextPacketStep
  <2>6. CASE m.pktCTRL = None /\ m.pktTx = None /\ ~m.callback
    <3>1. v = m /\ ~m.pktRTS
      BY <2>6 DEF Resumable, Serving
    <3> HIDE DEF v
    <3> QED
      BY <2>6, <3>1 DEF Resumable, Resuming, Changes, Cleared, GoesOn, Counting
  <2> QED
    BY <2>1, <2>2, <2>3, <2>4, <2>5, <2>6
<1> HIDE DEF v
<1>3. IsMac(v) /\ Paces(v)
  <2>1. /\ IsMac(v) /\ (v.backoff.paused => v.backoff.on)
        /\ Counting(v) => v.backoff.left >= DIFS
    BY <1>2 DEF Resuming, Changes
  <2>2. v.backoff.left \in Int
    BY <2>1, MacFields
  <2> QED
    BY <2>1, <2>2 DEF Paces, DIFS, SIFS, SlotTime
<1>4. Changes(v, u, {"tx", "backoff"}) /\ u.tx = "IDLE" /\ InPace(v, u)
  BY <1>3, SetTxStep
<1> HIDE DEF u
<1>5. /\ u.timer = v.timer /\ u.pktTx = v.pktTx /\ u.pktRTS = v.pktRTS
      /\ u.pktCTRL = v.pktCTRL /\ u.callback = v.callback /\ u.blocked = v.blocked
      /\ Changes(m, u, ResumeChanges)
  BY <1>2, <1>4 DEF Changes, Field, Resuming, ResumeChanges, SendChanges
<1>6. /\ u.backoff.on = v.backoff.on
      /\ u.backoff.paused <=> u.backoff.on /\ ~IsIdle(u)
      /\ Counting(u) => u.backoff.left >= DIFS
  BY <1>2, <1>4 DEF InPace, Resuming
<1>7. (Cleared(u) <=> Cleared(v)) /\ (Serving(u) <=> Serving(v)) /\ (GoesOn(u) <=> GoesOn(v))
  BY <1>5, <1>6 DEF Cleared, Serving, GoesOn
<1> QED
  BY <1>1, <1>2, <1>4, <1>5, <1>6, <1>7 DEF Resuming, Resumed

-----------------------------------------------------------------------------
(* The frames that are built.                                              *)

LEMMA Times ==
    /\ RTSTime = 352 /\ CTSTime = 304 /\ ACKTime = 304 /\ EIFS = 364
    /\ SIFS = 10 /\ DIFS = 50 /\ SlotTime = 20 /\ MaxPropDelay = 2
BY DEF RTSTime, CTSTime, ACKTime, EIFS, TxTime, DIFS, SIFS, SlotTime, MaxPropDelay

LEMMA USecIsNat ==
    ASSUME NEW t \in Int
    PROVE  USec(t) \in Nat
BY DEF USec

LEMMA USecFits ==
    ASSUME NEW t \in Nat, t < 65536
    PROVE  USec(t) = t
BY DEF USec

LEMMA PacketTypes ==
    ASSUME NEW p \in Packet
    PROVE  /\ Origin[p] \in Node /\ NextHop[p] \in Node \cup {Everyone}
           /\ TxTime(Size[p]) \in Nat /\ TxTime(Size[p]) > SIFS
<1>1. Size[p] \in Nat
  BY PacketAssumption
<1> QED
  BY <1>1, PacketAssumption DEF TxTime

(* A control frame is a frame. *)
LEMMA ControlType ==
    ASSUME NEW kind \in {"RTS", "CTS", "ACK"}, NEW n \in Node,
           NEW to \in Node \cup {Everyone}, NEW time \in Nat, time > SIFS,
           NEW dur \in Nat
    PROVE  LET f == Control(kind, n, to, time, dur)
           IN  /\ f \in Frame /\ f.kind = kind /\ f.time = time /\ f.dur = dur
BY DEF Control, Frame

LEMMA RTSIsProper ==
    ASSUME DurationsFit, NEW p \in Packet
    PROVE  RTSFrame(p) \in Proper /\ RTSFrame(p).time = RTSTime
<1> DEFINE t == 3 * SIFS + CTSTime + TxTime(Size[p]) + ACKTime
<1>1. t \in Nat /\ t < 65536 /\ t >= 3 * SIFS + CTSTime + ACKTime
  BY Times, PacketTypes DEF DurationsFit
<1>2. RTSFrame(p) = Control("RTS", Origin[p], NextHop[p], RTSTime, t)
  BY <1>1, USecFits DEF RTSFrame
<1> HIDE DEF t
<1>3. /\ RTSTime \in Nat /\ RTSTime > SIFS
      /\ Origin[p] \in Node /\ NextHop[p] \in Node \cup {Everyone}
  BY Times, PacketTypes
<1>4. /\ RTSFrame(p) \in Frame /\ RTSFrame(p).time = RTSTime
      /\ RTSFrame(p).dur = t
  BY <1>1, <1>2, <1>3, ControlType
<1> QED
  BY <1>1, <1>4 DEF Proper

LEMMA DataIsProper ==
    ASSUME NEW p \in Packet, NEW seq \in Nat
    PROVE  /\ DataFrame(p, seq) \in Proper
           /\ DataFrame(p, seq).time = TxTime(Size[p])
           /\ TxTime(Size[p]) \in Nat
<1>1. ACKTime + SIFS \in Int
  BY Times
<1>2. (IF NextHop[p] = Everyone THEN 0 ELSE USec(ACKTime + SIFS)) \in Nat
  BY <1>1, USecIsNat
<1> QED
  BY <1>2, PacketTypes DEF DataFrame, Proper, Frame

LEMMA CTSIsAnswer ==
    ASSUME NEW n \in Node, NEW f \in Proper, f.kind = "RTS"
    PROVE  CTSFrame(n, f) \in Answer /\ CTSFrame(n, f).kind = "CTS"
<1> DEFINE t == f.dur - SIFS - CTSTime
<1>1. f.dur \in Nat /\ f.ta \in Node
  BY DEF Proper, Frame
<1>2. f.dur >= 3 * SIFS + CTSTime + ACKTime /\ f.dur < 65536
  BY DEF Proper
<1>3. t \in Nat /\ t < 65536 /\ t >= 2 * SIFS + ACKTime
  BY <1>1, <1>2, Times
<1>4. CTSFrame(n, f) = Control("CTS", n, f.ta, CTSTime, t)
  BY <1>3, USecFits DEF CTSFrame
<1> HIDE DEF t
<1>5. CTSTime \in Nat /\ CTSTime > SIFS
  BY Times
<1>6. /\ CTSFrame(n, f) \in Frame /\ CTSFrame(n, f).kind = "CTS"
      /\ CTSFrame(n, f).time = CTSTime /\ CTSFrame(n, f).dur = t
  BY <1>1, <1>3, <1>4, <1>5, ControlType
<1> QED
  BY <1>3, <1>6 DEF Answer

LEMMA ACKIsAnswer ==
    ASSUME NEW n \in Node, NEW f \in Proper
    PROVE  ACKFrame(n, f.ta) \in Answer /\ ACKFrame(n, f.ta).kind = "ACK"
<1>1. f.ta \in Node
  BY DEF Proper, Frame
<1>2. ACKTime \in Nat /\ ACKTime > SIFS /\ ACKTime = CTSTime /\ 0 \in Nat
  BY Times
<1>3. /\ ACKFrame(n, f.ta) \in Frame /\ ACKFrame(n, f.ta).kind = "ACK"
      /\ ACKFrame(n, f.ta).time = CTSTime
  BY <1>1, <1>2, ControlType DEF ACKFrame
<1> QED
  BY <1>3 DEF Answer

LEMMA AnswerIsProper ==
    ASSUME NEW f \in Answer
    PROVE  f \in Proper /\ f.dur \in Nat /\ f.time = CTSTime
BY DEF Answer, Proper, Frame

-----------------------------------------------------------------------------
(* The handlers.                                                           *)

(* A MAC that is about to send: no timer of the transmitter runs. *)
Ready(m) ==
    /\ IsMac(m) /\ ~m.backoff.on /\ ~m.backoff.paused
    /\ m.tx = "IDLE" /\ m.timer["send"] = Off /\ m.timer["defer"] = Off
    /\ m.timer["if"] = Off
    /\ Receiving(m) /\ Serving(m)

(* u has begun to send f as s. *)
Started(m, u, s, f, timeout) ==
    /\ Changes(m, u, {"tx", "backoff", "timer", "error", "out"})
    /\ u.tx = s /\ u.backoff.on = m.backoff.on
    /\ u.backoff.paused = m.backoff.on
    /\ u.timer["send"] = timeout /\ u.timer["if"] = f.time
    /\ \A t \in Timer \ {"send", "if"} : u.timer[t] = m.timer[t]
    /\ u.rx # "IDLE" => u.error

LEMMA BeginStep ==
    ASSUME NEW m, IsMac(m), Paces(m), Receiving(m), m.timer["send"] = Off,
           m.timer["if"] = Off, NEW s \in {"RTS", "CTS", "SEND", "ACK"},
           NEW f \in Proper, NEW timeout \in Nat
    PROVE  Started(m, Transmit(SetTx(m, s), f, timeout), s, f, timeout)
<1> DEFINE v == SetTx(m, s)
           u == Transmit(v, f, timeout)
<1>1. Changes(m, v, {"tx", "backoff"}) /\ v.tx = s /\ InPace(m, v)
  BY SetTxStep
<1> HIDE DEF v
<1>2. /\ IsMac(v) /\ v.timer = m.timer /\ v.rx = m.rx /\ v.pktRx = m.pktRx
      /\ v.rx # "IDLE" => v.pktRx # None
  BY <1>1 DEF Changes, Field, Receiving
<1>3. /\ Changes(v, u, {"timer", "error", "out"})
      /\ u.timer["send"] = timeout /\ u.timer["if"] = f.time
      /\ \A t \in Timer \ {"send", "if"} : u.timer[t] = v.timer[t]
      /\ v.rx # "IDLE" => u.error
  BY <1>2, TransmitStep
<1> HIDE DEF u
<1>4. /\ Changes(m, u, {"tx", "backoff", "timer", "error", "out"})
      /\ u.tx = s /\ u.rx = v.rx /\ u.backoff = v.backoff
  BY <1>1, <1>3 DEF Changes, Field
<1>5. v.backoff.on = m.backoff.on /\ v.backoff.paused = m.backoff.on
  <2>1. ~IsIdle(v)
    BY <1>1 DEF IsIdle
  <2>2. /\ v.backoff.on \in BOOLEAN /\ v.backoff.paused \in BOOLEAN
        /\ m.backoff.on \in BOOLEAN
    BY <1>2, MacFields
  <2> QED
    BY <1>1, <2>1, <2>2 DEF InPace
<1>6. Started(m, u, s, f, timeout)
  BY <1>2, <1>3, <1>4, <1>5 DEF Started
<1> QED
  BY <1>6 DEF u, v

(* u is what a handler may make of m. *)
Handles(m, u) ==
    /\ Sound(u) /\ u.self = m.self
    /\ GoesOn(m) => GoesOn(u) \/ DropsCTS(m)

(* Who may begin to send s *)
MayBegin(m, s) ==
    /\ m.tx = "IDLE" /\ m.timer["send"] = Off /\ m.timer["defer"] = Off
    /\ Receiving(m) /\ Serving(m)
    /\ s \in {"CTS", "ACK"} => m.pktCTRL # None
    /\ s = "RTS" => m.pktRTS
    /\ s = "SEND" => m.pktTx # None /\ ~m.pktRTS
    /\ s \in {"RTS", "SEND"} => ~m.backoff.on /\ m.pktCTRL = None
    /\ Cleared(m) => /\ ~m.backoff.on
                     /\ s = "SEND" \/ (s = "ACK" /\ m.pktCTRL.kind = "ACK")

LEMMA StartedSound ==
    ASSUME NEW m, NEW u, NEW s \in {"RTS", "CTS", "SEND", "ACK"},
           NEW f \in Proper, NEW timeout \in Nat,
           MayBegin(m, s), Started(m, u, s, f, timeout),
           f.time <= timeout, s = "ACK" => f.time = timeout
    PROVE  Sound(u) /\ u.self = m.self /\ GoesOn(u)
<1>1. /\ f.time \in Nat /\ f.time > SIFS /\ SIFS = 10 /\ Off = -1
  BY Times DEF Proper, Frame, Off
<1>2. /\ IsMac(u) /\ u.self = m.self /\ u.rx = m.rx /\ u.pktTx = m.pktTx
      /\ u.pktRTS = m.pktRTS /\ u.pktCTRL = m.pktCTRL /\ u.pktRx = m.pktRx
      /\ u.callback = m.callback /\ u.blocked = m.blocked
  BY DEF Started, Changes, Field
<1>3. /\ u.tx = s /\ u.backoff.on = m.backoff.on
      /\ u.backoff.paused = m.backoff.on
      /\ u.timer["send"] = timeout /\ u.timer["if"] = f.time
      /\ u.timer["defer"] = m.timer["defer"] /\ u.timer["recv"] = m.timer["recv"]
      /\ u.rx # "IDLE" => u.error
  BY DEF Started, Timer
<1>4. Receiving(u) /\ Serving(u)
  BY <1>2, <1>3 DEF MayBegin, Receiving, Serving
<1>5. Transmitting(u)
  BY <1>1, <1>2, <1>3 DEF MayBegin, Transmitting
<1>6. Deferring(u) /\ GoesOn(u)
  BY <1>1, <1>2, <1>3 DEF MayBegin, Deferring, GoesOn
<1>7. Cleared(u) <=> Cleared(m)
  BY <1>2 DEF Cleared
<1>8. Following(u)
  BY <1>2, <1>3, <1>7 DEF MayBegin, Following
<1>9. ~Counting(u)
  BY <1>3 DEF Counting
<1>10. Radiating(u)
  BY <1>1, <1>3, <1>9 DEF MayBegin, Radiating
<1>11. BackingOff(u)
  BY <1>3, <1>9 DEF BackingOff
<1>12. Undisturbed(u)
  BY <1>1, <1>3 DEF MayBegin, Undisturbed, Spoilt
<1> QED
  BY <1>2, <1>4, <1>5, <1>6, <1>8, <1>10, <1>11, <1>12 DEF Sound, Core

(* A backoff of a ready MAC begins. *)
LEMMA WaitingSound ==
    ASSUME NEW m, NEW u, Ready(m), m.pktCTRL = None, m.pktTx # None,
           Changes(m, u, {"backoff", "pktRTS"}), Fresh(u), ~Cleared(u)
    PROVE  Sound(u) /\ u.self = m.self /\ GoesOn(u)
<1>1. /\ IsMac(u) /\ u.self = m.self /\ u.tx = m.tx /\ u.rx = m.rx
      /\ u.pktTx = m.pktTx /\ u.pktCTRL = m.pktCTRL /\ u.pktRx = m.pktRx
      /\ u.timer = m.timer /\ u.callback = m.callback /\ u.blocked = m.blocked
  BY DEF Changes, Field
<1>2. SIFS = 10 /\ DIFS = 50 /\ Off = -1
  BY Times DEF Off
<1>3. Receiving(u) /\ Serving(u)
  BY <1>1 DEF Ready, Receiving, Serving
<1>4. Transmitting(u) /\ Deferring(u) /\ Following(u) /\ GoesOn(u)
  BY <1>1, <1>2 DEF Ready, Transmitting, Deferring, Following, GoesOn, Fresh
<1>5. Radiating(u) /\ Undisturbed(u)
  BY <1>1 DEF Ready, Radiating, Undisturbed
<1>6. u.backoff.left \in Int
  BY <1>1, MacFields
<1>7. BackingOff(u)
  BY <1>1, <1>2, <1>6 DEF Ready, BackingOff, Fresh, IsIdle, Counting
<1> QED
  BY <1>1, <1>3, <1>4, <1>5, <1>7 DEF Sound, Core

(* check_pktRTS() and check_pktTx() *)
LEMMA CheckRTSThenTxStep ==
    ASSUME DurationsFit, NEW m, Ready(m), m.pktCTRL = None, NEW r \in Slots
    PROVE  LET u == CheckRTSThenTx(m, r)
           IN  Sound(u) /\ u.self = m.self /\ GoesOn(u)
<1> DEFINE u == CheckRTSThenTx(m, r)
           Goal == Sound(u) /\ u.self = m.self /\ GoesOn(u)
<1> SUFFICES Goal
  OBVIOUS
<1>1. u = IF m.pktRTS THEN CheckRTS(m, r)
          ELSE IF m.pktTx # None THEN CheckTx(m, r) ELSE m
  BY CheckHolds DEF CheckRTSThenTx, Ready
<1> HIDE DEF u
<1>2. /\ IsMac(m) /\ Paces(m) /\ ~m.backoff.on /\ Receiving(m)
      /\ m.tx = "IDLE" /\ m.timer["send"] = Off /\ m.timer["if"] = Off
      /\ m.pktTx \in Packet \cup {None} /\ m.seq \in Nat
  BY DEF Ready, Paces, Counting, IsMac
<1>3. CASE m.pktRTS
  <2>1. u = CheckRTS(m, r)
    BY <1>1, <1>3
  <2>2. m.pktTx # None /\ m.pktTx \in Packet /\ ~Cleared(m)
    BY <1>2, <1>3 DEF Ready, Serving, Cleared
  <2>3. CASE ~IsIdle(m)
    <3>1. u = StartBackoff(m, r, 0)
      BY <2>1, <2>3 DEF CheckRTS
    <3>2. Changes(m, u, {"backoff"}) /\ Fresh(u)
      BY <1>2, <2>3, <3>1, StartBackoffStep
    <3>3. Changes(m, u, {"backoff", "pktRTS"}) /\ ~Cleared(u)
      BY <2>2, <3>2 DEF Changes, Field, Cleared
    <3> QED
      BY <2>2, <3>2, <3>3, WaitingSound
  <2>4. CASE IsIdle(m)
    <3> DEFINE f == RTSFrame(m.pktTx)
               t == RTSTime + SIFS + CTSTime + 2 * MaxPropDelay
    <3>1. u = Transmit(SetTx(m, "RTS"), f, t)
      BY <2>1, <2>4 DEF CheckRTS
    <3>2. f \in Proper /\ f.time = RTSTime /\ t \in Nat /\ f.time <= t
      BY <2>2, RTSIsProper, Times
    <3> HIDE DEF f, t
    <3>3. Started(m, u, "RTS", f, t)
      BY <1>2, <3>1, <3>2, BeginStep
    <3>4. MayBegin(m, "RTS")
      BY <1>2, <1>3, <2>2 DEF Ready, MayBegin
    <3> QED
      BY <3>2, <3>3, <3>4, StartedSound
  <2> QED
    BY <2>3, <2>4
<1>4. CASE ~m.pktRTS /\ m.pktTx # None
  <2>1. u = CheckTx(m, r)
    BY <1>1, <1>4
  <2>2. CASE ~IsIdle(m)
    <3> DEFINE v == SendRTS(m)
    <3>1. u = StartBackoff(v, r, 0)
      BY <2>1, <2>2 DEF CheckTx
    <3>2. Changes(m, v, {"pktRTS"}) /\ v.pktRTS = NeedsRTS(m.pktTx)
      BY <1>2, <1>4, SendRTSStep
    <3> HIDE DEF v
    <3>3. IsMac(v) /\ ~v.backoff.on /\ ~IsIdle(v)
      BY <1>2, <2>2, <3>2 DEF Changes, Field, IsIdle
    <3>4. Changes(v, u, {"backoff"}) /\ Fresh(u)
      BY <3>1, <3>3, StartBackoffStep
    <3>5. Changes(m, u, {"backoff", "pktRTS"}) /\ u.pktTx = m.pktTx
          /\ u.pktRTS = NeedsRTS(m.pktTx)
      BY <3>2, <3>4 DEF Changes, Field
    <3>6. ~Cleared(u)
      BY <3>5 DEF Cleared
    <3> QED
      BY <1>4, <3>4, <3>5, <3>6, WaitingSound
  <2>3. CASE IsIdle(m)
    <3> DEFINE f == DataFrame(m.pktTx, m.seq)
               t == IF f.ra = Everyone THEN f.time
                    ELSE f.time + SIFS + ACKTime + 2 * MaxPropDelay
    <3>1. u = Transmit(SetTx(m, "SEND"), f, t)
      BY <2>1, <2>3 DEF CheckTx
    <3>2. f \in Proper /\ f.time = TxTime(Size[m.pktTx]) /\ TxTime(Size[m.pktTx]) \in Nat
      BY <1>2, <1>4, DataIsProper
    <3> HIDE DEF f
    <3>3. t \in Nat /\ f.time <= t
      BY <3>2, Times
    <3> HIDE DEF t
    <3>4. Started(m, u, "SEND", f, t)
      BY <1>2, <3>1, <3>2, <3>3, BeginStep
    <3>5. MayBegin(m, "SEND")
      BY <1>2, <1>4 DEF Ready, MayBegin
    <3> QED
      BY <3>2, <3>3, <3>4, <3>5, StartedSound
  <2> QED
    BY <2>2, <2>3
<1>5. CASE ~m.pktRTS /\ m.pktTx = None
  <2>1. u = m
    BY <1>1, <1>5
  <2>2. SIFS = 10 /\ Off = -1 /\ ~Cleared(m)
    BY <1>5, Times DEF Off, Cleared
  <2>3. Transmitting(m) /\ Deferring(m) /\ Following(m) /\ GoesOn(m)
    BY <1>2, <1>5, <2>2 DEF Ready, Transmitting, Deferring, Following, GoesOn
  <2>4. Radiating(m) /\ Undisturbed(m) /\ BackingOff(m)
    BY <1>2, <2>2 DEF Ready, Radiating, Undisturbed, BackingOff, Counting
  <2> QED
    BY <1>2, <2>1, <2>3, <2>4 DEF Ready, Sound, Core
<1> QED
  BY <1>3, <1>4, <1>5

LEMMA TimerOff ==
    ASSUME NEW m, IsMac(m), NEW t \in Timer
    PROVE  LET u == [m EXCEPT !.timer[t] = Off]
           IN  /\ Changes(m, u, {"timer"}) /\ u.timer[t] = Off
               /\ \A s \in Timer \ {t} : u.timer[s] = m.timer[s]
<1>1. Off \in Clock
  BY DEF Clock, Off
<1> QED
  BY <1>1, TimerSet

LEMMA TimerIsInt ==
    ASSUME NEW m, IsMac(m)
    PROVE  \A t \in {"send", "defer", "recv", "if", "nav"} :
             m.timer[t] \in Int /\ m.timer[t] >= Off
<1>1. {"send", "defer", "recv", "if", "nav"} \subseteq Timer
  BY DEF Timer
<1> QED
  BY <1>1, MacFields

(* deferHandler() *)
LEMMA DeferHandlerStep ==
    ASSUME DurationsFit, NEW m, Sound(m), m.timer["defer"] = 0, NEW r \in Slots
    PROVE  Handles(m, DeferHandler([m EXCEPT !.timer["defer"] = Off], r))
<1> DEFINE v == [m EXCEPT !.timer["defer"] = Off]
           u == DeferHandler(v, r)
<1> SUFFICES Handles(m, u)
  OBVIOUS
<1>0. Off = -1 /\ SIFS = 10 /\ "defer" \in Timer /\ IsMac(m)
  BY Times DEF Off, Timer, Sound, Core
<1>1. /\ Changes(m, v, {"timer"}) /\ v.timer["defer"] = Off
      /\ \A s \in Timer \ {"defer"} : v.timer[s] = m.timer[s]
  BY <1>0, TimerOff
<1> HIDE DEF v
<1>2. /\ IsMac(v) /\ v.self = m.self /\ v.tx = m.tx /\ v.rx = m.rx
      /\ v.pktTx = m.pktTx /\ v.pktRTS = m.pktRTS /\ v.pktCTRL = m.pktCTRL
      /\ v.pktRx = m.pktRx /\ v.callback = m.callback /\ v.blocked = m.blocked
      /\ v.backoff = m.backoff /\ v.error = m.error
  BY <1>1 DEF Changes, Field
<1>3. /\ v.timer["send"] = m.timer["send"] /\ v.timer["recv"] = m.timer["recv"]
      /\ v.timer["if"] = m.timer["if"] /\ v.timer["nav"] = m.timer["nav"]
  BY <1>1 DEF Timer
<1>4. v.tx = "IDLE" /\ v.timer["send"] = Off
  BY <1>0, <1>2, <1>3 DEF Sound, Core, Transmitting
<1>5. m.timer["if"] \in Int /\ m.timer["if"] >= Off
  BY <1>0, TimerIsInt
<1>6. v.timer["if"] = Off
  BY <1>0, <1>3, <1>5 DEF Sound, Core, Radiating
<1>7. Receiving(v) /\ Serving(v)
  BY <1>2, <1>3 DEF Sound, Core, Receiving, Serving
<1>8. (IsIdle(v) <=> IsIdle(m)) /\ (Cleared(v) <=> Cleared(m)) /\ Paces(v)
  BY <1>2, <1>3 DEF IsIdle, Cleared, Sound, Core, BackingOff, Paces, Counting
<1>9. v.pktCTRL # None \/ v.pktRTS \/ v.pktTx # None
  BY <1>0, <1>2 DEF Sound, Core, Deferring
<1>10. u = IF v.pktCTRL # None /\ v.tx \notin {"CTS", "ACK"} THEN CheckCTRL(v)
           ELSE CheckRTSThenTx(v, r)
  BY <1>9, CheckHolds DEF DeferHandler
<1> HIDE DEF u
<1>11. CASE v.pktCTRL = None
  <2>1. u = CheckRTSThenTx(v, r)
    BY <1>10, <1>11
  <2>2. ~v.backoff.on /\ ~v.backoff.paused
    BY <1>0, <1>2, <1>11 DEF Sound, Core, Deferring, BackingOff
  <2>3. Ready(v)
    BY <1>1, <1>2, <1>4, <1>6, <1>7, <2>2 DEF Ready
  <2>4. Sound(u) /\ u.self = v.self /\ GoesOn(u)
    BY <1>11, <2>1, <2>3, CheckRTSThenTxStep
  <2> QED
    BY <1>2, <2>4 DEF Handles
<1>12. CASE v.pktCTRL # None
  <2> DEFINE f == v.pktCTRL
  <2>1. f \in Answer /\ f \in Proper /\ f.dur \in Nat /\ f.time = 304
    BY <1>2, <1>12, AnswerIsProper, Times DEF IsMac
  <2>2. u = CheckCTRL(v)
    BY <1>4, <1>10, <1>12
  <2>3. Cleared(m) => ~m.backoff.on /\ m.pktCTRL.kind = "ACK"
    BY <1>2, <1>4, <1>12 DEF Sound, Core, Following
  <2>4. CASE f.kind = "ACK"
    <3>1. u = Transmit(SetTx(v, "ACK"), f, ACKTime)
      BY <2>2, <2>4 DEF CheckCTRL
    <3>2. ACKTime \in Nat /\ f.time = ACKTime /\ f.time <= ACKTime
      BY <2>1, Times
    <3>3. Started(v, u, "ACK", f, ACKTime)
      BY <1>2, <1>4, <1>6, <1>7, <1>8, <2>1, <3>1, <3>2, BeginStep
    <3>4. MayBegin(v, "ACK")
      BY <1>1, <1>2, <1>4, <1>7, <1>8, <1>12, <2>3 DEF MayBegin
    <3>5. Sound(u) /\ u.self = v.self /\ GoesOn(u)
      BY <2>1, <3>2, <3>3, <3>4, StartedSound
    <3> QED
      BY <1>2, <3>5 DEF Handles
  <2>5. CASE f.kind # "ACK" /\ IsIdle(v)
    <3> DEFINE t == CTSTime + 2 * MaxPropDelay + f.dur - SIFS - ACKTime
    <3>1. u = Transmit(SetTx(v, "CTS"), f, t)
      BY <2>2, <2>5 DEF CheckCTRL
    <3>2. f.dur >= 2 * SIFS + ACKTime
      BY <2>1, <2>5 DEF Answer
    <3>3. t \in Nat /\ f.time <= t
      BY <2>1, <3>2, Times
    <3> HIDE DEF t
    <3>4. Started(v, u, "CTS", f, t)
      BY <1>2, <1>4, <1>6, <1>7, <1>8, <2>1, <3>1, <3>3, BeginStep
    <3>5. MayBegin(v, "CTS")
      BY <1>1, <1>2, <1>4, <1>7, <1>8, <1>12, <2>3, <2>5 DEF MayBegin
    <3>6. Sound(u) /\ u.self = v.self /\ GoesOn(u)
      BY <2>1, <3>3, <3>4, <3>5, StartedSound
    <3> QED
      BY <1>2, <3>6 DEF Handles
  <2>6. CASE f.kind # "ACK" /\ ~IsIdle(v)
    <3>1. u = [v EXCEPT !.pktCTRL = None]
      BY <2>2, <2>6 DEF CheckCTRL
    <3>2. Changes(v, u, {"pktCTRL"}) /\ u.pktCTRL = None
      BY <1>2, <3>1 DEF IsMac, Changes, Field
    <3>3. /\ IsMac(u) /\ u.self = m.self /\ u.tx = m.tx /\ u.rx = m.rx
          /\ u.pktTx = m.pktTx /\ u.pktRTS = m.pktRTS
          /\ u.pktRx = m.pktRx /\ u.callback = m.callback /\ u.blocked = m.blocked
          /\ u.backoff = m.backoff /\ u.error = m.error /\ u.timer = v.timer
      BY <1>2, <3>2 DEF Changes, Field
    <3>4. Receiving(u) /\ Serving(u)
      BY <1>2, <1>7, <3>3 DEF Receiving, Serving
    <3>5. ~Cleared(u)
      BY <1>2, <2>3, <2>6, <3>3 DEF Cleared
    <3>6. Transmitting(u) /\ Deferring(u) /\ Following(u)
      <4>1. u.tx = "IDLE" /\ u.timer["send"] = Off /\ u.timer["defer"] = Off
        BY <1>1, <1>2, <1>4, <3>3
      <4> QED
        BY <1>0, <3>2, <3>5, <4>1 DEF Transmitting, Deferring, Following
    <3>7. Radiating(u) /\ Undisturbed(u)
      BY <1>1, <1>2, <1>4, <1>6, <3>3 DEF Radiating, Undisturbed
    <3>8. (IsIdle(u) <=> IsIdle(m)) /\ (Counting(u) <=> Counting(m))
      BY <1>3, <3>3 DEF IsIdle, Counting
    <3>9. BackingOff(u)
      BY <1>3, <3>3, <3>8 DEF Sound, Core, BackingOff
    <3>10. DropsCTS(m)
      BY <1>2, <1>8, <1>12, <2>1, <2>6 DEF DropsCTS, Answer
    <3> QED
      BY <3>3, <3>4, <3>6, <3>7, <3>9, <3>10 DEF Handles, Sound, Core
  <2> QED
    BY <2>4, <2>5, <2>6
<1> QED
  BY <1>11, <1>12

(* backoffHandler() *)
LEMMA BackoffHandlerStep ==
    ASSUME DurationsFit, NEW m, Sound(m), Counting(m), m.backoff.left = 0,
           NEW r \in Slots
    PROVE  Handles(m, BackoffHandler([m EXCEPT !.backoff = NoBackoff], r))
<1> DEFINE v == [m EXCEPT !.backoff = NoBackoff]
           u == BackoffHandler(v, r)
<1> SUFFICES Handles(m, u)
  OBVIOUS
<1>0. Off = -1 /\ SIFS = 10 /\ IsMac(m) /\ NoBackoff \in Backoff
  BY Times DEF Off, Sound, Core, NoBackoff, Backoff
<1>1. Changes(m, v, {"backoff"}) /\ v.backoff = NoBackoff
  BY <1>0, BackoffSet
<1> HIDE DEF v
<1>2. /\ IsMac(v) /\ v.self = m.self /\ v.tx = m.tx /\ v.rx = m.rx
      /\ v.pktTx = m.pktTx /\ v.pktRTS = m.pktRTS /\ v.pktCTRL = m.pktCTRL
      /\ v.pktRx = m.pktRx /\ v.callback = m.callback /\ v.blocked = m.blocked
      /\ v.timer = m.timer /\ v.error = m.error
  BY <1>1 DEF Changes, Field
<1>3. ~v.backoff.on /\ ~v.backoff.paused
  BY <1>1 DEF NoBackoff
<1>4. v.tx = "IDLE" /\ v.timer["send"] = Off
  BY <1>2 DEF Sound, Core, Transmitting, BackingOff, IsIdle
<1>5. m.timer["if"] \in Int /\ m.timer["if"] >= Off
  BY <1>0, TimerIsInt
<1>6. v.timer["if"] = Off
  BY <1>0, <1>2, <1>5 DEF Sound, Core, Radiating
<1>7. Receiving(v) /\ Serving(v)
  BY <1>2 DEF Sound, Core, Receiving, Serving
<1>8. CASE v.pktCTRL # None
  <2>1. v.timer["send"] # Off \/ v.timer["defer"] # Off
    BY <1>2, <1>8 DEF Sound, Core, Deferring
  <2>2. u = v
    BY <1>8, <2>1, CheckHolds DEF BackoffHandler
  <2>3. (Cleared(v) <=> Cleared(m)) /\ (Spoilt(v) <=> Spoilt(m)) /\ ~Counting(v)
    BY <1>2, <1>3 DEF Cleared, Spoilt, Counting
  <2>4. Transmitting(v) /\ Deferring(v) /\ Following(v)
    BY <1>2, <1>3, <1>4, <1>8, <2>3
    DEF Sound, Core, Transmitting, Deferring, Following
  <2>5. Radiating(v) /\ Undisturbed(v) /\ BackingOff(v)
    BY <1>2, <1>3, <1>4, <1>6, <1>8, <2>3
    DEF Radiating, Undisturbed, BackingOff
  <2>6. GoesOn(v)
    BY <2>1 DEF GoesOn
  <2> QED
    BY <1>2, <1>7, <2>2, <2>4, <2>5, <2>6 DEF Handles, Sound, Core
<1>9. CASE v.pktCTRL = None
  <2>1. u = CheckRTSThenTx(v, r)
    BY <1>9 DEF BackoffHandler
  <2>2. v.timer["defer"] = Off
    BY <1>2, <1>9 DEF Sound, Core, Deferring, Counting
  <2>3. Ready(v)
    BY <1>2, <1>3, <1>4, <1>6, <1>7, <2>2 DEF Ready
  <2>4. Sound(u) /\ u.self = v.self /\ GoesOn(u)
    BY <1>9, <2>1, <2>3, CheckRTSThenTxStep
  <2> QED
    BY <1>2, <2>4 DEF Handles
<1> QED
  BY <1>8, <1>9

(* mhIF_ stops. *)
LEMMA IfHandlerStep ==
    ASSUME NEW m, Sound(m), m.timer["if"] = 0
    PROVE  Handles(m, [m EXCEPT !.timer["if"] = Off])
<1> DEFINE u == [m EXCEPT !.timer["if"] = Off]
<1> SUFFICES Handles(m, u)
  OBVIOUS
<1>0. Off = -1 /\ "if" \in Timer /\ IsMac(m)
  BY DEF Off, Timer, Sound, Core
<1>1. /\ Changes(m, u, {"timer"}) /\ u.timer["if"] = Off
      /\ \A s \in Timer \ {"if"} : u.timer[s] = m.timer[s]
  BY <1>0, TimerOff
<1> HIDE DEF u
<1>2. /\ IsMac(u) /\ u.self = m.self /\ u.tx = m.tx /\ u.rx = m.rx
      /\ u.pktTx = m.pktTx /\ u.pktRTS = m.pktRTS /\ u.pktCTRL = m.pktCTRL
      /\ u.pktRx = m.pktRx /\ u.callback = m.callback /\ u.blocked = m.blocked
      /\ u.backoff = m.backoff /\ u.error = m.error
  BY <1>1 DEF Changes, Field
<1>3. /\ u.timer["send"] = m.timer["send"] /\ u.timer["recv"] = m.timer["recv"]
      /\ u.timer["defer"] = m.timer["defer"] /\ u.timer["nav"] = m.timer["nav"]
  BY <1>1 DEF Timer
<1>4. /\ (Cleared(u) <=> Cleared(m)) /\ (Spoilt(u) <=> Spoilt(m))
      /\ (IsIdle(u) <=> IsIdle(m)) /\ (Counting(u) <=> Counting(m))
  BY <1>2, <1>3 DEF Cleared, Spoilt, IsIdle, Counting
<1>5. Receiving(u) /\ Serving(u) /\ (GoesOn(m) => GoesOn(u))
  BY <1>2, <1>3 DEF Sound, Core, Receiving, Serving, GoesOn
<1>6. Transmitting(u) /\ Deferring(u)
  BY <1>2, <1>3 DEF Sound, Core, Transmitting, Deferring
<1>7. Following(u)
  BY <1>2, <1>3, <1>4 DEF Sound, Core, Following
<1>8. Radiating(u)
  BY <1>1 DEF Radiating
<1>9. BackingOff(u)
  BY <1>2, <1>3, <1>4 DEF Sound, Core, BackingOff
<1>10. Undisturbed(u)
  <2>1. m.tx = "ACK" => m.timer["send"] = 0
    BY <1>0 DEF Sound, Undisturbed
  <2> QED
    BY <1>1, <1>2, <1>3, <1>4, <2>1 DEF Sound, Undisturbed
<1> QED
  BY <1>2, <1>5, <1>6, <1>7, <1>8, <1>9, <1>10 DEF Handles, Sound, Core

(* navHandler() *)
LEMMA NavHandlerStep ==
    ASSUME NEW m, Sound(m), m.timer["nav"] = 0
    PROVE  Handles(m, NavHandler([m EXCEPT !.timer["nav"] = Off]))
<1> DEFINE v == [m EXCEPT !.timer["nav"] = Off]
           u == NavHandler(v)
<1> SUFFICES Handles(m, u)
  OBVIOUS
<1>0. Off = -1 /\ SIFS = 10 /\ DIFS = 50 /\ "nav" \in Timer /\ IsMac(m)
  BY Times DEF Off, Timer, Sound, Core
<1>1. /\ Changes(m, v, {"timer"}) /\ v.timer["nav"] = Off
      /\ \A s \in Timer \ {"nav"} : v.timer[s] = m.timer[s]
  BY <1>0, TimerOff
<1> HIDE DEF v
<1>2. IsMac(v) /\ v.backoff = m.backoff /\ v.tx = m.tx /\ v.rx = m.rx
  BY <1>1 DEF Changes, Field
<1>3. IsIdle(v) <=> IsIdle(m)
  BY <1>0, <1>1, <1>2 DEF IsIdle
<1>4. Paces(v) /\ (Counting(v) => IsIdle(v))
  BY <1>2, <1>3 DEF Sound, Core, BackingOff, Paces, Counting
<1>5. u = CheckBackoff(v)
  BY <1>4 DEF NavHandler, CheckBackoff, Counting
<1> HIDE DEF u
<1>6. Changes(v, u, {"backoff"}) /\ InPace(v, u)
  BY <1>2, <1>4, <1>5, CheckBackoffStep
<1>7. /\ IsMac(u) /\ u.self = m.self /\ u.tx = m.tx /\ u.rx = m.rx
      /\ u.pktTx = m.pktTx /\ u.pktRTS = m.pktRTS /\ u.pktCTRL = m.pktCTRL
      /\ u.pktRx = m.pktRx /\ u.callback = m.callback /\ u.blocked = m.blocked
      /\ u.error = m.error /\ u.timer = v.timer /\ u.backoff.on = m.backoff.on
  BY <1>1, <1>6 DEF Changes, Field, InPace
<1>8. /\ u.timer["send"] = m.timer["send"] /\ u.timer["recv"] = m.timer["recv"]
      /\ u.timer["defer"] = m.timer["defer"] /\ u.timer["if"] = m.timer["if"]
  BY <1>1, <1>7 DEF Timer
<1>9. (Cleared(u) <=> Cleared(m)) /\ (Spoilt(u) <=> Spoilt(m))
  BY <1>7 DEF Cleared, Spoilt
<1>10. Receiving(u) /\ Serving(u) /\ (GoesOn(m) => GoesOn(u))
  BY <1>7, <1>8 DEF Sound, Core, Receiving, Serving, GoesOn
<1>11. Transmitting(u) /\ Deferring(u)
  BY <1>7, <1>8 DEF Sound, Core, Transmitting, Deferring
<1>12. Following(u)
  BY <1>7, <1>8, <1>9 DEF Sound, Core, Following
<1>13. u.backoff.left \in Int /\ m.timer["if"] \in Int
  BY <1>0, <1>7, MacFields, TimerIsInt
<1>14. /\ Counting(u) => IsIdle(u) /\ u.backoff.left >= 0
       /\ u.backoff.paused => u.backoff.on /\ ~IsIdle(u)
  BY <1>0, <1>4, <1>6, <1>13 DEF InPace, Paces, Counting
<1>15. BackingOff(u)
  BY <1>0, <1>1, <1>7, <1>14 DEF BackingOff, IsIdle
<1>16. Radiating(u)
  <2>1. Counting(u) => \/ Counting(m) /\ u.backoff.left = m.backoff.left
                       \/ u.backoff.left >= DIFS
    BY <1>2, <1>6 DEF InPace, Counting
  <2>2. Counting(u) => m.timer["send"] = Off
    BY <1>7, <1>14 DEF Sound, Core, Transmitting, IsIdle
  <2> QED
    BY <1>0, <1>8, <1>13, <2>1, <2>2 DEF Sound, Core, Radiating
<1>17. Undisturbed(u)
  BY <1>7, <1>8, <1>9 DEF Sound, Undisturbed
<1> QED
  BY <1>7, <1>10, <1>11, <1>12, <1>15, <1>16, <1>17 DEF Handles, Sound, Core

(* What tx_resume() makes of a MAC whose transmitter is done *)
LEMMA ResumedCore ==
    ASSUME NEW m, NEW u, Resumed(m, u), m.timer["send"] = Off,
           m.timer["if"] \in {Off, 0},
           Cleared(m) /\ m.pktCTRL # None => m.pktCTRL.kind = "ACK"
    PROVE  Core(u) /\ u.self = m.self /\ GoesOn(u)
<1>1. Off = -1 /\ SIFS = 10 /\ DIFS = 50
  BY Times DEF Off
<1>2. /\ IsMac(u) /\ u.self = m.self /\ u.rx = m.rx /\ u.pktCTRL = m.pktCTRL
      /\ u.tx = "IDLE" /\ u.timer["send"] = Off
      /\ u.timer["if"] = m.timer["if"]
  BY DEF Resumed, Changes, Field, ResumeChanges, SendChanges, Timer
<1>3. Transmitting(u) /\ Serving(u) /\ GoesOn(u)
  BY <1>2 DEF Resumed, Transmitting
<1>4. Deferring(u)
  BY <1>1, <1>2 DEF Resumed, Deferring
<1>5. Following(u)
  BY <1>2 DEF Resumed, Following
<1>6. u.backoff.left \in Int
  BY <1>2, MacFields
<1>7. Radiating(u)
  BY <1>1, <1>2, <1>6 DEF Resumed, Radiating
<1>8. u.timer["nav"] \in Int /\ u.timer["nav"] >= Off
  BY <1>2, TimerIsInt
<1>9. BackingOff(u)
  BY <1>1, <1>2, <1>6, <1>8 DEF Resumed, BackingOff, Counting, IsIdle
<1> QED
  BY <1>2, <1>3, <1>4, <1>5, <1>7, <1>9 DEF Core

-----------------------------------------------------------------------------
(* send_timer() and what it calls.                                         *)

(* w is m after its frame was given up or is to be sent again. *)
RetryChanges == {"ssrc", "slrc", "given", "pktTx", "pktRTS", "backoff"}
Retried(m, w) ==
    /\ Changes(m, w, RetryChanges) /\ Serving(w) /\ ~Cleared(w)
    /\ w.backoff.paused = w.backoff.on

(* A MAC whose data was not acknowledged or whose RTS was not answered *)
Failed(m) ==
    /\ IsMac(m) /\ m.tx # "IDLE" /\ m.pktTx \in Packet /\ m.pktTx # None
    /\ ~m.backoff.on /\ ~m.backoff.paused /\ Serving(m)

LEMMA GiveUpStep ==
    ASSUME NEW m, Failed(m), NEW v, Changes(m, v, {"ssrc", "slrc"})
    PROVE  /\ Changes(v, GiveUp(v), {"given", "pktTx", "pktRTS"})
           /\ Retried(m, GiveUp(v)) /\ ~GiveUp(v).backoff.on
           /\ ~IsIdle(GiveUp(v))
<1> DEFINE u == GiveUp(v)
<1>1. /\ Changes(v, u, {"given", "pktTx", "pktRTS"})
      /\ u.pktTx = None /\ ~u.pktRTS
  BY DEF GiveUp, Changes, IsMac, Field
<1> HIDE DEF u
<1>2. Changes(m, u, RetryChanges)
  BY <1>1 DEF Changes, Field, RetryChanges
<1>3. /\ u.backoff = m.backoff /\ u.tx = m.tx
      /\ u.callback = m.callback /\ u.blocked = m.blocked
  BY <1>1 DEF Changes, Field
<1>4. Serving(u) /\ ~Cleared(u) /\ ~u.backoff.on /\ ~IsIdle(u)
  BY <1>1, <1>3 DEF Failed, Serving, Cleared, IsIdle
<1>5. u.backoff.paused = u.backoff.on
  <2>1. u.backoff.on \in BOOLEAN /\ u.backoff.paused \in BOOLEAN
    BY <1>1, MacFields DEF Changes
  <2> QED
    BY <1>3, <2>1 DEF Failed
<1> QED
  BY <1>1, <1>2, <1>4, <1>5 DEF Retried, u

(* Clearing a count after that makes no difference. *)
LEMMA CountsCleared ==
    ASSUME NEW m, NEW w, Retried(m, w)
    PROVE  /\ Retried(m, [w EXCEPT !.ssrc = 0])
           /\ Retried(m, [w EXCEPT !.slrc = 0])
<1>1. ASSUME NEW u, Changes(w, u, {"ssrc", "slrc"})
      PROVE  Retried(m, u)
  <2>1. Changes(m, u, RetryChanges)
    BY <1>1 DEF Retried, Changes, Field, RetryChanges
  <2>2. /\ u.backoff = w.backoff /\ u.pktTx = w.pktTx /\ u.pktRTS = w.pktRTS
        /\ u.callback = w.callback /\ u.blocked = w.blocked
    BY <1>1 DEF Changes, Field
  <2> QED
    BY <2>1, <2>2 DEF Retried, Serving, Cleared
<1>2. Changes(w, [w EXCEPT !.ssrc = 0], {"ssrc", "slrc"})
  BY DEF Retried, Changes, IsMac, Field
<1>3. Changes(w, [w EXCEPT !.slrc = 0], {"ssrc", "slrc"})
  BY DEF Retried, Changes, IsMac, Field
<1> QED
  BY <1>1, <1>2, <1>3

(* A backoff before the next attempt, which the state of the transmitter   *)
(* makes wait.                                                             *)
LEMMA RetryStep ==
    ASSUME NEW m, Failed(m), NEW v, Changes(m, v, RetryChanges), Serving(v),
           ~Cleared(v), ~v.backoff.on, NEW r \in Slots
    PROVE  Retried(m, StartBackoff(v, r, 0))
<1> DEFINE u == StartBackoff(v, r, 0)
<1>1. IsMac(v) /\ v.tx = m.tx /\ ~IsIdle(v)
  BY DEF Changes, Field, RetryChanges, Failed, IsIdle
<1>2. Changes(v, u, {"backoff"}) /\ Fresh(u)
  BY <1>1, StartBackoffStep
<1> HIDE DEF u
<1>3. /\ u.tx = m.tx /\ u.pktTx = v.pktTx /\ u.pktRTS = v.pktRTS
      /\ u.callback = v.callback /\ u.blocked = v.blocked
      /\ Changes(m, u, RetryChanges)
  BY <1>1, <1>2 DEF Changes, Field, RetryChanges
<1>4. Serving(u) /\ ~Cleared(u) /\ ~IsIdle(u)
  BY <1>3 DEF Serving, Cleared, Failed, IsIdle
<1>5. u.backoff.paused = u.backoff.on
  <2>1. u.backoff.on \in BOOLEAN /\ u.backoff.paused \in BOOLEAN
    BY <1>2, MacFields DEF Changes
  <2> QED
    BY <1>2, <1>4, <2>1 DEF Fresh
<1> QED
  BY <1>3, <1>4, <1>5 DEF Retried, u

(* RetransmitRTS() *)
LEMMA RetransmitRTSStep ==
    ASSUME NEW m, Failed(m), m.pktRTS, NEW r \in Slots
    PROVE  Retried(m, RetransmitRTS(m, r))
<1> DEFINE v == [m EXCEPT !.ssrc = @ + 1]
           u == RetransmitRTS(m, r)
<1>1. u = IF v.ssrc >= ShortRetryLimit THEN [GiveUp(v) EXCEPT !.ssrc = 0]
          ELSE StartBackoff(v, r, 0)
  BY CheckHolds DEF RetransmitRTS, Failed
<1>2. Changes(m, v, {"ssrc", "slrc"})
  BY DEF Failed, Changes, IsMac, Field
<1> HIDE DEF v
<1>3. Retried(m, [GiveUp(v) EXCEPT !.ssrc = 0])
  BY <1>2, GiveUpStep, CountsCleared
<1>4. Retried(m, StartBackoff(v, r, 0))
  <2>1. /\ v.pktTx = m.pktTx /\ v.pktRTS = m.pktRTS /\ v.backoff = m.backoff
        /\ v.callback = m.callback /\ v.blocked = m.blocked
        /\ Changes(m, v, RetryChanges)
    BY <1>2 DEF Changes, Field, RetryChanges
  <2>2. Serving(v) /\ ~Cleared(v) /\ ~v.backoff.on
    BY <2>1 DEF Failed, Serving, Cleared
  <2> QED
    BY <2>1, <2>2, RetryStep
<1> QED
  BY <1>1, <1>3, <1>4

(* RetransmitDATA() *)
LEMMA RetransmitDATAStep ==
    ASSUME NEW m, Failed(m), ~m.pktRTS, NEW r \in Slots
    PROVE  Retried(m, RetransmitDATA(m, r))
<1> DEFINE v == IF IsShort(m.pktTx) THEN [m EXCEPT !.ssrc = @ + 1]
                                    ELSE [m EXCEPT !.slrc = @ + 1]
           u == RetransmitDATA(m, r)
<1>1. u = IF NextHop[m.pktTx] = Everyone THEN StartBackoff(GiveUp(m), r, 0)
          ELSE IF IsShort(m.pktTx) /\ v.ssrc >= ShortRetryLimit
            THEN [GiveUp(v) EXCEPT !.ssrc = 0]
          ELSE IF ~IsShort(m.pktTx) /\ v.slrc >= LongRetryLimit
            THEN [GiveUp(v) EXCEPT !.slrc = 0]
          ELSE StartBackoff(SendRTS(v), r, 0)
  BY CheckHolds DEF RetransmitDATA, Failed
<1>2. Changes(m, v, {"ssrc", "slrc"})
  BY DEF Failed, Changes, IsMac, Field
<1>3. Changes(m, m, {"ssrc", "slrc"})
  BY DEF Failed, Changes
<1> HIDE DEF v
<1>4. Retried(m, StartBackoff(GiveUp(m), r, 0))
  <2> DEFINE w == GiveUp(m)
  <2>1. Retried(m, w) /\ ~w.backoff.on
    BY <1>3, GiveUpStep
  <2> HIDE DEF w
  <2>2. Retried(m, StartBackoff(w, r, 0))
    BY <2>1, RetryStep DEF Retried
  <2> QED
    BY <2>2 DEF w
<1>5. Retried(m, [GiveUp(v) EXCEPT !.ssrc = 0]) /\ Retried(m, [GiveUp(v) EXCEPT !.slrc = 0])
  BY <1>2, GiveUpStep, CountsCleared
<1>6. Retried(m, StartBackoff(SendRTS(v), r, 0))
  <2> DEFINE w == SendRTS(v)
  <2>1. /\ v.pktTx = m.pktTx /\ v.pktRTS = m.pktRTS /\ v.backoff = m.backoff
        /\ v.callback = m.callback /\ v.blocked = m.blocked /\ IsMac(v)
    BY <1>2 DEF Changes, Field
  <2>2. Changes(v, w, {"pktRTS"}) /\ w.pktRTS = NeedsRTS(m.pktTx)
    BY <2>1, SendRTSStep DEF Failed
  <2> HIDE DEF w
  <2>3. /\ w.pktTx = m.pktTx /\ w.backoff = m.backoff
        /\ w.callback = m.callback /\ w.blocked = m.blocked
        /\ Changes(m, w, RetryChanges)
    BY <1>2, <2>1, <2>2 DEF Changes, Field, RetryChanges
  <2>4. Serving(w) /\ ~Cleared(w) /\ ~w.backoff.on
    BY <2>2, <2>3 DEF Failed, Serving, Cleared
  <2>5. Retried(m, StartBackoff(w, r, 0))
    BY <2>3, <2>4, RetryStep
  <2> QED
    BY <2>5 DEF w
<1> QED
  BY <1>1, <1>4, <1>5, <1>6

(* send_timer() *)
LEMMA SendHandlerStep ==
    ASSUME BugFixTimer, NEW m, Sound(m), m.timer["send"] = 0, NEW r \in Slots
    PROVE  Handles(m, SendHandler([m EXCEPT !.timer["send"] = Off], r))
<1> DEFINE v == [m EXCEPT !.timer["send"] = Off]
           u == SendHandler(v, r)
           w == CASE v.tx = "RTS"  -> RetransmitRTS(v, r)
                  [] v.tx = "SEND" -> RetransmitDATA(v, r)
                  [] v.tx \in {"CTS", "ACK"} ->
                       [Check(v, v.pktCTRL # None) EXCEPT !.pktCTRL = None]
                  [] v.tx = "IDLE" -> v
           G == RetryChanges \cup {"pktCTRL"}
<1> SUFFICES Handles(m, u)
  OBVIOUS
<1>0. Off = -1 /\ SIFS = 10 /\ "send" \in Timer /\ IsMac(m)
  BY Times DEF Off, Timer, Sound, Core
<1>1. /\ Changes(m, v, {"timer"}) /\ v.timer["send"] = Off
      /\ \A s \in Timer \ {"send"} : v.timer[s] = m.timer[s]
  BY <1>0, TimerOff
<1>2. u = TxResume(w, r)
  BY DEF SendHandler
<1> HIDE DEF v, u, w, G
<1>3. /\ IsMac(v) /\ v.self = m.self /\ v.tx = m.tx /\ v.rx = m.rx
      /\ v.pktTx = m.pktTx /\ v.pktRTS = m.pktRTS /\ v.pktCTRL = m.pktCTRL
      /\ v.pktRx = m.pktRx /\ v.callback = m.callback /\ v.blocked = m.blocked
      /\ v.backoff = m.backoff /\ v.error = m.error
      /\ v.pktTx \in Packet \cup {None} /\ v.tx \in {"IDLE", "RTS", "CTS", "SEND", "ACK"}
  BY <1>1 DEF Changes, Field, IsMac
<1>4. /\ v.timer["recv"] = m.timer["recv"] /\ v.timer["defer"] = m.timer["defer"]
      /\ v.timer["if"] = m.timer["if"]
  BY <1>1 DEF Timer
<1>5. v.tx # "IDLE" /\ v.timer["defer"] = Off
  BY <1>0, <1>3, <1>4 DEF Sound, Core, Transmitting
<1>6. /\ v.backoff.on \in BOOLEAN /\ v.backoff.paused \in BOOLEAN
      /\ v.backoff.paused = v.backoff.on
  <2>1. v.backoff.on \in BOOLEAN /\ v.backoff.paused \in BOOLEAN
    BY <1>3, MacFields
  <2>2. ~Counting(m) /\ (m.backoff.paused => m.backoff.on)
    BY <1>3, <1>5 DEF Sound, Core, BackingOff, IsIdle
  <2> QED
    BY <1>3, <2>1, <2>2 DEF Counting
<1>7. m.timer["if"] \in {Off, 0}
  <2>1. m.timer["if"] \in Int /\ m.timer["if"] >= Off
    BY <1>0, TimerIsInt
  <2> QED
    BY <1>0, <2>1 DEF Sound, Core, Radiating
<1>8. Serving(v) /\ (Cleared(v) <=> Cleared(m))
  BY <1>3 DEF Sound, Core, Serving, Cleared
<1>9. /\ Changes(v, w, G) /\ Serving(w) /\ w.backoff.paused = w.backoff.on
      /\ Cleared(w) => m.tx = "ACK" /\ w.pktCTRL = None /\ ~w.backoff.on
  <2>1. CASE v.tx = "RTS"
    <3>1. Failed(v) /\ v.pktRTS
      BY <1>3, <1>6, <1>8, <2>1 DEF Failed, Sound, Core, Transmitting, Serving
    <3>2. w = RetransmitRTS(v, r)
      BY <2>1 DEF w
    <3>3. Retried(v, w)
      BY <3>1, <3>2, RetransmitRTSStep
    <3>4. Changes(v, w, G)
      BY <3>3 DEF Retried, Changes, G
    <3> QED
      BY <3>3, <3>4 DEF Retried
  <2>2. CASE v.tx = "SEND"
    <3>1. Failed(v) /\ ~v.pktRTS
      BY <1>3, <1>6, <1>8, <2>2 DEF Failed, Sound, Core, Transmitting, Serving
    <3>2. w = RetransmitDATA(v, r)
      BY <2>2 DEF w
    <3>3. Retried(v, w)
      BY <3>1, <3>2, RetransmitDATAStep
    <3>4. Changes(v, w, G)
      BY <3>3 DEF Retried, Changes, G
    <3> QED
      BY <3>3, <3>4 DEF Retried
  <2>3. CASE v.tx \in {"CTS", "ACK"}
    <3>1. v.pktCTRL # None
      BY <1>3, <2>3 DEF Sound, Core, Transmitting
    <3>2. Check(v, v.pktCTRL # None) = v
      BY <3>1, CheckHolds
    <3>3. w = [v EXCEPT !.pktCTRL = None]
      BY <2>3, <3>2 DEF w
    <3>4. Changes(v, w, {"pktCTRL"}) /\ w.pktCTRL = None
      BY <1>3, <3>3 DEF IsMac, Changes, Field
    <3>5. /\ w.pktTx = v.pktTx /\ w.pktRTS = v.pktRTS /\ w.backoff = v.backoff
          /\ w.callback = v.callback /\ w.blocked = v.blocked /\ Changes(v, w, G)
      BY <3>4 DEF Changes, Field, G, RetryChanges
    <3>6. Serving(w) /\ (Cleared(w) <=> Cleared(m))
      BY <1>8, <3>5 DEF Serving, Cleared
    <3>7. Cleared(m) => m.tx = "ACK" /\ ~m.backoff.on
      BY <1>3, <1>4, <1>5, <2>3 DEF Sound, Core, Following
    <3> QED
      BY <1>3, <1>6, <3>4, <3>5, <3>6, <3>7
  <2> QED
    BY <1>3, <1>5, <2>1, <2>2, <2>3
<1>10. /\ IsMac(w) /\ w.timer = v.timer /\ w.rx = v.rx /\ w.error = v.error
       /\ w.self = v.self /\ w.pktRx = v.pktRx
  BY <1>9 DEF Changes, Field, G, RetryChanges
<1>11. Resumable(w)
  BY <1>1, <1>5, <1>9, <1>10 DEF Resumable
<1>12. Resumed(w, u)
  BY <1>2, <1>11, TxResumeStep
<1>13. Core(u) /\ u.self = w.self /\ GoesOn(u)
  BY <1>1, <1>4, <1>7, <1>9, <1>10, <1>12, ResumedCore
<1>14. /\ u.rx = m.rx /\ u.error = m.error /\ u.pktRx = m.pktRx
       /\ u.pktCTRL = w.pktCTRL /\ u.tx = "IDLE"
       /\ u.timer["recv"] = m.timer["recv"]
  BY <1>3, <1>4, <1>10, <1>12
  DEF Resumed, Changes, Field, ResumeChanges, SendChanges, Timer
<1>15. Receiving(u) /\ (Spoilt(u) <=> Spoilt(m))
  BY <1>14 DEF Sound, Receiving, Spoilt
<1>16. Undisturbed(u)
  <2> SUFFICES ASSUME u.pktCTRL = None, u.timer["defer"] # Off
               PROVE  u.rx = "IDLE" \/ Spoilt(u) \/ u.timer["recv"] > u.timer["defer"]
    BY <1>14 DEF Undisturbed
  <2>1. Cleared(w) /\ u.timer["defer"] = SIFS
    BY <1>12 DEF Resumed
  <2> QED
    BY <1>9, <1>14, <1>15, <2>1 DEF Sound, Undisturbed
<1> QED
  BY <1>3, <1>10, <1>13, <1>15, <1>16 DEF Handles, Sound

-----------------------------------------------------------------------------
(* recv_timer() and what it calls.                                         *)

(* A MAC within recv_timer() *)
Between(m) == Core(m) /\ m.rx # "IDLE" /\ m.timer["recv"] = Off

(* ... that takes the frame: it is not transmitting, and nothing follows   *)
(* its last one. *)
Quiet(m) ==
    /\ Between(m) /\ m.timer["if"] = Off /\ m.tx # "ACK"
    /\ m.pktCTRL = None => m.timer["defer"] = Off

(* u is what a part of recv_timer() may make of m. *)
Goes(m, u) ==
    /\ Between(u) /\ u.self = m.self
    /\ u.tx = "ACK" => m.tx = "ACK"
    /\ GoesOn(m) => GoesOn(u)

LEMMA PausedWhileReceiving ==
    ASSUME NEW m, Core(m), m.rx # "IDLE" \/ m.tx # "IDLE"
    PROVE  /\ m.backoff.paused = m.backoff.on /\ ~Counting(m)
           /\ m.backoff.on \in BOOLEAN
<1>1. /\ m.backoff.on \in BOOLEAN /\ m.backoff.paused \in BOOLEAN
  BY MacFields DEF Core
<1>2. ~Counting(m) /\ (m.backoff.paused => m.backoff.on)
  BY DEF Core, BackingOff, IsIdle
<1> QED
  BY <1>1, <1>2 DEF Counting

(* Fields the control does not depend on. *)
Aside == {"cache", "up", "pktRx", "error", "ssrc", "slrc", "acked", "given"}

LEMMA CoreKept ==
    ASSUME NEW m, NEW u, Core(m), Changes(m, u, Aside)
    PROVE  /\ Core(u) /\ u.rx = m.rx /\ u.timer = m.timer /\ u.self = m.self
           /\ u.tx = m.tx /\ (GoesOn(u) <=> GoesOn(m))
<1>1. /\ IsMac(u) /\ u.self = m.self /\ u.tx = m.tx /\ u.rx = m.rx
      /\ u.pktTx = m.pktTx /\ u.pktRTS = m.pktRTS /\ u.pktCTRL = m.pktCTRL
      /\ u.callback = m.callback /\ u.blocked = m.blocked
      /\ u.backoff = m.backoff /\ u.timer = m.timer
  BY DEF Changes, Field, Aside
<1>2. /\ (Cleared(u) <=> Cleared(m)) /\ (IsIdle(u) <=> IsIdle(m))
      /\ (Counting(u) <=> Counting(m)) /\ (GoesOn(u) <=> GoesOn(m))
  BY <1>1 DEF Cleared, IsIdle, Counting, GoesOn
<1>3. Transmitting(u) /\ Deferring(u) /\ Serving(u)
  BY <1>1 DEF Core, Transmitting, Deferring, Serving
<1>4. Following(u) /\ Radiating(u) /\ BackingOff(u)
  BY <1>1, <1>2 DEF Core, Following, Radiating, BackingOff
<1> QED
  BY <1>1, <1>2, <1>3, <1>4 DEF Core

(* The end of recvDATA() *)
LEMMA PassUpStep ==
    ASSUME NEW m, IsMac(m), NEW f
    PROVE  Changes(m, PassUp(m, f), {"cache", "up"})
<1> DEFINE drop == f.ra # Everyone /\ m.cache[f.ta] # 0 /\ m.cache[f.ta] = f.seq
           c == [m.cache EXCEPT ![f.ta] = IF f.ra = Everyone THEN @ ELSE f.seq]
           q == Append(m.up, f)
<1>1. CASE drop
  <2>1. PassUp(m, f) = m
    BY <1>1 DEF PassUp
  <2> QED
    BY <2>1 DEF Changes
<1>2. CASE ~drop
  <2>1. PassUp(m, f) = [m EXCEPT !.cache = c, !.up = q]
    BY <1>2 DEF PassUp
  <2> HIDE DEF c, q
  <2>2. Changes(m, [m EXCEPT !.cache = c, !.up = q], {"cache", "up"})
    BY DEF Changes, IsMac, Field
  <2> QED
    BY <2>1, <2>2
<1> QED
  BY <1>1, <1>2

LEMMA PassUpGoes ==
    ASSUME NEW m, NEW u, Goes(m, u), NEW f
    PROVE  Goes(m, PassUp(u, f))
<1> DEFINE w == PassUp(u, f)
<1>1. Changes(u, w, {"cache", "up"})
  BY PassUpStep DEF Goes, Between, Core
<1> HIDE DEF w
<1>2. Changes(u, w, Aside)
  BY <1>1 DEF Changes, Aside
<1>3. /\ Core(w) /\ w.rx = u.rx /\ w.timer = u.timer /\ w.self = u.self
      /\ w.tx = u.tx /\ (GoesOn(w) <=> GoesOn(u))
  BY <1>2, CoreKept DEF Goes, Between
<1> QED
  BY <1>3 DEF Goes, Between, w

LEMMA GoesAsIs ==
    ASSUME NEW m, Between(m)
    PROVE  Goes(m, m)
BY DEF Goes

(* tx_resume() called with the last bit *)
LEMMA ResumeGoes ==
    ASSUME BugFixTimer, NEW m, Quiet(m), NEW w, IsMac(w), NEW r \in Slots,
           w.self = m.self, w.rx = m.rx, w.timer["recv"] = Off,
           w.timer["if"] = Off, Resumable(w),
           Cleared(w) /\ w.pktCTRL # None => w.pktCTRL.kind = "ACK"
    PROVE  Goes(m, TxResume(w, r))
<1> DEFINE u == TxResume(w, r)
<1>1. Resumed(w, u)
  BY TxResumeStep
<1> HIDE DEF u
<1>2. w.timer["send"] = Off /\ w.timer["if"] \in {Off, 0}
  BY DEF Resumable
<1>3. Core(u) /\ u.self = w.self /\ GoesOn(u)
  BY <1>1, <1>2, ResumedCore
<1>4. u.rx = w.rx /\ u.timer["recv"] = Off /\ u.tx = "IDLE"
  BY <1>1 DEF Resumed, Changes, Field, ResumeChanges, SendChanges, Timer
<1> QED
  BY <1>3, <1>4 DEF Goes, Between, Quiet, u

(* recvRTS() *)
LEMMA RecvRTSStep ==
    ASSUME BugFixTimer, NEW m, Quiet(m), NEW f \in Proper, f.kind = "RTS",
           NEW r \in Slots
    PROVE  Goes(m, RecvRTS(m, f, r))
<1>1. CASE m.tx # "IDLE" \/ m.pktCTRL # None
  BY <1>1, GoesAsIs DEF RecvRTS, Quiet
<1>2. CASE m.tx = "IDLE" /\ m.pktCTRL = None
  <2> DEFINE c == CTSFrame(m.self, f)
             w == [m EXCEPT !.pktCTRL = c, !.timer["defer"] = Off]
  <2>0. IsMac(m) /\ m.self \in Node /\ "defer" \in Timer /\ Off \in Clock
    BY DEF Quiet, Between, Core, IsMac, Timer, Clock, Off
  <2>1. c \in Answer /\ c.kind = "CTS"
    BY <2>0, CTSIsAnswer
  <2>2. RecvRTS(m, f, r) = TxResume(w, r)
    BY <1>2 DEF RecvRTS
  <2> HIDE DEF c
  <2>3. /\ Changes(m, w, {"pktCTRL", "timer"}) /\ w.pktCTRL = c
        /\ w.timer["defer"] = Off
        /\ \A s \in Timer \ {"defer"} : w.timer[s] = m.timer[s]
    BY <2>0, <2>1 DEF IsMac, Changes, Field
  <2> HIDE DEF w
  <2>4. /\ IsMac(w) /\ w.self = m.self /\ w.rx = m.rx /\ w.pktTx = m.pktTx
        /\ w.pktRTS = m.pktRTS /\ w.callback = m.callback
        /\ w.blocked = m.blocked /\ w.backoff = m.backoff
    BY <2>3 DEF Changes, Field
  <2>5. /\ w.timer["recv"] = m.timer["recv"] /\ w.timer["if"] = m.timer["if"]
        /\ w.timer["send"] = m.timer["send"]
    BY <2>3 DEF Timer
  <2>6. ~Cleared(m) /\ m.timer["send"] = Off
    BY <1>2 DEF Quiet, Between, Core, Following, Transmitting
  <2>7. ~Cleared(w) /\ Serving(w)
    BY <2>4, <2>6 DEF Cleared, Serving, Quiet, Between, Core
  <2>8. w.backoff.paused = w.backoff.on
    BY <2>4, PausedWhileReceiving DEF Quiet, Between
  <2>9. Resumable(w)
    BY <2>3, <2>4, <2>5, <2>6, <2>7, <2>8 DEF Resumable
  <2> QED
    BY <2>2, <2>4, <2>5, <2>7, <2>9, ResumeGoes DEF Quiet, Between
<1> QED
  BY <1>1, <1>2

(* recvCTS() *)
LEMMA RecvCTSStep ==
    ASSUME BugFixTimer, NEW m, Quiet(m), NEW r \in Slots
    PROVE  Goes(m, RecvCTS(m, r))
<1>1. CASE m.tx # "RTS"
  BY <1>1, GoesAsIs DEF RecvCTS, Quiet
<1>2. CASE m.tx = "RTS"
  <2> DEFINE v == StopTimer(m, "send")
             w == [v EXCEPT !.pktRTS = FALSE, !.ssrc = 0]
  <2>0. /\ IsMac(m) /\ m.pktRTS /\ m.pktTx # None
        /\ m.timer["send"] # Off /\ m.timer["defer"] = Off /\ ~m.backoff.on
    BY <1>2 DEF Quiet, Between, Core, Transmitting, Serving
  <2>1. RecvCTS(m, r) = TxResume(w, r)
    BY <1>2, <2>0, CheckHolds DEF RecvCTS
  <2>2. /\ Changes(m, v, {"timer"}) /\ v.timer["send"] = Off
        /\ \A s \in Timer \ {"send"} : v.timer[s] = m.timer[s]
    BY <2>0, StopTimerStep DEF Timer
  <2> HIDE DEF v
  <2>3. Changes(v, w, {"pktRTS", "ssrc"}) /\ w.pktRTS = FALSE
    BY <2>2 DEF IsMac, Changes, Field
  <2> HIDE DEF w
  <2>4. /\ IsMac(w) /\ w.self = m.self /\ w.rx = m.rx /\ w.pktTx = m.pktTx
        /\ w.callback = m.callback /\ w.pktCTRL = m.pktCTRL
        /\ w.blocked = m.blocked /\ w.backoff = m.backoff /\ w.timer = v.timer
    BY <2>2, <2>3 DEF Changes, Field
  <2>5. /\ w.timer["recv"] = m.timer["recv"] /\ w.timer["if"] = m.timer["if"]
        /\ w.timer["send"] = Off /\ w.timer["defer"] = Off
    BY <2>0, <2>2, <2>4 DEF Timer
  <2>6. Serving(w)
    BY <2>3, <2>4 DEF Serving, Quiet, Between, Core
  <2>7. w.backoff.paused = w.backoff.on /\ ~w.backoff.on
    BY <2>0, <2>4, PausedWhileReceiving DEF Quiet, Between
  <2>8. Resumable(w)
    BY <2>4, <2>5, <2>6, <2>7 DEF Resumable
  <2>9. w.pktCTRL # None => w.pktCTRL.kind = "ACK"
    BY <1>2, <2>4 DEF Quiet, Between, Core, Following
  <2> QED
    BY <2>1, <2>4, <2>5, <2>8, <2>9, ResumeGoes DEF Quiet, Between
<1> QED
  BY <1>1, <1>2

(* A MAC that gets what is to be answered into pktCTRL_ *)
LEMMA AnswerSet ==
    ASSUME NEW m, IsMac(m), NEW c \in Answer
    PROVE  LET u == [m EXCEPT !.pktCTRL = c]
           IN  Changes(m, u, {"pktCTRL"}) /\ u.pktCTRL = c
BY DEF IsMac, Changes, Field

(* recvDATA() of a frame whose CTS was sent: the exchange goes on.         *)
LEMMA AnnouncedDATAStep ==
    ASSUME BugFixTimer, NEW m, Quiet(m), m.tx = "CTS", NEW c \in Answer,
           NEW r \in Slots
    PROVE  LET v == StopTimer([Check(m, m.pktCTRL # None)
                                 EXCEPT !.pktCTRL = None], "send")
           IN  Goes(m, TxResume([Check(v, v.pktCTRL = None)
                                   EXCEPT !.pktCTRL = c], r))
<1> DEFINE x == [m EXCEPT !.pktCTRL = None]
           v == StopTimer(x, "send")
           w == [v EXCEPT !.pktCTRL = c]
<1>0. /\ IsMac(m) /\ m.pktCTRL # None /\ m.timer["send"] # Off
      /\ m.timer["defer"] = Off /\ m.timer["recv"] = Off /\ m.timer["if"] = Off
      /\ ~Cleared(m) /\ Serving(m)
  BY DEF Quiet, Between, Core, Transmitting, Following
<1>1. Changes(m, x, {"pktCTRL"}) /\ x.pktCTRL = None
  BY <1>0 DEF IsMac, Changes, Field
<1>2. Check(m, m.pktCTRL # None) = m
  BY <1>0, CheckHolds
<1> HIDE DEF x
<1>3. IsMac(x) /\ x.timer = m.timer
  BY <1>1 DEF Changes, Field
<1>4. /\ Changes(x, v, {"timer"}) /\ v.timer["send"] = Off
      /\ \A s \in Timer \ {"send"} : v.timer[s] = m.timer[s]
  BY <1>0, <1>3, StopTimerStep DEF Timer
<1> HIDE DEF v
<1>5. IsMac(v) /\ v.pktCTRL = None
  BY <1>1, <1>4 DEF Changes, Field
<1>6. Check(v, v.pktCTRL = None) = v
  BY <1>5, CheckHolds
<1>7. Changes(v, w, {"pktCTRL"})
  BY <1>5, AnswerSet
<1> HIDE DEF w
<1>8. /\ IsMac(w) /\ w.self = m.self /\ w.rx = m.rx /\ w.pktTx = m.pktTx
      /\ w.pktRTS = m.pktRTS /\ w.callback = m.callback
      /\ w.blocked = m.blocked /\ w.backoff = m.backoff /\ w.timer = v.timer
  BY <1>1, <1>4, <1>7 DEF Changes, Field
<1>9. /\ w.timer["recv"] = Off /\ w.timer["if"] = Off
      /\ w.timer["send"] = Off /\ w.timer["defer"] = Off
  BY <1>0, <1>4, <1>8 DEF Timer
<1>10. Serving(w) /\ ~Cleared(w)
  BY <1>0, <1>8 DEF Serving, Cleared
<1>11. w.backoff.paused = w.backoff.on
  BY <1>8, PausedWhileReceiving DEF Quiet, Between
<1>12. Resumable(w)
  BY <1>8, <1>9, <1>10, <1>11 DEF Resumable
<1>13. Goes(m, TxResume(w, r))
  BY <1>8, <1>9, <1>10, <1>12, ResumeGoes
<1> QED
  BY <1>2, <1>6, <1>13 DEF w, v, x

(* recvDATA() of a frame without RTS: the ACK waits until what is being    *)
(* transmitted is over ...                                                 *)
LEMMA PlainDATAWaits ==
    ASSUME NEW m, Quiet(m), m.pktCTRL = None, m.timer["send"] # Off,
           NEW c \in Answer, c.kind = "ACK"
    PROVE  Goes(m, [Check(m, m.pktCTRL = None) EXCEPT !.pktCTRL = c])
<1> DEFINE w == [m EXCEPT !.pktCTRL = c]
<1>0. /\ Core(m) /\ IsMac(m) /\ m.tx \in {"RTS", "SEND"} /\ m.timer["defer"] = Off
      /\ ~m.backoff.on
  BY DEF Quiet, Between, Core, Transmitting, IsMac
<1>1. Check(m, m.pktCTRL = None) = m
  BY CheckHolds
<1>2. Changes(m, w, {"pktCTRL"}) /\ w.pktCTRL = c
  BY <1>0, AnswerSet
<1> HIDE DEF w
<1>3. /\ IsMac(w) /\ w.self = m.self /\ w.tx = m.tx /\ w.rx = m.rx
      /\ w.pktTx = m.pktTx /\ w.pktRTS = m.pktRTS /\ w.callback = m.callback
      /\ w.blocked = m.blocked /\ w.backoff = m.backoff /\ w.timer = m.timer
  BY <1>2 DEF Changes, Field
<1>4. /\ (IsIdle(w) <=> IsIdle(m)) /\ (Counting(w) <=> Counting(m))
      /\ (Cleared(w) <=> Cleared(m))
  BY <1>3 DEF IsIdle, Counting, Cleared
<1>5. Transmitting(w) /\ Serving(w) /\ GoesOn(w)
  BY <1>0, <1>3 DEF Core, Transmitting, Serving, GoesOn
<1>6. Deferring(w)
  BY <1>0, <1>3 DEF Core, Deferring
<1>7. Following(w)
  BY <1>0, <1>2, <1>3, <1>4 DEF Core, Following
<1>8. Radiating(w) /\ BackingOff(w)
  BY <1>0, <1>3, <1>4 DEF Core, Radiating, BackingOff
<1> QED
  BY <1>1, <1>3, <1>5, <1>6, <1>7, <1>8 DEF Goes, Between, Quiet, Core, w

(* ... or is sent after a SIFS. *)
LEMMA PlainDATAResumes ==
    ASSUME BugFixTimer, NEW m, Quiet(m), m.pktCTRL = None, m.timer["send"] = Off,
           NEW c \in Answer, NEW r \in Slots
    PROVE  Goes(m, TxResume([Check(m, m.pktCTRL = None) EXCEPT !.pktCTRL = c], r))
<1> DEFINE w == [m EXCEPT !.pktCTRL = c]
<1>0. /\ Core(m) /\ IsMac(m) /\ m.tx = "IDLE" /\ m.timer["defer"] = Off
      /\ m.timer["recv"] = Off /\ m.timer["if"] = Off /\ Serving(m)
      /\ ~Cleared(m)
  BY DEF Quiet, Between, Core, Transmitting, Following
<1>1. Check(m, m.pktCTRL = None) = m
  BY CheckHolds
<1>2. Changes(m, w, {"pktCTRL"}) /\ w.pktCTRL = c
  BY <1>0, AnswerSet
<1> HIDE DEF w
<1>3. /\ IsMac(w) /\ w.self = m.self /\ w.rx = m.rx
      /\ w.pktTx = m.pktTx /\ w.pktRTS = m.pktRTS /\ w.callback = m.callback
      /\ w.blocked = m.blocked /\ w.backoff = m.backoff /\ w.timer = m.timer
  BY <1>2 DEF Changes, Field
<1>4. Serving(w) /\ ~Cleared(w)
  BY <1>0, <1>3 DEF Serving, Cleared
<1>5. w.backoff.paused = w.backoff.on
  BY <1>3, PausedWhileReceiving DEF Quiet, Between
<1>6. Resumable(w)
  BY <1>0, <1>3, <1>4, <1>5 DEF Resumable
<1>7. Goes(m, TxResume(w, r))
  BY <1>0, <1>3, <1>4, <1>6, ResumeGoes
<1> QED
  BY <1>1, <1>7 DEF w

(* recvDATA() *)
LEMMA RecvDATAStep ==
    ASSUME BugFixTimer, NEW m, Quiet(m), NEW f \in Proper, NEW r \in Slots
    PROVE  Goes(m, RecvDATA(m, f, r))
<1> DEFINE c == ACKFrame(m.self, f.ta)
           ack(x) == [Check(x, x.pktCTRL = None) EXCEPT !.pktCTRL = c]
           m1 == StopTimer([Check(m, m.pktCTRL # None) EXCEPT !.pktCTRL = None],
                           "send")
<1>0. c \in Answer /\ c.kind = "ACK"
  BY ACKIsAnswer DEF Quiet, Between, Core, IsMac
<1>1. Goes(m, m)
  BY GoesAsIs DEF Quiet
<1>2. RecvDATA(m, f, r) =
        IF f.ra = Everyone THEN PassUp(m, f)
        ELSE IF Size[f.packet] >= RTSThreshold
          THEN IF m.tx # "CTS" THEN m ELSE PassUp(TxResume(ack(m1), r), f)
        ELSE IF m.pktCTRL # None THEN m
        ELSE IF m.timer["send"] # Off THEN PassUp(ack(m), f)
        ELSE PassUp(TxResume(ack(m), r), f)
  BY DEF RecvDATA
<1>3. ASSUME m.tx = "CTS"
      PROVE  Goes(m, TxResume(ack(m1), r))
  BY <1>0, <1>3, AnnouncedDATAStep
<1>4. ASSUME m.pktCTRL = None, m.timer["send"] # Off
      PROVE  Goes(m, ack(m))
  BY <1>0, <1>4, PlainDATAWaits
<1>5. ASSUME m.pktCTRL = None, m.timer["send"] = Off
      PROVE  Goes(m, TxResume(ack(m), r))
  BY <1>0, <1>5, PlainDATAResumes
<1> HIDE DEF c, ack, m1
<1>6. ASSUME NEW u, Goes(m, u)
      PROVE  Goes(m, PassUp(u, f))
  BY <1>6, PassUpGoes
<1> QED
  BY <1>1, <1>2, <1>3, <1>4, <1>5, <1>6

(* recvACK() *)
LEMMA RecvACKStep ==
    ASSUME BugFixTimer, NEW m, Quiet(m), NEW r \in Slots
    PROVE  Goes(m, RecvACK(m, r))
<1>1. CASE m.tx # "SEND"
  BY <1>1, GoesAsIs DEF RecvACK, Quiet
<1>2. CASE m.tx = "SEND"
  <2> DEFINE p == m.pktTx
             v == StopTimer(m, "send")
             x == IF IsShort(p) THEN [v EXCEPT !.ssrc = 0] ELSE [v EXCEPT !.slrc = 0]
             y == [x EXCEPT !.pktTx = None, !.acked = @ \cup {p}]
             w == StartBackoff(y, r, 0)
  <2>0. /\ Core(m) /\ IsMac(m) /\ m.pktTx # None /\ ~m.pktRTS
        /\ m.timer["send"] # Off /\ m.timer["defer"] = Off /\ ~m.backoff.on
        /\ m.timer["recv"] = Off /\ m.timer["if"] = Off /\ Serving(m)
        /\ m.rx # "IDLE"
    BY <1>2 DEF Quiet, Between, Core, Transmitting
  <2>1. Check(m, p # None) = m
    BY <2>0, CheckHolds
  <2>2. RecvACK(m, r) = TxResume(w, r)
    BY <1>2, <2>1 DEF RecvACK
  <2>3. /\ Changes(m, v, {"timer"}) /\ v.timer["send"] = Off
        /\ \A s \in Timer \ {"send"} : v.timer[s] = m.timer[s]
    BY <2>0, StopTimerStep DEF Timer
  <2> HIDE DEF v
  <2>4. Changes(v, x, {"ssrc", "slrc"})
    <3>1. Changes(v, [v EXCEPT !.ssrc = 0], {"ssrc", "slrc"})
      BY <2>3 DEF IsMac, Changes, Field
    <3>2. Changes(v, [v EXCEPT !.slrc = 0], {"ssrc", "slrc"})
      BY <2>3 DEF IsMac, Changes, Field
    <3> QED
      BY <3>1, <3>2
  <2> HIDE DEF x, p
  <2>5. Changes(x, y, {"pktTx", "acked"}) /\ y.pktTx = None
    BY <2>4 DEF IsMac, Changes, Field
  <2> HIDE DEF y
  <2>6. /\ IsMac(y) /\ y.self = m.self /\ y.rx = m.rx /\ y.pktRTS = m.pktRTS
        /\ y.callback = m.callback /\ y.blocked = m.blocked
        /\ y.backoff = m.backoff /\ y.timer = v.timer /\ y.pktTx = None
    BY <2>3, <2>4, <2>5 DEF Changes, Field
  <2>7. ~IsIdle(y) /\ ~y.backoff.on
    BY <2>0, <2>6 DEF IsIdle
  <2>8. Changes(y, w, {"backoff"}) /\ Fresh(w)
    BY <2>6, <2>7, StartBackoffStep
  <2> HIDE DEF w
  <2>9. /\ IsMac(w) /\ w.self = m.self /\ w.rx = m.rx /\ w.pktRTS = m.pktRTS
        /\ w.callback = m.callback /\ w.blocked = m.blocked
        /\ w.timer = v.timer /\ w.pktTx = None
    BY <2>6, <2>8 DEF Changes, Field
  <2>10. w.backoff.on \in BOOLEAN /\ w.backoff.paused \in BOOLEAN
    BY <2>9, MacFields
  <2>11. w.backoff.paused = w.backoff.on
    BY <2>0, <2>8, <2>9, <2>10 DEF Fresh, IsIdle
  <2>12. /\ w.timer["recv"] = Off /\ w.timer["if"] = Off
         /\ w.timer["send"] = Off /\ w.timer["defer"] = Off
    BY <2>0, <2>3, <2>9 DEF Timer
  <2>13. Serving(w) /\ ~Cleared(w)
    BY <2>0, <2>9 DEF Serving, Cleared
  <2>14. Resumable(w)
    BY <2>9, <2>11, <2>12, <2>13 DEF Resumable
  <2> QED
    BY <2>2, <2>9, <2>12, <2>13, <2>14, ResumeGoes
<1> QED
  BY <1>1, <1>2

(* set_nav() while a frame is being received *)
LEMMA SetNavStep ==
    ASSUME NEW m, Core(m), m.rx # "IDLE", NEW us \in Nat
    PROVE  LET u == SetNav(m, us)
           IN  /\ Core(u) /\ Changes(m, u, {"timer"})
               /\ \A s \in Timer \ {"nav"} : u.timer[s] = m.timer[s]
               /\ GoesOn(u) <=> GoesOn(m)
<1> DEFINE u == SetNav(m, us)
           v == [m EXCEPT !.timer["nav"] = us]
<1>0. IsMac(m) /\ "nav" \in Timer /\ us \in Clock
  BY DEF Core, Timer, Clock, Off
<1>1. CASE u = m
  BY <1>0, <1>1 DEF Changes
<1>2. CASE u = v
  <2>1. /\ Changes(m, v, {"timer"})
        /\ \A s \in Timer \ {"nav"} : v.timer[s] = m.timer[s]
    BY <1>0, TimerSet
  <2> HIDE DEF v, u
  <2>2. /\ IsMac(v) /\ v.tx = m.tx /\ v.rx = m.rx /\ v.backoff = m.backoff
        /\ v.pktTx = m.pktTx /\ v.pktRTS = m.pktRTS /\ v.pktCTRL = m.pktCTRL
        /\ v.callback = m.callback /\ v.blocked = m.blocked
    BY <2>1 DEF Changes, Field
  <2>3. /\ v.timer["send"] = m.timer["send"] /\ v.timer["defer"] = m.timer["defer"]
        /\ v.timer["if"] = m.timer["if"]
    BY <2>1 DEF Timer
  <2>4. /\ (Cleared(v) <=> Cleared(m)) /\ (Counting(v) <=> Counting(m))
        /\ (GoesOn(v) <=> GoesOn(m))
    BY <2>2, <2>3 DEF Cleared, Counting, GoesOn
  <2>5. Transmitting(v) /\ Deferring(v) /\ Serving(v)
    BY <2>2, <2>3 DEF Core, Transmitting, Deferring, Serving
  <2>6. Following(v)
    BY <2>2, <2>3, <2>4 DEF Core, Following
  <2>7. Radiating(v)
    BY <2>2, <2>3, <2>4 DEF Core, Radiating
  <2>8. ~Counting(v)
    BY <2>4, PausedWhileReceiving
  <2>9. BackingOff(v)
    BY <2>2, <2>8 DEF Core, BackingOff
  <2>10. Core(v)
    BY <2>2, <2>5, <2>6, <2>7, <2>9 DEF Core
  <2>11. Core(u) /\ Changes(m, u, {"timer"}) /\ (GoesOn(u) <=> GoesOn(m))
    BY <1>2, <2>1, <2>4, <2>10
  <2>12. \A s \in Timer \ {"nav"} : u.timer[s] = m.timer[s]
    BY <1>2, <2>1
  <2> QED
    BY <2>11, <2>12 DEF u
<1> QED
  BY <1>1, <1>2 DEF SetNav

(* A frame that was neither spoilt nor sent over *)
LEMMA ReceivedStep ==
    ASSUME BugFixTimer, NEW m, Quiet(m), NEW f \in Proper, NEW r \in Slots
    PROVE  Goes(m, Received(m, f, r))
<1> DEFINE v == IF f.ra = m.self THEN m ELSE SetNav(m, f.dur)
<1>0. /\ f.dur \in Nat /\ f.kind \in {"RTS", "CTS", "DATA", "ACK"}
      /\ Core(m) /\ m.rx # "IDLE"
  BY DEF Proper, Frame, Quiet, Between
<1>1. /\ Quiet(v) /\ v.self = m.self /\ v.tx = m.tx
      /\ GoesOn(v) <=> GoesOn(m)
  <2>1. CASE f.ra = m.self
    BY <2>1
  <2>2. CASE f.ra # m.self
    <3> DEFINE w == SetNav(m, f.dur)
    <3>1. /\ Core(w) /\ Changes(m, w, {"timer"})
          /\ \A s \in Timer \ {"nav"} : w.timer[s] = m.timer[s]
          /\ GoesOn(w) <=> GoesOn(m)
      BY <1>0, SetNavStep
    <3>2. v = w
      BY <2>2
    <3> HIDE DEF w, v
    <3>3. /\ w.self = m.self /\ w.tx = m.tx /\ w.rx = m.rx
          /\ w.pktCTRL = m.pktCTRL
      BY <3>1 DEF Changes, Field
    <3>4. /\ w.timer["recv"] = m.timer["recv"] /\ w.timer["if"] = m.timer["if"]
          /\ w.timer["defer"] = m.timer["defer"]
      BY <3>1 DEF Timer
    <3> QED
      BY <3>1, <3>2, <3>3, <3>4 DEF Quiet, Between
  <2> QED
    BY <2>1, <2>2
<1>2. Received(m, f, r) =
        IF f.ra \notin {m.self, Everyone} THEN v
        ELSE CASE f.kind = "RTS" -> RecvRTS(v, f, r)
               [] f.kind = "CTS" -> RecvCTS(v, r)
               [] f.kind = "DATA" -> RecvDATA(v, f, r)
               [] f.kind = "ACK" -> RecvACK(v, r)
  BY DEF Received
<1> HIDE DEF v
<1>3. Goes(v, v)
  BY <1>1, GoesAsIs DEF Quiet
<1>4. f.kind = "RTS" => Goes(v, RecvRTS(v, f, r))
  BY <1>1, RecvRTSStep
<1>5. Goes(v, RecvCTS(v, r)) /\ Goes(v, RecvDATA(v, f, r)) /\ Goes(v, RecvACK(v, r))
  BY <1>1, RecvCTSStep, RecvDATAStep, RecvACKStep
<1>6. Goes(v, Received(m, f, r))
  <2>1. CASE f.ra \notin {m.self, Everyone}
    BY <1>2, <1>3, <2>1
  <2>2. CASE f.ra \in {m.self, Everyone}
    <3>1. CASE f.kind = "RTS"
      BY <1>2, <1>4, <2>2, <3>1
    <3>2. CASE f.kind = "CTS"
      BY <1>2, <1>5, <2>2, <3>2
    <3>3. CASE f.kind = "DATA"
      BY <1>2, <1>5, <2>2, <3>3
    <3>4. CASE f.kind = "ACK"
      BY <1>2, <1>5, <2>2, <3>4
    <3> QED
      BY <1>0, <3>1, <3>2, <3>3, <3>4
  <2> QED
    BY <2>1, <2>2
<1> QED
  BY <1>1, <1>6 DEF Goes

(* The receiver becomes idle again; m is what the frame made of it.        *)
LEMMA ReceiverIdle ==
    ASSUME NEW m, Between(m)
    PROVE  LET u == SetRx([m EXCEPT !.pktRx = None, !.error = FALSE], "IDLE")
           IN  /\ Core(u) /\ Receiving(u) /\ u.self = m.self /\ u.rx = "IDLE"
               /\ u.tx = m.tx /\ u.timer = m.timer /\ (GoesOn(u) <=> GoesOn(m))
<1> DEFINE y == [m EXCEPT !.pktRx = None, !.error = FALSE]
           u == SetRx(y, "IDLE")
<1>0. /\ Core(m) /\ IsMac(m) /\ m.rx # "IDLE" /\ m.timer["recv"] = Off
      /\ Off = -1 /\ DIFS = 50
  BY Times DEF Between, Core, Off
<1>1. Changes(m, y, Aside)
  BY <1>0 DEF IsMac, Changes, Field, Aside
<1> HIDE DEF y
<1>2. /\ Core(y) /\ y.rx = m.rx /\ y.timer = m.timer /\ y.self = m.self
      /\ y.tx = m.tx /\ (GoesOn(y) <=> GoesOn(m))
  BY <1>0, <1>1, CoreKept
<1>3. ~Counting(y) /\ IsMac(y) /\ Paces(y)
  BY <1>0, <1>2, PausedWhileReceiving DEF Core, BackingOff, Paces
<1>4. Changes(y, u, {"rx", "backoff"}) /\ u.rx = "IDLE" /\ InPace(y, u)
  BY <1>3, SetRxStep
<1> HIDE DEF u
<1>5. /\ IsMac(u) /\ u.tx = y.tx /\ u.pktTx = y.pktTx /\ u.pktRTS = y.pktRTS
      /\ u.pktCTRL = y.pktCTRL /\ u.callback = y.callback
      /\ u.blocked = y.blocked /\ u.timer = y.timer /\ u.self = y.self
  BY <1>4 DEF Changes, Field
<1>6. /\ u.backoff.on = y.backoff.on
      /\ u.backoff.paused <=> u.backoff.on /\ ~IsIdle(u)
      /\ Counting(u) => u.backoff.left >= DIFS
  BY <1>3, <1>4 DEF InPace
<1>7. (Cleared(u) <=> Cleared(y)) /\ (GoesOn(u) <=> GoesOn(y))
  BY <1>5, <1>6 DEF Cleared, GoesOn
<1>8. Transmitting(u) /\ Deferring(u) /\ Serving(u)
  BY <1>2, <1>5, <1>6 DEF Core, Transmitting, Deferring, Serving
<1>9. Following(u)
  BY <1>2, <1>5, <1>6, <1>7 DEF Core, Following
<1>10. Counting(u) => IsIdle(u) /\ u.backoff.left \in Int
  <2>1. u.backoff.left \in Int
    BY <1>5, MacFields
  <2> QED
    BY <1>6, <2>1 DEF Counting
<1>11. Radiating(u)
  <2>1. u.timer["if"] # Off /\ Counting(u) => u.timer["if"] = 0
    BY <1>2, <1>5, <1>10 DEF Core, Radiating, Transmitting, IsIdle
  <2>2. u.timer["if"] # Off /\ Counting(u) => u.backoff.left > u.timer["if"]
    BY <1>0, <1>6, <1>10, <2>1
  <2> QED
    BY <1>2, <1>5, <2>2 DEF Core, Radiating
<1>12. BackingOff(u)
  <2>1. Counting(u) => u.backoff.left >= 0
    BY <1>0, <1>6, <1>10
  <2>2. u.timer["nav"] = Off => u.timer["nav"] <= 0
    BY <1>0
  <2> QED
    BY <1>4, <1>6, <1>10, <2>1, <2>2 DEF BackingOff, IsIdle
<1>13. Core(u)
  BY <1>5, <1>8, <1>9, <1>11, <1>12 DEF Core
<1>14. Receiving(u)
  BY <1>0, <1>2, <1>4, <1>5 DEF Receiving
<1> QED
  BY <1>2, <1>4, <1>5, <1>7, <1>13, <1>14 DEF u, y

(* recv_timer() *)
LEMMA RecvHandlerStep ==
    ASSUME BugFixTimer, NEW m, Sound(m), m.timer["recv"] = 0, NEW r \in Slots
    PROVE  Handles(m, RecvHandler([m EXCEPT !.timer["recv"] = Off], r))
<1> DEFINE v == [m EXCEPT !.timer["recv"] = Off]
           w == IF TxActive(v) THEN v
                ELSE IF v.rx = "COLL" \/ v.error THEN SetNav(v, USec(EIFS))
                ELSE Received(v, v.pktRx, r)
           u == SetRx([w EXCEPT !.pktRx = None, !.error = FALSE], "IDLE")
<1>0. /\ IsMac(m) /\ Core(m) /\ "recv" \in Timer /\ Off = -1 /\ SIFS = 10
      /\ m.rx # "IDLE" /\ m.pktRx # None
  BY Times DEF Sound, Core, Timer, Off, Receiving
<1>1. /\ Changes(m, v, {"timer"}) /\ v.timer["recv"] = Off
      /\ \A s \in Timer \ {"recv"} : v.timer[s] = m.timer[s]
  BY <1>0, TimerOff
<1>2. RecvHandler(v, r) =
        SetRx([Check(w, w.timer["recv"] = Off) EXCEPT !.pktRx = None,
                                                     !.error = FALSE], "IDLE")
  <2>1. v.pktRx # None /\ v.rx # "IDLE"
    BY <1>0, <1>1 DEF Changes, Field
  <2>2. Check(v, v.pktRx # None /\ v.rx # "IDLE") = v
    BY <2>1, CheckHolds
  <2> QED
    BY <2>2 DEF RecvHandler
<1> HIDE DEF v
<1>3. /\ IsMac(v) /\ v.self = m.self /\ v.tx = m.tx /\ v.rx = m.rx
      /\ v.pktTx = m.pktTx /\ v.pktRTS = m.pktRTS /\ v.pktCTRL = m.pktCTRL
      /\ v.callback = m.callback /\ v.blocked = m.blocked
      /\ v.backoff = m.backoff /\ v.pktRx = m.pktRx /\ v.error = m.error
  BY <1>1 DEF Changes, Field
<1>4. /\ v.timer["send"] = m.timer["send"] /\ v.timer["defer"] = m.timer["defer"]
      /\ v.timer["if"] = m.timer["if"] /\ v.timer["nav"] = m.timer["nav"]
  BY <1>1 DEF Timer
<1>5. /\ (Cleared(v) <=> Cleared(m)) /\ (Counting(v) <=> Counting(m))
      /\ (IsIdle(v) <=> IsIdle(m)) /\ (GoesOn(v) <=> GoesOn(m))
  BY <1>3, <1>4 DEF Cleared, Counting, IsIdle, GoesOn
<1>6. Between(v)
  <2>1. Transmitting(v) /\ Deferring(v) /\ Serving(v)
    BY <1>0, <1>3, <1>4 DEF Core, Transmitting, Deferring, Serving
  <2>2. Following(v)
    BY <1>0, <1>3, <1>4, <1>5 DEF Core, Following
  <2>3. Radiating(v)
    BY <1>0, <1>3, <1>4, <1>5 DEF Core, Radiating
  <2>4. BackingOff(v)
    BY <1>0, <1>3, <1>4, <1>5 DEF Core, BackingOff
  <2> QED
    BY <1>0, <1>1, <1>3, <2>1, <2>2, <2>3, <2>4 DEF Between, Core
<1>7. /\ Goes(v, w)
      /\ w.tx = "ACK" => /\ w.timer["send"] = m.timer["send"]
                         /\ w.timer["if"] = m.timer["if"]
  <2>1. CASE TxActive(v)
    BY <1>4, <1>6, <2>1, GoesAsIs DEF w
  <2>2. CASE ~TxActive(v) /\ (v.rx = "COLL" \/ v.error)
    <3> DEFINE x == SetNav(v, USec(EIFS))
    <3>1. USec(EIFS) \in Nat
      BY USecIsNat, Times
    <3>2. /\ Core(x) /\ Changes(v, x, {"timer"})
          /\ \A s \in Timer \ {"nav"} : x.timer[s] = v.timer[s]
          /\ GoesOn(x) <=> GoesOn(v)
      BY <1>6, <3>1, SetNavStep DEF Between
    <3>3. w = x
      BY <2>2 DEF w
    <3> HIDE DEF x, w
    <3>4. x.self = v.self /\ x.tx = v.tx /\ x.rx = v.rx
      BY <3>2 DEF Changes, Field
    <3>5. /\ x.timer["recv"] = v.timer["recv"] /\ x.timer["if"] = v.timer["if"]
          /\ x.timer["send"] = v.timer["send"]
      BY <3>2 DEF Timer
    <3> QED
      BY <1>4, <1>6, <3>2, <3>3, <3>4, <3>5 DEF Goes, Between
  <2>3. CASE ~TxActive(v) /\ ~(v.rx = "COLL" \/ v.error)
    <3>1. ~Spoilt(m)
      BY <1>3, <2>3 DEF Spoilt
    <3>2. m.tx # "ACK"
      BY <1>0, <3>1 DEF Sound, Undisturbed
    <3>3. m.timer["defer"] \in Int /\ m.timer["defer"] >= Off
      BY <1>0, TimerIsInt
    <3>4. m.pktCTRL = None => m.timer["defer"] = Off
      BY <1>0, <3>1, <3>3 DEF Sound, Undisturbed
    <3>5. Quiet(v)
      BY <1>3, <1>4, <1>6, <2>3, <3>2, <3>4 DEF Quiet, TxActive
    <3>6. v.pktRx \in Proper
      BY <1>0, <1>3 DEF IsMac
    <3>7. Goes(v, Received(v, v.pktRx, r))
      BY <3>5, <3>6, ReceivedStep
    <3> QED
      BY <1>3, <2>3, <3>2, <3>7 DEF w, Goes
  <2> QED
    BY <2>1, <2>2, <2>3
<1> HIDE DEF w
<1>8. Between(w)
  BY <1>7 DEF Goes
<1>9. RecvHandler(v, r) = u
  <2>1. Check(w, w.timer["recv"] = Off) = w
    BY <1>8, CheckHolds DEF Between
  <2> QED
    BY <1>2, <2>1
<1>10. /\ Core(u) /\ Receiving(u) /\ u.self = w.self /\ u.rx = "IDLE"
       /\ u.tx = w.tx /\ u.timer = w.timer /\ (GoesOn(u) <=> GoesOn(w))
  BY <1>8, ReceiverIdle
<1> HIDE DEF u
<1>11. Undisturbed(u)
  BY <1>0, <1>3, <1>7, <1>10 DEF Goes, Sound, Undisturbed
<1> QED
  BY <1>3, <1>5, <1>7, <1>9, <1>10, <1>11 DEF Handles, Sound, Goes, v

-----------------------------------------------------------------------------
(* recv(), Queue::recv() and the passing of time.                          *)

(* A MAC that receives is sound but for what it receives. *)
LEMMA BusyCore ==
    ASSUME NEW m, Core(m), NEW u,
           Changes(m, u, {"rx", "backoff", "pktRx", "error", "timer"}),
           u.rx # "IDLE", u.backoff.on = m.backoff.on,
           u.backoff.paused = u.backoff.on,
           \A s \in Timer \ {"recv"} : u.timer[s] = m.timer[s]
    PROVE  Core(u) /\ (GoesOn(u) <=> GoesOn(m))
<1>1. /\ IsMac(u) /\ u.tx = m.tx /\ u.pktTx = m.pktTx /\ u.pktRTS = m.pktRTS
      /\ u.pktCTRL = m.pktCTRL /\ u.callback = m.callback
      /\ u.blocked = m.blocked
  BY DEF Changes, Field
<1>2. /\ u.timer["send"] = m.timer["send"] /\ u.timer["defer"] = m.timer["defer"]
      /\ u.timer["if"] = m.timer["if"]
  BY DEF Timer
<1>3. /\ (Cleared(u) <=> Cleared(m)) /\ (GoesOn(u) <=> GoesOn(m))
      /\ ~Counting(u)
  BY <1>1, <1>2 DEF Cleared, GoesOn, Counting
<1>4. Transmitting(u) /\ Deferring(u) /\ Serving(u)
  BY <1>1, <1>2 DEF Core, Transmitting, Deferring, Serving
<1>5. Following(u)
  BY <1>1, <1>2, <1>3 DEF Core, Following
<1>6. Radiating(u)
  BY <1>1, <1>2, <1>3 DEF Core, Radiating
<1>7. BackingOff(u)
  BY <1>3 DEF BackingOff
<1> QED
  BY <1>1, <1>3, <1>4, <1>5, <1>6, <1>7 DEF Core

LEMMA ReceiverBusy ==
    ASSUME NEW m, Core(m), NEW s \in {"RECV", "COLL"}
    PROVE  LET u == SetRx(m, s)
           IN  /\ Changes(m, u, {"rx", "backoff"}) /\ u.rx = s
               /\ u.backoff.on = m.backoff.on /\ u.backoff.paused = u.backoff.on
               /\ u.timer = m.timer
<1> DEFINE u == SetRx(m, s)
<1>1. IsMac(m) /\ Paces(m)
  BY DEF Core, BackingOff, Paces
<1>2. Changes(m, u, {"rx", "backoff"}) /\ u.rx = s /\ InPace(m, u)
  BY <1>1, SetRxStep
<1> HIDE DEF u
<1>3. IsMac(u) /\ u.timer = m.timer
  BY <1>2 DEF Changes, Field
<1>4. u.backoff.on \in BOOLEAN /\ u.backoff.paused \in BOOLEAN
  BY <1>3, MacFields
<1>5. u.backoff.on = m.backoff.on /\ u.backoff.paused = u.backoff.on
  BY <1>2, <1>4 DEF InPace, IsIdle
<1> QED
  BY <1>2, <1>3, <1>5 DEF u

LEMMA ProperFrame ==
    ASSUME NEW f \in Proper
    PROVE  f # None /\ f.time \in Nat /\ f.time > 10
BY NoneAssumption DEF Proper, Frame, SIFS

(* The first frame *)
LEMMA ReceptionStep ==
    ASSUME NEW m, Sound(m), m.rx = "IDLE", NEW f \in Proper
    PROVE  Handles(m, StartTimer([SetRx(m, "RECV") EXCEPT
                                    !.pktRx = f, !.error = TxActive(m)],
                                 "recv", f.time))
<1> DEFINE e == TxActive(m)
           x == SetRx(m, "RECV")
           y == [x EXCEPT !.pktRx = f, !.error = e]
           u == StartTimer(y, "recv", f.time)
<1>0. /\ Core(m) /\ IsMac(m) /\ m.timer["recv"] = Off /\ e \in BOOLEAN
      /\ e <=> m.timer["if"] # Off
      /\ Off = -1 /\ SIFS = 10 /\ f # None /\ f.time \in Nat /\ f.time > 10
  BY Times, ProperFrame DEF Sound, Core, Receiving, TxActive, Off
<1> HIDE DEF e
<1>1. /\ Changes(m, x, {"rx", "backoff"}) /\ x.rx = "RECV"
      /\ x.backoff.on = m.backoff.on /\ x.backoff.paused = x.backoff.on
      /\ x.timer = m.timer
  BY <1>0, ReceiverBusy
<1> HIDE DEF x
<1>2. Changes(x, y, {"pktRx", "error"}) /\ y.pktRx = f /\ y.error = e
  <2>1. IsMac(x) /\ e \in BOOLEAN
    BY <1>0, <1>1 DEF Changes
  <2> QED
    BY <2>1 DEF IsMac, Changes, Field
<1> HIDE DEF y
<1>3. IsMac(y) /\ y.timer = m.timer
  BY <1>1, <1>2 DEF Changes, Field
<1>4. /\ Changes(y, u, {"timer"}) /\ u.timer["recv"] = f.time
      /\ \A s \in Timer \ {"recv"} : u.timer[s] = m.timer[s]
  BY <1>0, <1>3, StartTimerStep DEF Timer
<1> HIDE DEF u
<1>5. /\ u.rx = "RECV" /\ u.backoff = x.backoff /\ u.pktRx = f /\ u.error = e
      /\ u.tx = m.tx /\ u.pktCTRL = m.pktCTRL /\ u.self = m.self
      /\ Changes(m, u, {"rx", "backoff", "pktRx", "error", "timer"})
  BY <1>1, <1>2, <1>4 DEF Changes, Field
<1>6. Core(u) /\ (GoesOn(u) <=> GoesOn(m))
  BY <1>0, <1>1, <1>4, <1>5, BusyCore
<1>7. Receiving(u)
  BY <1>0, <1>4, <1>5 DEF Receiving
<1>8. /\ u.timer["send"] = m.timer["send"] /\ u.timer["defer"] = m.timer["defer"]
      /\ u.timer["if"] = m.timer["if"] /\ u.timer["defer"] \in Int
  <2>1. m.timer["defer"] \in Int
    BY <1>0, TimerIsInt
  <2> QED
    BY <1>4, <2>1 DEF Timer
<1>9. u.timer["recv"] > u.timer["defer"]
  BY <1>0, <1>4, <1>6, <1>8 DEF Core, Deferring
<1>10. u.tx = "ACK" => Spoilt(u) \/ (u.timer["send"] = 0 /\ u.timer["recv"] > SIFS)
  BY <1>0, <1>4, <1>5, <1>8 DEF Sound, Undisturbed, Spoilt
<1>11. Undisturbed(u)
  BY <1>0, <1>5, <1>8, <1>9, <1>10 DEF Sound, Undisturbed
<1> QED
  BY <1>0, <1>5, <1>6, <1>7, <1>11 DEF Handles, Sound, u, y, x, e

(* One that is stronger than the next *)
LEMMA CaptureStep ==
    ASSUME NEW m, Sound(m), m.rx # "IDLE", NEW us \in Nat
    PROVE  Handles(m, SetNav(m, us))
<1> DEFINE u == SetNav(m, us)
<1>1. /\ Core(u) /\ Changes(m, u, {"timer"})
      /\ \A s \in Timer \ {"nav"} : u.timer[s] = m.timer[s]
      /\ GoesOn(u) <=> GoesOn(m)
  BY SetNavStep DEF Sound
<1> HIDE DEF u
<1>2. /\ u.self = m.self /\ u.tx = m.tx /\ u.rx = m.rx /\ u.pktRx = m.pktRx
      /\ u.pktCTRL = m.pktCTRL /\ u.error = m.error
  BY <1>1 DEF Changes, Field
<1>3. /\ u.timer["send"] = m.timer["send"] /\ u.timer["defer"] = m.timer["defer"]
      /\ u.timer["if"] = m.timer["if"] /\ u.timer["recv"] = m.timer["recv"]
  BY <1>1 DEF Timer
<1>4. Receiving(u) /\ Undisturbed(u)
  BY <1>2, <1>3 DEF Sound, Receiving, Undisturbed, Spoilt
<1> QED
  BY <1>1, <1>2, <1>4 DEF Handles, Sound, u

(* collision() *)
LEMMA CollisionStep ==
    ASSUME NEW m, Sound(m), m.rx # "IDLE", NEW f \in Proper
    PROVE  LET x == Check(SetRx(m, "COLL"),
                          m.pktRx # None /\ m.timer["recv"] # Off)
           IN  Handles(m, IF f.time > m.timer["recv"]
                          THEN [x EXCEPT !.pktRx = f, !.error = TxActive(m),
                                         !.timer["recv"] = f.time]
                          ELSE x)
<1> DEFINE e == TxActive(m)
           x == SetRx(m, "COLL")
           y == [x EXCEPT !.pktRx = f, !.error = e]
           z == [y EXCEPT !.timer["recv"] = f.time]
           F == {"rx", "backoff", "pktRx", "error", "timer"}
<1>0. /\ Core(m) /\ IsMac(m) /\ m.timer["recv"] # Off /\ m.pktRx # None
      /\ e \in BOOLEAN /\ f # None /\ f.time \in Nat /\ f.time \in Clock
      /\ f.time # Off /\ "recv" \in Timer
  BY ProperFrame DEF Sound, Core, Receiving, TxActive, Off, Clock, Timer
<1> HIDE DEF e
<1>1. /\ Changes(m, x, {"rx", "backoff"}) /\ x.rx = "COLL"
      /\ x.backoff.on = m.backoff.on /\ x.backoff.paused = x.backoff.on
      /\ x.timer = m.timer
  BY <1>0, ReceiverBusy
<1>2. Check(x, m.pktRx # None /\ m.timer["recv"] # Off) = x
  BY <1>0, CheckHolds
<1> HIDE DEF x
<1>3. Changes(x, y, {"pktRx", "error"}) /\ y.pktRx = f
  <2>1. IsMac(x) /\ e \in BOOLEAN
    BY <1>0, <1>1 DEF Changes
  <2> QED
    BY <2>1 DEF IsMac, Changes, Field
<1>4. [x EXCEPT !.pktRx = f, !.error = e, !.timer["recv"] = f.time] = z
  BY <1>1 DEF Changes, IsMac, Field
<1> HIDE DEF y
<1>5. IsMac(y) /\ y.timer = m.timer
  BY <1>1, <1>3 DEF Changes, Field
<1>6. /\ Changes(y, z, {"timer"}) /\ z.timer["recv"] = f.time
      /\ \A s \in Timer \ {"recv"} : z.timer[s] = m.timer[s]
  BY <1>0, <1>5, TimerSet
<1> HIDE DEF z
<1>7. ASSUME NEW u, u.rx = "COLL", u.backoff = x.backoff, u.pktRx # None,
             u.timer["recv"] # Off, Changes(m, u, F),
             \A s \in Timer \ {"recv"} : u.timer[s] = m.timer[s]
      PROVE  Handles(m, u)
  <2>1. Core(u) /\ (GoesOn(u) <=> GoesOn(m))
    BY <1>0, <1>1, <1>7, BusyCore
  <2>2. Receiving(u) /\ Spoilt(u)
    BY <1>7 DEF Receiving, Spoilt
  <2>3. u.tx = m.tx /\ u.self = m.self
    BY <1>7 DEF Changes, Field
  <2>4. u.timer["send"] = m.timer["send"] /\ u.timer["if"] = m.timer["if"]
    BY <1>7 DEF Timer
  <2>5. Undisturbed(u)
    BY <2>2, <2>3, <2>4 DEF Sound, Undisturbed
  <2> QED
    BY <2>1, <2>2, <2>3, <2>5 DEF Handles, Sound
<1>8. Handles(m, z)
  <2>1. Changes(m, z, F) /\ z.rx = "COLL" /\ z.backoff = x.backoff /\ z.pktRx = f
    BY <1>1, <1>3, <1>6 DEF Changes, Field
  <2> QED
    BY <1>0, <1>6, <1>7, <2>1
<1>9. Handles(m, x)
  <2>1. Changes(m, x, F) /\ x.pktRx = m.pktRx
    BY <1>1 DEF Changes, Field
  <2> QED
    BY <1>0, <1>1, <1>7, <2>1
<1> QED
  BY <1>2, <1>4, <1>8, <1>9 DEF x, e

(* recv() *)
LEMMA RecvStep ==
    ASSUME NEW m, Sound(m), NEW f \in Proper, NEW captured \in BOOLEAN
    PROVE  Handles(m, Recv(m, f, captured))
<1>1. CASE m.rx = "IDLE"
  BY <1>1, ReceptionStep DEF Recv
<1>2. CASE m.rx # "IDLE" /\ captured
  <2>1. USec(EIFS + f.time) \in Nat
    BY USecIsNat, Times, ProperFrame
  <2> QED
    BY <1>2, <2>1, CaptureStep DEF Recv
<1>3. CASE m.rx # "IDLE" /\ ~captured
  BY <1>3, CollisionStep DEF Recv
<1> QED
  BY <1>1, <1>2, <1>3

(* What is queued, and what has been transmitted, is of no concern. *)
LEMMA SoundKept ==
    ASSUME NEW m, NEW u, Sound(m), Changes(m, u, {"queue", "out"})
    PROVE  Handles(m, u)
<1>1. /\ IsMac(u) /\ u.self = m.self /\ u.tx = m.tx /\ u.rx = m.rx
      /\ u.pktTx = m.pktTx /\ u.pktRTS = m.pktRTS /\ u.pktCTRL = m.pktCTRL
      /\ u.pktRx = m.pktRx /\ u.error = m.error /\ u.callback = m.callback
      /\ u.blocked = m.blocked /\ u.backoff = m.backoff /\ u.timer = m.timer
  BY DEF Changes, Field
<1>2. /\ (Cleared(u) <=> Cleared(m)) /\ (Counting(u) <=> Counting(m))
      /\ (IsIdle(u) <=> IsIdle(m)) /\ (GoesOn(u) <=> GoesOn(m))
      /\ (Spoilt(u) <=> Spoilt(m))
  BY <1>1 DEF Cleared, Counting, IsIdle, GoesOn, Spoilt
<1>3. Transmitting(u) /\ Deferring(u) /\ Serving(u)
  BY <1>1 DEF Sound, Core, Transmitting, Deferring, Serving
<1>4. Following(u)
  BY <1>1, <1>2 DEF Sound, Core, Following
<1>5. Radiating(u) /\ BackingOff(u)
  BY <1>1, <1>2 DEF Sound, Core, Radiating, BackingOff
<1>6. Receiving(u) /\ Undisturbed(u)
  BY <1>1, <1>2 DEF Sound, Receiving, Undisturbed
<1> QED
  BY <1>1, <1>2, <1>3, <1>4, <1>5, <1>6 DEF Handles, Sound, Core

(* Queue::recv() of a queue that is blocked *)
LEMMA QueuedStep ==
    ASSUME NEW m, Sound(m), NEW p \in Packet
    PROVE  Handles(m, [m EXCEPT !.queue = Append(@, p)])
<1> DEFINE q == Append(m.queue, p)
           u == [m EXCEPT !.queue = q]
<1>1. IsMac(m) /\ q \in Seq(Packet)
  BY DEF Sound, Core, IsMac
<1> HIDE DEF q
<1>2. Changes(m, u, {"queue"})
  BY <1>1 DEF IsMac, Changes, Field
<1> HIDE DEF u
<1>3. Changes(m, u, {"queue", "out"})
  BY <1>2 DEF Changes
<1>4. Handles(m, u)
  BY <1>3, SoundKept
<1> QED
  BY <1>4 DEF u, q

(* ... and of one that is not *)
LEMMA HandedDownStep ==
    ASSUME BugFixTimer, NEW m, Sound(m), ~m.blocked, NEW p \in Packet,
           NEW r \in Slots
    PROVE  Handles(m, Send([m EXCEPT !.blocked = TRUE], p, r))
<1> DEFINE v == [m EXCEPT !.blocked = TRUE]
           u == Send(v, p, r)
<1>0. /\ Core(m) /\ IsMac(m) /\ m.pktTx = None /\ ~m.pktRTS
      /\ m.tx \notin {"RTS", "SEND"} /\ p # None /\ Off = -1 /\ DIFS = 50
  BY Times, NoneAssumption DEF Sound, Core, Serving, Transmitting, Off
<1>1. Changes(m, v, {"blocked"}) /\ v.blocked = TRUE
  BY <1>0 DEF IsMac, Changes, Field
<1> HIDE DEF v
<1>2. /\ IsMac(v) /\ v.pktTx = None /\ ~v.pktRTS /\ v.backoff = m.backoff
      /\ v.tx = m.tx /\ v.rx = m.rx /\ v.timer = m.timer
  BY <1>0, <1>1 DEF Changes, Field
<1>3. Changes(v, u, SendChanges) /\ Taken(v, u, p)
  BY <1>2, SendStep
<1> HIDE DEF u
<1>4. /\ IsMac(u) /\ u.self = m.self /\ u.tx = m.tx /\ u.rx = m.rx
      /\ u.pktCTRL = m.pktCTRL /\ u.pktRx = m.pktRx /\ u.error = m.error
      /\ u.timer = m.timer /\ u.blocked = TRUE
  BY <1>1, <1>3 DEF Changes, Field, SendChanges
<1>5. /\ IsIdle(u) <=> IsIdle(m)
      /\ IsIdle(v) <=> IsIdle(m)
      /\ Counting(v) <=> Counting(m)
      /\ Spoilt(u) <=> Spoilt(m)
  BY <1>2, <1>4 DEF IsIdle, Counting, Spoilt
<1>6. /\ u.callback /\ u.pktTx = p /\ u.pktRTS = NeedsRTS(p)
      /\ u.backoff = m.backoff \/ Fresh(u)
      /\ u.backoff.on \/ m.timer["defer"] # Off
  BY <1>2, <1>3 DEF Taken
<1>7. Serving(u) /\ GoesOn(u)
  <2>1. u.callback = u.blocked
    BY <1>4, <1>6 DEF IsMac
  <2> QED
    BY <1>0, <1>4, <1>6, <2>1 DEF Serving, GoesOn
<1>8. ~Cleared(u) /\ Transmitting(u)
  BY <1>0, <1>4, <1>6 DEF Cleared, Core, Transmitting
<1>9. Deferring(u)
  BY <1>0, <1>4 DEF Core, Deferring
<1>10. Following(u)
  BY <1>0, <1>4, <1>8 DEF Following
<1>11. Counting(u) => IsIdle(u) /\ u.backoff.left \in Int
  <2>1. u.backoff.left \in Int
    BY <1>4, MacFields
  <2>2. u.backoff = m.backoff => (Counting(u) <=> Counting(m))
    BY DEF Counting
  <2> QED
    BY <1>0, <1>5, <1>6, <2>1, <2>2 DEF Core, BackingOff, Fresh, Counting
<1>12. Radiating(u)
  <2>1. u.timer["if"] # Off /\ IsIdle(u) => u.timer["if"] = 0
    BY <1>0, <1>4 DEF Core, Radiating, Transmitting, IsIdle
  <2>2. u.timer["if"] # Off /\ Counting(u) => u.backoff.left > u.timer["if"]
    <3>1. CASE u.backoff = m.backoff
      BY <1>0, <1>4, <3>1 DEF Core, Radiating, Counting
    <3>2. CASE Fresh(u)
      BY <1>0, <1>11, <2>1, <3>2 DEF Fresh
    <3> QED
      BY <1>6, <3>1, <3>2
  <2> QED
    BY <1>0, <1>4, <2>2 DEF Core, Radiating
<1>13. BackingOff(u)
  <2>1. CASE u.backoff = m.backoff
    BY <1>0, <1>4, <1>5, <2>1 DEF Core, BackingOff, Counting
  <2>2. CASE Fresh(u)
    <3>1. u.timer["nav"] = Off => u.timer["nav"] <= 0
      BY <1>0
    <3>2. Counting(u) => u.backoff.left >= 0
      BY <1>0, <1>11, <2>2 DEF Fresh
    <3> QED
      BY <1>11, <2>2, <3>1, <3>2 DEF BackingOff, Fresh, IsIdle
  <2> QED
    BY <1>6, <2>1, <2>2
<1>14. Receiving(u) /\ Undisturbed(u)
  BY <1>4, <1>5 DEF Sound, Receiving, Undisturbed
<1> QED
  BY <1>4, <1>7, <1>8, <1>9, <1>10, <1>12, <1>13, <1>14
  DEF Handles, Sound, Core, u, v

(* The order of the natural numbers, as a well-founded relation.           *)
LEMMA NatOrder ==
    \E R : /\ IsWellFoundedOn(R, Nat)
           /\ \A a, b \in Nat : a < b => <<a, b>> \in R
<1>1. IsWellFoundedOn(OpToRel(<, Nat), Nat)
  BY NatLessThanWellFounded, Zenon
<1>2. \A a, b \in Nat : a < b => <<a, b>> \in OpToRel(<, Nat)
  BY SMT DEF OpToRel
<1> QED
  BY <1>1, <1>2, Zenon

(* A nonempty set of natural numbers has a least element.                  *)
LEMMA LeastNumber ==
    ASSUME NEW S, S \subseteq Nat, S # {}
    PROVE  \E x \in S : \A y \in S : x <= y
<1>1. PICK R : /\ IsWellFoundedOn(R, Nat)
               /\ \A a, b \in Nat : a < b => <<a, b>> \in R
  BY NatOrder
<1>2. PICK x \in S : \A y \in S : ~(<<y, x>> \in R)
  <2>1. IsWellFoundedOn(R, Nat)
    BY <1>1, Zenon
  <2>2. \E x \in S : \A y \in S : ~(<<y, x>> \in R)
    BY ONLY <2>1, S \subseteq Nat, S # {}, WFMin, ZenonT(60)
  <2> QED
    BY <2>2, Zenon
<1>3. ASSUME NEW y \in S PROVE x <= y
  <2>1. x \in Nat /\ y \in Nat
    OBVIOUS
  <2>2. ~(y < x)
    BY <1>1, <1>2, <2>1
  <2> QED
    BY <2>1, <2>2
<1> QED
  BY <1>3

(* What time does to a MAC; d is no more than any of its timers have left. *)
Aged(m, d) ==
    [m EXCEPT !.timer = [t \in Timer |-> Less(m.timer[t], d)],
              !.backoff.left = IF m.backoff.on /\ ~m.backoff.paused
                               THEN @ - d ELSE @]

Within(m, d) ==
    /\ \A t \in Timer : m.timer[t] # Off => d <= m.timer[t]
    /\ Counting(m) => d <= m.backoff.left

LEMMA LessIsClock ==
    ASSUME NEW t \in Int, t >= Off, NEW d \in Nat, t # Off => d <= t
    PROVE  /\ Less(t, d) \in Clock
           /\ Less(t, d) = Off <=> t = Off
           /\ t # Off => Less(t, d) = t - d
BY DEF Less, Clock, Off

LEMMA AgedFields ==
    ASSUME NEW m, IsMac(m), NEW d \in Nat, Within(m, d)
    PROVE  LET u == Aged(m, d)
           IN  /\ Changes(m, u, {"timer", "backoff"})
               /\ u.timer = [t \in Timer |-> Less(m.timer[t], d)]
               /\ u.backoff.on = m.backoff.on
               /\ u.backoff.paused = m.backoff.paused
               /\ Counting(m) => u.backoff.left = m.backoff.left - d
<1> DEFINE T == [t \in Timer |-> Less(m.timer[t], d)]
           left == IF m.backoff.on /\ ~m.backoff.paused THEN m.backoff.left - d
                   ELSE m.backoff.left
           b == [m.backoff EXCEPT !.left = left]
           u == [m EXCEPT !.timer = T, !.backoff = b]
<1>1. T \in [Timer -> Clock]
  <2>1. ASSUME NEW t \in Timer PROVE Less(m.timer[t], d) \in Clock
    BY MacFields, LessIsClock DEF Within
  <2> QED
    BY <2>1
<1>2. /\ m.backoff \in Backoff /\ left \in Int
      /\ Counting(m) => left = m.backoff.left - d
  BY MacFields DEF Counting
<1>3. Aged(m, d) = u
  BY DEF Aged, IsMac, Field
<1> HIDE DEF T, left
<1>4. /\ b \in Backoff /\ b.left = left /\ b.on = m.backoff.on
      /\ b.paused = m.backoff.paused
  BY <1>2 DEF Backoff
<1> HIDE DEF b
<1>5. Changes(m, u, {"timer", "backoff"}) /\ u.timer = T /\ u.backoff = b
  BY <1>1, <1>4 DEF IsMac, Changes, Field
<1> QED
  BY <1>2, <1>3, <1>4, <1>5 DEF T

LEMMA AgedStep ==
    ASSUME NEW m, Sound(m), NEW d \in Nat, Within(m, d)
    PROVE  Handles(m, Aged(m, d))
<1> DEFINE u == Aged(m, d)
<1>0. Core(m) /\ IsMac(m) /\ Off = -1 /\ SIFS = 10
  BY Times DEF Sound, Core, Off
<1>1. /\ Changes(m, u, {"timer", "backoff"})
      /\ u.timer = [t \in Timer |-> Less(m.timer[t], d)]
      /\ u.backoff.on = m.backoff.on /\ u.backoff.paused = m.backoff.paused
      /\ Counting(m) => u.backoff.left = m.backoff.left - d
  BY <1>0, AgedFields
<1> HIDE DEF u
<1>2. /\ IsMac(u) /\ u.self = m.self /\ u.tx = m.tx /\ u.rx = m.rx
      /\ u.pktTx = m.pktTx /\ u.pktRTS = m.pktRTS /\ u.pktCTRL = m.pktCTRL
      /\ u.pktRx = m.pktRx /\ u.error = m.error /\ u.callback = m.callback
      /\ u.blocked = m.blocked
  BY <1>1 DEF Changes, Field
<1>3. ASSUME NEW t \in Timer
      PROVE  /\ m.timer[t] \in Int /\ m.timer[t] >= Off
             /\ u.timer[t] \in Int /\ (u.timer[t] = Off <=> m.timer[t] = Off)
             /\ m.timer[t] # Off => u.timer[t] = m.timer[t] - d /\ d <= m.timer[t]
  <2>1. m.timer[t] \in Int /\ m.timer[t] >= Off
    BY <1>0, MacFields
  <2>2. m.timer[t] # Off => d <= m.timer[t]
    BY DEF Within
  <2>3. u.timer[t] = Less(m.timer[t], d)
    BY <1>1
  <2> QED
    BY <2>1, <2>2, <2>3, LessIsClock DEF Clock
<1>4. /\ "send" \in Timer /\ "defer" \in Timer /\ "recv" \in Timer
      /\ "if" \in Timer /\ "nav" \in Timer
  BY DEF Timer
<1>5. /\ u.timer["send"] = Off <=> m.timer["send"] = Off
      /\ u.timer["defer"] = Off <=> m.timer["defer"] = Off
      /\ u.timer["recv"] = Off <=> m.timer["recv"] = Off
      /\ u.timer["if"] = Off <=> m.timer["if"] = Off
      /\ u.timer["nav"] = Off <=> m.timer["nav"] = Off
  BY <1>3, <1>4
<1>6. /\ Cleared(u) <=> Cleared(m)
      /\ Counting(u) <=> Counting(m)
      /\ GoesOn(u) <=> GoesOn(m)
      /\ Spoilt(u) <=> Spoilt(m)
  BY <1>1, <1>2, <1>5 DEF Cleared, Counting, GoesOn, Spoilt
<1>7. IsIdle(m) => IsIdle(u)
  <2>1. m.timer["nav"] <= 0 => u.timer["nav"] <= 0
    BY <1>0, <1>3, <1>4
  <2> QED
    BY <1>2, <2>1 DEF IsIdle
<1>8. Transmitting(u) /\ Serving(u) /\ Receiving(u)
  BY <1>0, <1>1, <1>2, <1>5 DEF Core, Transmitting, Serving, Sound, Receiving
<1>9. Following(u)
  BY <1>0, <1>1, <1>2, <1>5, <1>6 DEF Core, Following
<1>10. Deferring(u)
  <2>1. u.timer["defer"] <= SIFS
    BY <1>0, <1>3, <1>4 DEF Core, Deferring
  <2> QED
    BY <1>0, <1>1, <1>2, <1>5, <2>1 DEF Core, Deferring
<1>11. Counting(m) => /\ m.backoff.left \in Int /\ u.backoff.left = m.backoff.left - d
                      /\ d <= m.backoff.left
  <2>1. m.backoff.left \in Int
    BY <1>0, MacFields
  <2> QED
    BY <1>1, <2>1 DEF Within
<1>12. BackingOff(u)
  <2>1. Counting(u) => IsIdle(u) /\ u.backoff.left >= 0
    BY <1>0, <1>6, <1>7, <1>11 DEF Core, BackingOff
  <2> QED
    BY <1>0, <1>1, <1>2, <1>5, <2>1 DEF Core, BackingOff
<1>13. Radiating(u)
  <2> SUFFICES ASSUME m.timer["if"] # Off
               PROVE  /\ u.timer["send"] # Off => u.timer["if"] <= u.timer["send"]
                      /\ u.timer["send"] = Off => u.timer["if"] = 0
                      /\ u.timer["defer"] # Off => u.timer["defer"] > u.timer["if"]
                      /\ Counting(u) => u.backoff.left > u.timer["if"]
    BY <1>5 DEF Radiating
  <2>1. /\ m.timer["send"] # Off => m.timer["if"] <= m.timer["send"]
        /\ m.timer["send"] = Off => m.timer["if"] = 0
        /\ m.timer["defer"] # Off => m.timer["defer"] > m.timer["if"]
        /\ Counting(m) => m.backoff.left > m.timer["if"]
    BY <1>0 DEF Core, Radiating
  <2>2. /\ m.timer["if"] \in Int /\ u.timer["if"] = m.timer["if"] - d
        /\ d <= m.timer["if"]
    BY <1>3, <1>4
  <2>3. u.timer["send"] # Off => u.timer["if"] <= u.timer["send"]
    BY <1>3, <1>4, <1>5, <2>1, <2>2
  <2>4. u.timer["send"] = Off => u.timer["if"] = 0
    BY <1>5, <2>1, <2>2
  <2>5. u.timer["defer"] # Off => u.timer["defer"] > u.timer["if"]
    BY <1>3, <1>4, <1>5, <2>1, <2>2
  <2>6. Counting(u) => u.backoff.left > u.timer["if"]
    BY <1>6, <1>11, <2>1, <2>2
  <2> QED
    BY <2>3, <2>4, <2>5, <2>6
<1>14. Undisturbed(u)
  <2>1. u.pktCTRL = None /\ u.timer["defer"] # Off =>
          u.rx = "IDLE" \/ Spoilt(u) \/ u.timer["recv"] > u.timer["defer"]
    <3>1. m.rx # "IDLE" => m.timer["recv"] # Off
      BY DEF Sound, Receiving
    <3>2. m.pktCTRL = None /\ m.timer["defer"] # Off =>
            m.rx = "IDLE" \/ Spoilt(m) \/ m.timer["recv"] > m.timer["defer"]
      BY DEF Sound, Undisturbed
    <3>3. m.timer["recv"] # Off /\ m.timer["defer"] # Off
            /\ m.timer["recv"] > m.timer["defer"]
          => u.timer["recv"] > u.timer["defer"]
      BY <1>3, <1>4
    <3> QED
      BY <1>2, <1>5, <1>6, <3>1, <3>2, <3>3
  <2>2. ASSUME u.tx = "ACK"
        PROVE  /\ u.timer["if"] \in {u.timer["send"], Off}
               /\ u.timer["if"] = Off => u.timer["send"] = 0
               /\ \/ u.rx = "IDLE" \/ Spoilt(u)
                  \/ u.timer["send"] = 0 /\ u.timer["recv"] > SIFS
    <3>1. /\ m.timer["if"] \in {m.timer["send"], Off}
          /\ m.timer["if"] = Off => m.timer["send"] = 0
          /\ \/ m.rx = "IDLE" \/ Spoilt(m)
             \/ m.timer["send"] = 0 /\ m.timer["recv"] > SIFS
      BY <1>2, <2>2 DEF Sound, Undisturbed
    <3>2. m.timer["if"] = m.timer["send"] => u.timer["if"] = u.timer["send"]
      BY <1>3, <1>4
    <3>3. m.timer["send"] = 0 => d = 0 /\ u.timer["send"] = 0
      BY <1>0, <1>3, <1>4
    <3>4. m.timer["send"] = 0 /\ m.timer["recv"] > SIFS => u.timer["recv"] > SIFS
      BY <1>0, <1>3, <1>4, <3>3
    <3> QED
      BY <1>2, <1>5, <1>6, <3>1, <3>2, <3>3, <3>4
  <2> QED
    BY <2>1, <2>2 DEF Undisturbed
<1> QED
  BY <1>2, <1>6, <1>8, <1>9, <1>10, <1>12, <1>13, <1>14
  DEF Handles, Sound, Core, u

-----------------------------------------------------------------------------
(* The steps of the specification.                                         *)

(* What NeverStalls says of a step *)
GoOn ==
    \A n \in Node :
        /\ IsServed(mac'[n])
        /\ GoesOn(mac[n]) => GoesOn(mac'[n]) \/ DropsCTS(mac[n])

LEMMA SoundIsServed ==
    ASSUME NEW m, Sound(m)
    PROVE  IsServed(m)
<1>1. m.backoff.paused => \E t \in {"send", "recv", "nav"} : m.timer[t] # Off
  BY DEF Sound, Core, BackingOff, Transmitting, Receiving
<1>2. m.blocked = (m.pktTx # None \/ m.callback)
  BY DEF Sound, Core, IsMac, Serving
<1> QED
  BY <1>1, <1>2 DEF IsServed

LEMMA IdleIsSound ==
    ASSUME NEW n \in Node
    PROVE  Sound(Idle(n)) /\ Idle(n).self = n
<1> DEFINE m == Idle(n)
<1>1. /\ m.self = n /\ m.tx = "IDLE" /\ m.rx = "IDLE" /\ m.pktTx = None
      /\ m.pktRTS = FALSE /\ m.pktCTRL = None /\ m.pktRx = None
      /\ m.error = FALSE /\ m.callback = FALSE /\ m.blocked = FALSE
      /\ m.backoff = NoBackoff /\ m.out = None /\ m.failed = FALSE
      /\ m.queue = <<>> /\ m.seq = 0 /\ m.seqno = FirstSeqno
  BY DEF Idle
<1>2. /\ m.timer = [t \in Timer |-> Off] /\ DOMAIN m = Field
  BY DEF Idle, Field
<1>3. /\ m.timer["send"] = Off /\ m.timer["defer"] = Off
      /\ m.timer["recv"] = Off /\ m.timer["if"] = Off /\ m.timer["nav"] = Off
      /\ m.timer \in [Timer -> Clock]
  BY <1>2 DEF Timer, Clock, Off
<1>4. NoBackoff \in Backoff /\ NoBackoff.on = FALSE /\ NoBackoff.paused = FALSE
  BY DEF NoBackoff, Backoff
<1>5. FirstSeqno \in Nat
  BY MibAssumption
<1> HIDE DEF m
<1>6. IsMac(m)
  <2>1. m.queue \in Seq(Packet)
    BY <1>1
  <2>2. /\ m.pktRTS \in BOOLEAN /\ m.error \in BOOLEAN
        /\ m.callback \in BOOLEAN /\ m.blocked \in BOOLEAN
    BY <1>1
  <2>3. m.seq \in Nat /\ m.seqno \in Nat
    BY <1>1, <1>5
  <2> QED
    BY <1>1, <1>2, <1>3, <1>4, <1>5, <2>1, <2>2, <2>3 DEF IsMac
<1>7. ~Counting(m) /\ ~Cleared(m)
  BY <1>1, <1>4 DEF Counting, Cleared
<1>8. /\ Transmitting(m) /\ Following(m) /\ Radiating(m) /\ BackingOff(m)
      /\ Serving(m) /\ Receiving(m) /\ Undisturbed(m)
  BY <1>1, <1>3, <1>4, <1>7
  DEF Transmitting, Following, Radiating, BackingOff, Serving, Receiving,
      Undisturbed
<1>9. Deferring(m)
  BY <1>1, <1>3, Times DEF Deferring, Off
<1> QED
  BY <1>1, <1>6, <1>8, <1>9 DEF Sound, Core, m

(* The event that is due at a node *)
LEMMA HandledStep ==
    ASSUME BugFixTimer, DurationsFit, NEW m, Sound(m),
           NEW e \in Timer \cup {"backoff"}, EventDue(m, e), NEW r \in Slots
    PROVE  Handles(m, Handled(m, e, r))
<1>1. CASE e = "send"
  BY <1>1, SendHandlerStep DEF Handled, EventDue
<1>2. CASE e = "defer"
  BY <1>2, DeferHandlerStep DEF Handled, EventDue
<1>3. CASE e = "recv"
  BY <1>3, RecvHandlerStep DEF Handled, EventDue
<1>4. CASE e = "nav"
  BY <1>4, NavHandlerStep DEF Handled, EventDue
<1>5. CASE e = "if"
  BY <1>5, IfHandlerStep DEF Handled, EventDue
<1>6. CASE e = "backoff"
  BY <1>6, BackoffHandlerStep DEF Handled, EventDue, Counting
<1> QED
  BY <1>1, <1>2, <1>3, <1>4, <1>5, <1>6 DEF Timer

(* Node n becomes m, which its handler made of it. *)
LEMMA OneChanges ==
    ASSUME AllSound, NEW n \in Node, NEW m, Handles(mac[n], m),
           mac' = [mac EXCEPT ![n] = m],
           \A x \in air' : x.frame \in Proper /\ x.in \in Nat,
           coming' \in [Packet -> Clock]
    PROVE  AllSound' /\ GoOn
<1>1. /\ DOMAIN mac' = Node /\ mac'[n] = m
      /\ \A k \in Node \ {n} : mac'[k] = mac[k]
  BY DEF AllSound
<1>2. \A k \in Node : Sound(mac'[k]) /\ mac'[k].self = k
  BY <1>1 DEF AllSound, Handles
<1>3. \A k \in Node : GoesOn(mac[k]) => GoesOn(mac'[k]) \/ DropsCTS(mac[k])
  BY <1>1 DEF Handles
<1>4. AllSound'
  BY <1>1, <1>2 DEF AllSound
<1> QED
  BY <1>2, <1>3, <1>4, SoundIsServed DEF GoOn


LEMMA BecomesStep ==
    ASSUME AllSound, NEW n \in Node, NEW m, Handles(mac[n], m), Becomes(n, m),
           coming' \in [Packet -> Clock]
    PROVE  AllSound' /\ GoOn
<1> DEFINE u == [m EXCEPT !.out = None]
<1>1. IsMac(m) /\ Sound(m) /\ m.self = mac[n].self
      /\ m.out \in Proper \cup {None}
  BY DEF Handles, Sound, Core, IsMac
<1>2. Changes(m, u, {"out"})
  BY <1>1 DEF IsMac, Changes, Field
<1> HIDE DEF u
<1>3. Changes(m, u, {"queue", "out"})
  BY <1>2 DEF Changes
<1>4. Sound(u) /\ u.self = m.self
  BY <1>1, <1>3, SoundKept DEF Handles
<1>5. GoesOn(u) <=> GoesOn(m)
  <2>1. /\ u.timer = m.timer /\ u.backoff = m.backoff /\ u.pktTx = m.pktTx
        /\ u.pktRTS = m.pktRTS /\ u.pktCTRL = m.pktCTRL
    BY <1>2 DEF Changes, Field
  <2> QED
    BY <2>1 DEF GoesOn
<1>6. Handles(mac[n], u)
  BY <1>1, <1>4, <1>5 DEF Handles
<1>7. mac' = [mac EXCEPT ![n] = u]
  BY DEF Becomes, u
<1>8. \A x \in air' : x.frame \in Proper /\ x.in \in Nat
  <2>1. CASE m.out = None
    BY <2>1 DEF Becomes, AllSound
  <2>2. CASE m.out # None
    <3>1. PICK lost : air' = air \cup {[to |-> x, frame |-> m.out, in |-> PropDelay] :
                                         x \in hears[n] \ lost}
      BY <2>2 DEF Becomes
    <3> QED
      BY <1>1, <2>2, <3>1 DEF AllSound, PropDelay
  <2> QED
    BY <2>1, <2>2
<1> QED
  BY <1>6, <1>7, <1>8, OneChanges

LEMMA PendingIs ==
    Pending = ({mac[n].timer[t] : n \in Node, t \in Timer}
                 \cup {mac[n].backoff.left : n \in {k \in Node : Counting(mac[k])}}
                 \cup {x.in : x \in air}
                 \cup {coming[p] : p \in Packet}) \ {Off}
<1> DEFINE A == {mac[n].timer[t] : n \in Node, t \in Timer}
           B == {mac[n].backoff.left : n \in {k \in Node : Counting(mac[k])}}
           C == {x.in : x \in air}
           D == {coming[p] : p \in Packet}
<1>1. Pending = (UNION {A, B, C, D}) \ {Off}
  BY DEF Pending, Counting
<1> HIDE DEF A, B, C, D
<1>2. UNION {A, B, C, D} = A \cup B \cup C \cup D
  OBVIOUS
<1>3. Pending = (A \cup B \cup C \cup D) \ {Off}
  BY <1>1, <1>2
<1> QED
  BY <1>3 DEF A, B, C, D

(* What time passes until: the next event *)
LEMMA NextEvent ==
    ASSUME AllSound, Pending # {}
    PROVE  LET d == CHOOSE x \in Pending : \A y \in Pending : x <= y
           IN  /\ d \in Nat /\ \A y \in Pending : d <= y
               /\ \A n \in Node : Within(mac[n], d)
<1>1. Pending \subseteq Nat
  <2>1. ASSUME NEW n \in Node, NEW t \in Timer
        PROVE  mac[n].timer[t] # Off => mac[n].timer[t] \in Nat
    BY MacFields DEF AllSound, Sound, Core, Off
  <2>2. ASSUME NEW n \in Node, Counting(mac[n])
        PROVE  mac[n].backoff.left \in Nat
    BY <2>2, MacFields DEF AllSound, Sound, Core, BackingOff
  <2>3. \A x \in air : x.in \in Nat
    BY DEF AllSound
  <2>4. \A p \in Packet : coming[p] # Off => coming[p] \in Nat
    BY DEF AllSound, Clock, Off
  <2>5. ASSUME NEW y \in Pending PROVE y \in Nat
    BY <2>1, <2>2, <2>3, <2>4, PendingIs
  <2> QED
    BY <2>5
<1> DEFINE d == CHOOSE x \in Pending : \A y \in Pending : x <= y
<1>2. d \in Pending /\ \A y \in Pending : d <= y
  BY <1>1, LeastNumber
<1> HIDE DEF d
<1>3. ASSUME NEW n \in Node PROVE Within(mac[n], d)
  <2>1. \A t \in Timer : mac[n].timer[t] # Off => mac[n].timer[t] \in Pending
    BY PendingIs
  <2>2. Counting(mac[n]) => mac[n].backoff.left \in Pending
    <3>1. Counting(mac[n]) => mac[n].backoff.left # Off
      BY MacFields DEF AllSound, Sound, Core, BackingOff, Off
    <3> QED
      BY <3>1, PendingIs
  <2> QED
    BY <1>2, <2>1, <2>2 DEF Within
<1> QED
  BY <1>1, <1>2, <1>3 DEF d

LEMMA TickStep ==
    ASSUME AllSound, Tick
    PROVE  AllSound' /\ GoOn
<1> DEFINE d == CHOOSE x \in Pending : \A y \in Pending : x <= y
<1>1. /\ d \in Nat /\ \A y \in Pending : d <= y
      /\ \A n \in Node : Within(mac[n], d)
  BY NextEvent DEF Tick
<1>2. /\ mac' = [n \in Node |-> Aged(mac[n], d)]
      /\ air' = {[x EXCEPT !.in = @ - d] : x \in air}
      /\ coming' = [p \in Packet |-> Less(coming[p], d)]
  BY DEF Tick, Aged
<1> HIDE DEF d
<1>3. ASSUME NEW n \in Node
      PROVE  mac'[n] = Aged(mac[n], d) /\ Handles(mac[n], mac'[n])
  BY <1>1, <1>2, AgedStep DEF AllSound
<1>4. ASSUME NEW x \in air
      PROVE  LET y == [x EXCEPT !.in = @ - d]
             IN  y.frame \in Proper /\ y.in \in Nat
  <2>1. x.in \in Nat /\ x.frame \in Proper /\ Off = -1
    BY DEF AllSound, Off
  <2>2. d <= x.in
    <3>1. x.in # Off
      BY <2>1
    <3>2. x.in \in Pending
      BY <3>1, PendingIs
    <3> QED
      BY <1>1, <3>2
  <2> QED
    BY <1>1, <2>1, <2>2
<1>5. \A y \in air' : y.frame \in Proper /\ y.in \in Nat
  BY <1>2, <1>4
<1>6. ASSUME NEW p \in Packet PROVE Less(coming[p], d) \in Clock
  <2>1. coming[p] \in Int /\ coming[p] >= Off
    BY DEF AllSound, Clock
  <2>2. coming[p] # Off => d <= coming[p]
    BY <1>1, PendingIs
  <2> QED
    BY <1>1, <2>1, <2>2, LessIsClock
<1>7. coming' \in [Packet -> Clock]
  BY <1>2, <1>6
<1>8. AllSound'
  BY <1>2, <1>3, <1>5, <1>7 DEF AllSound, Handles
<1>9. GoOn
  BY <1>3, SoundIsServed DEF GoOn, Handles
<1> QED
  BY <1>8, <1>9

LEMMA NextStep ==
    ASSUME BugFixTimer, DurationsFit, AllSound, Next
    PROVE  AllSound' /\ GoOn
<1>1. ASSUME NEW n \in Node, Timeout(n)
      PROVE  AllSound' /\ GoOn
  <2>1. PICK e \in Timer \cup {"backoff"}, r \in Slots :
          EventDue(mac[n], e) /\ Becomes(n, Handled(mac[n], e, r))
    BY <1>1 DEF Timeout
  <2>2. Handles(mac[n], Handled(mac[n], e, r))
    BY <2>1, HandledStep DEF AllSound
  <2>3. coming' \in [Packet -> Clock]
    BY <1>1 DEF Timeout, AllSound
  <2> QED
    BY <2>1, <2>2, <2>3, BecomesStep
<1>2. ASSUME NEW n \in Node, Arrival(n)
      PROVE  AllSound' /\ GoOn
  <2>1. PICK x \in air, captured \in Capture :
          /\ mac' = [mac EXCEPT ![n] = Recv(@, x.frame, captured)]
          /\ air' = air \ {x}
    BY <1>2 DEF Arrival
  <2>2. captured \in BOOLEAN /\ x.frame \in Proper /\ Sound(mac[n])
    BY MibAssumption DEF AllSound
  <2>3. Handles(mac[n], Recv(mac[n], x.frame, captured))
    BY <2>2, RecvStep
  <2>4. mac' = [mac EXCEPT ![n] = Recv(mac[n], x.frame, captured)]
    BY <2>1 DEF AllSound
  <2>5. /\ \A y \in air' : y.frame \in Proper /\ y.in \in Nat
        /\ coming' \in [Packet -> Clock]
    BY <1>2, <2>1 DEF Arrival, AllSound
  <2> QED
    BY <2>3, <2>4, <2>5, OneChanges
<1>3. ASSUME NEW p \in Packet, HandDown(p)
      PROVE  AllSound' /\ GoOn
  <2> DEFINE n == Origin[p]
  <2>1. n \in Node /\ Sound(mac[n])
    BY PacketTypes DEF AllSound
  <2>2. coming' \in [Packet -> Clock]
    BY <1>3 DEF HandDown, AllSound, Clock, Off
  <2>3. CASE mac[n].blocked
    <3>1. mac' = [mac EXCEPT ![n] = [mac[n] EXCEPT !.queue = Append(@, p)]]
      BY <1>3, <2>1, <2>3 DEF HandDown, AllSound
    <3>2. Handles(mac[n], [mac[n] EXCEPT !.queue = Append(@, p)])
      BY <2>1, QueuedStep
    <3>3. \A x \in air' : x.frame \in Proper /\ x.in \in Nat
      BY <1>3, <2>3 DEF HandDown, AllSound
    <3> HIDE DEF n
    <3> QED
      BY <2>1, <2>2, <3>1, <3>2, <3>3, OneChanges
  <2>4. CASE ~mac[n].blocked
    <3>1. PICK r \in Slots :
            Becomes(n, Send([mac[n] EXCEPT !.blocked = TRUE], p, r))
      BY <1>3, <2>4 DEF HandDown
    <3>2. Handles(mac[n], Send([mac[n] EXCEPT !.blocked = TRUE], p, r))
      BY <2>1, <2>4, HandedDownStep
    <3> HIDE DEF n
    <3> QED
      BY <2>1, <2>2, <3>1, <3>2, BecomesStep
  <2> QED
    BY <2>3, <2>4
<1>4. ASSUME Tick PROVE AllSound' /\ GoOn
  BY <1>4, TickStep
<1> QED
  BY <1>1, <1>2, <1>3, <1>4 DEF Next

-----------------------------------------------------------------------------
(* Whatever frames come, are lost or collide, the MAC of every node is in  *)
(* a state in which its handlers find what they assert and know of no      *)
(* frame shorter than a SIFS (mac-802_11.cc).                              *)
THEOREM MacsAreSound ==
    ASSUME BugFixTimer, DurationsFit
    PROVE  Spec => []AllSound
<1>1. Init => AllSound
  <2> SUFFICES ASSUME Init PROVE AllSound
    OBVIOUS
  <2>1. \A n \in Node : mac[n] = Idle(n)
    BY DEF Init
  <2>2. coming \in [Packet -> Clock]
    BY PacketAssumption DEF Init, Clock, Off
  <2> QED
    BY <2>1, <2>2, IdleIsSound DEF Init, AllSound
<1>2. AllSound /\ [Next]_vars => AllSound'
  <2>1. CASE Next
    BY <2>1, NextStep
  <2>2. CASE UNCHANGED vars
    BY <2>2 DEF vars, AllSound
  <2> QED
    BY <2>1, <2>2
<1> QED
  BY <1>1, <1>2, PTL DEF Spec

(* No assertion of mac-802_11.cc and mac-timers.cc ever fails: no timer is *)
(* started twice or stopped when it does not run, no packet or frame is    *)
(* replaced that is still needed, in whatever order the events come.       *)
THEOREM NoAssertionFails ==
    ASSUME BugFixTimer, DurationsFit
    PROVE  Spec => []AssertionsHold
<1>1. AllSound => AssertionsHold
  BY DEF AllSound, Sound, Core, IsMac, AssertionsHold
<1> QED
  BY <1>1, MacsAreSound, PTL

(* After every event a MAC that has something to send has a timer that     *)
(* makes it go on, unless it had none before or check_pktCTRL() has just   *)
(* dropped a CTS; a backoff that is paused has an event to resume it       *)
(* (checkBackoffTimer()), and the queue is blocked exactly as long as the  *)
(* MAC owes it a callback (tx_resume()).                                   *)
THEOREM MacsGoOn ==
    ASSUME BugFixTimer, DurationsFit
    PROVE  Spec => NeverStalls
<1>1. AllSound /\ [Next]_vars => [GoOn]_vars
  BY NextStep
<1>2. [GoOn]_vars =>
        [\A n \in Node :
            /\ IsServed(mac'[n])
            /\ GoesOn(mac[n]) => GoesOn(mac'[n]) \/ DropsCTS(mac[n])]_vars
  BY DEF GoOn
<1> QED
  BY <1>1, <1>2, MacsAreSound, PTL DEF Spec, NeverStalls

-----------------------------------------------------------------------------
(***************************************************************************)
(* Proofs that Mac80211 is a link as UnicastLink promises: a packet passes *)
(* up at its next hop at most once and only while the sender's MAC has it. *)
(* The first part says what each handler does to the packets of its MAC;   *)
(* the second follows a frame from transmit() over the channel to the      *)
(* filter for duplicates of the receiver.                                  *)
(***************************************************************************)

-----------------------------------------------------------------------------
(* What the calls change, whatever they are called with.                   *)

(* u is m but for the fields F; nothing is said of their types. *)
Alters(m, u, F) ==
    /\ DOMAIN m = Field /\ DOMAIN u = Field
    /\ \A f \in Field \ F : u[f] = m[f]

(* u is m but for the fields F and the timers T. *)
Retimes(m, u, F, T) ==
    /\ Alters(m, u, F \cup {"timer", "failed"})
    /\ DOMAIN m.timer = Timer /\ DOMAIN u.timer = Timer
    /\ \A t \in Timer \ T : u.timer[t] = m.timer[t]

(* A record of a MAC *)
Shaped(m) == DOMAIN m = Field /\ DOMAIN m.timer = Timer

LEMMA MacIsShaped ==
    ASSUME NEW m, IsMac(m)
    PROVE  Shaped(m)
BY DEF Shaped, IsMac

LEMMA NothingAltered ==
    ASSUME NEW m, Shaped(m), NEW F, NEW T
    PROVE  Retimes(m, m, F, T)
BY DEF Shaped, Retimes, Alters

LEMMA RetimesChain ==
    ASSUME NEW m, NEW v, NEW u, NEW F, NEW G, NEW H, NEW S, NEW T, NEW R,
           Retimes(m, v, F, S), Retimes(v, u, G, T),
           F \subseteq H, G \subseteq H, S \subseteq R, T \subseteq R
    PROVE  Retimes(m, u, H, R)
BY DEF Retimes, Alters

LEMMA RetimesMore ==
    ASSUME NEW m, NEW u, NEW F, NEW H, NEW T, NEW R, Retimes(m, u, F, T),
           F \subseteq H, T \subseteq R
    PROVE  Retimes(m, u, H, R)
BY DEF Retimes, Alters

LEMMA RetimesShape ==
    ASSUME NEW m, NEW u, NEW F, NEW T, Retimes(m, u, F, T)
    PROVE  Shaped(m) /\ Shaped(u)
BY DEF Retimes, Alters, Shaped

LEMMA AltersOnly ==
    ASSUME NEW m, NEW u, NEW F, NEW T, Shaped(m), Alters(m, u, F \cup {"failed"}),
           "timer" \notin F
    PROVE  Retimes(m, u, F, T)
<1>1. u.timer = m.timer
  BY DEF Alters, Field
<1> QED
  BY <1>1 DEF Retimes, Alters, Shaped

LEMMA CheckAlters ==
    ASSUME NEW m, Shaped(m), NEW h
    PROVE  Retimes(m, Check(m, h), {}, {})
<1>1. Alters(m, Check(m, h), {} \cup {"failed"})
  BY DEF Alters, Shaped, Check, Field
<1> QED
  BY <1>1, AltersOnly

LEMMA TimerAlters ==
    ASSUME NEW m, Shaped(m), NEW t \in Timer, NEW x
    PROVE  LET u == [m EXCEPT !.timer[t] = x]
           IN  Retimes(m, u, {}, {t}) /\ u.timer[t] = x
BY DEF Retimes, Alters, Shaped, Field

(* MacTimer::start() and stop() *)
LEMMA StartAlters ==
    ASSUME NEW m, Shaped(m), NEW t \in Timer, NEW x
    PROVE  LET u == StartTimer(m, t, x)
           IN  Retimes(m, u, {}, {t}) /\ u.timer[t] = x
<1> DEFINE v == Check(m, m.timer[t] = Off)
           u == [v EXCEPT !.timer[t] = x]
<1>1. Retimes(m, v, {}, {})
  BY CheckAlters
<1> HIDE DEF v
<1>2. Retimes(v, u, {}, {t}) /\ u.timer[t] = x
  BY <1>1, RetimesShape, TimerAlters
<1> HIDE DEF u
<1>3. Retimes(m, u, {}, {t}) /\ u.timer[t] = x
  BY <1>1, <1>2, RetimesChain
<1> QED
  BY <1>3 DEF StartTimer, u, v

LEMMA StopAlters ==
    ASSUME NEW m, Shaped(m), NEW t \in Timer
    PROVE  Retimes(m, StopTimer(m, t), {}, {t})
<1> DEFINE v == Check(m, m.timer[t] # Off)
           u == [v EXCEPT !.timer[t] = Off]
<1>1. Retimes(m, v, {}, {})
  BY CheckAlters
<1> HIDE DEF v
<1>2. Retimes(v, u, {}, {t})
  BY <1>1, RetimesShape, TimerAlters
<1> HIDE DEF u
<1>3. Retimes(m, u, {}, {t})
  BY <1>1, <1>2, RetimesChain
<1> QED
  BY <1>3 DEF StopTimer, u, v

LEMMA BackoffAlters ==
    ASSUME NEW m, Shaped(m), NEW r, NEW difs
    PROVE  /\ Retimes(m, StartBackoff(m, r, difs), {"backoff"}, {})
           /\ Retimes(m, ResumeBackoff(m), {"backoff"}, {})
           /\ Retimes(m, PauseBackoff(m), {"backoff"}, {})
           /\ Retimes(m, CheckBackoff(m), {"backoff"}, {})
<1>1. ASSUME NEW b, NEW v, Retimes(m, v, {}, {})
      PROVE  Retimes(m, [v EXCEPT !.backoff = b], {"backoff"}, {})
  BY <1>1 DEF Retimes, Alters, Field
<1>2. Retimes(m, StartBackoff(m, r, difs), {"backoff"}, {})
  BY <1>1, CheckAlters DEF StartBackoff
<1>3. Retimes(m, ResumeBackoff(m), {"backoff"}, {})
  BY DEF ResumeBackoff, Retimes, Alters, Field, Shaped
<1>4. Retimes(m, PauseBackoff(m), {"backoff"}, {})
  BY <1>1, NothingAltered DEF PauseBackoff
<1>5. Retimes(m, m, {"backoff"}, {})
  BY NothingAltered
<1> QED
  BY <1>2, <1>3, <1>4, <1>5 DEF CheckBackoff

LEMMA SetTxAlters ==
    ASSUME NEW m, Shaped(m), NEW s
    PROVE  LET u == SetTx(m, s)
           IN  Retimes(m, u, {"tx", "backoff"}, {}) /\ u.tx = s
<1> DEFINE v == [m EXCEPT !.tx = s]
           u == CheckBackoff(v)
<1>1. Retimes(m, v, {"tx"}, {}) /\ v.tx = s
  BY DEF Retimes, Alters, Field, Shaped
<1> HIDE DEF v
<1>2. Retimes(v, u, {"backoff"}, {})
  BY <1>1, RetimesShape, BackoffAlters
<1> HIDE DEF u
<1>3. Retimes(m, u, {"tx", "backoff"}, {})
  BY <1>1, <1>2, RetimesChain
<1>4. u.tx = s
  BY <1>1, <1>2 DEF Retimes, Alters, Field
<1> QED
  BY <1>3, <1>4 DEF SetTx, u, v

LEMMA SetRxAlters ==
    ASSUME NEW m, Shaped(m), NEW s
    PROVE  LET u == SetRx(m, s)
           IN  Retimes(m, u, {"rx", "backoff"}, {}) /\ u.rx = s
<1> DEFINE v == [m EXCEPT !.rx = s]
           u == CheckBackoff(v)
<1>1. Retimes(m, v, {"rx"}, {}) /\ v.rx = s
  BY DEF Retimes, Alters, Field, Shaped
<1> HIDE DEF v
<1>2. Retimes(v, u, {"backoff"}, {})
  BY <1>1, RetimesShape, BackoffAlters
<1> HIDE DEF u
<1>3. Retimes(m, u, {"rx", "backoff"}, {})
  BY <1>1, <1>2, RetimesChain
<1>4. u.rx = s
  BY <1>1, <1>2 DEF Retimes, Alters, Field
<1> QED
  BY <1>3, <1>4 DEF SetRx, u, v

(* transmit() *)
LEMMA TransmitAlters ==
    ASSUME NEW m, Shaped(m), NEW f, NEW timeout
    PROVE  LET u == Transmit(m, f, timeout)
           IN  /\ Retimes(m, u, {"error", "out"}, {"send", "if"})
               /\ u.out = f /\ u.timer["send"] = timeout
               /\ u.timer["if"] = f.time
               /\ (m.rx # "IDLE" => u.error) /\ (m.rx = "IDLE" => u.error = m.error)
<1> DEFINE v == IF m.rx = "IDLE" THEN m
                ELSE [Check(m, m.pktRx # None) EXCEPT !.error = TRUE]
           w == StartTimer(v, "send", timeout)
           x == StartTimer(w, "if", f.time)
           u == [x EXCEPT !.out = f]
<1>1. /\ Retimes(m, v, {"error"}, {})
      /\ (m.rx # "IDLE" => v.error) /\ (m.rx = "IDLE" => v.error = m.error)
  <2>1. CASE m.rx = "IDLE"
    BY <2>1, NothingAltered
  <2>2. CASE m.rx # "IDLE"
    <3> DEFINE c == Check(m, m.pktRx # None)
    <3>1. Retimes(m, c, {}, {})
      BY CheckAlters
    <3>2. v = [c EXCEPT !.error = TRUE]
      BY <2>2
    <3> HIDE DEF c, v
    <3> QED
      BY <2>2, <3>1, <3>2 DEF Retimes, Alters, Field
  <2> QED
    BY <2>1, <2>2
<1> HIDE DEF v
<1>2. "send" \in Timer /\ "if" \in Timer
  BY DEF Timer
<1>3. Retimes(v, w, {}, {"send"}) /\ w.timer["send"] = timeout
  BY <1>1, <1>2, RetimesShape, StartAlters
<1> HIDE DEF w
<1>4. Retimes(w, x, {}, {"if"}) /\ x.timer["if"] = f.time
  BY <1>2, <1>3, RetimesShape, StartAlters
<1> HIDE DEF x
<1>5. Retimes(x, u, {"out"}, {}) /\ u.out = f
  BY <1>4 DEF Retimes, Alters, Field
<1> HIDE DEF u
<1>6. Retimes(m, w, {"error"}, {"send"})
  BY <1>1, <1>3, RetimesChain
<1>7. Retimes(m, x, {"error"}, {"send", "if"})
  BY <1>4, <1>6, RetimesChain
<1>8. Retimes(m, u, {"error", "out"}, {"send", "if"})
  BY <1>5, <1>7, RetimesChain
<1>9. u.error = v.error
  BY <1>3, <1>4, <1>5 DEF Retimes, Alters, Field
<1>10. u.timer["send"] = timeout /\ u.timer["if"] = f.time
  BY <1>2, <1>3, <1>4, <1>5 DEF Retimes
<1> QED
  BY <1>1, <1>5, <1>8, <1>9, <1>10 DEF Transmit, u, x, w, v

LEMMA SetNavAlters ==
    ASSUME NEW m, Shaped(m), NEW us
    PROVE  Retimes(m, SetNav(m, us), {}, {"nav"})
<1>1. "nav" \in Timer
  BY DEF Timer
<1> QED
  BY <1>1, TimerAlters, NothingAltered DEF SetNav

LEMMA ContendAlters ==
    ASSUME BugFixTimer, NEW m, Shaped(m), NEW r
    PROVE  Retimes(m, Contend(m, r), {"backoff"}, {})
BY BackoffAlters DEF Contend

LEMMA SendRTSAlters ==
    ASSUME NEW m, Shaped(m)
    PROVE  Retimes(m, SendRTS(m), {"pktRTS"}, {})
<1> DEFINE v == Check(m, m.pktTx # None /\ ~m.pktRTS)
           u == [v EXCEPT !.pktRTS = NeedsRTS(m.pktTx)]
<1>1. Retimes(m, v, {}, {})
  BY CheckAlters
<1>2. u = SendRTS(m)
  BY DEF SendRTS
<1> HIDE DEF v
<1>3. Retimes(v, u, {"pktRTS"}, {})
  BY <1>1 DEF Retimes, Alters, Field
<1> HIDE DEF u
<1> QED
  BY <1>1, <1>2, <1>3, RetimesChain

-----------------------------------------------------------------------------
(* What becomes of the packets.                                            *)

(* How many were done with *)
DoneBy(m) == m.acked \cup m.given

Sender == {"pktTx", "seq", "queue", "acked", "given"}

(* The packets are where they were. *)
Keeps(m, u) ==
    /\ u.pktTx = m.pktTx /\ u.seq = m.seq /\ u.queue = m.queue
    /\ DoneBy(u) = DoneBy(m)

(* The next packet is taken from the queue if there is no other. *)
TakesNext(m, u) ==
    /\ m.queue # <<>>
    /\ u.pktTx = Head(m.queue) /\ u.queue = Tail(m.queue)

Fetches(m, u) ==
    /\ DoneBy(u) = DoneBy(m)
    /\ \/ u.pktTx = m.pktTx /\ u.seq = m.seq /\ u.queue = m.queue
       \/ m.pktTx = None /\ TakesNext(m, u)

(* The packet is done with, and the next one may be taken. *)
Finishes(m, u) ==
    /\ m.pktTx # None /\ DoneBy(u) = DoneBy(m) \cup {m.pktTx}
    /\ \/ u.pktTx = None /\ u.queue = m.queue
       \/ TakesNext(m, u)

Proceeds(m, u) == Fetches(m, u) \/ Finishes(m, u)

LEMMA SenderKept ==
    ASSUME NEW m, NEW u, NEW F, NEW T, Retimes(m, u, F, T), F \cap Sender = {}
    PROVE  Keeps(m, u) /\ u.acked = m.acked /\ u.given = m.given
<1>1. Sender \subseteq Field \ (F \cup {"timer", "failed"})
  BY DEF Sender, Field
<1> QED
  BY <1>1 DEF Retimes, Alters, Keeps, DoneBy, Sender

(* send() *)
LEMMA SendAlters ==
    ASSUME BugFixTimer, NEW m, Shaped(m), NEW p, NEW r
    PROVE  LET u == Send(m, p, r)
           IN  Retimes(m, u, SendChanges, {}) /\ u.pktTx = p
<1> DEFINE c == Check(m, m.pktTx = None)
           v == [c EXCEPT !.callback = TRUE, !.pktTx = p, !.seq = m.seqno,
                          !.seqno = (m.seqno + 1) % SeqnoMod]
           w == SendRTS(v)
           u == Send(m, p, r)
           F == {"callback", "pktTx", "seq", "seqno"}
<1> SUFFICES Retimes(m, u, SendChanges, {}) /\ u.pktTx = p
  OBVIOUS
<1>1. Retimes(m, c, {}, {})
  BY CheckAlters
<1>2. u = IF w.backoff.on THEN w
          ELSE IF ~IsIdle(w) THEN StartBackoff(w, r, 0)
          ELSE IF w.timer["defer"] = Off THEN Contend(w, r)
          ELSE w
  BY DEF Send
<1> HIDE DEF c
<1>3. Retimes(c, v, F, {}) /\ v.pktTx = p
  BY <1>1 DEF Retimes, Alters, Field
<1> HIDE DEF v
<1>4. Retimes(v, w, {"pktRTS"}, {})
  BY <1>3, RetimesShape, SendRTSAlters
<1> HIDE DEF w, u
<1>5. Retimes(w, u, {"backoff"}, {})
  BY <1>2, <1>4, RetimesShape, BackoffAlters, ContendAlters, NothingAltered
<1>6. Retimes(m, v, F, {})
  BY <1>1, <1>3, RetimesChain
<1>7. Retimes(m, w, F \cup {"pktRTS"}, {})
  BY <1>4, <1>6, RetimesChain
<1>8. Retimes(m, u, SendChanges, {})
  BY <1>5, <1>7, RetimesChain DEF SendChanges
<1>9. u.pktTx = p
  BY <1>3, <1>4, <1>5 DEF Retimes, Alters, Field
<1> QED
  BY <1>8, <1>9

(* Queue::resume() *)
LEMMA ResumeQueueAlters ==
    ASSUME BugFixTimer, NEW m, Shaped(m), NEW r, m.pktTx = None
    PROVE  LET u == ResumeQueue(m, r)
           IN  /\ Retimes(m, u, SendChanges \cup {"queue", "blocked"}, {})
               /\ Fetches(m, u)
<1> DEFINE u == ResumeQueue(m, r)
           v == [m EXCEPT !.queue = Tail(m.queue)]
           F == SendChanges \cup {"queue", "blocked"}
<1> SUFFICES Retimes(m, u, F, {}) /\ Fetches(m, u)
  OBVIOUS
<1>1. CASE m.queue = <<>>
  <2>1. u = [m EXCEPT !.blocked = FALSE]
    BY <1>1 DEF ResumeQueue
  <2> HIDE DEF u
  <2>2. Retimes(m, u, {"blocked"}, {})
    BY <2>1 DEF Shaped, Retimes, Alters, Field
  <2>3. Keeps(m, u)
    BY <2>2, SenderKept DEF Sender
  <2> QED
    BY <2>2, <2>3 DEF Retimes, Alters, Keeps, Fetches
<1>2. CASE m.queue # <<>>
  <2>1. Retimes(m, v, {"queue"}, {}) /\ v.queue = Tail(m.queue)
    BY DEF Shaped, Retimes, Alters, Field
  <2>2. u = Send(v, Head(m.queue), r)
    BY <1>2 DEF ResumeQueue
  <2> HIDE DEF u, v
  <2>3. Retimes(v, u, SendChanges, {}) /\ u.pktTx = Head(m.queue)
    BY <2>1, <2>2, RetimesShape, SendAlters
  <2>4. Retimes(m, u, F, {})
    BY <2>1, <2>3, RetimesChain
  <2>5. u.queue = v.queue /\ DoneBy(u) = DoneBy(m)
    BY <2>1, <2>3 DEF Retimes, Alters, Field, SendChanges, DoneBy
  <2> QED
    BY <1>2, <2>1, <2>3, <2>4, <2>5 DEF Fetches, TakesNext
<1> QED
  BY <1>1, <1>2

(* tx_resume() *)
LEMMA TxResumeAlters ==
    ASSUME BugFixTimer, NEW m, Shaped(m), NEW r
    PROVE  LET u == TxResume(m, r)
           IN  /\ Retimes(m, u, ResumeChanges, {"defer"})
               /\ Fetches(m, u) /\ u.tx = "IDLE"
<1> DEFINE c == Check(m, m.timer["send"] = Off /\ m.timer["defer"] = Off)
           v == IF c.pktCTRL # None THEN StartTimer(c, "defer", SIFS)
                ELSE IF c.pktRTS
                  THEN IF c.backoff.on THEN c ELSE Contend(c, r)
                ELSE IF c.pktTx # None
                  THEN IF c.backoff.on THEN c
                       ELSE IF NeedsRTS(c.pktTx) THEN StartTimer(c, "defer", SIFS)
                       ELSE Contend(c, r)
                ELSE IF c.callback
                  THEN ResumeQueue([c EXCEPT !.callback = FALSE], r)
                ELSE c
           u == SetTx(v, "IDLE")
           F == SendChanges \cup {"queue", "blocked"}
<1>1. TxResume(m, r) = u
  BY DEF TxResume
<1>2. Retimes(m, c, {}, {}) /\ Keeps(m, c)
  <2>1. Retimes(m, c, {}, {})
    BY CheckAlters
  <2> HIDE DEF c
  <2> QED
    BY <2>1, SenderKept
<1> HIDE DEF c
<1>3. Shaped(c) /\ "defer" \in Timer
  BY <1>2, RetimesShape DEF Timer
<1>4. Retimes(c, v, F, {"defer"}) /\ Fetches(c, v)
  <2>1. CASE v = StartTimer(c, "defer", SIFS)
    <3>1. Retimes(c, v, {}, {"defer"})
      BY <1>3, <2>1, StartAlters
    <3> HIDE DEF v
    <3>2. Retimes(c, v, F, {"defer"})
      BY <3>1, RetimesMore
    <3>3. Keeps(c, v)
      BY <3>1, SenderKept
    <3> QED
      BY <3>2, <3>3 DEF Keeps, Fetches
  <2>2. CASE v = Contend(c, r)
    <3>1. Retimes(c, v, {"backoff"}, {})
      BY <1>3, <2>2, ContendAlters
    <3> HIDE DEF v
    <3>2. Retimes(c, v, F, {"defer"})
      BY <3>1, RetimesMore DEF SendChanges
    <3>3. Keeps(c, v)
      BY <3>1, SenderKept DEF Sender
    <3> QED
      BY <3>2, <3>3 DEF Keeps, Fetches
  <2>3. CASE v = c
    <3> HIDE DEF v
    <3> QED
      BY <1>3, <2>3, NothingAltered DEF Fetches
  <2>4. CASE ~c.pktRTS /\ c.pktTx = None /\ c.pktCTRL = None /\ c.callback
    <3> DEFINE w == [c EXCEPT !.callback = FALSE]
    <3>1. v = ResumeQueue(w, r)
      BY <2>4
    <3>2. Retimes(c, w, {"callback"}, {})
      BY <1>3 DEF Shaped, Retimes, Alters, Field
    <3> HIDE DEF v, w
    <3>3. Shaped(w) /\ Keeps(c, w) /\ w.pktTx = None
      BY <2>4, <3>2, RetimesShape, SenderKept DEF Sender, Keeps
    <3>4. Retimes(w, v, F, {}) /\ Fetches(w, v)
      BY <3>1, <3>3, ResumeQueueAlters
    <3>5. Retimes(c, v, F, {"defer"})
      BY <3>2, <3>4 DEF Retimes, Alters, SendChanges
    <3>6. Fetches(c, v)
      BY <3>3, <3>4 DEF Fetches, Keeps, TakesNext
    <3> QED
      BY <3>5, <3>6
  <2> QED
    BY <2>1, <2>2, <2>3, <2>4
<1> HIDE DEF v
<1>5. Retimes(v, u, {"tx", "backoff"}, {}) /\ u.tx = "IDLE"
  BY <1>4, RetimesShape, SetTxAlters
<1> HIDE DEF u
<1>6. Retimes(m, v, F, {"defer"})
  BY <1>2, <1>4, RetimesChain
<1>7. Retimes(m, u, ResumeChanges, {"defer"})
  BY <1>5, <1>6, RetimesChain DEF ResumeChanges, SendChanges
<1>8. Keeps(v, u)
  BY <1>5, SenderKept DEF Sender
<1>9. Fetches(m, u)
  BY <1>2, <1>4, <1>8 DEF Fetches, Keeps, TakesNext
<1> QED
  BY <1>1, <1>5, <1>7, <1>9

-----------------------------------------------------------------------------
(* What an event does to the frames that are sent and received.            *)

(* A frame ends that nothing has spoilt. *)
HearsWell(m) == m.rx = "RECV" /\ ~m.error /\ m.timer["recv"] = 0

(* A transmission of data goes on until its timeout or until a good frame  *)
(* ends, which may be its ACK; a broadcast is then done with.              *)
StaysSending(m, u) ==
    m.tx = "SEND" =>
        \/ u.tx = "SEND" /\ Keeps(m, u) /\ u.timer["send"] = m.timer["send"]
        \/ /\ m.timer["send"] = 0 \/ HearsWell(m)
           /\ NextHop[m.pktTx] = Everyone => Finishes(m, u)

(* The transmitter is on until it is done. *)
Radiates(m, u) ==
    m.tx = "SEND" =>
        \/ u.timer["if"] = m.timer["if"]
        \/ m.timer["if"] = 0 /\ u.timer["if"] = Off

(* What is being received goes on, spoilt if it was. *)
ListensOn(m, u) ==
    \/ u.rx = "IDLE"
    \/ /\ u.rx = m.rx /\ u.pktRx = m.pktRx
       /\ u.timer["recv"] = m.timer["recv"] /\ (m.error => u.error)

(* The MAC begins to send its packet. *)
Sends(m, u) ==
    LET f == DataFrame(m.pktTx, m.seq)
    IN  /\ m.tx = "IDLE" /\ m.pktTx \in Packet
        /\ u.out = f /\ u.tx = "SEND" /\ u.pktTx = m.pktTx /\ u.seq = m.seq
        /\ u.timer["if"] = f.time /\ (u.rx # "IDLE" => u.error)
        /\ f.ra # Everyone => u.timer["send"] > f.time + PropDelay

Emits(m, u) == u.out # None /\ u.out.kind = "DATA" => Sends(m, u)

(* Frame f passes the filter for duplicates. *)
Filters(m, u, f) ==
    /\ f.kind = "DATA" /\ f.ra \in {m.self, Everyone}
    /\ u.up = Append(m.up, f)
    /\ IF f.ra = Everyone THEN u.cache = m.cache
       ELSE /\ u.cache = [m.cache EXCEPT ![f.ta] = f.seq]
            /\ m.cache[f.ta] = 0 \/ m.cache[f.ta] # f.seq

(* What has been received well is passed up. *)
PassesOn(m, u) == HearsWell(m) /\ u.rx = "IDLE" /\ Filters(m, u, m.pktRx)

Delivers(m, u) ==
    \/ u.up = m.up /\ u.cache = m.cache
    \/ PassesOn(m, u)

(* What an event of its own makes of a MAC *)
Runs(m, u) ==
    /\ Proceeds(m, u) /\ StaysSending(m, u) /\ Radiates(m, u)
    /\ ListensOn(m, u) /\ Emits(m, u) /\ Delivers(m, u)

(* What most calls leave alone *)
Receiver == {"rx", "pktRx"}
Upper == {"up", "cache"}

LEMMA ReceiverKept ==
    ASSUME NEW m, NEW u, NEW F, NEW T, Retimes(m, u, F, T),
           F \cap Receiver = {}, "recv" \notin T, m.error => u.error
    PROVE  ListensOn(m, u)
<1>1. Receiver \subseteq Field \ (F \cup {"timer", "failed"}) /\ "recv" \in Timer \ T
  BY DEF Receiver, Field, Timer
<1> QED
  BY <1>1 DEF Retimes, Alters, ListensOn, Receiver

LEMMA UpperKept ==
    ASSUME NEW m, NEW u, NEW F, NEW T, Retimes(m, u, F, T), F \cap Upper = {}
    PROVE  u.up = m.up /\ u.cache = m.cache
<1>1. Upper \subseteq Field \ (F \cup {"timer", "failed"})
  BY DEF Upper, Field
<1> QED
  BY <1>1 DEF Retimes, Alters, Upper

(* Done with after too many retries, or still to be sent *)
GivesUp(m, w) ==
    w.pktTx = None /\ w.queue = m.queue /\ DoneBy(w) = DoneBy(m) \cup {m.pktTx}

LEMMA GiveUpAlters ==
    ASSUME NEW m, NEW v, Shaped(m), Retimes(m, v, {"ssrc", "slrc"}, {})
    PROVE  LET w == GiveUp(v)
           IN  Retimes(m, w, RetryChanges, {}) /\ GivesUp(m, w)
<1> DEFINE w == GiveUp(v)
<1>1. /\ Retimes(v, w, {"given", "pktTx", "pktRTS"}, {})
      /\ w.given = v.given \cup {v.pktTx} /\ w.pktTx = None
  BY DEF GiveUp, Retimes, Alters, Field
<1> HIDE DEF w
<1>2. Retimes(m, w, RetryChanges, {})
  BY <1>1, RetimesChain DEF RetryChanges
<1>3. v.pktTx = m.pktTx /\ v.queue = m.queue /\ v.acked = m.acked /\ v.given = m.given
  BY DEF Retimes, Alters, Field
<1>4. w.queue = v.queue /\ w.acked = v.acked
  BY <1>1 DEF Retimes, Alters, Field
<1>5. GivesUp(m, w)
  BY <1>1, <1>3, <1>4 DEF GivesUp, DoneBy
<1> QED
  BY <1>2, <1>5 DEF w

(* What is counted or started after that makes no difference. *)
LEMMA GivesUpStill ==
    ASSUME NEW m, NEW w, NEW u, Retimes(m, w, RetryChanges, {}), GivesUp(m, w),
           Retimes(w, u, {"ssrc", "slrc", "backoff"}, {})
    PROVE  Retimes(m, u, RetryChanges, {}) /\ GivesUp(m, u)
<1>1. Retimes(m, u, RetryChanges, {})
  BY RetimesChain DEF RetryChanges
<1>2. Keeps(w, u)
  BY SenderKept DEF Sender
<1> QED
  BY <1>1, <1>2 DEF Keeps, GivesUp

LEMMA CountsAlter ==
    ASSUME NEW w, Shaped(w), NEW x
    PROVE  /\ Retimes(w, [w EXCEPT !.ssrc = x], {"ssrc", "slrc"}, {})
           /\ Retimes(w, [w EXCEPT !.slrc = x], {"ssrc", "slrc"}, {})
BY DEF Shaped, Retimes, Alters, Field

(* RetransmitRTS() *)
LEMMA RetransmitRTSAlters ==
    ASSUME NEW m, Shaped(m), NEW r
    PROVE  LET u == RetransmitRTS(m, r)
           IN  Retimes(m, u, RetryChanges, {}) /\ (Keeps(m, u) \/ GivesUp(m, u))
<1> DEFINE c == Check(m, m.pktTx # None /\ m.pktRTS /\ ~m.backoff.on)
           v == [c EXCEPT !.ssrc = @ + 1]
           w == GiveUp(v)
           u == RetransmitRTS(m, r)
           Goal == Retimes(m, u, RetryChanges, {}) /\ (Keeps(m, u) \/ GivesUp(m, u))
<1> SUFFICES Goal
  OBVIOUS
<1>1. Retimes(m, c, {}, {})
  BY CheckAlters
<1>2. u = IF v.ssrc >= ShortRetryLimit THEN [w EXCEPT !.ssrc = 0]
          ELSE StartBackoff(v, r, 0)
  BY DEF RetransmitRTS
<1> HIDE DEF c
<1>3. Retimes(c, v, {"ssrc", "slrc"}, {})
  BY <1>1, RetimesShape, CountsAlter
<1> HIDE DEF v, u
<1>4. Retimes(m, v, {"ssrc", "slrc"}, {})
  BY <1>1, <1>3, RetimesChain
<1>5. Retimes(m, w, RetryChanges, {}) /\ GivesUp(m, w)
  BY <1>4, GiveUpAlters
<1> HIDE DEF w
<1>6. CASE u = [w EXCEPT !.ssrc = 0]
  <2>1. Retimes(w, u, {"ssrc", "slrc"}, {})
    BY <1>5, <1>6, RetimesShape, CountsAlter
  <2>2. Retimes(w, u, {"ssrc", "slrc", "backoff"}, {})
    BY <2>1, RetimesMore
  <2> QED
    BY <1>5, <2>2, GivesUpStill
<1>7. CASE u = StartBackoff(v, r, 0)
  <2>1. Retimes(v, u, {"backoff"}, {})
    BY <1>4, <1>7, RetimesShape, BackoffAlters
  <2>2. Retimes(m, u, {"ssrc", "slrc", "backoff"}, {})
    BY <1>4, <2>1, RetimesChain
  <2>3. Retimes(m, u, RetryChanges, {})
    BY <2>2, RetimesMore DEF RetryChanges
  <2>4. Keeps(m, u)
    BY <2>2, SenderKept DEF Sender
  <2> QED
    BY <2>3, <2>4
<1> QED
  BY <1>2, <1>6, <1>7

(* RetransmitDATA(): a broadcast is not repeated. *)
LEMMA RetransmitDATAAlters ==
    ASSUME NEW m, Shaped(m), NEW r
    PROVE  LET u == RetransmitDATA(m, r)
           IN  /\ Retimes(m, u, RetryChanges, {})
               /\ \/ Keeps(m, u) /\ NextHop[m.pktTx] # Everyone
                  \/ GivesUp(m, u)
<1> DEFINE c == Check(m, m.pktTx # None /\ ~m.pktRTS /\ ~m.backoff.on)
           v == IF IsShort(c.pktTx) THEN [c EXCEPT !.ssrc = @ + 1]
                                    ELSE [c EXCEPT !.slrc = @ + 1]
           w == GiveUp(v)
           x == GiveUp(c)
           y == SendRTS(v)
           u == RetransmitDATA(m, r)
           Goal == /\ Retimes(m, u, RetryChanges, {})
                   /\ \/ Keeps(m, u) /\ NextHop[m.pktTx] # Everyone
                      \/ GivesUp(m, u)
<1> SUFFICES Goal
  OBVIOUS
<1>1. Retimes(m, c, {}, {})
  BY CheckAlters
<1>2. u = IF NextHop[c.pktTx] = Everyone THEN StartBackoff(x, r, 0)
          ELSE IF IsShort(c.pktTx) /\ v.ssrc >= ShortRetryLimit
            THEN [w EXCEPT !.ssrc = 0]
          ELSE IF ~IsShort(c.pktTx) /\ v.slrc >= LongRetryLimit
            THEN [w EXCEPT !.slrc = 0]
          ELSE StartBackoff(y, r, 0)
  BY DEF RetransmitDATA
<1> HIDE DEF c
<1>3. Retimes(c, v, {"ssrc", "slrc"}, {})
  BY <1>1, RetimesShape, CountsAlter
<1> HIDE DEF v, u
<1>4. Retimes(m, v, {"ssrc", "slrc"}, {}) /\ Retimes(m, c, {"ssrc", "slrc"}, {})
  BY <1>1, <1>3, RetimesChain, RetimesMore
<1>5. /\ Retimes(m, w, RetryChanges, {}) /\ GivesUp(m, w)
      /\ Retimes(m, x, RetryChanges, {}) /\ GivesUp(m, x)
  BY <1>4, GiveUpAlters
<1>6. Retimes(v, y, {"pktRTS"}, {})
  BY <1>4, RetimesShape, SendRTSAlters
<1>7. c.pktTx = m.pktTx
  BY <1>1 DEF Retimes, Alters, Field
<1> HIDE DEF w, x, y
<1>8. CASE u = [w EXCEPT !.ssrc = 0] \/ u = [w EXCEPT !.slrc = 0]
  <2>1. Retimes(w, u, {"ssrc", "slrc"}, {})
    <3>1. Shaped(w)
      BY ONLY <1>5, RetimesShape
    <3>2. /\ Retimes(w, [w EXCEPT !.ssrc = 0], {"ssrc", "slrc"}, {})
          /\ Retimes(w, [w EXCEPT !.slrc = 0], {"ssrc", "slrc"}, {})
      BY ONLY <3>1, CountsAlter
    <3> QED
      BY <1>8, <3>2
  <2>2. Retimes(w, u, {"ssrc", "slrc", "backoff"}, {})
    BY <2>1, RetimesMore
  <2> QED
    BY <1>5, <2>2, GivesUpStill
<1>9. CASE u = StartBackoff(x, r, 0)
  <2>1. Retimes(x, u, {"backoff"}, {})
    BY <1>5, <1>9, RetimesShape, BackoffAlters
  <2>2. Retimes(x, u, {"ssrc", "slrc", "backoff"}, {})
    BY <2>1, RetimesMore
  <2> QED
    BY <1>5, <2>2, GivesUpStill
<1>10. CASE u = StartBackoff(y, r, 0) /\ NextHop[c.pktTx] # Everyone
  <2>1. Retimes(y, u, {"backoff"}, {})
    BY <1>6, <1>10, RetimesShape, BackoffAlters
  <2>2. Retimes(m, y, {"ssrc", "slrc", "pktRTS"}, {})
    BY <1>4, <1>6, RetimesChain
  <2>3. Retimes(m, u, {"ssrc", "slrc", "pktRTS", "backoff"}, {})
    BY <2>1, <2>2, RetimesChain
  <2>4. Retimes(m, u, RetryChanges, {})
    BY <2>3, RetimesMore DEF RetryChanges
  <2>5. Keeps(m, u)
    BY <2>3, SenderKept DEF Sender
  <2> QED
    BY <1>7, <1>10, <2>4, <2>5
<1> QED
  BY <1>2, <1>8, <1>9, <1>10

(* send_timer() *)
LEMMA SendHandlerRuns ==
    ASSUME BugFixTimer, NEW m, Sound(m), m.out = None, m.timer["send"] = 0,
           NEW r \in Slots
    PROVE  Runs(m, SendHandler([m EXCEPT !.timer["send"] = Off], r))
<1> DEFINE v == [m EXCEPT !.timer["send"] = Off]
           w == CASE v.tx = "RTS"  -> RetransmitRTS(v, r)
                  [] v.tx = "SEND" -> RetransmitDATA(v, r)
                  [] v.tx \in {"CTS", "ACK"} ->
                       [Check(v, v.pktCTRL # None) EXCEPT !.pktCTRL = None]
                  [] v.tx = "IDLE" -> v
           u == SendHandler(v, r)
           G == RetryChanges \cup {"pktCTRL"}
<1> SUFFICES Runs(m, u)
  OBVIOUS
<1>0. IsMac(m) /\ Shaped(m) /\ Transmitting(m)
  BY MacIsShaped DEF Sound, Core
<1>1. Retimes(m, v, {}, {"send"})
  BY <1>0, TimerAlters DEF Timer
<1>2. u = TxResume(w, r)
  BY DEF SendHandler
<1> HIDE DEF v, u, w
<1>3. Keeps(m, v) /\ v.tx = m.tx /\ Shaped(v)
  <2>1. Keeps(m, v) /\ Shaped(v)
    BY <1>1, SenderKept, RetimesShape
  <2>2. v.tx = m.tx
    BY <1>1 DEF Retimes, Alters, Field
  <2> QED
    BY <2>1, <2>2
<1>4. m.tx \in {"RTS", "CTS", "SEND", "ACK"}
  BY <1>0 DEF IsMac, Transmitting, Off
<1>5. /\ Retimes(v, w, G, {})
      /\ \/ Keeps(v, w) /\ (m.tx = "SEND" => NextHop[m.pktTx] # Everyone)
         \/ GivesUp(v, w) /\ m.tx \in {"RTS", "SEND"}
  <2>1. CASE m.tx = "RTS"
    <3>1. w = RetransmitRTS(v, r)
      BY <1>3, <2>1 DEF w
    <3>2. Retimes(v, w, RetryChanges, {}) /\ (Keeps(v, w) \/ GivesUp(v, w))
      BY <1>3, <3>1, RetransmitRTSAlters
    <3>3. Retimes(v, w, G, {})
      BY <3>2, RetimesMore
    <3> QED
      BY <2>1, <3>2, <3>3
  <2>2. CASE m.tx = "SEND"
    <3>1. w = RetransmitDATA(v, r)
      BY <1>3, <2>2 DEF w
    <3>2. /\ Retimes(v, w, RetryChanges, {})
          /\ \/ Keeps(v, w) /\ NextHop[v.pktTx] # Everyone
             \/ GivesUp(v, w)
      BY <1>3, <3>1, RetransmitDATAAlters
    <3>3. Retimes(v, w, G, {})
      BY <3>2, RetimesMore
    <3> QED
      BY <1>3, <2>2, <3>2, <3>3 DEF Keeps
  <2>3. CASE m.tx \in {"CTS", "ACK"}
    <3> DEFINE c == Check(v, v.pktCTRL # None)
    <3>1. w = [c EXCEPT !.pktCTRL = None]
      BY <1>3, <2>3 DEF w
    <3>2. Retimes(v, c, {}, {})
      BY <1>3, CheckAlters
    <3> HIDE DEF c
    <3>3. Retimes(c, w, {"pktCTRL"}, {})
      BY <3>1, <3>2 DEF Retimes, Alters, Field
    <3>4. Retimes(v, w, {"pktCTRL"}, {})
      BY <3>2, <3>3, RetimesChain
    <3>5. Retimes(v, w, G, {})
      BY <3>4, RetimesMore
    <3>6. Keeps(v, w)
      BY <3>4, SenderKept DEF Sender
    <3> QED
      BY <2>3, <3>5, <3>6
  <2> QED
    BY <1>4, <2>1, <2>2, <2>3
<1>6. Retimes(w, u, ResumeChanges, {"defer"}) /\ Fetches(w, u)
  BY <1>2, <1>5, RetimesShape, TxResumeAlters
<1> DEFINE F == G \cup ResumeChanges
<1>7. Retimes(m, u, F, {"send", "defer"})
  <2>1. Retimes(m, w, G, {"send"})
    BY <1>1, <1>5, RetimesChain
  <2> QED
    BY <1>6, <2>1, RetimesChain
<1>8. u.out = m.out /\ u.error = m.error /\ u.timer["if"] = m.timer["if"]
  BY <1>7
  DEF Retimes, Alters, Field, Timer, G, RetryChanges, ResumeChanges, SendChanges
<1>9. ListensOn(m, u)
  BY <1>7, <1>8, ReceiverKept
  DEF Receiver, G, RetryChanges, ResumeChanges, SendChanges
<1>10. u.up = m.up /\ u.cache = m.cache
  BY <1>7, UpperKept DEF Upper, G, RetryChanges, ResumeChanges, SendChanges
<1>11. CASE Keeps(v, w) /\ (m.tx = "SEND" => NextHop[m.pktTx] # Everyone)
  <2>1. Fetches(m, u)
    BY <1>3, <1>6, <1>11 DEF Fetches, Keeps, TakesNext
  <2> QED
    BY <1>8, <1>9, <1>10, <1>11, <2>1
    DEF Runs, Proceeds, StaysSending, Radiates, Emits, Delivers
<1>12. CASE GivesUp(v, w) /\ m.tx \in {"RTS", "SEND"}
  <2>1. m.pktTx # None
    BY <1>0, <1>12 DEF Transmitting, Sound, Core, Serving
  <2>2. Finishes(m, u)
    BY <1>3, <1>6, <1>12, <2>1
    DEF GivesUp, Fetches, Finishes, Keeps, TakesNext
  <2> QED
    BY <1>8, <1>9, <1>10, <2>2
    DEF Runs, Proceeds, StaysSending, Radiates, Emits, Delivers
<1> QED
  BY <1>5, <1>11, <1>12

(* What becomes of a MAC that may begin to send and was not sending *)
Tries == {"tx", "backoff", "error", "out", "pktRTS", "pktCTRL"}
Begins(m, u) ==
    /\ Retimes(m, u, Tries, {"send", "if"}) /\ Emits(m, u)
    /\ m.error => u.error

LEMMA BeginAlters ==
    ASSUME NEW m, Shaped(m), m.error \in BOOLEAN, NEW s, NEW f, NEW timeout,
           f.kind # "DATA"
    PROVE  Begins(m, Transmit(SetTx(m, s), f, timeout))
<1> DEFINE v == SetTx(m, s)
           u == Transmit(v, f, timeout)
<1>1. Retimes(m, v, {"tx", "backoff"}, {})
  BY SetTxAlters
<1> HIDE DEF v
<1>2. /\ Retimes(v, u, {"error", "out"}, {"send", "if"})
      /\ u.out = f
      /\ (v.rx # "IDLE" => u.error) /\ (v.rx = "IDLE" => u.error = v.error)
  BY <1>1, RetimesShape, TransmitAlters
<1> HIDE DEF u
<1>3. Retimes(m, u, Tries, {"send", "if"})
  BY <1>1, <1>2, RetimesChain DEF Tries
<1>4. v.error = m.error
  BY <1>1 DEF Retimes, Alters, Field
<1> QED
  BY <1>2, <1>3, <1>4 DEF Begins, Emits, u, v

LEMMA NothingBegins ==
    ASSUME NEW m, NEW u, NEW F, Retimes(m, u, F, {}), m.out = None,
           F \subseteq {"backoff", "pktRTS", "pktCTRL"}
    PROVE  Begins(m, u)
<1>1. Retimes(m, u, Tries, {"send", "if"})
  <2>1. F \subseteq Tries /\ {} \subseteq {"send", "if"}
    BY DEF Tries
  <2> QED
    BY <2>1, RetimesMore
<1>2. u.out = m.out /\ u.error = m.error
  BY DEF Retimes, Alters, Field
<1> QED
  BY <1>1, <1>2 DEF Begins, Emits

(* check_pktRTS() and check_pktTx() *)
LEMMA CheckRTSThenTxBegins ==
    ASSUME NEW m, IsMac(m), m.out = None, m.tx = "IDLE", NEW r \in Slots
    PROVE  Begins(m, CheckRTSThenTx(m, r))
<1> DEFINE c == Check(m, ~m.backoff.on)
           u == CheckRTSThenTx(m, r)
<1> SUFFICES Begins(m, u)
  OBVIOUS
<1>0. Shaped(m)
  BY MacIsShaped
<1>1. Retimes(m, c, {}, {})
  BY <1>0, CheckAlters
<1>2. u = IF c.pktRTS THEN CheckRTS(c, r)
          ELSE IF c.pktTx # None THEN CheckTx(c, r) ELSE c
  BY DEF CheckRTSThenTx
<1> HIDE DEF c, u
<1>3. /\ Shaped(c) /\ c.out = None /\ c.tx = "IDLE" /\ c.pktTx = m.pktTx
      /\ c.seq = m.seq /\ c.error = m.error
  BY <1>1, RetimesShape DEF Retimes, Alters, Field
<1>4. c.error \in BOOLEAN /\ c.pktTx \in Packet \cup {None}
  BY <1>3 DEF IsMac
<1>5. Begins(c, u)
  <2>1. CASE u = CheckRTS(c, r)
    <3>1. CASE u = StartBackoff(c, r, 0)
      <4>1. Retimes(c, u, {"backoff"}, {})
        BY <1>3, <3>1, BackoffAlters
      <4> QED
        BY <1>3, <4>1, NothingBegins
    <3>2. CASE IsIdle(c)
      <4> DEFINE f == RTSFrame(c.pktTx)
                 t == RTSTime + SIFS + CTSTime + 2 * MaxPropDelay
      <4>1. u = Transmit(SetTx(c, "RTS"), f, t)
        BY <2>1, <3>2 DEF CheckRTS
      <4>2. f.kind # "DATA"
        BY DEF RTSFrame, Control
      <4> HIDE DEF f, t
      <4> QED
        BY <1>3, <1>4, <4>1, <4>2, BeginAlters
    <3> QED
      BY <2>1, <3>1, <3>2 DEF CheckRTS
  <2>2. CASE u = CheckTx(c, r) /\ c.pktTx # None
    <3>1. CASE ~IsIdle(c)
      <4> DEFINE v == SendRTS(c)
      <4>1. Retimes(c, v, {"pktRTS"}, {})
        BY <1>3, SendRTSAlters
      <4>2. u = StartBackoff(v, r, 0)
        BY <2>2, <3>1 DEF CheckTx
      <4> HIDE DEF v
      <4>3. Retimes(v, u, {"backoff"}, {})
        BY <4>1, <4>2, RetimesShape, BackoffAlters
      <4>4. Retimes(c, u, {"pktRTS", "backoff"}, {})
        BY <4>1, <4>3, RetimesChain
      <4> QED
        BY <1>3, <4>4, NothingBegins
    <3>2. CASE IsIdle(c)
      <4> DEFINE f == DataFrame(c.pktTx, c.seq)
                 t == IF f.ra = Everyone THEN f.time
                      ELSE f.time + SIFS + ACKTime + 2 * MaxPropDelay
                 v == SetTx(c, "SEND")
      <4>1. u = Transmit(v, f, t)
        BY <2>2, <3>2 DEF CheckTx
      <4>2. Retimes(c, v, {"tx", "backoff"}, {}) /\ v.tx = "SEND"
        BY <1>3, SetTxAlters
      <4>3. f.ra # Everyone => t > f.time + PropDelay
        <5>1. f.time \in Nat
          BY <1>4, <2>2, PacketTypes DEF DataFrame
        <5> HIDE DEF f
        <5> QED
          BY <5>1, Times DEF PropDelay
      <4> HIDE DEF v, f, t
      <4>4. /\ Retimes(v, u, {"error", "out"}, {"send", "if"})
            /\ u.out = f /\ u.timer["send"] = t /\ u.timer["if"] = f.time
            /\ (v.rx # "IDLE" => u.error) /\ (v.rx = "IDLE" => u.error = v.error)
        BY <4>1, <4>2, RetimesShape, TransmitAlters
      <4>5. Retimes(c, u, Tries, {"send", "if"})
        BY <4>2, <4>4, RetimesChain DEF Tries
      <4>6. /\ u.tx = "SEND" /\ u.pktTx = c.pktTx /\ u.seq = c.seq
            /\ u.rx = v.rx /\ v.rx = c.rx /\ v.error = c.error
        BY <4>2, <4>4 DEF Retimes, Alters, Field
      <4>7. Sends(c, u)
        BY <1>3, <1>4, <2>2, <4>3, <4>4, <4>6 DEF Sends, f
      <4> QED
        BY <4>4, <4>5, <4>6, <4>7 DEF Begins, Emits
    <3> QED
      BY <3>1, <3>2
  <2>3. CASE u = c
    <3>1. Retimes(c, u, {}, {})
      BY <1>3, <2>3, NothingAltered
    <3> QED
      BY <1>3, <3>1, NothingBegins
  <2> QED
    BY <1>2, <2>1, <2>2, <2>3
<1>6. Retimes(m, u, Tries, {"send", "if"})
  BY <1>1, <1>5, RetimesChain DEF Begins
<1> QED
  BY <1>3, <1>5, <1>6 DEF Begins, Emits, Sends

LEMMA BeginsRuns ==
    ASSUME NEW m, NEW v, NEW u, m.tx = "IDLE",
           Retimes(m, v, {"backoff"}, {"defer"}), Begins(v, u)
    PROVE  Runs(m, u)
<1>1. Retimes(m, u, Tries, {"defer", "send", "if"})
  BY RetimesChain DEF Begins, Tries
<1>2. /\ v.error = m.error /\ v.tx = m.tx /\ v.pktTx = m.pktTx
      /\ v.seq = m.seq
  BY DEF Retimes, Alters, Field
<1>3. Keeps(m, u)
  BY <1>1, SenderKept DEF Sender, Tries
<1>4. u.up = m.up /\ u.cache = m.cache
  BY <1>1, UpperKept DEF Upper, Tries
<1>5. ListensOn(m, u)
  BY <1>1, <1>2, ReceiverKept DEF Begins, Receiver, Tries
<1>6. Emits(m, u)
  BY <1>2 DEF Begins, Emits, Sends
<1> QED
  BY <1>3, <1>4, <1>5, <1>6
  DEF Runs, Proceeds, Fetches, Keeps, StaysSending, Radiates, Delivers

(* deferHandler() *)
LEMMA DeferHandlerRuns ==
    ASSUME NEW m, Sound(m), m.out = None, m.timer["defer"] = 0, NEW r \in Slots
    PROVE  Runs(m, DeferHandler([m EXCEPT !.timer["defer"] = Off], r))
<1> DEFINE v == [m EXCEPT !.timer["defer"] = Off]
           c == Check(v, v.pktCTRL # None \/ v.pktRTS \/ v.pktTx # None)
           u == DeferHandler(v, r)
<1> SUFFICES Runs(m, u)
  OBVIOUS
<1>0. IsMac(m) /\ Shaped(m) /\ m.tx = "IDLE" /\ "defer" \in Timer
  BY MacIsShaped DEF Sound, Core, Transmitting, Timer, Off
<1>1. Changes(m, v, {"timer"})
  BY <1>0, TimerOff
<1>2. Retimes(m, v, {}, {"defer"})
  BY <1>0, TimerAlters
<1> HIDE DEF v
<1>3. c = v
  <2>1. /\ v.pktCTRL = m.pktCTRL /\ v.pktRTS = m.pktRTS
        /\ v.pktTx = m.pktTx
    BY <1>1 DEF Changes, Field
  <2>2. v.pktCTRL # None \/ v.pktRTS \/ v.pktTx # None
    BY <2>1 DEF Sound, Core, Deferring, Off
  <2> QED
    BY <2>2, CheckHolds
<1>4. u = IF c.pktCTRL # None /\ c.tx \notin {"CTS", "ACK"} THEN CheckCTRL(c)
          ELSE CheckRTSThenTx(c, r)
  BY DEF DeferHandler
<1> HIDE DEF c, u
<1>5. /\ IsMac(v) /\ Shaped(v) /\ v.out = None /\ v.tx = "IDLE"
      /\ v.error \in BOOLEAN /\ v.pktCTRL \in Answer \cup {None}
  BY <1>0, <1>1, <1>2, RetimesShape DEF Changes, Field, IsMac
<1>6. Retimes(m, v, {"backoff"}, {"defer"})
  BY <1>2, RetimesMore
<1>7. CASE u = CheckRTSThenTx(v, r)
  BY <1>0, <1>5, <1>6, <1>7, CheckRTSThenTxBegins, BeginsRuns
<1>8. CASE u = CheckCTRL(v) /\ v.pktCTRL # None
  <2> DEFINE f == v.pktCTRL
             t == CTSTime + 2 * MaxPropDelay + f.dur - SIFS - ACKTime
  <2>1. f.kind # "DATA"
    BY <1>5, <1>8 DEF Answer
  <2>2. \/ u = Transmit(SetTx(v, "ACK"), f, ACKTime)
        \/ u = [v EXCEPT !.pktCTRL = None]
        \/ u = Transmit(SetTx(v, "CTS"), f, t)
    BY <1>8 DEF CheckCTRL
  <2> HIDE DEF f, t
  <2>3. CASE u = [v EXCEPT !.pktCTRL = None]
    <3>1. Retimes(v, u, {"pktCTRL"}, {})
      BY <1>5, <2>3 DEF Shaped, Retimes, Alters, Field
    <3>2. Begins(v, u)
      BY <1>5, <3>1, NothingBegins
    <3> QED
      BY <1>0, <1>6, <3>2, BeginsRuns
  <2>4. CASE u = Transmit(SetTx(v, "ACK"), f, ACKTime)
    BY <1>0, <1>5, <1>6, <2>1, <2>4, BeginAlters, BeginsRuns
  <2>5. CASE u = Transmit(SetTx(v, "CTS"), f, t)
    BY <1>0, <1>5, <1>6, <2>1, <2>5, BeginAlters, BeginsRuns
  <2> QED
    BY <2>2, <2>3, <2>4, <2>5
<1> QED
  BY <1>3, <1>4, <1>7, <1>8

(* backoffHandler() *)
LEMMA BackoffHandlerRuns ==
    ASSUME NEW m, Sound(m), m.out = None, Counting(m), NEW r \in Slots
    PROVE  Runs(m, BackoffHandler([m EXCEPT !.backoff = NoBackoff], r))
<1> DEFINE v == [m EXCEPT !.backoff = NoBackoff]
           u == BackoffHandler(v, r)
<1> SUFFICES Runs(m, u)
  OBVIOUS
<1>0. IsMac(m) /\ Shaped(m) /\ m.tx = "IDLE" /\ NoBackoff \in Backoff
  BY MacIsShaped DEF Sound, Core, BackingOff, IsIdle, NoBackoff, Backoff
<1>1. Changes(m, v, {"backoff"})
  BY <1>0, BackoffSet
<1>2. Retimes(m, v, {"backoff"}, {})
  BY <1>0 DEF Shaped, Retimes, Alters, Field
<1> HIDE DEF v
<1>3. Retimes(m, v, {"backoff"}, {"defer"})
  BY <1>2, RetimesMore
<1>4. IsMac(v) /\ v.out = None /\ v.tx = "IDLE" /\ Shaped(v)
  BY <1>0, <1>1, <1>2, RetimesShape DEF Changes, Field
<1>5. CASE v.pktCTRL # None
  <2>1. u = Check(v, v.timer["send"] # Off \/ v.timer["defer"] # Off)
    BY <1>5 DEF BackoffHandler
  <2>2. v.timer = m.timer /\ v.pktCTRL = m.pktCTRL
    BY <1>1 DEF Changes, Field
  <2>3. u = v
    BY <1>5, <2>1, <2>2, CheckHolds DEF Sound, Core, Deferring
  <2>4. Retimes(v, u, {}, {})
    BY <1>4, <2>3, NothingAltered
  <2>5. Begins(v, u)
    BY <1>4, <2>4, NothingBegins
  <2> QED
    BY <1>0, <1>3, <2>5, BeginsRuns
<1>6. CASE v.pktCTRL = None
  <2>1. u = CheckRTSThenTx(v, r)
    BY <1>6 DEF BackoffHandler
  <2> QED
    BY <1>0, <1>3, <1>4, <2>1, CheckRTSThenTxBegins, BeginsRuns
<1> QED
  BY <1>5, <1>6

(* txHandler() and navHandler() *)
LEMMA TimersRun ==
    ASSUME NEW m, Sound(m), m.out = None
    PROVE  /\ m.timer["if"] = 0 => Runs(m, [m EXCEPT !.timer["if"] = Off])
           /\ Runs(m, NavHandler([m EXCEPT !.timer["nav"] = Off]))
<1>0. Shaped(m) /\ "if" \in Timer /\ "nav" \in Timer
  BY MacIsShaped DEF Sound, Core, Timer
<1>1. ASSUME NEW u, Retimes(m, u, {"backoff"}, {"if", "nav"}),
             \/ u.timer["if"] = m.timer["if"]
             \/ m.timer["if"] = 0 /\ u.timer["if"] = Off
      PROVE  Runs(m, u)
  <2>1. u.error = m.error /\ u.out = m.out /\ u.tx = m.tx
    BY <1>1 DEF Retimes, Alters, Field
  <2>2. u.timer["send"] = m.timer["send"]
    BY <1>1 DEF Retimes, Timer
  <2>3. Keeps(m, u)
    BY <1>1, SenderKept DEF Sender
  <2>4. u.up = m.up /\ u.cache = m.cache
    BY <1>1, UpperKept DEF Upper
  <2>5. ListensOn(m, u)
    BY <1>1, <2>1, ReceiverKept DEF Receiver
  <2> QED
    BY <1>1, <2>1, <2>2, <2>3, <2>4, <2>5
    DEF Runs, Proceeds, Fetches, Keeps, StaysSending, Radiates, Emits, Delivers
<1>2. m.timer["if"] = 0 => Runs(m, [m EXCEPT !.timer["if"] = Off])
  <2> DEFINE u == [m EXCEPT !.timer["if"] = Off]
  <2>1. Retimes(m, u, {}, {"if"}) /\ u.timer["if"] = Off
    BY <1>0, TimerAlters
  <2> HIDE DEF u
  <2>2. Retimes(m, u, {"backoff"}, {"if", "nav"})
    BY <2>1, RetimesMore
  <2>3. m.timer["if"] = 0 => Runs(m, u)
    BY <1>1, <2>1, <2>2
  <2> QED
    BY <2>3 DEF u
<1>3. Runs(m, NavHandler([m EXCEPT !.timer["nav"] = Off]))
  <2> DEFINE v == [m EXCEPT !.timer["nav"] = Off]
             u == NavHandler(v)
  <2>1. Retimes(m, v, {}, {"nav"})
    BY <1>0, TimerAlters
  <2> HIDE DEF v
  <2>2. Retimes(v, u, {"backoff"}, {})
    BY <2>1, RetimesShape, BackoffAlters, NothingAltered DEF NavHandler
  <2> HIDE DEF u
  <2>3. Retimes(m, u, {"backoff"}, {"nav"})
    BY <2>1, <2>2, RetimesChain
  <2>4. Retimes(m, u, {"backoff"}, {"if", "nav"})
    BY <2>3, RetimesMore
  <2>5. u.timer["if"] = m.timer["if"]
    BY <2>3 DEF Retimes, Timer
  <2>6. Runs(m, u)
    BY <1>1, <2>4, <2>5
  <2> QED
    BY <2>6 DEF u, v
<1> QED
  BY <1>2, <1>3

(* What a frame for this node makes of the packets *)
Advances(m, w) ==
    /\ Shaped(w) /\ w.out = m.out /\ w.timer["if"] = m.timer["if"]
    /\ Proceeds(m, w)
    /\ m.tx = "SEND" =>
         \/ w.tx = "SEND" /\ Keeps(m, w) /\ w.timer["send"] = m.timer["send"]
         \/ Finishes(m, w)

(* ... before recvDATA() passes it up and after that *)
Carries(m, w) == Advances(m, w) /\ w.up = m.up /\ w.cache = m.cache
Gets(m, w, f) == Advances(m, w) /\ (w.up # m.up \/ w.cache # m.cache => Filters(m, w, f))

LEMMA CarriesSame ==
    ASSUME NEW m, NEW w, NEW F, NEW T, Retimes(m, w, F, T),
           F \subseteq {"pktCTRL", "pktRTS", "ssrc", "slrc"}, T \subseteq {"nav"}
    PROVE  Carries(m, w)
<1>1. /\ w.out = m.out /\ w.up = m.up /\ w.cache = m.cache /\ w.tx = m.tx
      /\ w.timer["if"] = m.timer["if"] /\ w.timer["send"] = m.timer["send"]
  BY DEF Retimes, Alters, Field, Timer
<1>2. Keeps(m, w) /\ Shaped(w)
  BY SenderKept, RetimesShape DEF Sender
<1> QED
  BY <1>1, <1>2 DEF Carries, Advances, Proceeds, Fetches, Keeps

(* A call of tx_resume() that ends no transmission of data *)
LEMMA CarriesResumed ==
    ASSUME BugFixTimer, NEW m, m.tx # "SEND", NEW x, NEW F, NEW T,
           Retimes(m, x, F, T), F \subseteq {"pktCTRL", "pktRTS", "ssrc", "slrc"},
           T \subseteq {"send", "defer"}, NEW r
    PROVE  Carries(m, TxResume(x, r))
<1> DEFINE w == TxResume(x, r)
<1>1. Retimes(x, w, ResumeChanges, {"defer"}) /\ Fetches(x, w)
  BY RetimesShape, TxResumeAlters
<1> HIDE DEF w
<1>2. Keeps(m, x)
  BY SenderKept DEF Sender
<1>3. /\ x.out = m.out /\ x.up = m.up /\ x.cache = m.cache
      /\ x.timer["if"] = m.timer["if"]
  BY DEF Retimes, Alters, Field, Timer
<1>4. /\ w.out = x.out /\ w.up = x.up /\ w.cache = x.cache
      /\ w.timer["if"] = x.timer["if"]
  BY <1>1 DEF Retimes, Alters, Field, Timer, ResumeChanges, SendChanges
<1>5. Fetches(m, w)
  BY <1>1, <1>2 DEF Fetches, Keeps, TakesNext
<1>6. Carries(m, w)
  BY <1>1, <1>3, <1>4, <1>5, RetimesShape DEF Carries, Advances, Proceeds
<1> QED
  BY <1>6 DEF w

(* recvRTS() *)
LEMMA RecvRTSCarries ==
    ASSUME BugFixTimer, NEW m, Shaped(m), NEW f, NEW r
    PROVE  Carries(m, RecvRTS(m, f, r))
<1>1. CASE m.tx # "IDLE" \/ m.pktCTRL # None
  <2>1. Retimes(m, m, {}, {})
    BY NothingAltered
  <2> QED
    BY <1>1, <2>1, CarriesSame DEF RecvRTS
<1>2. CASE ~(m.tx # "IDLE" \/ m.pktCTRL # None)
  <2> DEFINE x == [m EXCEPT !.pktCTRL = CTSFrame(m.self, f),
                            !.timer["defer"] = Off]
  <2>1. Retimes(m, x, {"pktCTRL"}, {"defer"})
    BY DEF Shaped, Retimes, Alters, Field, Timer
  <2>2. RecvRTS(m, f, r) = TxResume(x, r)
    BY <1>2 DEF RecvRTS
  <2> HIDE DEF x
  <2> QED
    BY <1>2, <2>1, <2>2, CarriesResumed
<1> QED
  BY <1>1, <1>2

(* recvCTS() *)
LEMMA RecvCTSCarries ==
    ASSUME BugFixTimer, NEW m, Shaped(m), NEW r
    PROVE  Carries(m, RecvCTS(m, r))
<1>1. CASE m.tx # "RTS"
  <2>1. Retimes(m, m, {}, {})
    BY NothingAltered
  <2> QED
    BY <1>1, <2>1, CarriesSame DEF RecvCTS
<1>2. CASE m.tx = "RTS"
  <2> DEFINE c == Check(m, m.pktRTS /\ m.pktTx # None)
             v == StopTimer(c, "send")
             x == [v EXCEPT !.pktRTS = FALSE, !.ssrc = 0]
  <2>1. Retimes(m, c, {}, {}) /\ "send" \in Timer
    BY CheckAlters DEF Timer
  <2>2. RecvCTS(m, r) = TxResume(x, r)
    BY <1>2 DEF RecvCTS
  <2> HIDE DEF c
  <2>3. Retimes(c, v, {}, {"send"})
    BY <2>1, RetimesShape, StopAlters
  <2> HIDE DEF v
  <2>4. Retimes(v, x, {"pktRTS", "ssrc"}, {})
    BY <2>3 DEF Retimes, Alters, Field
  <2> HIDE DEF x
  <2>5. Retimes(m, v, {}, {"send"})
    BY <2>1, <2>3, RetimesChain
  <2>6. Retimes(m, x, {"pktRTS", "ssrc"}, {"send"})
    BY <2>4, <2>5, RetimesChain
  <2> QED
    BY <1>2, <2>2, <2>6, CarriesResumed
<1> QED
  BY <1>1, <1>2

(* recvACK() *)
LEMMA RecvACKCarries ==
    ASSUME BugFixTimer, NEW m, Shaped(m), m.tx = "SEND" => m.pktTx # None, NEW r
    PROVE  Carries(m, RecvACK(m, r))
<1>1. CASE m.tx # "SEND"
  <2>1. Retimes(m, m, {}, {})
    BY NothingAltered
  <2> QED
    BY <1>1, <2>1, CarriesSame DEF RecvACK
<1>2. CASE m.tx = "SEND"
  <2> DEFINE p == m.pktTx
             c == Check(m, p # None)
             v == StopTimer(c, "send")
             x == IF IsShort(p) THEN [v EXCEPT !.ssrc = 0]
                                ELSE [v EXCEPT !.slrc = 0]
             y == [x EXCEPT !.pktTx = None, !.acked = @ \cup {p}]
             z == StartBackoff(y, r, 0)
             w == TxResume(z, r)
  <2>1. Retimes(m, c, {}, {}) /\ "send" \in Timer
    BY CheckAlters DEF Timer
  <2>2. RecvACK(m, r) = w
    BY <1>2 DEF RecvACK
  <2> HIDE DEF p, c
  <2>3. Retimes(c, v, {}, {"send"})
    BY <2>1, RetimesShape, StopAlters
  <2> HIDE DEF v
  <2>4. Retimes(v, x, {"ssrc", "slrc"}, {})
    BY <2>3, RetimesShape, CountsAlter
  <2> HIDE DEF x
  <2>5. Retimes(m, v, {}, {"send"})
    BY <2>1, <2>3, RetimesChain
  <2>6. Retimes(m, x, {"ssrc", "slrc"}, {"send"})
    BY <2>4, <2>5, RetimesChain
  <2>7. Keeps(m, x) /\ x.acked = m.acked /\ x.given = m.given
    BY <2>6, SenderKept DEF Sender
  <2>8. /\ Retimes(x, y, {"pktTx", "acked"}, {}) /\ y.pktTx = None
        /\ y.acked = x.acked \cup {p}
    BY <2>6 DEF Retimes, Alters, Field
  <2>9. y.queue = x.queue /\ y.given = x.given
    BY <2>8 DEF Retimes, Alters, Field
  <2> HIDE DEF y
  <2>10. Retimes(y, z, {"backoff"}, {})
    BY <2>8, RetimesShape, BackoffAlters
  <2> HIDE DEF z
  <2>11. Keeps(y, z)
    BY <2>10, SenderKept DEF Sender
  <2>12. Retimes(z, w, ResumeChanges, {"defer"}) /\ Fetches(z, w)
    BY <2>10, RetimesShape, TxResumeAlters
  <2> HIDE DEF w
  <2>13. Finishes(m, w)
    BY <1>2, <2>7, <2>8, <2>9, <2>11, <2>12
    DEF Finishes, Keeps, DoneBy, Fetches, TakesNext, p
  <2>14. Retimes(m, y, {"ssrc", "slrc", "pktTx", "acked"}, {"send"})
    BY <2>6, <2>8, RetimesChain
  <2>15. Retimes(m, z, {"ssrc", "slrc", "pktTx", "acked", "backoff"}, {"send"})
    BY <2>10, <2>14, RetimesChain
  <2>16. Retimes(m, w, {"ssrc", "slrc", "acked"} \cup ResumeChanges, {"send", "defer"})
    BY <2>12, <2>15, RetimesChain DEF ResumeChanges, SendChanges
  <2>17. /\ w.out = m.out /\ w.up = m.up /\ w.cache = m.cache
         /\ w.timer["if"] = m.timer["if"]
    BY <2>16 DEF Retimes, Alters, Field, Timer, ResumeChanges, SendChanges
  <2> QED
    BY <2>2, <2>12, <2>13, <2>17, RetimesShape DEF Carries, Advances, Proceeds
<1> QED
  BY <1>1, <1>2

LEMMA PassUpGets ==
    ASSUME NEW m, NEW v, Carries(m, v), m.cache \in [Node -> Nat],
           NEW f, f.kind = "DATA", f.ra \in {m.self, Everyone}
    PROVE  Gets(m, v, f) /\ Gets(m, PassUp(v, f), f)
<1> DEFINE w == PassUp(v, f)
<1>1. Gets(m, v, f)
  BY DEF Carries, Gets
<1>2. CASE w # v
  <2>1. /\ w = [v EXCEPT !.cache[f.ta] = IF f.ra = Everyone THEN @ ELSE f.seq,
                         !.up = Append(@, f)]
        /\ ~(f.ra # Everyone /\ v.cache[f.ta] # 0 /\ v.cache[f.ta] = f.seq)
    BY <1>2 DEF PassUp
  <2> HIDE DEF w
  <2>2. Retimes(v, w, {"cache", "up"}, {}) /\ w.up = Append(v.up, f)
    BY <2>1 DEF Carries, Advances, Shaped, Retimes, Alters, Field
  <2>3. w.cache = [v.cache EXCEPT ![f.ta] = IF f.ra = Everyone THEN @ ELSE f.seq]
    BY <2>1 DEF Carries, Advances, Shaped, Field
  <2>4. f.ra = Everyone => w.cache = v.cache
    BY <2>3 DEF Carries
  <2>5. Filters(m, w, f)
    BY <2>1, <2>2, <2>3, <2>4 DEF Carries, Filters
  <2>6. Keeps(v, w) /\ Shaped(w)
    BY <2>2, SenderKept, RetimesShape DEF Sender
  <2>7. w.tx = v.tx /\ w.out = v.out /\ w.timer = v.timer
    <3>1. w.tx = v.tx /\ w.out = v.out
      BY <2>2 DEF Retimes, Alters, Field
    <3>2. w.timer = v.timer
      BY <2>1 DEF Carries, Advances, Shaped, Field
    <3> QED
      BY <3>1, <3>2
  <2>8. Proceeds(m, w)
    BY <2>6 DEF Carries, Advances, Proceeds, Fetches, Finishes, Keeps, TakesNext
  <2>9. Finishes(m, v) => Finishes(m, w)
    BY <2>6 DEF Finishes, Keeps, TakesNext
  <2>10. Keeps(m, v) => Keeps(m, w)
    BY <2>6 DEF Keeps
  <2>11. Advances(m, w)
    BY <2>6, <2>7, <2>8, <2>9, <2>10 DEF Carries, Advances
  <2> QED
    BY <1>1, <2>5, <2>11 DEF Gets, w
<1> QED
  BY <1>1, <1>2

(* recvDATA() *)
LEMMA RecvDATAGets ==
    ASSUME BugFixTimer, NEW m, Shaped(m), m.cache \in [Node -> Nat],
           m.tx = "SEND" => m.timer["send"] # Off,
           NEW f, f.kind = "DATA", f.ra \in {m.self, Everyone}, NEW r
    PROVE  Gets(m, RecvDATA(m, f, r), f)
<1> DEFINE ack(x) == [Check(x, x.pktCTRL = None)
                        EXCEPT !.pktCTRL = ACKFrame(m.self, f.ta)]
           c == Check(m, m.pktCTRL # None)
           y == [c EXCEPT !.pktCTRL = None]
           v == StopTimer(y, "send")
           u == RecvDATA(m, f, r)
<1>1. \/ u = PassUp(m, f) \/ u = m
      \/ u = PassUp(ack(m), f)
      \/ u = PassUp(TxResume(ack(m), r), f) /\ m.timer["send"] = Off
      \/ u = PassUp(TxResume(ack(v), r), f) /\ m.tx = "CTS"
  BY DEF RecvDATA
<1>2. ASSUME NEW x, Shaped(x) PROVE Retimes(x, ack(x), {"pktCTRL"}, {})
  <2> DEFINE d == Check(x, x.pktCTRL = None)
  <2>1. Retimes(x, d, {}, {})
    BY <1>2, CheckAlters
  <2>2. ack(x) = [d EXCEPT !.pktCTRL = ACKFrame(m.self, f.ta)]
    OBVIOUS
  <2> HIDE DEF d, ack
  <2> QED
    BY <2>1, <2>2 DEF Retimes, Alters, Field
<1>3. Retimes(m, c, {}, {}) /\ "send" \in Timer
  BY CheckAlters DEF Timer
<1> HIDE DEF c, ack, u
<1>4. Retimes(c, y, {"pktCTRL"}, {})
  BY <1>3 DEF Retimes, Alters, Field
<1> HIDE DEF y
<1>5. Retimes(y, v, {}, {"send"})
  BY <1>3, <1>4, RetimesShape, StopAlters
<1> HIDE DEF v
<1>6. Retimes(m, y, {"pktCTRL"}, {})
  BY <1>3, <1>4, RetimesChain
<1>7. Retimes(m, v, {"pktCTRL"}, {"send"})
  BY <1>5, <1>6, RetimesChain
<1>8. Retimes(v, ack(v), {"pktCTRL"}, {}) /\ Retimes(m, ack(m), {"pktCTRL"}, {})
  BY <1>2, <1>7, RetimesShape
<1>9. Retimes(m, ack(v), {"pktCTRL"}, {"send"})
  BY <1>7, <1>8, RetimesChain
<1>10. Retimes(m, m, {}, {})
  BY NothingAltered
<1>11. Carries(m, m) /\ Carries(m, ack(m))
  BY <1>8, <1>10, CarriesSame
<1>12. m.timer["send"] = Off => Carries(m, TxResume(ack(m), r))
  BY <1>8, CarriesResumed
<1>13. m.tx = "CTS" => Carries(m, TxResume(ack(v), r))
  BY <1>9, CarriesResumed
<1>14. Gets(m, u, f)
  BY <1>1, <1>11, <1>12, <1>13, PassUpGets
<1> QED
  BY <1>14 DEF u

(* recv_timer(), for a good frame *)
LEMMA ReceivedGets ==
    ASSUME BugFixTimer, NEW m, Shaped(m), m.cache \in [Node -> Nat],
           m.tx = "SEND" => m.timer["send"] # Off /\ m.pktTx # None,
           NEW f \in Proper, NEW r
    PROVE  Gets(m, Received(m, f, r), f)
<1> DEFINE v == IF f.ra = m.self THEN m ELSE SetNav(m, f.dur)
           u == Received(m, f, r)
<1>1. Retimes(m, v, {}, {"nav"})
  BY SetNavAlters, NothingAltered
<1>2. u = IF f.ra \notin {m.self, Everyone} THEN v
          ELSE CASE f.kind = "RTS" -> RecvRTS(v, f, r)
                 [] f.kind = "CTS" -> RecvCTS(v, r)
                 [] f.kind = "DATA" -> RecvDATA(v, f, r)
                 [] f.kind = "ACK" -> RecvACK(v, r)
  BY DEF Received
<1>3. f.kind \in {"RTS", "CTS", "DATA", "ACK"}
  BY DEF Proper, Frame
<1> HIDE DEF v, u
<1>4. /\ Shaped(v) /\ Keeps(m, v) /\ v.tx = m.tx /\ v.self = m.self
      /\ v.out = m.out /\ v.up = m.up /\ v.cache = m.cache
      /\ v.timer["send"] = m.timer["send"] /\ v.timer["if"] = m.timer["if"]
  <2>1. /\ v.tx = m.tx /\ v.self = m.self /\ v.out = m.out /\ v.up = m.up
        /\ v.cache = m.cache
        /\ v.timer["send"] = m.timer["send"] /\ v.timer["if"] = m.timer["if"]
    BY <1>1 DEF Retimes, Alters, Field, Timer
  <2> QED
    BY <1>1, <2>1, RetimesShape, SenderKept
<1>5. v.tx = "SEND" => v.timer["send"] # Off /\ v.pktTx # None
  BY <1>4 DEF Keeps
<1>6. Gets(v, u, f)
  <2>1. CASE f.ra \notin {m.self, Everyone}
    <3>1. Retimes(v, v, {}, {}) /\ u = v
      BY <1>2, <1>4, <2>1, NothingAltered
    <3> QED
      BY <3>1, CarriesSame DEF Carries, Gets
  <2>2. CASE f.ra \in {m.self, Everyone}
    <3>1. CASE f.kind = "RTS"
      BY <1>2, <1>4, <2>2, <3>1, RecvRTSCarries DEF Carries, Gets
    <3>2. CASE f.kind = "CTS"
      BY <1>2, <1>4, <2>2, <3>2, RecvCTSCarries DEF Carries, Gets
    <3>3. CASE f.kind = "DATA"
      BY <1>2, <1>4, <1>5, <2>2, <3>3, RecvDATAGets
    <3>4. CASE f.kind = "ACK"
      BY <1>2, <1>4, <1>5, <2>2, <3>4, RecvACKCarries DEF Carries, Gets
    <3> QED
      BY <1>3, <3>1, <3>2, <3>3, <3>4
  <2> QED
    BY <2>1, <2>2
<1>7. Proceeds(m, u) /\ (Keeps(v, u) => Keeps(m, u))
      /\ (Finishes(v, u) => Finishes(m, u))
  BY <1>4, <1>6
  DEF Gets, Advances, Proceeds, Fetches, Finishes, Keeps, TakesNext
<1>8. Filters(v, u, f) => Filters(m, u, f)
  BY <1>4 DEF Filters
<1>9. Gets(m, u, f)
  BY <1>4, <1>6, <1>7, <1>8 DEF Gets, Advances
<1> QED
  BY <1>9 DEF u

LEMMA RecvHandlerRuns ==
    ASSUME BugFixTimer, NEW m, Sound(m), m.out = None, m.timer["recv"] = 0,
           m.cache \in [Node -> Nat], NEW r \in Slots
    PROVE  Runs(m, RecvHandler([m EXCEPT !.timer["recv"] = Off], r))
<1> DEFINE v == [m EXCEPT !.timer["recv"] = Off]
           w == IF TxActive(v) THEN v
                ELSE IF v.rx = "COLL" \/ v.error THEN SetNav(v, USec(EIFS))
                ELSE Received(v, v.pktRx, r)
           c == Check(w, w.timer["recv"] = Off)
           x == [c EXCEPT !.pktRx = None, !.error = FALSE]
           u == SetRx(x, "IDLE")
<1>0. /\ IsMac(m) /\ Shaped(m) /\ "recv" \in Timer /\ m.rx \in {"RECV", "COLL"}
      /\ m.pktRx \in Proper
      /\ m.tx = "SEND" => m.timer["send"] # Off /\ m.pktTx # None
  <2>1. IsMac(m) /\ Shaped(m) /\ "recv" \in Timer
    BY MacIsShaped DEF Sound, Core, Timer
  <2>2. m.rx # "IDLE" /\ m.pktRx # None
    BY DEF Sound, Receiving, Off
  <2>3. m.tx = "SEND" => m.timer["send"] # Off /\ m.pktTx # None
    BY DEF Sound, Core, Transmitting
  <2> QED
    BY <2>1, <2>2, <2>3 DEF IsMac
<1>1. Changes(m, v, {"timer"}) /\ Retimes(m, v, {}, {"recv"})
  BY <1>0, TimerOff, TimerAlters
<1>2. RecvHandler(v, r) = u
  <2>1. v.pktRx # None /\ v.rx # "IDLE"
    BY <1>0, <1>1, NoneAssumption DEF Changes, Field, Proper
  <2>2. Check(v, v.pktRx # None /\ v.rx # "IDLE") = v
    BY <2>1, CheckHolds
  <2> QED
    BY <2>2 DEF RecvHandler
<1> HIDE DEF v
<1>3. /\ v.tx = m.tx /\ v.rx = m.rx /\ v.pktRx = m.pktRx /\ v.error = m.error
      /\ v.out = m.out /\ v.up = m.up /\ v.cache = m.cache /\ v.self = m.self
      /\ Shaped(v) /\ Keeps(m, v)
  <2>1. /\ v.tx = m.tx /\ v.rx = m.rx /\ v.pktRx = m.pktRx /\ v.error = m.error
        /\ v.out = m.out /\ v.up = m.up /\ v.cache = m.cache /\ v.self = m.self
    BY <1>1 DEF Changes, Field
  <2> QED
    BY <1>1, <2>1, RetimesShape, SenderKept
<1>4. v.timer["send"] = m.timer["send"] /\ v.timer["if"] = m.timer["if"]
  BY <1>1 DEF Retimes, Timer
<1>5. /\ Advances(v, w)
      /\ w.up # v.up \/ w.cache # v.cache => HearsWell(m) /\ Filters(v, w, m.pktRx)
  <2>1. Retimes(v, v, {}, {}) /\ Retimes(v, SetNav(v, USec(EIFS)), {}, {"nav"})
    BY <1>3, NothingAltered, SetNavAlters
  <2>2. Carries(v, v) /\ Carries(v, SetNav(v, USec(EIFS)))
    BY <2>1, CarriesSame
  <2>3. CASE w = v \/ w = SetNav(v, USec(EIFS))
    <3> HIDE DEF w
    <3> QED
      BY <2>2, <2>3 DEF Carries
  <2>4. CASE w = Received(v, v.pktRx, r) /\ v.rx # "COLL" /\ ~v.error
    <3>1. Gets(v, w, v.pktRx)
      BY <1>0, <1>3, <1>4, <2>4, ReceivedGets DEF Keeps
    <3>2. HearsWell(m)
      BY <1>0, <1>3, <2>4 DEF HearsWell
    <3> HIDE DEF w
    <3> QED
      BY <1>3, <3>1, <3>2 DEF Gets
  <2> QED
    BY <2>3, <2>4
<1>6. \/ w.tx = "SEND" /\ Keeps(v, w) /\ w.timer["send"] = v.timer["send"]
      \/ HearsWell(m)
      \/ m.tx # "SEND"
  <2>1. CASE w = v
    BY <1>3, <2>1 DEF Keeps
  <2>2. CASE w = SetNav(v, USec(EIFS))
    <3>1. Retimes(v, w, {}, {"nav"})
      BY <1>3, <2>2, SetNavAlters
    <3> HIDE DEF w
    <3>2. w.tx = v.tx /\ w.timer["send"] = v.timer["send"] /\ Keeps(v, w)
      <4>1. w.tx = v.tx /\ w.timer["send"] = v.timer["send"]
        BY <3>1 DEF Retimes, Alters, Field, Timer
      <4> QED
        BY <3>1, <4>1, SenderKept
    <3> QED
      BY <1>3, <3>2
  <2>3. CASE v.rx # "COLL" /\ ~v.error
    BY <1>0, <1>3, <2>3 DEF HearsWell
  <2> QED
    BY <2>1, <2>2, <2>3
<1> HIDE DEF w
<1>7. Retimes(w, c, {}, {})
  BY <1>5, CheckAlters DEF Advances
<1> HIDE DEF c
<1>8. Retimes(c, x, {"pktRx", "error"}, {})
  BY <1>7 DEF Retimes, Alters, Field
<1> HIDE DEF x
<1>9. Retimes(x, u, {"rx", "backoff"}, {}) /\ u.rx = "IDLE"
  BY <1>8, RetimesShape, SetRxAlters
<1> HIDE DEF u
<1>10. Retimes(w, x, {"pktRx", "error"}, {})
  BY <1>7, <1>8, RetimesChain
<1>11. Retimes(w, u, {"pktRx", "error", "rx", "backoff"}, {})
  BY <1>9, <1>10, RetimesChain
<1>12. /\ u.tx = w.tx /\ u.out = w.out /\ u.up = w.up /\ u.cache = w.cache
       /\ u.timer["send"] = w.timer["send"] /\ u.timer["if"] = w.timer["if"]
  BY <1>11 DEF Retimes, Alters, Field, Timer
<1>13. Keeps(w, u)
  BY <1>11, SenderKept DEF Sender
<1>14. Proceeds(m, u) /\ (Keeps(v, w) => Keeps(m, u))
       /\ (Finishes(v, w) => Finishes(m, u))
  BY <1>3, <1>5, <1>13
  DEF Advances, Proceeds, Fetches, Finishes, Keeps, TakesNext
<1>15. Filters(v, w, m.pktRx) => Filters(m, u, m.pktRx)
  BY <1>3, <1>12 DEF Filters
<1>16. StaysSending(m, u)
  BY <1>3, <1>4, <1>5, <1>6, <1>12, <1>14 DEF Advances, StaysSending
<1>17. Delivers(m, u)
  BY <1>3, <1>5, <1>9, <1>12, <1>15 DEF Delivers, PassesOn
<1>18. Radiates(m, u) /\ Emits(m, u) /\ ListensOn(m, u)
  BY <1>3, <1>4, <1>5, <1>9, <1>12 DEF Advances, Radiates, Emits, ListensOn
<1> QED
  BY <1>2, <1>14, <1>16, <1>17, <1>18 DEF Runs, v

(* The event that is due at a node *)
LEMMA HandledRuns ==
    ASSUME BugFixTimer, NEW m, Sound(m), m.out = None,
           m.cache \in [Node -> Nat],
           NEW e \in Timer \cup {"backoff"}, EventDue(m, e), NEW r \in Slots
    PROVE  Runs(m, Handled(m, e, r))
<1>1. CASE e = "send"
  BY <1>1, SendHandlerRuns DEF Handled, EventDue
<1>2. CASE e = "defer"
  BY <1>2, DeferHandlerRuns DEF Handled, EventDue
<1>3. CASE e = "recv"
  BY <1>3, RecvHandlerRuns DEF Handled, EventDue
<1>4. CASE e = "nav"
  BY <1>4, TimersRun DEF Handled, EventDue
<1>5. CASE e = "if"
  BY <1>5, TimersRun DEF Handled, EventDue
<1>6. CASE e = "backoff"
  BY <1>6, BackoffHandlerRuns DEF Handled, EventDue, Counting
<1> QED
  BY <1>1, <1>2, <1>3, <1>4, <1>5, <1>6 DEF Timer

-----------------------------------------------------------------------------
(* The packets of a MAC and the frames it has sent.                        *)

(* The MAC has taken p to send, and has sent it at least once. *)
BegunBy(m, p) == p \in DoneBy(m) \/ m.pktTx = p
SentBy(m, p) == p \in DoneBy(m) \/ (m.pktTx = p /\ m.tx = "SEND")

(* The packets a MAC has or had: each in one place and once *)
Has(m) == DoneBy(m) \cup ({m.pktTx} \ {None}) \cup {m.queue[i] : i \in 1..Len(m.queue)}
Orderly(m) ==
    /\ m.pktTx # None => m.pktTx \notin DoneBy(m)
    /\ \A i \in 1..Len(m.queue) :
         m.queue[i] \notin DoneBy(m) /\ m.queue[i] # m.pktTx
    /\ \A i, j \in 1..Len(m.queue) : m.queue[i] = m.queue[j] => i = j

(* m is sending what frame f carries, whose last bit arrives somewhere in  *)
(* left: it waits for the ACK for longer and receives nothing good before. *)
Tracks(m, f, left) ==
    /\ m.tx = "SEND" /\ m.pktTx = f.packet /\ m.seq = f.seq
    /\ left < m.timer["send"]
    /\ m.timer["if"] # Off => left <= m.timer["if"] + PropDelay
    /\ m.timer["if"] = Off => left <= PropDelay
    /\ m.rx # "IDLE" /\ ~Spoilt(m) => m.timer["recv"] > left

(* What an event makes of the MAC m, in terms of the packets *)
Follows(m, u) ==
    /\ \A p \in Packet : BegunBy(m, p) => BegunBy(u, p)
    /\ \A p \in Packet : NextHop[p] = Everyone /\ SentBy(m, p) => SentBy(u, p)
    /\ \A p \in Packet : u.pktTx = p =>
         (m.pktTx = p /\ u.seq = m.seq) \/ ~BegunBy(m, p)
    /\ \A f \in Frame, left \in Nat : f.packet \in Packet =>
         (Tracks(m, f, left) => Tracks(u, f, left))

(* The next packet is another than all before it. *)
LEMMA NextIsOrderly ==
    ASSUME NEW m, NEW u, Orderly(m), m.queue \in Seq(Packet), TakesNext(m, u),
           DoneBy(u) = DoneBy(m) \cup ({m.pktTx} \ {None})
    PROVE  /\ Orderly(u) /\ Has(u) \subseteq Has(m) /\ u.pktTx \in Packet
           /\ ~BegunBy(m, u.pktTx)
<1>1. /\ m.queue # <<>> /\ u.pktTx = Head(m.queue) /\ u.queue = Tail(m.queue)
  BY DEF TakesNext
<1>2. /\ Len(m.queue) \in Nat /\ Len(m.queue) > 0
      /\ Len(u.queue) = Len(m.queue) - 1
      /\ u.pktTx = m.queue[1] /\ u.pktTx \in Packet
      /\ \A i \in 1..Len(u.queue) :
           u.queue[i] = m.queue[i + 1] /\ i + 1 \in 1..Len(m.queue)
  BY <1>1
<1>3. 1 \in 1..Len(m.queue)
  BY <1>2
<1>4. u.pktTx \notin DoneBy(u) /\ ~BegunBy(m, u.pktTx)
  BY <1>2, <1>3 DEF Orderly, BegunBy
<1>5. ASSUME NEW i \in 1..Len(u.queue)
      PROVE  /\ u.queue[i] \notin DoneBy(u) /\ u.queue[i] # u.pktTx
             /\ u.queue[i] \in Has(m)
  <2>1. u.queue[i] = m.queue[i + 1] /\ i + 1 \in 1..Len(m.queue) /\ i + 1 # 1
    BY <1>2
  <2>2. m.queue[i + 1] # m.queue[1]
    BY <1>3, <2>1 DEF Orderly
  <2>3. m.queue[i + 1] \notin DoneBy(m) /\ m.queue[i + 1] # m.pktTx
    BY <2>1 DEF Orderly
  <2> QED
    BY <1>2, <2>1, <2>2, <2>3 DEF Has
<1>6. ASSUME NEW i \in 1..Len(u.queue), NEW j \in 1..Len(u.queue),
             u.queue[i] = u.queue[j]
      PROVE  i = j
  <2>1. i + 1 = j + 1
    BY <1>2, <1>6 DEF Orderly
  <2> QED
    BY <1>2, <2>1
<1>7. Orderly(u)
  BY <1>4, <1>5, <1>6 DEF Orderly
<1>8. Has(u) \subseteq Has(m)
  BY <1>2, <1>3, <1>5 DEF Has
<1> QED
  BY <1>2, <1>4, <1>7, <1>8

LEMMA ProceedsOrderly ==
    ASSUME NEW m, NEW u, Orderly(m), m.queue \in Seq(Packet), Proceeds(m, u)
    PROVE  /\ Orderly(u) /\ Has(u) \subseteq Has(m)
           /\ \A p \in Packet : BegunBy(m, p) => BegunBy(u, p)
           /\ \A p \in Packet : u.pktTx = p =>
                (m.pktTx = p /\ u.seq = m.seq) \/ ~BegunBy(m, p)
<1>0. \A p \in Packet : p # None
  BY NoneAssumption
<1>1. CASE /\ DoneBy(u) = DoneBy(m) /\ u.pktTx = m.pktTx /\ u.seq = m.seq
           /\ u.queue = m.queue
  BY <1>1 DEF Orderly, Has, BegunBy
<1>2. CASE DoneBy(u) = DoneBy(m) /\ m.pktTx = None /\ TakesNext(m, u)
  <2>1. DoneBy(u) = DoneBy(m) \cup ({m.pktTx} \ {None})
    BY <1>2
  <2> QED
    BY <1>0, <1>2, <2>1, NextIsOrderly DEF BegunBy
<1>3. CASE /\ m.pktTx # None /\ DoneBy(u) = DoneBy(m) \cup {m.pktTx}
           /\ u.pktTx = None /\ u.queue = m.queue
  <2>1. \A i \in 1..Len(u.queue) : u.queue[i] \in Packet
    BY <1>3
  <2>2. Orderly(u)
    BY <1>0, <1>3, <2>1 DEF Orderly
  <2> QED
    BY <1>0, <1>3, <2>2 DEF Has, BegunBy
<1>4. CASE /\ m.pktTx # None /\ DoneBy(u) = DoneBy(m) \cup {m.pktTx}
           /\ TakesNext(m, u)
  <2>1. DoneBy(u) = DoneBy(m) \cup ({m.pktTx} \ {None})
    BY <1>4
  <2> QED
    BY <1>0, <1>4, <2>1, NextIsOrderly DEF BegunBy
<1> QED
  BY <1>1, <1>2, <1>3, <1>4 DEF Proceeds, Fetches, Finishes

(* What an event does but for the frame it sends *)
RunsOn(m, u) ==
    /\ Proceeds(m, u) /\ StaysSending(m, u) /\ Radiates(m, u)
    /\ ListensOn(m, u) /\ Delivers(m, u)

LEMMA RunsFollows ==
    ASSUME NEW m, NEW u, Sound(m), IsMac(u), Orderly(m), RunsOn(m, u)
    PROVE  Follows(m, u) /\ Orderly(u) /\ Has(u) \subseteq Has(m)
<1>0. IsMac(m) /\ m.queue \in Seq(Packet) /\ Off = -1
  BY DEF Sound, Core, IsMac, Off
<1>1. /\ Orderly(u) /\ Has(u) \subseteq Has(m)
      /\ \A p \in Packet : BegunBy(m, p) => BegunBy(u, p)
      /\ \A p \in Packet : u.pktTx = p =>
           (m.pktTx = p /\ u.seq = m.seq) \/ ~BegunBy(m, p)
  BY <1>0, ProceedsOrderly DEF RunsOn
<1>2. DoneBy(m) \subseteq DoneBy(u)
  BY DEF RunsOn, Proceeds, Fetches, Finishes
<1>3. ASSUME NEW f \in Frame, NEW left \in Nat, Tracks(m, f, left)
      PROVE  Tracks(u, f, left)
  <2>1. /\ m.timer["send"] \in Int /\ m.timer["recv"] \in Int
        /\ m.timer["if"] \in Int
    BY <1>0, TimerIsInt
  <2>2. m.tx = "SEND" /\ m.timer["send"] # 0 /\ ~HearsWell(m)
    BY <1>3, <2>1 DEF Tracks, HearsWell, Spoilt
  <2>3. u.tx = "SEND" /\ Keeps(m, u) /\ u.timer["send"] = m.timer["send"]
    BY <2>2 DEF RunsOn, StaysSending
  <2>4. \/ u.timer["if"] = m.timer["if"]
        \/ m.timer["if"] = 0 /\ u.timer["if"] = Off
    BY <2>2 DEF RunsOn, Radiates
  <2>5. /\ u.timer["if"] # Off => left <= u.timer["if"] + PropDelay
        /\ u.timer["if"] = Off => left <= PropDelay
    BY <1>0, <1>3, <2>1, <2>4 DEF Tracks, PropDelay
  <2>6. u.rx # "IDLE" /\ ~Spoilt(u) => u.timer["recv"] > left
    BY <1>3 DEF RunsOn, ListensOn, Tracks, Spoilt
  <2> QED
    BY <1>3, <2>3, <2>5, <2>6 DEF Tracks, Keeps
<1>4. ASSUME NEW p \in Packet, NextHop[p] = Everyone, SentBy(m, p)
      PROVE  SentBy(u, p)
  <2>1. CASE p \in DoneBy(m)
    BY <1>2, <2>1 DEF SentBy
  <2>2. CASE m.pktTx = p /\ m.tx = "SEND" /\ p \notin DoneBy(m)
    <3>1. CASE u.tx = "SEND" /\ Keeps(m, u)
      BY <2>2, <3>1 DEF SentBy, Keeps
    <3>2. CASE Finishes(m, u)
      BY <2>2, <3>2 DEF SentBy, Finishes
    <3> QED
      BY <1>4, <2>2, <3>1, <3>2 DEF RunsOn, StaysSending
  <2> QED
    BY <1>4, <2>1, <2>2 DEF SentBy
<1> QED
  BY <1>1, <1>3, <1>4 DEF Follows

(* A frame that arrives is received, or spoils what is being received. *)
Meets(m, u, f) ==
    u.rx # "IDLE" =>
        \/ /\ m.rx # "IDLE" /\ u.pktRx = m.pktRx
           /\ u.timer["recv"] = m.timer["recv"] /\ (Spoilt(m) => Spoilt(u))
        \/ /\ u.pktRx = f /\ u.timer["recv"] = f.time
           /\ m.timer["if"] # Off => Spoilt(u)

(* recv() *)
LEMMA RecvMeets ==
    ASSUME NEW m, Shaped(m), m.rx \in {"IDLE", "RECV", "COLL"}, NEW f, NEW c
    PROVE  LET u == Recv(m, f, c)
           IN  /\ Retimes(m, u, {"rx", "backoff", "pktRx", "error"}, {"recv", "nav"})
               /\ Meets(m, u, f)
<1> DEFINE u == Recv(m, f, c)
           F == {"rx", "backoff", "pktRx", "error"}
           T == {"recv", "nav"}
<1> SUFFICES Retimes(m, u, F, T) /\ Meets(m, u, f)
  OBVIOUS
<1>1. CASE m.rx = "IDLE"
  <2> DEFINE v == SetRx(m, "RECV")
             x == [v EXCEPT !.pktRx = f, !.error = TxActive(m)]
  <2>1. Retimes(m, v, {"rx", "backoff"}, {}) /\ v.rx = "RECV"
    BY SetRxAlters
  <2>2. u = StartTimer(x, "recv", f.time)
    BY <1>1 DEF Recv
  <2> HIDE DEF u, v
  <2>3. Retimes(v, x, {"pktRx", "error"}, {}) /\ x.pktRx = f
        /\ x.error = TxActive(m)
    BY <2>1 DEF Retimes, Alters, Field
  <2> HIDE DEF x
  <2>4. Retimes(x, u, {}, {"recv"}) /\ u.timer["recv"] = f.time
    BY <2>2, <2>3, RetimesShape, StartAlters DEF Timer
  <2>5. Retimes(m, x, F, {})
    BY <2>1, <2>3, RetimesChain
  <2>6. Retimes(m, u, F, T)
    BY <2>4, <2>5, RetimesChain
  <2>7. u.pktRx = f /\ u.error = TxActive(m)
    BY <2>3, <2>4 DEF Retimes, Alters, Field
  <2> QED
    BY <2>4, <2>6, <2>7 DEF Meets, TxActive, Spoilt
<1>2. CASE m.rx # "IDLE" /\ c
  <2>1. u = SetNav(m, USec(EIFS + f.time))
    BY <1>2 DEF Recv
  <2> HIDE DEF u
  <2>2. Retimes(m, u, {}, {"nav"})
    BY <2>1, SetNavAlters
  <2>3. Retimes(m, u, F, T)
    BY <2>2, RetimesMore
  <2>4. /\ u.rx = m.rx /\ u.pktRx = m.pktRx /\ u.error = m.error
        /\ u.timer["recv"] = m.timer["recv"]
    BY <2>2 DEF Retimes, Alters, Field, Timer
  <2> QED
    BY <2>3, <2>4 DEF Meets, Spoilt
<1>3. CASE m.rx # "IDLE" /\ ~c
  <2> DEFINE v == SetRx(m, "COLL")
             x == Check(v, m.pktRx # None /\ m.timer["recv"] # Off)
             y == [x EXCEPT !.pktRx = f, !.error = TxActive(m),
                            !.timer["recv"] = f.time]
  <2>1. Retimes(m, v, {"rx", "backoff"}, {}) /\ v.rx = "COLL"
    BY SetRxAlters
  <2>2. u = IF f.time > m.timer["recv"] THEN y ELSE x
    BY <1>3 DEF Recv
  <2> HIDE DEF u, v
  <2>3. Retimes(v, x, {}, {})
    BY <2>1, RetimesShape, CheckAlters
  <2> HIDE DEF x
  <2>4. /\ Retimes(x, y, {"pktRx", "error"}, {"recv"}) /\ y.pktRx = f
        /\ y.timer["recv"] = f.time
    BY <2>3 DEF Retimes, Alters, Field, Timer
  <2> HIDE DEF y
  <2>5. Retimes(m, x, {"rx", "backoff"}, {}) /\ x.rx = "COLL"
    <3>1. Retimes(m, x, {"rx", "backoff"}, {})
      BY <2>1, <2>3, RetimesChain
    <3>2. x.rx = v.rx
      BY <2>3 DEF Retimes, Alters, Field
    <3> QED
      BY <2>1, <3>1, <3>2
  <2>6. Retimes(m, x, F, T)
    BY <2>5, RetimesMore
  <2>7. Retimes(m, y, F, T)
    BY <2>4, <2>6, RetimesChain
  <2>8. y.rx = "COLL"
    BY <2>4, <2>5 DEF Retimes, Alters, Field
  <2>9. x.pktRx = m.pktRx /\ x.timer["recv"] = m.timer["recv"]
    BY <2>5 DEF Retimes, Alters, Field, Timer
  <2>10. Meets(m, x, f)
    BY <1>3, <2>5, <2>9 DEF Meets, Spoilt
  <2>11. Meets(m, y, f)
    BY <2>4, <2>8 DEF Meets, Spoilt
  <2> QED
    BY <2>2, <2>6, <2>7, <2>10, <2>11
<1> QED
  BY <1>1, <1>2, <1>3

(* A frame that arrives changes nothing for the packets of the MAC. *)
LEMMA MeetsFollows ==
    ASSUME NEW m, NEW u, IsMac(m), IsMac(u), Orderly(m), NEW f \in Proper,
           Retimes(m, u, {"rx", "backoff", "pktRx", "error"}, {"recv", "nav"}),
           Meets(m, u, f)
    PROVE  Follows(m, u) /\ Orderly(u) /\ Has(u) = Has(m)
<1>1. Keeps(m, u)
  BY SenderKept DEF Sender
<1>2. u.tx = m.tx
  BY DEF Retimes, Alters, Field
<1>3. u.timer["send"] = m.timer["send"] /\ u.timer["if"] = m.timer["if"]
  BY DEF Retimes, Timer
<1>4. ASSUME NEW g \in Frame, NEW left \in Nat, Tracks(m, g, left)
      PROVE  Tracks(u, g, left)
  <2>1. u.rx # "IDLE" /\ ~Spoilt(u) => u.timer["recv"] > left
    <3>1. CASE /\ m.rx # "IDLE" /\ u.timer["recv"] = m.timer["recv"]
               /\ Spoilt(m) => Spoilt(u)
      BY <1>4, <3>1 DEF Tracks
    <3>2. CASE u.timer["recv"] = f.time /\ (m.timer["if"] # Off => Spoilt(u))
      BY <1>4, <3>2, ProperFrame DEF Tracks, PropDelay
    <3> QED
      BY <3>1, <3>2 DEF Meets
  <2> QED
    BY <1>1, <1>2, <1>3, <1>4, <2>1 DEF Tracks, Keeps
<1>5. /\ \A p : BegunBy(m, p) <=> BegunBy(u, p)
      /\ \A p : SentBy(m, p) <=> SentBy(u, p)
  BY <1>1, <1>2 DEF BegunBy, SentBy, Keeps
<1>6. Follows(m, u)
  BY <1>1, <1>4, <1>5 DEF Follows, Keeps
<1> QED
  BY <1>1, <1>6 DEF Orderly, Has, Keeps

(* Queue::recv(): the packet waits or is sent at once. *)
LEMMA QueuedFollows ==
    ASSUME NEW m, IsMac(m), Orderly(m), NEW p \in Packet, p \notin Has(m)
    PROVE  LET u == [m EXCEPT !.queue = Append(@, p)]
           IN  /\ Retimes(m, u, {"queue"}, {})
               /\ Follows(m, u) /\ Orderly(u) /\ Has(u) = Has(m) \cup {p}
<1> DEFINE u == [m EXCEPT !.queue = Append(@, p)]
<1>1. Retimes(m, u, {"queue"}, {}) /\ u.queue = Append(m.queue, p)
  BY MacIsShaped DEF Shaped, Retimes, Alters, Field
<1> HIDE DEF u
<1>2. /\ u.tx = m.tx /\ u.timer = m.timer /\ u.pktTx = m.pktTx /\ u.seq = m.seq
      /\ u.rx = m.rx /\ u.error = m.error /\ DoneBy(u) = DoneBy(m)
  <2>1. u.timer = m.timer
    BY <1>1 DEF u, IsMac, Field
  <2> QED
    BY <1>1, <2>1 DEF Retimes, Alters, Field, DoneBy
<1>3. Follows(m, u)
  BY <1>2 DEF Follows, BegunBy, SentBy, Tracks, Spoilt
<1>4. /\ Len(m.queue) \in Nat /\ Len(u.queue) = Len(m.queue) + 1
      /\ \A i \in 1..Len(m.queue) : u.queue[i] = m.queue[i]
      /\ u.queue[Len(m.queue) + 1] = p
  BY <1>1 DEF IsMac
<1>5. \A i \in 1..Len(u.queue) : i \in 1..Len(m.queue) \/ i = Len(m.queue) + 1
  BY <1>4
<1>6. \A i \in 1..Len(m.queue) : i \in 1..Len(u.queue) /\ m.queue[i] # p
  BY <1>4 DEF Has
<1>7. p # m.pktTx /\ p \notin DoneBy(m)
  BY NoneAssumption DEF Has
<1>8. Orderly(u)
  BY <1>2, <1>4, <1>5, <1>6, <1>7 DEF Orderly
<1>9. Len(m.queue) + 1 \in 1..Len(u.queue)
  BY <1>4
<1>10. Has(u) = Has(m) \cup {p}
  BY <1>2, <1>4, <1>5, <1>6, <1>9 DEF Has
<1> QED
  BY <1>1, <1>3, <1>8, <1>10 DEF u

LEMMA HandedFollows ==
    ASSUME NEW m, NEW u, Sound(m), IsMac(u), Orderly(m), m.pktTx = None,
           NEW p \in Packet, p \notin Has(m), u.pktTx = p,
           Retimes(m, u, SendChanges \cup {"blocked", "out"}, {})
    PROVE  Follows(m, u) /\ Orderly(u) /\ Has(u) = Has(m) \cup {p}
<1>1. m.tx # "SEND"
  BY DEF Sound, Core, Transmitting
<1>2. u.queue = m.queue /\ DoneBy(u) = DoneBy(m) /\ u.tx = m.tx
  BY DEF Retimes, Alters, Field, SendChanges, DoneBy
<1>3. p # None /\ p \notin DoneBy(m) /\ \A i \in 1..Len(m.queue) : m.queue[i] # p
  BY NoneAssumption DEF Has
<1>4. Follows(m, u)
  BY <1>1, <1>2, <1>3, NoneAssumption DEF Follows, BegunBy, SentBy, Tracks
<1>5. Orderly(u)
  BY <1>2, <1>3 DEF Orderly
<1>6. Has(u) = Has(m) \cup {p}
  BY <1>2, <1>3 DEF Has
<1> QED
  BY <1>4, <1>5, <1>6

-----------------------------------------------------------------------------
(* From transmit() to the filter for duplicates.                           *)

(* A data frame as check_pktTx() sends it *)
WellBuilt(f) == f.packet \in Packet /\ f = DataFrame(f.packet, f.seq)

(* Its sender m has it in hand while it is on its way, or has sent it if   *)
(* it is a broadcast, which no ACK ends.                                   *)
Carried(m, f, left) ==
    IF NextHop[f.packet] = Everyone THEN SentBy(m, f.packet)
    ELSE Tracks(m, f, left)

Flight(f, left) ==
    f.kind = "DATA" => WellBuilt(f) /\ Carried(mac[Origin[f.packet]], f, left)

Flights ==
    /\ \A x \in air : Flight(x.frame, x.in + x.frame.time)
    /\ \A k \in Node : mac[k].rx # "IDLE" =>
         Flight(mac[k].pktRx, mac[k].timer["recv"])

(* Every MAC has packets of its own, each handed down and in one place. *)
Owns ==
    \A n \in Node :
        /\ mac[n].out = None /\ Orderly(mac[n])
        /\ mac[n].cache \in [Node -> Nat] /\ mac[n].up \in Seq(Frame)
        /\ \A p \in Has(mac[n]) : p \in Packet /\ Origin[p] = n /\ coming[p] = Off

(* What was passed up was begun; as long as its sender still has it, the   *)
(* filter knows its number.                                                *)
PassedUp(f, cache) ==
    LET o == Origin[f.packet]
    IN  /\ WellBuilt(f)
        /\ IF NextHop[f.packet] = Everyone THEN SentBy(mac[o], f.packet)
           ELSE /\ BegunBy(mac[o], f.packet)
                /\ mac[o].pktTx = f.packet =>
                     f.seq = mac[o].seq /\ (f.seq = 0 \/ cache[o] = f.seq)

Ups ==
    \A k \in Node : \A i \in DOMAIN mac[k].up :
        PassedUp(mac[k].up[i], mac[k].cache)

(* A broadcast is sent once: it has at most one copy for each node. *)
CopyOf(p, f) == f.kind = "DATA" /\ f.packet = p
Receives(m, p) == m.rx # "IDLE" /\ CopyOf(p, m.pktRx)
Passed(m, p) == \E i \in DOMAIN m.up : m.up[i].packet = p

Single(p, k) ==
    /\ \A x, y \in air : /\ x.to = k /\ CopyOf(p, x.frame)
                         /\ y.to = k /\ CopyOf(p, y.frame)
                         => x = y
    /\ \A x \in air : x.to = k /\ CopyOf(p, x.frame) =>
         ~Receives(mac[k], p) /\ ~Passed(mac[k], p)
    /\ Receives(mac[k], p) => ~Passed(mac[k], p)

Singles ==
    \A p \in Packet, k \in Node : NextHop[p] = Everyone => Single(p, k)

InFlight == \A x \in air : x = [to |-> x.to, frame |-> x.frame, in |-> x.in]

(* The inductive invariant *)
Linked ==
    /\ AllSound /\ InFlight /\ Owns /\ Flights /\ Ups /\ Singles
    /\ OnceUnlessZero

(* The frame g that node n sends as it becomes u *)
Launches(n, u, g) ==
    g.kind = "DATA" =>
        /\ WellBuilt(g) /\ Origin[g.packet] = n
        /\ Carried(u, g, PropDelay + g.time) /\ ~SentBy(mac[n], g.packet)

OnTheAir(n, u) ==
    \E g : \A y \in air' :
        \/ y \in air
        \/ y = [to |-> y.to, frame |-> g, in |-> PropDelay] /\ Launches(n, u, g)

Hearing(n, u) ==
    u.rx # "IDLE" =>
        \/ /\ mac[n].rx # "IDLE" /\ u.pktRx = mac[n].pktRx
           /\ u.timer["recv"] = mac[n].timer["recv"]
        \/ \E x \in air \ air' : /\ x.to = n /\ x.in = 0 /\ u.pktRx = x.frame
                                 /\ u.timer["recv"] = x.frame.time

(* What an event does that makes u of the MAC of node n *)
Moves(n, u) ==
    /\ mac' = [mac EXCEPT ![n] = u] /\ u.out = None
    /\ Follows(mac[n], u) /\ Delivers(mac[n], u)
    /\ DoneBy(mac[n]) \subseteq DoneBy(u) /\ Orderly(u)
    /\ \A p \in Has(u) : p \in Packet /\ Origin[p] = n /\ coming'[p] = Off
    /\ \A p \in Packet : coming[p] = Off => coming'[p] = Off
    /\ Hearing(n, u) /\ OnTheAir(n, u)

LEMMA MovesOne ==
    ASSUME Linked, NEW n \in Node, NEW u, Moves(n, u)
    PROVE  mac'[n] = u /\ \A k \in Node \ {n} : mac'[k] = mac[k]
BY DEF Linked, AllSound, Moves

(* How long what is on its way takes *)
LEMMA FlightTimes ==
    ASSUME Linked
    PROVE  /\ \A x \in air : /\ x.frame \in Proper /\ x.frame \in Frame
                             /\ x.in + x.frame.time \in Nat
           /\ \A k \in Node : mac[k].rx # "IDLE" =>
                /\ mac[k].pktRx \in Proper /\ mac[k].pktRx \in Frame
                /\ mac[k].timer["recv"] \in Nat
<1>1. ASSUME NEW x \in air
      PROVE  /\ x.frame \in Proper /\ x.frame \in Frame
             /\ x.in + x.frame.time \in Nat
  <2>1. x.frame \in Proper /\ x.in \in Nat
    BY DEF Linked, AllSound
  <2> QED
    BY <2>1, ProperFrame DEF Proper
<1>2. ASSUME NEW k \in Node, mac[k].rx # "IDLE"
      PROVE  /\ mac[k].pktRx \in Proper /\ mac[k].pktRx \in Frame
             /\ mac[k].timer["recv"] \in Nat
  <2>1. IsMac(mac[k]) /\ Receiving(mac[k])
    BY DEF Linked, AllSound, Sound, Core
  <2>2. mac[k].timer["recv"] \in Int /\ mac[k].timer["recv"] >= Off
    BY <2>1, TimerIsInt
  <2>3. mac[k].timer["recv"] # Off /\ mac[k].pktRx # None
    BY <1>2, <2>1 DEF Receiving
  <2> QED
    BY <2>1, <2>2, <2>3 DEF IsMac, Proper, Off
<1> QED
  BY <1>1, <1>2

LEMMA OwnsKept ==
    ASSUME Linked, NEW n \in Node, NEW u, Moves(n, u)
    PROVE  Owns'
<1>1. mac'[n] = u /\ \A k \in Node \ {n} : mac'[k] = mac[k]
  BY MovesOne
<1>2. u.cache \in [Node -> Nat] /\ u.up \in Seq(Frame)
  <2> DEFINE m == mac[n]
             f == m.pktRx
  <2>1. m.cache \in [Node -> Nat] /\ m.up \in Seq(Frame)
    BY DEF Linked, Owns
  <2>2. CASE u.up = m.up /\ u.cache = m.cache
    BY <2>1, <2>2
  <2>3. CASE PassesOn(m, u)
    <3>1. m.rx # "IDLE"
      BY <2>3 DEF PassesOn, HearsWell
    <3>2. f \in Frame
      BY <3>1, FlightTimes
    <3>3. f.seq \in Nat /\ f.ta \in Node
      BY <3>2 DEF Frame
    <3> QED
      BY <2>1, <2>3, <3>2, <3>3 DEF PassesOn, Filters
  <2> QED
    BY <2>2, <2>3 DEF Moves, Delivers
<1>3. ASSUME NEW k \in Node
      PROVE  /\ mac'[k].out = None /\ Orderly(mac'[k])
             /\ mac'[k].cache \in [Node -> Nat] /\ mac'[k].up \in Seq(Frame)
             /\ \A p \in Has(mac'[k]) :
                  p \in Packet /\ Origin[p] = k /\ coming'[p] = Off
  BY <1>1, <1>2 DEF Linked, Owns, Moves
<1> QED
  BY <1>3 DEF Owns

(* Flight in the next state *)
FliesOn(f, left) ==
    f.kind = "DATA" => WellBuilt(f) /\ Carried(mac'[Origin[f.packet]], f, left)

LEMMA FlightKept ==
    ASSUME Linked, NEW n \in Node, NEW u, Moves(n, u), NEW f \in Frame,
           NEW left \in Nat, Flight(f, left)
    PROVE  FliesOn(f, left)
<1> SUFFICES ASSUME f.kind = "DATA"
             PROVE  WellBuilt(f) /\ Carried(mac'[Origin[f.packet]], f, left)
  BY DEF FliesOn
<1>1. mac'[n] = u /\ \A k \in Node \ {n} : mac'[k] = mac[k]
  BY MovesOne
<1> DEFINE o == Origin[f.packet]
<1>2. WellBuilt(f) /\ Carried(mac[o], f, left) /\ f.packet \in Packet /\ o \in Node
  BY PacketTypes DEF Flight, WellBuilt
<1>3. CASE o # n
  BY <1>1, <1>2, <1>3
<1>4. CASE o = n
  BY <1>1, <1>2, <1>4 DEF Carried, Moves, Follows
<1> QED
  BY <1>3, <1>4

LEMMA FlightsKept ==
    ASSUME Linked, NEW n \in Node, NEW u, Moves(n, u)
    PROVE  Flights'
<1>1. mac'[n] = u /\ \A k \in Node \ {n} : mac'[k] = mac[k]
  BY MovesOne
<1>2. ASSUME NEW x \in air
      PROVE  FliesOn(x.frame, x.in + x.frame.time)
  <2>1. x.frame \in Frame /\ x.in + x.frame.time \in Nat
    BY FlightTimes
  <2>2. Flight(x.frame, x.in + x.frame.time)
    BY DEF Linked, Flights
  <2> QED
    BY <2>1, <2>2, FlightKept
<1>3. ASSUME NEW k \in Node, mac[k].rx # "IDLE"
      PROVE  FliesOn(mac[k].pktRx, mac[k].timer["recv"])
  <2>1. mac[k].pktRx \in Frame /\ mac[k].timer["recv"] \in Nat
    BY <1>3, FlightTimes
  <2>2. Flight(mac[k].pktRx, mac[k].timer["recv"])
    BY <1>3 DEF Linked, Flights
  <2> QED
    BY <2>1, <2>2, FlightKept
<1>4. ASSUME NEW y \in air'
      PROVE  FliesOn(y.frame, y.in + y.frame.time)
  <2>1. CASE y \in air
    BY <1>2, <2>1
  <2>2. ASSUME NEW g, y = [to |-> y.to, frame |-> g, in |-> PropDelay],
               Launches(n, u, g)
        PROVE  FliesOn(y.frame, y.in + y.frame.time)
    <3>1. y.frame = g /\ y.in = PropDelay
      BY <2>2
    <3>2. FliesOn(g, PropDelay + g.time)
      BY <1>1, <2>2 DEF Launches, FliesOn
    <3> QED
      BY <3>1, <3>2
  <2> QED
    BY <2>1, <2>2 DEF Moves, OnTheAir
<1>5. ASSUME NEW k \in Node, mac'[k].rx # "IDLE"
      PROVE  FliesOn(mac'[k].pktRx, mac'[k].timer["recv"])
  <2>1. CASE k # n
    <3>1. mac'[k] = mac[k]
      BY <1>1, <2>1
    <3> QED
      BY <1>3, <1>5, <3>1
  <2>2. CASE /\ k = n /\ mac[n].rx # "IDLE" /\ u.pktRx = mac[n].pktRx
             /\ u.timer["recv"] = mac[n].timer["recv"]
    BY <1>1, <1>3, <2>2
  <2>3. ASSUME k = n, NEW x \in air, x.in = 0, u.pktRx = x.frame,
               u.timer["recv"] = x.frame.time
        PROVE  FliesOn(mac'[k].pktRx, mac'[k].timer["recv"])
    <3>1. x.frame.time \in Nat
      BY FlightTimes, ProperFrame
    <3>2. x.in + x.frame.time = x.frame.time
      BY <2>3, <3>1
    <3> QED
      BY <1>1, <1>2, <2>3, <3>2
  <2> QED
    BY <1>1, <1>5, <2>1, <2>2, <2>3 DEF Moves, Hearing
<1> QED
  BY <1>4, <1>5 DEF Flights, Flight, FliesOn

(* What a node is passed it was receiving before. *)
LEMMA PassedWasReceived ==
    ASSUME NEW m, NEW u, m.up \in Seq(Frame), Delivers(m, u), NEW p, Passed(u, p)
    PROVE  Passed(m, p) \/ (u.rx = "IDLE" /\ Receives(m, p))
<1>1. CASE u.up = m.up
  BY <1>1 DEF Passed
<1>2. CASE PassesOn(m, u)
  <2>1. /\ u.rx = "IDLE" /\ m.rx = "RECV" /\ m.pktRx.kind = "DATA"
        /\ u.up = Append(m.up, m.pktRx)
    BY <1>2 DEF PassesOn, HearsWell, Filters
  <2>2. PICK i \in DOMAIN u.up : u.up[i].packet = p
    BY DEF Passed
  <2>3. CASE i \in DOMAIN m.up
    <3>1. u.up[i] = m.up[i]
      BY <2>1, <2>3
    <3> QED
      BY <2>2, <2>3, <3>1 DEF Passed
  <2>4. CASE i \notin DOMAIN m.up
    <3>1. u.up[i] = m.pktRx
      BY <2>1, <2>2, <2>4
    <3> QED
      BY <2>1, <2>2, <3>1 DEF Receives, CopyOf
  <2> QED
    BY <2>3, <2>4
<1> QED
  BY <1>1, <1>2 DEF Delivers

(* Of a broadcast nothing is anywhere before it is sent. *)
LEMMA NothingBeforeSent ==
    ASSUME Linked, NEW p \in Packet, NextHop[p] = Everyone,
           ~SentBy(mac[Origin[p]], p)
    PROVE  /\ \A x \in air : ~CopyOf(p, x.frame)
           /\ \A k \in Node : ~Receives(mac[k], p) /\ ~Passed(mac[k], p)
BY DEF Linked, Flights, Flight, Carried, CopyOf, Receives, Ups, PassedUp, Passed

LEMMA SinglesKept ==
    ASSUME Linked, NEW n \in Node, NEW u, Moves(n, u)
    PROVE  Singles'
<1> DEFINE m == mac[n]
<1>1. mac'[n] = u /\ \A k \in Node \ {n} : mac'[k] = mac[k]
  BY MovesOne
<1>2. ASSUME NEW p, Passed(u, p)
      PROVE  Passed(m, p) \/ (u.rx = "IDLE" /\ Receives(m, p))
  BY <1>2, PassedWasReceived DEF Linked, Owns, Moves
<1>3. ASSUME NEW p, Receives(u, p), ~Receives(m, p)
      PROVE  \E x \in air \ air' : x.to = n /\ CopyOf(p, x.frame)
  BY <1>3 DEF Moves, Hearing, Receives
<1>4. ASSUME NEW p \in Packet, NextHop[p] = Everyone, NEW k \in Node
      PROVE  /\ \A x, y \in air' : /\ x.to = k /\ CopyOf(p, x.frame)
                                   /\ y.to = k /\ CopyOf(p, y.frame)
                                   => x = y
             /\ \A x \in air' : x.to = k /\ CopyOf(p, x.frame) =>
                  ~Receives(mac'[k], p) /\ ~Passed(mac'[k], p)
             /\ Receives(mac'[k], p) => ~Passed(mac'[k], p)
  <2>0. Single(p, k)
    BY <1>4 DEF Linked, Singles
  <2>1. CASE \A y \in air' : CopyOf(p, y.frame) => y \in air
    <3>1. CASE k # n
      <4>1. mac'[k] = mac[k]
        BY <1>1, <3>1
      <4> QED
        BY <2>0, <2>1, <4>1 DEF Single
    <3>2. CASE k = n
      <4>1. ASSUME NEW x \in air', x.to = k, CopyOf(p, x.frame)
            PROVE  ~Receives(u, p) /\ ~Passed(u, p)
        <5>1. x \in air /\ ~Receives(m, p) /\ ~Passed(m, p)
          BY <2>0, <2>1, <3>2, <4>1 DEF Single
        <5>2. ~Receives(u, p)
          BY <1>3, <2>0, <3>2, <4>1, <5>1 DEF Single
        <5> QED
          BY <1>2, <5>1, <5>2
      <4>2. ASSUME Receives(u, p), Passed(u, p)
            PROVE  FALSE
        <5>1. Passed(m, p)
          BY <1>2, <4>2 DEF Receives
        <5>2. ~Receives(m, p)
          BY <2>0, <3>2, <5>1 DEF Single
        <5> QED
          BY <1>3, <2>0, <3>2, <4>2, <5>1, <5>2 DEF Single
      <4> QED
        BY <1>1, <2>0, <2>1, <3>2, <4>1, <4>2 DEF Single
    <3> QED
      BY <3>1, <3>2
  <2>2. ASSUME NEW y \in air', CopyOf(p, y.frame), y \notin air
        PROVE  /\ \A x, z \in air' : /\ x.to = k /\ CopyOf(p, x.frame)
                                     /\ z.to = k /\ CopyOf(p, z.frame)
                                     => x = z
               /\ ~Receives(mac'[k], p) /\ ~Passed(mac'[k], p)
    <3>1. PICK g : \A x \in air' :
            \/ x \in air
            \/ x = [to |-> x.to, frame |-> g, in |-> PropDelay] /\ Launches(n, u, g)
      BY DEF Moves, OnTheAir
    <3>2. CopyOf(p, g) /\ Launches(n, u, g)
      BY <2>2, <3>1
    <3>3. Origin[p] = n /\ ~SentBy(m, p)
      BY <3>2 DEF Launches, CopyOf
    <3>4. /\ \A x \in air : ~CopyOf(p, x.frame)
          /\ \A j \in Node : ~Receives(mac[j], p) /\ ~Passed(mac[j], p)
      BY <1>4, <3>3, NothingBeforeSent
    <3>5. ~Receives(u, p) /\ ~Passed(u, p)
      BY <1>2, <1>3, <3>4
    <3>6. ~Receives(mac'[k], p) /\ ~Passed(mac'[k], p)
      BY <1>1, <3>4, <3>5
    <3>7. \A x, z \in air' : x.to = k /\ CopyOf(p, x.frame) /\ z.to = k /\ CopyOf(p, z.frame) => x = z
      BY <3>1, <3>4
    <3> QED
      BY <3>6, <3>7
  <2> QED
    BY <2>1, <2>2
<1> QED
  BY <1>4 DEF Singles, Single

(* PassedUp in the next state *)
StaysPassed(f, cache) ==
    LET o == Origin[f.packet]
    IN  /\ WellBuilt(f)
        /\ IF NextHop[f.packet] = Everyone THEN SentBy(mac'[o], f.packet)
           ELSE /\ BegunBy(mac'[o], f.packet)
                /\ mac'[o].pktTx = f.packet =>
                     f.seq = mac'[o].seq /\ (f.seq = 0 \/ cache[o] = f.seq)

LEMMA PassedUpKept ==
    ASSUME Linked, NEW n \in Node, NEW u, Moves(n, u), NEW f, NEW c,
           PassedUp(f, c)
    PROVE  StaysPassed(f, c)
<1>1. mac'[n] = u /\ \A k \in Node \ {n} : mac'[k] = mac[k]
  BY MovesOne
<1> DEFINE o == Origin[f.packet]
<1>2. WellBuilt(f) /\ f.packet \in Packet /\ o \in Node
  BY PacketTypes DEF PassedUp, WellBuilt
<1>3. CASE o # n
  BY <1>1, <1>2, <1>3 DEF PassedUp, StaysPassed
<1>4. CASE o = n
  <2>1. Follows(mac[n], u)
    BY DEF Moves
  <2>2. mac[o] = mac[n] /\ mac'[o] = u
    BY <1>1, <1>4
  <2> QED
    BY <1>2, <2>1, <2>2 DEF PassedUp, StaysPassed, Follows
<1> QED
  BY <1>3, <1>4

(* Who sent the frame that is passed up, and what he is doing *)
LEMMA PassedFrame ==
    ASSUME Linked, NEW n \in Node, NEW u, PassesOn(mac[n], u)
    PROVE  LET f == mac[n].pktRx
               o == Origin[f.packet]
           IN  /\ WellBuilt(f) /\ f.packet \in Packet /\ o \in Node
               /\ NextHop[f.packet] = Everyone =>
                    /\ SentBy(mac[o], f.packet) /\ ~Passed(mac[n], f.packet)
                    /\ u.cache = mac[n].cache
               /\ NextHop[f.packet] # Everyone =>
                    /\ NextHop[f.packet] = n /\ o # n
                    /\ mac[o].tx = "SEND" /\ mac[o].pktTx = f.packet
                    /\ mac[o].seq = f.seq
                    /\ u.cache = [mac[n].cache EXCEPT ![o] = f.seq]
                    /\ mac[n].cache[o] = 0 \/ mac[n].cache[o] # f.seq
<1> DEFINE m == mac[n]
           f == m.pktRx
           o == Origin[f.packet]
<1>1. /\ m.rx = "RECV" /\ ~m.error /\ m.timer["recv"] = 0
      /\ f.kind = "DATA" /\ f.ra \in {n, Everyone}
  BY DEF PassesOn, HearsWell, Filters, Linked, AllSound
<1>2. Flight(f, 0)
  BY <1>1 DEF Linked, Flights
<1>3. /\ WellBuilt(f) /\ f.packet \in Packet /\ o \in Node
      /\ Carried(mac[o], f, 0)
  BY <1>1, <1>2, PacketTypes DEF Flight, WellBuilt
<1>4. f.ra = NextHop[f.packet] /\ f.ta = o
  BY <1>3 DEF WellBuilt, DataFrame
<1>5. ASSUME NextHop[f.packet] = Everyone
      PROVE  /\ SentBy(mac[o], f.packet) /\ ~Passed(m, f.packet)
             /\ u.cache = m.cache
  <2>1. Receives(m, f.packet)
    BY <1>1 DEF Receives, CopyOf
  <2>2. Single(f.packet, n)
    BY <1>3, <1>5 DEF Linked, Singles
  <2> QED
    BY <1>3, <1>4, <1>5, <2>1, <2>2 DEF Carried, Single, PassesOn, Filters
<1>6. ASSUME NextHop[f.packet] # Everyone
      PROVE  /\ NextHop[f.packet] = n /\ o # n
             /\ mac[o].tx = "SEND" /\ mac[o].pktTx = f.packet
             /\ mac[o].seq = f.seq
             /\ u.cache = [m.cache EXCEPT ![o] = f.seq]
             /\ m.cache[o] = 0 \/ m.cache[o] # f.seq
  <2>1. Tracks(mac[o], f, 0)
    BY <1>3, <1>6 DEF Carried
  <2>2. o # n
    BY <1>1, <2>1 DEF Tracks, Spoilt
  <2> QED
    BY <1>1, <1>4, <1>6, <2>1, <2>2 DEF Tracks, PassesOn, Filters
<1> QED
  BY <1>3, <1>5, <1>6

(* The filter for duplicates *)
LEMMA PassedOnce ==
    ASSUME Linked, NEW n \in Node, NEW u, Moves(n, u), PassesOn(mac[n], u)
    PROVE  /\ \A i \in DOMAIN u.up : StaysPassed(u.up[i], u.cache)
           /\ \A i, j \in DOMAIN u.up :
                i # j /\ u.up[i].packet = u.up[j].packet => u.up[i].seq = 0
<1> DEFINE m == mac[n]
           f == m.pktRx
           o == Origin[f.packet]
<1>1. /\ m.up \in Seq(Frame) /\ u.up = Append(m.up, f)
      /\ m.cache \in [Node -> Nat]
  BY DEF PassesOn, Filters, Linked, Owns
<1>2. mac'[n] = u /\ \A k \in Node \ {n} : mac'[k] = mac[k]
  BY MovesOne
<1>3. ASSUME NEW i \in DOMAIN u.up
      PROVE  \/ i \in DOMAIN m.up /\ u.up[i] = m.up[i]
             \/ i = Len(u.up) /\ u.up[i] = f
  BY <1>1
<1>4. \A i \in DOMAIN m.up : PassedUp(m.up[i], m.cache)
  BY DEF Linked, Ups
<1>5. /\ WellBuilt(f) /\ f.packet \in Packet /\ o \in Node
      /\ NextHop[f.packet] = Everyone =>
           /\ SentBy(mac[o], f.packet) /\ ~Passed(m, f.packet)
           /\ u.cache = m.cache
      /\ NextHop[f.packet] # Everyone =>
           /\ o # n /\ mac[o].pktTx = f.packet /\ mac[o].seq = f.seq
           /\ u.cache = [m.cache EXCEPT ![o] = f.seq]
           /\ m.cache[o] = 0 \/ m.cache[o] # f.seq
  BY PassedFrame
<1>6. Follows(m, u)
  BY DEF Moves
<1> HIDE DEF f
<1>7. StaysPassed(f, u.cache)
  <2>1. CASE NextHop[f.packet] = Everyone
    <3>1. SentBy(mac'[o], f.packet)
      BY <1>2, <1>5, <1>6, <2>1 DEF Follows
    <3> QED
      BY <1>5, <2>1, <3>1 DEF StaysPassed
  <2>2. CASE NextHop[f.packet] # Everyone
    <3>1. mac'[o] = mac[o] /\ u.cache[o] = f.seq
      BY <1>1, <1>2, <1>5, <2>2
    <3> QED
      BY <1>5, <2>2, <3>1 DEF StaysPassed, BegunBy
  <2> QED
    BY <2>1, <2>2
<1>8. ASSUME NEW i \in DOMAIN m.up
      PROVE  StaysPassed(m.up[i], u.cache)
  <2> DEFINE g == m.up[i]
  <2> SUFFICES StaysPassed(g, u.cache)
    OBVIOUS
  <2>1. PassedUp(g, m.cache) /\ StaysPassed(g, m.cache)
    BY <1>4, PassedUpKept
  <2>2. Origin[g.packet] \in Node
    BY <2>1, PacketTypes DEF PassedUp, WellBuilt
  <2> HIDE DEF g
  <2>3. CASE u.cache = m.cache
    BY <2>1, <2>3
  <2>4. CASE /\ NextHop[f.packet] # Everyone
             /\ u.cache = [m.cache EXCEPT ![o] = f.seq]
    <3>1. mac'[o] = mac[o] /\ u.cache[o] = f.seq
      BY <1>1, <1>2, <1>5, <2>4
    <3>2. CASE Origin[g.packet] = o
      BY <1>5, <2>1, <2>4, <3>1, <3>2 DEF StaysPassed
    <3>3. CASE Origin[g.packet] # o
      <4>1. u.cache[Origin[g.packet]] = m.cache[Origin[g.packet]]
        BY <1>1, <2>2, <2>4, <3>3
      <4> QED
        BY <2>1, <4>1 DEF StaysPassed
    <3> QED
      BY <3>2, <3>3
  <2> QED
    BY <1>5, <2>3, <2>4
<1>9. ASSUME NEW i \in DOMAIN m.up, m.up[i].packet = f.packet
      PROVE  m.up[i].seq = 0 /\ f.seq = 0
  <2>1. PassedUp(m.up[i], m.cache)
    BY <1>4
  <2>2. NextHop[f.packet] # Everyone
    BY <1>5, <1>9 DEF Passed
  <2>3. m.up[i].seq = f.seq /\ (f.seq = 0 \/ m.cache[o] = f.seq)
    BY <1>5, <1>9, <2>1, <2>2 DEF PassedUp
  <2> QED
    BY <1>5, <2>2, <2>3
<1>10. ASSUME NEW i \in DOMAIN u.up, NEW j \in DOMAIN u.up, i # j,
              u.up[i].packet = u.up[j].packet
       PROVE  u.up[i].seq = 0
  <2>1. CASE /\ i \in DOMAIN m.up /\ u.up[i] = m.up[i]
             /\ j \in DOMAIN m.up /\ u.up[j] = m.up[j]
    BY <1>10, <2>1 DEF Linked, OnceUnlessZero
  <2> QED
    BY <1>3, <1>9, <1>10, <2>1
<1> QED
  BY <1>3, <1>7, <1>8, <1>10

LEMMA UpsKept ==
    ASSUME Linked, NEW n \in Node, NEW u, Moves(n, u)
    PROVE  Ups' /\ OnceUnlessZero'
<1>1. mac'[n] = u /\ \A k \in Node \ {n} : mac'[k] = mac[k]
  BY MovesOne
<1>2. ASSUME NEW k \in Node, mac'[k].up = mac[k].up, mac'[k].cache = mac[k].cache
      PROVE  /\ \A i \in DOMAIN mac'[k].up :
                  StaysPassed(mac'[k].up[i], mac'[k].cache)
             /\ \A i, j \in DOMAIN mac'[k].up :
                  i # j /\ mac'[k].up[i].packet = mac'[k].up[j].packet
                  => mac'[k].up[i].seq = 0
  <2>1. \A i \in DOMAIN mac[k].up : PassedUp(mac[k].up[i], mac[k].cache)
    BY DEF Linked, Ups
  <2>2. \A i \in DOMAIN mac[k].up : StaysPassed(mac[k].up[i], mac[k].cache)
    BY <2>1, PassedUpKept
  <2> QED
    BY <1>2, <2>2 DEF Linked, OnceUnlessZero
<1>3. ASSUME NEW k \in Node
      PROVE  /\ \A i \in DOMAIN mac'[k].up :
                  StaysPassed(mac'[k].up[i], mac'[k].cache)
             /\ \A i, j \in DOMAIN mac'[k].up :
                  i # j /\ mac'[k].up[i].packet = mac'[k].up[j].packet
                  => mac'[k].up[i].seq = 0
  <2>1. CASE k = n /\ PassesOn(mac[n], u)
    BY <1>1, <2>1, PassedOnce
  <2>2. CASE ~(k = n /\ PassesOn(mac[n], u))
    BY <1>1, <1>2, <2>2 DEF Moves, Delivers
  <2> QED
    BY <2>1, <2>2
<1> QED
  BY <1>3 DEF Ups, PassedUp, StaysPassed, OnceUnlessZero

(* The channel takes what a MAC sends. *)
LEMMA OutTaken ==
    ASSUME NEW m, NEW w, IsMac(w), RunsOn(m, w)
    PROVE  LET u == [w EXCEPT !.out = None]
           IN  /\ Retimes(w, u, {"out"}, {}) /\ u.timer = w.timer /\ u.out = None
               /\ RunsOn(m, u) /\ Changes(w, u, {"queue", "out"})
<1> DEFINE u == [w EXCEPT !.out = None]
<1> SUFFICES /\ Retimes(w, u, {"out"}, {}) /\ u.timer = w.timer /\ u.out = None
             /\ RunsOn(m, u) /\ Changes(w, u, {"queue", "out"})
  OBVIOUS
<1>1. Retimes(w, u, {"out"}, {}) /\ u.timer = w.timer /\ u.out = None
  BY MacIsShaped DEF IsMac, Shaped, Retimes, Alters, Field
<1>2. Changes(w, u, {"queue", "out"})
  BY NoneAssumption DEF Changes, IsMac, Field
<1> HIDE DEF u
<1>3. Keeps(w, u) /\ u.up = w.up /\ u.cache = w.cache
  BY <1>1, SenderKept, UpperKept DEF Sender, Upper
<1>4. /\ u.rx = w.rx /\ u.pktRx = w.pktRx /\ u.error = w.error /\ u.tx = w.tx
  BY <1>1 DEF Retimes, Alters, Field
<1>5. Proceeds(m, u) /\ (Finishes(m, w) => Finishes(m, u))
  BY <1>3 DEF RunsOn, Proceeds, Fetches, Finishes, TakesNext, Keeps
<1>6. StaysSending(m, u)
  BY <1>1, <1>3, <1>4, <1>5 DEF RunsOn, StaysSending, Keeps
<1>7. Radiates(m, u) /\ ListensOn(m, u)
  BY <1>1, <1>4 DEF RunsOn, Radiates, ListensOn
<1>8. Delivers(m, u)
  BY <1>3, <1>4 DEF RunsOn, Delivers, PassesOn, Filters
<1> QED
  BY <1>1, <1>2, <1>5, <1>6, <1>7, <1>8 DEF RunsOn

(* What a MAC sends as it begins to send its packet *)
LEMMA SendsLaunches ==
    ASSUME Linked, NEW n \in Node, NEW w, NEW u, Emits(mac[n], w), w.out # None,
           u.tx = w.tx, u.pktTx = w.pktTx, u.seq = w.seq, u.timer = w.timer,
           u.rx = w.rx, u.error = w.error
    PROVE  Launches(n, u, w.out)
<1> DEFINE m == mac[n]
           g == DataFrame(m.pktTx, m.seq)
<1> SUFFICES ASSUME w.out.kind = "DATA"
             PROVE  Launches(n, u, w.out)
  BY DEF Launches
<1>1. Sends(m, w) /\ w.out = g
  BY DEF Emits, Sends
<1>2. m.pktTx \in Packet /\ m.tx = "IDLE" /\ m.seq \in Nat
  BY <1>1 DEF Sends, Linked, AllSound, Sound, Core, IsMac
<1>3. m.pktTx \in Has(m) /\ Origin[m.pktTx] = n /\ m.pktTx \notin DoneBy(m)
  BY <1>2, NoneAssumption DEF Has, Linked, Owns, Orderly
<1>4. /\ g.packet = m.pktTx /\ g.seq = m.seq /\ g.ra = NextHop[m.pktTx]
      /\ g.time \in Nat /\ WellBuilt(g)
  BY <1>2, DataIsProper DEF DataFrame, WellBuilt
<1>5. ~SentBy(m, m.pktTx)
  BY <1>2, <1>3 DEF SentBy
<1>6. Carried(u, g, PropDelay + g.time)
  <2>1. CASE NextHop[g.packet] = Everyone
    BY <1>1, <1>4, <2>1 DEF Carried, SentBy, Sends
  <2>2. CASE NextHop[g.packet] # Everyone
    <3>1. /\ u.tx = "SEND" /\ u.pktTx = g.packet /\ u.seq = g.seq
          /\ u.timer["if"] = g.time /\ (u.rx # "IDLE" => u.error)
          /\ u.timer["send"] > g.time + PropDelay
      BY <1>1, <1>4, <2>2 DEF Sends
    <3>2. /\ PropDelay + g.time < u.timer["send"]
          /\ PropDelay + g.time <= u.timer["if"] + PropDelay
          /\ u.timer["if"] # Off
      BY <1>1, <1>4, <3>1 DEF PropDelay, Off
    <3> QED
      BY <2>2, <3>1, <3>2 DEF Carried, Tracks, Spoilt
  <2> QED
    BY <2>1, <2>2
<1> HIDE DEF g
<1> QED
  BY <1>1, <1>3, <1>4, <1>5, <1>6 DEF Launches

-----------------------------------------------------------------------------
(* The steps of the specification                                          *)

LEMMA TimeoutMoves ==
    ASSUME BugFixTimer, DurationsFit, Linked, NEW n \in Node, Timeout(n)
    PROVE  \E u : Moves(n, u)
<1> DEFINE m == mac[n]
<1>1. PICK e \in Timer \cup {"backoff"}, r \in Slots :
        EventDue(m, e) /\ Becomes(n, Handled(m, e, r))
  BY DEF Timeout
<1> DEFINE w == Handled(m, e, r)
           u == [w EXCEPT !.out = None]
<1>2. Sound(m) /\ m.self = n /\ m.out = None /\ m.cache \in [Node -> Nat]
      /\ Orderly(m) /\ IsMac(m)
  BY DEF Linked, AllSound, Owns, Sound, Core
<1>3. Runs(m, w) /\ Handles(m, w)
  BY <1>1, <1>2, HandledRuns, HandledStep
<1>4. Becomes(n, w) /\ coming' = coming
  BY <1>1 DEF Timeout
<1> HIDE DEF w
<1>5. /\ mac' = [mac EXCEPT ![n] = u] /\ coming' = coming
      /\ w.out = None => air' = air
      /\ w.out # None => \A y \in air' : y \in air \/
           y = [to |-> y.to, frame |-> w.out, in |-> PropDelay]
  <2>1. mac' = [mac EXCEPT ![n] = u] /\ (w.out = None => air' = air)
    BY <1>4 DEF Becomes
  <2>2. ASSUME w.out # None, NEW y \in air', y \notin air
        PROVE  y = [to |-> y.to, frame |-> w.out, in |-> PropDelay]
    <3>1. PICK lost \in SUBSET hears[n] :
            air' = air \cup {[to |-> k, frame |-> w.out, in |-> PropDelay] :
                                k \in hears[n] \ lost}
      BY <1>4, <2>2 DEF Becomes
    <3>2. \E k : y = [to |-> k, frame |-> w.out, in |-> PropDelay]
      BY <2>2, <3>1
    <3> QED
      BY <3>2
  <2> QED
    BY <1>4, <2>1, <2>2
<1>6. IsMac(w) /\ RunsOn(m, w) /\ Emits(m, w)
  BY <1>3 DEF Handles, Sound, Core, Runs, RunsOn
<1>7. /\ Retimes(w, u, {"out"}, {}) /\ u.timer = w.timer /\ u.out = None
      /\ RunsOn(m, u) /\ Changes(w, u, {"queue", "out"})
  BY <1>6, OutTaken
<1> HIDE DEF u
<1>8. Follows(m, u) /\ Orderly(u) /\ Has(u) \subseteq Has(m)
  BY <1>2, <1>7, RunsFollows DEF Changes
<1>9. Delivers(m, u) /\ DoneBy(m) \subseteq DoneBy(u)
  BY <1>7 DEF RunsOn, Proceeds, Fetches, Finishes
<1>10. \A p \in Has(u) : p \in Packet /\ Origin[p] = n /\ coming'[p] = Off
  BY <1>5, <1>8 DEF Linked, Owns
<1>11. Hearing(n, u)
  BY <1>7 DEF RunsOn, ListensOn, Hearing
<1>12. OnTheAir(n, u)
  <2>1. CASE w.out = None
    BY <1>5, <2>1 DEF OnTheAir
  <2>2. CASE w.out # None
    <3>1. /\ u.tx = w.tx /\ u.pktTx = w.pktTx /\ u.seq = w.seq
          /\ u.rx = w.rx /\ u.error = w.error
      BY <1>7 DEF Retimes, Alters, Field
    <3>2. Launches(n, u, w.out)
      BY <1>6, <1>7, <2>2, <3>1, SendsLaunches
    <3> QED
      BY <1>5, <2>2, <3>2 DEF OnTheAir
  <2> QED
    BY <2>1, <2>2
<1>13. Moves(n, u)
  BY <1>5, <1>7, <1>8, <1>9, <1>10, <1>11, <1>12 DEF Moves
<1> QED
  BY <1>13

LEMMA ArrivalMoves ==
    ASSUME Linked, NEW n \in Node, Arrival(n)
    PROVE  \E u : Moves(n, u)
<1> DEFINE m == mac[n]
<1>1. PICK x \in air, captured \in Capture :
        /\ x.to = n /\ x.in = 0
        /\ mac' = [mac EXCEPT ![n] = Recv(@, x.frame, captured)]
        /\ air' = air \ {x}
  BY DEF Arrival
<1>2. captured \in BOOLEAN /\ x.frame \in Proper /\ coming' = coming
  BY MibAssumption DEF Arrival, Linked, AllSound
<1>3. Sound(m) /\ m.out = None /\ Orderly(m) /\ IsMac(m)
  BY DEF Linked, AllSound, Owns, Sound, Core
<1> DEFINE u == Recv(m, x.frame, captured)
           F == {"rx", "backoff", "pktRx", "error"}
           T == {"recv", "nav"}
<1>4. Retimes(m, u, F, T) /\ Meets(m, u, x.frame)
  <2>1. Shaped(m) /\ m.rx \in {"IDLE", "RECV", "COLL"}
    BY <1>3, MacIsShaped DEF IsMac
  <2> QED
    BY <2>1, RecvMeets
<1>5. IsMac(u)
  BY <1>2, <1>3, RecvStep DEF Handles, Sound, Core
<1>6. mac' = [mac EXCEPT ![n] = u]
  BY <1>1 DEF Linked, AllSound
<1> HIDE DEF u
<1>7. Follows(m, u) /\ Orderly(u) /\ Has(u) = Has(m)
  BY <1>2, <1>3, <1>4, <1>5, MeetsFollows
<1>8. u.up = m.up /\ u.cache = m.cache
  BY <1>4, UpperKept DEF Upper
<1>9. u.out = None
  BY <1>3, <1>4 DEF Retimes, Alters, Field
<1>10. DoneBy(m) = DoneBy(u)
  BY <1>4, SenderKept DEF Sender, Keeps
<1>11. Hearing(n, u)
  BY <1>1, <1>4 DEF Meets, Hearing
<1>12. OnTheAir(n, u)
  BY <1>1 DEF OnTheAir
<1>13. \A p \in Has(u) : p \in Packet /\ Origin[p] = n /\ coming'[p] = Off
  BY <1>2, <1>7 DEF Linked, Owns
<1>14. Moves(n, u)
  BY <1>2, <1>6, <1>7, <1>8, <1>9, <1>10, <1>11, <1>12, <1>13 DEF Moves, Delivers
<1> QED
  BY <1>14

LEMMA HandDownMoves ==
    ASSUME BugFixTimer, Linked, NEW p \in Packet, HandDown(p)
    PROVE  \E u : Moves(Origin[p], u)
<1> DEFINE n == Origin[p]
           m == mac[n]
<1>1. n \in Node
  BY PacketTypes
<1>2. /\ Sound(m) /\ m.out = None /\ Orderly(m) /\ IsMac(m)
      /\ \A q \in Has(m) : q \in Packet /\ Origin[q] = n /\ coming[q] = Off
  BY <1>1 DEF Linked, AllSound, Owns, Sound, Core
<1>3. p \notin Has(m)
  BY <1>2 DEF HandDown, Off
<1>4. /\ \A q \in Packet : coming[q] = Off => coming'[q] = Off
      /\ coming'[p] = Off
  BY DEF HandDown, Linked, AllSound
<1>5. ASSUME NEW u, mac' = [mac EXCEPT ![n] = u], u.out = None, air' = air,
             NEW F, Retimes(m, u, F, {}), F \subseteq SendChanges \cup
               {"queue", "blocked", "out"},
             Follows(m, u), Orderly(u), Has(u) = Has(m) \cup {p}
      PROVE  Moves(n, u)
  <2>1. u.up = m.up /\ u.cache = m.cache
    BY <1>5, UpperKept DEF Upper, SendChanges
  <2>2. /\ u.rx = m.rx /\ u.pktRx = m.pktRx /\ u.acked = m.acked
        /\ u.given = m.given
    BY <1>5 DEF Retimes, Alters, Field, SendChanges
  <2>3. u.timer["recv"] = m.timer["recv"]
    BY <1>5 DEF Retimes, Timer
  <2>4. Hearing(n, u) /\ OnTheAir(n, u) /\ DoneBy(m) = DoneBy(u)
    BY <1>5, <2>2, <2>3 DEF Hearing, OnTheAir, DoneBy
  <2>5. \A q \in Has(u) : q \in Packet /\ Origin[q] = n /\ coming'[q] = Off
    BY <1>2, <1>4, <1>5
  <2> QED
    BY <1>4, <1>5, <2>1, <2>4, <2>5 DEF Moves, Delivers
<1>6. CASE m.blocked
  <2> DEFINE u == [m EXCEPT !.queue = Append(@, p)]
  <2>1. mac' = [mac EXCEPT ![n] = u] /\ air' = air
    BY <1>1, <1>6 DEF HandDown, Linked, AllSound
  <2>2. /\ Retimes(m, u, {"queue"}, {})
        /\ Follows(m, u) /\ Orderly(u) /\ Has(u) = Has(m) \cup {p}
    BY <1>2, <1>3, QueuedFollows
  <2> HIDE DEF u
  <2>3. u.out = None
    BY <1>2, <2>2 DEF Retimes, Alters, Field
  <2>4. Moves(n, u)
    BY <1>5, <2>1, <2>2, <2>3
  <2> QED
    BY <2>4
<1>7. CASE ~m.blocked
  <2> DEFINE v == [m EXCEPT !.blocked = TRUE]
  <2>1. PICK r \in Slots : Becomes(n, Send(v, p, r))
    BY <1>7 DEF HandDown
  <2> DEFINE w == Send(v, p, r)
             u == [w EXCEPT !.out = None]
  <2>2. Retimes(m, v, {"blocked"}, {})
    BY <1>2, MacIsShaped DEF Shaped, Retimes, Alters, Field
  <2>3. Handles(m, w)
    BY <1>2, <1>7, HandedDownStep
  <2>4. /\ mac' = [mac EXCEPT ![n] = u]
        /\ w.out = None => air' = air
    BY <2>1 DEF Becomes
  <2> HIDE DEF v
  <2>5. Retimes(v, w, SendChanges, {}) /\ w.pktTx = p
    BY <2>2, RetimesShape, SendAlters
  <2> HIDE DEF w
  <2>6. IsMac(w) /\ m.pktTx = None
    BY <1>2, <1>7, <2>3 DEF Handles, Sound, Core, Serving
  <2>7. Retimes(w, u, {"out"}, {}) /\ u.out = None /\ IsMac(u)
    <3>1. Retimes(w, u, {"out"}, {}) /\ u.out = None
      BY <2>6, MacIsShaped DEF IsMac, Shaped, Retimes, Alters, Field
    <3>2. IsMac(u)
      BY <2>6, NoneAssumption DEF IsMac, Field
    <3> QED
      BY <3>1, <3>2
  <2> HIDE DEF u
  <2>8. w.out = None
    BY <1>2, <2>2, <2>5 DEF Retimes, Alters, Field, SendChanges
  <2>9. u.pktTx = p
    BY <2>5, <2>7 DEF Retimes, Alters, Field
  <2>10. Retimes(m, u, SendChanges \cup {"blocked", "out"}, {})
    <3>1. Retimes(m, w, SendChanges \cup {"blocked"}, {})
      BY <2>2, <2>5, RetimesChain
    <3> QED
      BY <2>7, <3>1, RetimesChain
  <2>11. Follows(m, u) /\ Orderly(u) /\ Has(u) = Has(m) \cup {p}
    BY <1>2, <1>3, <2>6, <2>7, <2>9, <2>10, HandedFollows
  <2>12. Moves(n, u)
    BY <1>5, <2>4, <2>7, <2>8, <2>10, <2>11
  <2> QED
    BY <2>12
<1> QED
  BY <1>6, <1>7

LEMMA MovesKept ==
    ASSUME Linked, NEW n \in Node, NEW u, Moves(n, u), AllSound'
    PROVE  Linked'
<1>1. InFlight'
  <2>1. PICK g : \A y \in air' :
          \/ y \in air
          \/ y = [to |-> y.to, frame |-> g, in |-> PropDelay]
    BY DEF Moves, OnTheAir
  <2> QED
    BY <2>1 DEF InFlight, Linked
<1> QED
  BY <1>1, OwnsKept, FlightsKept, UpsKept, SinglesKept DEF Linked

(* A MAC passes nothing up, or a frame that is meant for it and whose      *)
(* packet, when it is a unicast, is not done with.                         *)
PassesUp(k) ==
    \/ mac'[k].up = mac[k].up
    \/ \E f \in Frame : /\ mac'[k].up = Append(mac[k].up, f)
                        /\ NextHop[f.packet] \in {k, Everyone}
                        /\ f.packet \in Unicasts => f.packet \notin Done

(* What UnicastLink promises of a step *)
Promised ==
    /\ \A p \in Packet : coming[p] = Off => coming'[p] = Off
    /\ Done \subseteq Done'
    /\ \A k \in Node : PassesUp(k)

(* A packet that has just arrived is the one its sender has in hand.       *)
LEMMA ArrivedIsHeld ==
    ASSUME Linked, NEW n \in Node, NEW u, PassesOn(mac[n], u),
           mac[n].pktRx.packet \in Unicasts
    PROVE  mac[n].pktRx.packet \notin Done
<1> DEFINE p == mac[n].pktRx.packet
           o == Origin[p]
<1>1. o \in Node /\ mac[o].pktTx = p /\ p \in Packet
  BY PassedFrame, PacketAssumption DEF Unicasts
<1> HIDE DEF p
<1>2. p \notin DoneBy(mac[o])
  BY <1>1, NoneAssumption DEF Linked, Owns, Orderly
<1>3. ASSUME NEW k \in Node, p \in DoneBy(mac[k]) PROVE FALSE
  <2>1. Origin[p] = k
    BY <1>3 DEF Has, Linked, Owns
  <2> QED
    BY <1>2, <1>3, <2>1
<1> QED
  BY <1>3 DEF Done, DoneBy, p

LEMMA MovesPromised ==
    ASSUME Linked, NEW n \in Node, NEW u, Moves(n, u)
    PROVE  Promised
<1> DEFINE m == mac[n]
           f == m.pktRx
<1>1. mac'[n] = u /\ \A k \in Node \ {n} : mac'[k] = mac[k]
  BY MovesOne
<1>2. Done \subseteq Done'
  <2>1. \A k \in Node : DoneBy(mac[k]) \subseteq DoneBy(mac'[k])
    BY <1>1 DEF Moves
  <2> QED
    BY <2>1 DEF Done, DoneBy
<1>3. ASSUME PassesOn(m, u) PROVE PassesUp(n)
  <2>1. f \in Frame /\ u.up = Append(m.up, f)
    <3>1. m.rx # "IDLE"
      BY <1>3 DEF PassesOn, HearsWell
    <3> QED
      BY <1>3, <3>1, FlightTimes DEF PassesOn, Filters
  <2>2. NextHop[f.packet] \in {n, Everyone}
    BY <1>3, PassedFrame
  <2>3. f.packet \in Unicasts => f.packet \notin Done
    BY <1>3, ArrivedIsHeld
  <2> QED
    BY <1>1, <2>1, <2>2, <2>3 DEF PassesUp
<1>4. PassesUp(n)
  BY <1>1, <1>3 DEF Moves, Delivers, PassesUp
<1>5. \A k \in Node : PassesUp(k)
  BY <1>1, <1>4 DEF PassesUp
<1>6. \A p \in Packet : coming[p] = Off => coming'[p] = Off
  BY DEF Moves
<1> QED
  BY <1>2, <1>5, <1>6 DEF Promised

(* What time does to a transmission *)
LEMMA AgedTracks ==
    ASSUME NEW m, IsMac(m), NEW d \in Nat, Within(m, d), NEW f, NEW left \in Nat,
           NEW rest \in Nat, left = rest + d, Tracks(m, f, left)
    PROVE  Tracks(Aged(m, d), f, rest)
<1> DEFINE u == Aged(m, d)
<1>1. /\ Changes(m, u, {"timer", "backoff"})
      /\ u.timer = [t \in Timer |-> Less(m.timer[t], d)]
  BY AgedFields
<1> HIDE DEF u
<1>2. /\ u.tx = m.tx /\ u.pktTx = m.pktTx /\ u.seq = m.seq /\ u.rx = m.rx
      /\ u.error = m.error
  BY <1>1 DEF Changes, Field
<1>3. ASSUME NEW t \in {"send", "if", "recv"}
      PROVE  /\ m.timer[t] \in Int /\ u.timer[t] \in Int
             /\ m.timer[t] = Off => u.timer[t] = Off
             /\ m.timer[t] # Off => u.timer[t] = m.timer[t] - d
                                    /\ u.timer[t] # Off
  <2>1. t \in Timer /\ m.timer[t] \in Int /\ m.timer[t] >= Off
    BY TimerIsInt DEF Timer
  <2>2. u.timer[t] = Less(m.timer[t], d)
    BY <1>1, <2>1
  <2> QED
    BY <2>1, <2>2, LessIsClock DEF Within, Clock
<1>4. rest < u.timer["send"]
  BY <1>3 DEF Tracks, Off
<1>5. /\ u.timer["if"] # Off => rest <= u.timer["if"] + PropDelay
      /\ u.timer["if"] = Off => rest <= PropDelay
  BY <1>3 DEF Tracks, PropDelay, Off
<1>6. u.rx # "IDLE" /\ ~Spoilt(u) => u.timer["recv"] > rest
  BY <1>2, <1>3 DEF Tracks, Spoilt, Off
<1>7. Tracks(u, f, rest)
  BY <1>2, <1>4, <1>5, <1>6 DEF Tracks
<1> QED
  BY <1>7 DEF u

LEMMA TickKept ==
    ASSUME Linked, Tick, AllSound'
    PROVE  Linked' /\ Promised
<1> DEFINE d == CHOOSE x \in Pending : \A y \in Pending : x <= y
<1>1. /\ d \in Nat /\ \A y \in Pending : d <= y
      /\ \A n \in Node : Within(mac[n], d)
  BY NextEvent DEF Tick, Linked
<1>2. /\ mac' = [n \in Node |-> Aged(mac[n], d)]
      /\ air' = {[x EXCEPT !.in = @ - d] : x \in air}
      /\ coming' = [p \in Packet |-> Less(coming[p], d)]
  BY DEF Tick, Aged
<1> HIDE DEF d
<1>3. ASSUME NEW n \in Node
      PROVE  /\ IsMac(mac[n]) /\ mac'[n] = Aged(mac[n], d) /\ Within(mac[n], d)
             /\ Changes(mac[n], mac'[n], {"timer", "backoff"})
             /\ mac'[n].timer = [t \in Timer |-> Less(mac[n].timer[t], d)]
  <2>1. IsMac(mac[n]) /\ mac'[n] = Aged(mac[n], d)
    BY <1>2 DEF Linked, AllSound, Sound, Core
  <2> QED
    BY <1>1, <2>1, AgedFields
<1>4. ASSUME NEW n \in Node
      PROVE  LET m == mac[n]
                 u == mac'[n]
             IN  /\ u.out = m.out /\ u.queue = m.queue /\ u.pktTx = m.pktTx
                 /\ u.seq = m.seq /\ u.tx = m.tx /\ u.rx = m.rx
                 /\ u.pktRx = m.pktRx /\ DoneBy(u) = DoneBy(m)
                 /\ u.up = m.up /\ u.cache = m.cache
  BY <1>3 DEF Changes, Field, DoneBy
<1>5. \A p \in Packet : coming[p] = Off => coming'[p] = Off
  BY <1>2 DEF Less
<1>6. Owns'
  <2> SUFFICES ASSUME NEW n \in Node
               PROVE  /\ mac'[n].out = None /\ Orderly(mac'[n])
                      /\ mac'[n].cache \in [Node -> Nat] /\ mac'[n].up \in Seq(Frame)
                      /\ \A p \in Has(mac'[n]) :
                           p \in Packet /\ Origin[p] = n /\ coming'[p] = Off
    BY DEF Owns
  <2>1. Orderly(mac'[n]) /\ Has(mac'[n]) = Has(mac[n])
    <3>1. Orderly(mac[n])
      BY DEF Linked, Owns
    <3> QED
      BY <1>4, <3>1 DEF Orderly, Has
  <2> QED
    BY <1>4, <1>5, <2>1 DEF Linked, Owns
<1>7. ASSUME NEW y \in air'
      PROVE  \E x \in air : /\ y = [to |-> x.to, frame |-> x.frame, in |-> x.in - d]
                            /\ x.in \in Nat /\ x.in - d \in Nat
                            /\ x = [to |-> x.to, frame |-> x.frame, in |-> x.in]
  <2>1. PICK x \in air : y = [x EXCEPT !.in = @ - d]
    BY <1>2
  <2>2. x = [to |-> x.to, frame |-> x.frame, in |-> x.in] /\ x.in \in Nat
    BY DEF Linked, InFlight, AllSound
  <2>3. x.in # Off
    BY <2>2 DEF Off
  <2>4. d <= x.in
    BY <1>1, <2>3, PendingIs
  <2>5. y = [to |-> x.to, frame |-> x.frame, in |-> x.in - d]
    BY <2>1, <2>2
  <2> QED
    BY <1>1, <2>2, <2>4, <2>5
<1>8. InFlight'
  BY <1>7 DEF InFlight
<1>9. ASSUME NEW f, NEW left \in Nat, NEW rest \in Nat, left = rest + d,
             Flight(f, left)
      PROVE  FliesOn(f, rest)
  <2> SUFFICES ASSUME f.kind = "DATA"
               PROVE  WellBuilt(f) /\ Carried(mac'[Origin[f.packet]], f, rest)
    BY DEF FliesOn
  <2> DEFINE o == Origin[f.packet]
  <2>1. WellBuilt(f) /\ Carried(mac[o], f, left) /\ o \in Node
    BY <1>9, PacketTypes DEF Flight, WellBuilt
  <2>2. CASE NextHop[f.packet] = Everyone
    BY <1>4, <2>1, <2>2 DEF Carried, SentBy
  <2>3. CASE NextHop[f.packet] # Everyone
    <3>1. Tracks(mac[o], f, left) /\ mac'[o] = Aged(mac[o], d)
          /\ IsMac(mac[o]) /\ Within(mac[o], d)
      BY <1>3, <2>1, <2>3 DEF Carried
    <3>2. Tracks(mac'[o], f, rest)
      BY <1>1, <1>9, <3>1, AgedTracks
    <3> QED
      BY <2>1, <2>3, <3>2 DEF Carried
  <2> QED
    BY <2>2, <2>3, <2>1
<1>10. ASSUME NEW y \in air'
       PROVE  FliesOn(y.frame, y.in + y.frame.time)
  <2>1. PICK x \in air : /\ y.frame = x.frame /\ y.in = x.in - d
                         /\ x.in \in Nat /\ x.in - d \in Nat
    BY <1>7
  <2>2. x.frame.time \in Nat
    BY ProperFrame DEF Linked, AllSound
  <2>3. Flight(x.frame, x.in + x.frame.time)
    BY DEF Linked, Flights
  <2> DEFINE left == x.in + x.frame.time
             rest == x.in - d + x.frame.time
  <2>4. left \in Nat /\ rest \in Nat /\ left = rest + d
    BY <1>1, <2>1, <2>2
  <2> HIDE DEF rest
  <2>5. FliesOn(x.frame, rest)
    BY <1>9, <2>3, <2>4
  <2> QED
    BY <2>1, <2>5 DEF rest
<1>11. ASSUME NEW k \in Node, mac'[k].rx # "IDLE"
       PROVE  FliesOn(mac'[k].pktRx, mac'[k].timer["recv"])
  <2> DEFINE left == mac[k].timer["recv"]
             rest == mac'[k].timer["recv"]
  <2>1. mac[k].rx # "IDLE" /\ mac'[k].pktRx = mac[k].pktRx
    BY <1>4, <1>11
  <2>2. left \in Nat /\ Flight(mac[k].pktRx, left)
    BY <2>1, FlightTimes DEF Linked, Flights
  <2>3. rest = Less(left, d)
    BY <1>3 DEF Timer
  <2>4. d <= left
    BY <1>1, <2>2 DEF Within, Timer, Off
  <2>5. rest \in Nat /\ left = rest + d
    BY <1>1, <2>2, <2>3, <2>4 DEF Less, Off
  <2> HIDE DEF left, rest
  <2>6. FliesOn(mac[k].pktRx, rest)
    BY <1>9, <2>2, <2>5
  <2> QED
    BY <2>1, <2>6 DEF rest
<1>12. Flights'
  BY <1>10, <1>11 DEF Flights, Flight, FliesOn
<1>13. \A n \in Node : \A p :
         /\ SentBy(mac'[n], p) <=> SentBy(mac[n], p)
         /\ BegunBy(mac'[n], p) <=> BegunBy(mac[n], p)
  BY <1>4 DEF SentBy, BegunBy
<1>14. Ups' /\ OnceUnlessZero'
  <2>1. ASSUME NEW f, NEW c, PassedUp(f, c)
        PROVE  StaysPassed(f, c)
    <3>1. WellBuilt(f) /\ Origin[f.packet] \in Node
      BY <2>1, PacketTypes DEF PassedUp, WellBuilt
    <3> QED
      BY <1>4, <1>13, <2>1, <3>1 DEF PassedUp, StaysPassed
  <2>2. ASSUME NEW k \in Node
        PROVE  \A i \in DOMAIN mac'[k].up :
                 StaysPassed(mac'[k].up[i], mac'[k].cache)
    <3>1. \A i \in DOMAIN mac[k].up : PassedUp(mac[k].up[i], mac[k].cache)
      BY DEF Linked, Ups
    <3> QED
      BY <1>4, <2>1, <3>1
  <2>3. Ups'
    BY <2>2 DEF Ups, PassedUp, StaysPassed
  <2>4. OnceUnlessZero'
    BY <1>4 DEF Linked, OnceUnlessZero
  <2> QED
    BY <2>3, <2>4
<1>15. ASSUME NEW p \in Packet, NEW k \in Node, NextHop[p] = Everyone
       PROVE  /\ \A x, y \in air' : /\ x.to = k /\ CopyOf(p, x.frame)
                                    /\ y.to = k /\ CopyOf(p, y.frame)
                                    => x = y
              /\ \A x \in air' : x.to = k /\ CopyOf(p, x.frame) =>
                   ~Receives(mac'[k], p) /\ ~Passed(mac'[k], p)
              /\ Receives(mac'[k], p) => ~Passed(mac'[k], p)
  <2>1. Single(p, k)
    BY <1>15 DEF Linked, Singles
  <2>2. /\ Receives(mac'[k], p) <=> Receives(mac[k], p)
        /\ Passed(mac'[k], p) <=> Passed(mac[k], p)
    BY <1>4 DEF Receives, Passed
  <2>3. ASSUME NEW x \in air', NEW y \in air', x.to = k, CopyOf(p, x.frame),
               y.to = k, CopyOf(p, y.frame)
        PROVE  x = y
    <3>1. PICK v \in air :
            x = [to |-> v.to, frame |-> v.frame, in |-> v.in - d]
      BY <1>7
    <3>2. PICK w \in air :
            y = [to |-> w.to, frame |-> w.frame, in |-> w.in - d]
      BY <1>7
    <3>3. v.to = k /\ CopyOf(p, v.frame) /\ w.to = k /\ CopyOf(p, w.frame)
      BY <2>3, <3>1, <3>2
    <3>4. v = w
      BY <2>1, <3>3 DEF Single
    <3> QED
      BY <3>1, <3>2, <3>4
  <2>4. ASSUME NEW y \in air', y.to = k, CopyOf(p, y.frame)
        PROVE  ~Receives(mac'[k], p) /\ ~Passed(mac'[k], p)
    <3>1. PICK x \in air : y.to = x.to /\ y.frame = x.frame
      BY <1>7
    <3> QED
      BY <2>1, <2>2, <2>4, <3>1 DEF Single
  <2> QED
    BY <2>1, <2>2, <2>3, <2>4 DEF Single
<1>16. Singles'
  BY <1>15 DEF Singles, Single
<1>17. Promised
  BY <1>4, <1>5 DEF Promised, PassesUp, DoneBy, Done
<1> QED
  BY <1>6, <1>8, <1>12, <1>14, <1>16, <1>17 DEF Linked

LEMMA LinkedKept ==
    ASSUME BugFixTimer, DurationsFit, Linked, [Next]_vars
    PROVE  Linked' /\ Promised
<1>1. CASE Next
  <2>1. AllSound'
    BY <1>1, NextStep DEF Linked
  <2>2. ASSUME NEW n \in Node, NEW u, Moves(n, u)
        PROVE  Linked' /\ Promised
    BY <2>1, <2>2, MovesKept, MovesPromised
  <2>3. ASSUME NEW n \in Node, Timeout(n) PROVE Linked' /\ Promised
    BY <2>2, <2>3, TimeoutMoves
  <2>4. ASSUME NEW n \in Node, Arrival(n) PROVE Linked' /\ Promised
    BY <2>2, <2>4, ArrivalMoves
  <2>5. ASSUME NEW p \in Packet, HandDown(p) PROVE Linked' /\ Promised
    <3>1. Origin[p] \in Node
      BY PacketTypes
    <3> QED
      BY <2>2, <2>5, <3>1, HandDownMoves
  <2>6. CASE Tick
    BY <2>1, <2>6, TickKept
  <2> QED
    BY <1>1, <2>3, <2>4, <2>5, <2>6 DEF Next
<1>2. CASE UNCHANGED vars
  <2>1. mac' = mac /\ air' = air /\ coming' = coming
    BY <1>2 DEF vars
  <2>2. AllSound' /\ InFlight' /\ Owns'
    BY <2>1 DEF Linked, AllSound, InFlight, Owns
  <2>3. Flights' /\ Ups'
    BY <2>1 DEF Linked, Flights, Flight, Ups, PassedUp
  <2>4. Singles' /\ OnceUnlessZero'
    BY <2>1 DEF Linked, Singles, Single, OnceUnlessZero
  <2>5. Promised
    BY <2>1 DEF Promised, PassesUp, Done
  <2> QED
    BY <2>2, <2>3, <2>4, <2>5 DEF Linked
<1> QED
  BY <1>1, <1>2

LEMMA LinkedInitially ==
    ASSUME Init
    PROVE  Linked
<1>1. \A n \in Node : mac[n] = Idle(n)
  BY DEF Init
<1>2. AllSound
  <2>1. coming \in [Packet -> Clock]
    BY PacketAssumption DEF Init, Clock, Off
  <2> QED
    BY <1>1, <2>1, IdleIsSound DEF Init, AllSound
<1>3. ASSUME NEW n \in Node
      PROVE  /\ mac[n].out = None /\ mac[n].pktTx = None /\ mac[n].rx = "IDLE"
             /\ mac[n].queue = <<>> /\ mac[n].up = <<>>
             /\ DoneBy(mac[n]) = {} /\ mac[n].cache \in [Node -> Nat]
  <2> DEFINE m == Idle(n)
  <2>1. /\ m.out = None /\ m.pktTx = None /\ m.rx = "IDLE" /\ m.queue = <<>>
        /\ m.up = <<>> /\ m.acked = {} /\ m.given = {}
    BY DEF Idle
  <2>2. m.cache = [s \in Node |-> 0]
    BY DEF Idle
  <2> HIDE DEF m
  <2>3. mac[n] = m
    BY <1>1 DEF m
  <2> QED
    BY <2>1, <2>2, <2>3 DEF DoneBy
<1>4. Owns
  <2> SUFFICES ASSUME NEW n \in Node
               PROVE  /\ mac[n].out = None /\ Orderly(mac[n])
                      /\ mac[n].cache \in [Node -> Nat]
                      /\ mac[n].up \in Seq(Frame) /\ Has(mac[n]) = {}
    BY DEF Owns
  <2>1. 1..Len(mac[n].queue) = {}
    BY <1>3
  <2>2. mac[n].up \in Seq(Frame)
    <3>1. <<>> \in Seq(Frame)
      OBVIOUS
    <3> QED
      BY <1>3, <3>1
  <2>3. Has(mac[n]) = {}
    BY <1>3, <2>1 DEF Has
  <2>4. Orderly(mac[n])
    BY <1>3, <2>1 DEF Orderly
  <2> QED
    BY <1>3, <2>2, <2>3, <2>4
<1>5. InFlight /\ Flights /\ Ups
  BY <1>3 DEF Init, InFlight, Flights, Ups
<1>6. Singles /\ OnceUnlessZero
  BY <1>3 DEF Init, Singles, Single, Receives, Passed, OnceUnlessZero
<1> QED
  BY <1>2, <1>4, <1>5, <1>6 DEF Linked

-----------------------------------------------------------------------------
(* A data frame on the air is that of a packet its sender is waiting to    *)
(* have acknowledged, the filter for duplicates of recvDATA() knows what   *)
(* was passed up of it, and a broadcast has one copy for each node.        *)
THEOREM MacsAreLinked ==
    ASSUME BugFixTimer, DurationsFit
    PROVE  Spec => []Linked
<1>1. Init => Linked
  BY LinkedInitially
<1>2. Linked /\ [Next]_vars => Linked'
  BY LinkedKept
<1> QED
  BY <1>1, <1>2, PTL DEF Spec

(* However often RetransmitDATA() repeats a frame, recvDATA() passes it to *)
(* the link layer once, if its number is not 0.                            *)
THEOREM PassedUpOnce ==
    ASSUME BugFixTimer, DurationsFit
    PROVE  Spec => []OnceUnlessZero
<1>1. Linked => OnceUnlessZero
  BY DEF Linked
<1> QED
  BY <1>1, MacsAreLinked, PTL

(* What was passed up or is done with was handed down, and it was passed   *)
(* up where it was meant to go.                                            *)
WasSent ==
    /\ \A k \in Node : \A i \in DOMAIN mac[k].up :
         mac[k].up[i].packet \in Unicasts => coming[mac[k].up[i].packet] = Off
    /\ Done \cap Unicasts \subseteq {p \in Unicasts : coming[p] = Off}

AtNextHop ==
    \A k \in Node : \A i \in DOMAIN mac[k].up :
        NextHop[mac[k].up[i].packet] \in {k, Everyone}

LEMMA LinkedWasSent ==
    ASSUME Linked
    PROVE  WasSent
<1>1. ASSUME NEW k \in Node, NEW p, p \in DoneBy(mac[k]) \/ mac[k].pktTx = p,
             p \in Packet
      PROVE  coming[p] = Off
  <2>1. p \in Has(mac[k])
    BY <1>1, NoneAssumption DEF Has
  <2> QED
    BY <2>1 DEF Linked, Owns
<1>2. ASSUME NEW p \in Unicasts, p \in Done
      PROVE  coming[p] = Off
  BY <1>1, <1>2 DEF Unicasts, Done, DoneBy
<1>3. ASSUME NEW k \in Node, NEW i \in DOMAIN mac[k].up,
             mac[k].up[i].packet \in Unicasts
      PROVE  coming[mac[k].up[i].packet] = Off
  <2> DEFINE p == mac[k].up[i].packet
  <2>1. PassedUp(mac[k].up[i], mac[k].cache)
    BY DEF Linked, Ups
  <2>2. p \in Packet /\ NextHop[p] # Everyone /\ Origin[p] \in Node
    BY <1>3, PacketTypes, PacketAssumption DEF Unicasts
  <2>3. BegunBy(mac[Origin[p]], p)
    BY <2>1, <2>2 DEF PassedUp
  <2> QED
    BY <1>1, <2>2, <2>3 DEF BegunBy
<1> QED
  BY <1>2, <1>3 DEF WasSent

(* What a step does to the frames passed up at k                           *)
LEMMA UpGrows ==
    ASSUME Linked, NEW k \in Node, PassesUp(k)
    PROVE  /\ \A i \in DOMAIN mac[k].up : /\ i \in DOMAIN mac'[k].up
                                         /\ mac'[k].up[i] = mac[k].up[i]
           /\ \A i \in DOMAIN mac'[k].up :
                \/ i \in DOMAIN mac[k].up /\ mac'[k].up[i] = mac[k].up[i]
                \/ LET p == mac'[k].up[i].packet
                   IN  /\ NextHop[p] \in {k, Everyone}
                       /\ p \in Unicasts => p \notin Done
<1>1. mac[k].up \in Seq(Frame)
  BY DEF Linked, Owns
<1>2. CASE mac'[k].up = mac[k].up
  BY <1>2
<1>3. CASE mac'[k].up # mac[k].up
  <2>1. PICK f \in Frame : /\ mac'[k].up = Append(mac[k].up, f)
                           /\ NextHop[f.packet] \in {k, Everyone}
                           /\ f.packet \in Unicasts => f.packet \notin Done
    BY <1>3 DEF PassesUp
  <2> QED
    BY <1>1, <2>1
<1> QED
  BY <1>2, <1>3

LEMMA StaysAtNextHop ==
    ASSUME Linked, AtNextHop, Promised
    PROVE  AtNextHop'
<1> SUFFICES ASSUME NEW k \in Node, NEW i \in DOMAIN mac'[k].up
             PROVE  NextHop[mac'[k].up[i].packet] \in {k, Everyone}
  BY DEF AtNextHop
<1>1. PassesUp(k)
  BY DEF Promised
<1> QED
  BY <1>1, UpGrows DEF AtNextHop

LEMMA ArrivalsAre ==
    \A x : x \in Arrivals <=>
        \E k \in Node : \E i \in DOMAIN mac[k].up :
            x = [packet |-> mac[k].up[i].packet, at |-> k, nth |-> i]
BY DEF Arrivals

(* What a step adds to the arrivals                                        *)
LEMMA ArrivalsGrow ==
    ASSUME Linked, Promised
    PROVE  /\ Arrivals \subseteq Arrivals'
           /\ \A x \in Arrivals' \ Arrivals :
                x.packet \in Unicasts => x.packet \notin Done
           /\ InFrameZero \subseteq InFrameZero'
<1>1. ASSUME NEW k \in Node
      PROVE  /\ \A i \in DOMAIN mac[k].up : /\ i \in DOMAIN mac'[k].up
                                           /\ mac'[k].up[i] = mac[k].up[i]
             /\ \A i \in DOMAIN mac'[k].up :
                  \/ i \in DOMAIN mac[k].up /\ mac'[k].up[i] = mac[k].up[i]
                  \/ LET p == mac'[k].up[i].packet
                     IN  /\ NextHop[p] \in {k, Everyone}
                         /\ p \in Unicasts => p \notin Done
  BY UpGrows DEF Promised
<1>2. ASSUME NEW x \in Arrivals
      PROVE  x \in Arrivals'
  <2>1. PICK k \in Node : \E i \in DOMAIN mac[k].up :
          x = [packet |-> mac[k].up[i].packet, at |-> k, nth |-> i]
    BY <1>2, ArrivalsAre
  <2> QED
    BY <1>1, <2>1 DEF Arrivals
<1>3. ASSUME NEW x \in Arrivals', x \notin Arrivals, x.packet \in Unicasts
      PROVE  x.packet \notin Done
  <2>1. PICK k \in Node : \E i \in DOMAIN mac'[k].up :
          x = [packet |-> mac'[k].up[i].packet, at |-> k, nth |-> i]
    BY <1>3 DEF Arrivals
  <2>2. PICK i \in DOMAIN mac'[k].up :
          x = [packet |-> mac'[k].up[i].packet, at |-> k, nth |-> i]
    BY <2>1
  <2>3. CASE i \in DOMAIN mac[k].up /\ mac'[k].up[i] = mac[k].up[i]
    BY <1>3, <2>2, <2>3, ArrivalsAre
  <2>4. CASE ~(i \in DOMAIN mac[k].up /\ mac'[k].up[i] = mac[k].up[i])
    BY <1>1, <1>3, <2>2, <2>4
  <2> QED
    BY <2>3, <2>4
<1>4. ASSUME NEW p \in InFrameZero
      PROVE  p \in InFrameZero'
  <2>1. PICK k \in Node : \E f \in ToSet(mac[k].up) : f.packet = p /\ f.seq = 0
    BY <1>4 DEF InFrameZero
  <2>2. PICK i \in DOMAIN mac[k].up :
          mac[k].up[i].packet = p /\ mac[k].up[i].seq = 0
    BY <2>1 DEF ToSet
  <2>3. \E f \in ToSet(mac'[k].up) : f.packet = p /\ f.seq = 0
    BY <1>1, <2>2 DEF ToSet
  <2> QED
    BY <1>4, <2>3 DEF InFrameZero, Unicasts
<1> QED
  BY <1>2, <1>3, <1>4

(* A unicast passes up at its next hop only, and there once unless its     *)
(* frame has number 0.                                                     *)
OnceOrZero ==
    \A x, y \in Arrivals :
        x.packet \in Unicasts /\ x.packet = y.packet
        => x = y \/ x.packet \in InFrameZero

LEMMA ArriveOnce == AtNextHop /\ OnceUnlessZero => OnceOrZero
<1> SUFFICES ASSUME AtNextHop, OnceUnlessZero, NEW x \in Arrivals, NEW y \in Arrivals,
                    x.packet \in Unicasts, x.packet = y.packet, x # y
             PROVE  x.packet \in InFrameZero
  BY DEF OnceOrZero
<1>1. PICK k \in Node : \E i \in DOMAIN mac[k].up :
        x = [packet |-> mac[k].up[i].packet, at |-> k, nth |-> i]
  BY ArrivalsAre
<1>2. PICK i \in DOMAIN mac[k].up :
        x = [packet |-> mac[k].up[i].packet, at |-> k, nth |-> i]
  BY <1>1
<1>3. PICK h \in Node : \E j \in DOMAIN mac[h].up :
        y = [packet |-> mac[h].up[j].packet, at |-> h, nth |-> j]
  BY ArrivalsAre
<1>4. PICK j \in DOMAIN mac[h].up :
        y = [packet |-> mac[h].up[j].packet, at |-> h, nth |-> j]
  BY <1>3
<1>5. NextHop[x.packet] # Everyone
  BY PacketAssumption DEF Unicasts
<1>6. h = k
  BY <1>2, <1>4, <1>5 DEF AtNextHop
<1>7. mac[k].up[i].seq = 0
  BY <1>2, <1>4, <1>6 DEF OnceUnlessZero
<1> QED
  BY <1>2, <1>7 DEF InFrameZero, ToSet

(* The 802.11 MACs of the nodes are a link as UnicastLink promises: what   *)
(* passes up was handed down (Queue::recv()), passes up only while its     *)
(* sender has it, and once unless its frame has number 0, which recvDATA() *)
(* takes for "none yet"; and what the sender is done with (recvACK(),      *)
(* RetransmitRTS(), RetransmitDATA()) stays so.                            *)
THEOREM MacRefinement ==
    ASSUME BugFixTimer, DurationsFit
    PROVE  Spec => ImplementsUnicastLink
<1>1. Init => Link!Init /\ AtNextHop
  <2> SUFFICES ASSUME Init PROVE Link!Init /\ AtNextHop
    OBVIOUS
  <2>1. \A n \in Node : /\ mac[n].up = <<>> /\ mac[n].acked = {}
                        /\ mac[n].given = {}
    BY DEF Init, Idle
  <2>2. Arrivals = {} /\ Done = {} /\ InFrameZero = {}
    BY <2>1 DEF Arrivals, Done, InFrameZero, ToSet
  <2>3. \A p \in Packet : coming[p] # Off
    BY PacketAssumption DEF Init, Off
  <2>4. AtNextHop
    BY <2>1 DEF AtNextHop
  <2> QED
    BY <2>2, <2>3, <2>4 DEF Link!Init, Unicasts
<1>2. WasSent' /\ Linked /\ Linked' /\ AtNextHop /\ [Next]_vars
        => [Link!Next]_(Link!vars) /\ AtNextHop'
  <2> SUFFICES ASSUME WasSent', Linked, Linked', AtNextHop, [Next]_vars
               PROVE  Link!Next /\ AtNextHop'
    OBVIOUS
  <2> DEFINE S == {p \in Unicasts : coming[p] = Off}
             A == {x \in Arrivals : x.packet \in Unicasts}
             T == Done \cap Unicasts
  <2>1. Promised
    BY LinkedKept
  <2>2. AtNextHop'
    BY <2>1, StaysAtNextHop
  <2>3. Unicasts' = Unicasts
    BY DEF Unicasts
  <2>4. S \subseteq S' /\ S' \subseteq Unicasts
    BY <2>1, <2>3 DEF Promised, Unicasts
  <2>5. T \subseteq T' /\ T' \subseteq S'
    BY <2>1, <2>3 DEF Promised, WasSent
  <2>6. /\ A \subseteq A' /\ InFrameZero \subseteq InFrameZero'
        /\ \A x \in A' \ A : x.packet \in Unicasts /\ x.packet \notin Done
    BY <2>1, <2>3, ArrivalsGrow
  <2>7. ASSUME NEW x \in A' \ A PROVE x.packet \in S' \ T
    <3>1. x \in Arrivals' /\ x.packet \in Unicasts
      BY <2>3, <2>7
    <3>2. PICK k \in Node : \E i \in DOMAIN mac'[k].up :
            x = [packet |-> mac'[k].up[i].packet, at |-> k, nth |-> i]
      BY <3>1 DEF Arrivals
    <3>3. coming'[x.packet] = Off
      BY <2>3, <3>1, <3>2 DEF WasSent
    <3> QED
      BY <2>3, <2>6, <2>7, <3>1, <3>3
  <2>8. Link!Once'
    <3>1. OnceUnlessZero'
      BY DEF Linked
    <3>2. OnceOrZero'
      BY <2>2, <3>1, ArriveOnce, PTL
    <3> QED
      BY <2>3, <3>2 DEF OnceOrZero, Link!Once
  <2> HIDE DEF S, A, T
  <2> QED
    BY <2>2, <2>4, <2>5, <2>6, <2>7, <2>8 DEF Link!Next, S, A, T
<1>3. Linked => WasSent
  BY LinkedWasSent
<1> QED
  BY <1>1, <1>2, <1>3, MacsAreLinked, PTL
  DEF Spec, ImplementsUnicastLink, Link!Spec
=============================================================================
