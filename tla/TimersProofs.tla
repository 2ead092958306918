---------------------------- MODULE TimersProofs ----------------------------
(***************************************************************************)
(* TimerHandler and the scheduler agree for any number of timers, delays   *)
(* and events: no call of a client that keeps the contract ends in abort().*)
(***************************************************************************)
EXTENDS Timers, TLAPS

(* uid_ numbers events once: no two events in the queue share a number, no *)
(* number is given before uid_ reaches it, and no two timers have the same.*)
UidsFresh ==
    /\ uid >= 1
    /\ \A e \in pending : e.uid \in 1..(uid - 1)
    /\ \A e, f \in pending : e.uid = f.uid => e = f
    /\ \A t \in Timer : event[t] < uid
    /\ \A s, t \in Timer : event[t] > 0 /\ event[s] = event[t] => s = t

(* The inductive invariant *)
TimerInv ==
    /\ TimerTypeOK
    /\ PendingInFuture
    /\ UidsFresh
    /\ Agreement
    /\ NoAbort

(* Nothing is pending at the start.                                        *)
LEMMA TimerInvInit == TimerInit => TimerInv
  <1> SUFFICES ASSUME TimerInit PROVE TimerInv
    OBVIOUS
  <1>1. /\ pending = {} /\ clock = 0 /\ uid = 1 /\ halted = FALSE
        /\ status = [t \in Timer |-> "IDLE"]
        /\ event = [t \in Timer |-> 0]
        /\ handling = None /\ aborted = FALSE
    BY DEF TimerInit, Init
  <1>2. TimerTypeOK
    <2>1. TypeOK
      BY <1>1 DEF TypeOK
    <2>2. \A t \in Timer : status[t] # "HANDLING"
      BY <1>1
    <2>3. status \in [Timer -> {"IDLE", "PENDING", "HANDLING"}]
      BY <1>1
    <2>4. event \in [Timer -> Int]
      BY <1>1
    <2>5. handling \in Timer \cup {None} /\ aborted \in BOOLEAN
      BY <1>1
    <2> QED
      BY <2>1, <2>2, <2>3, <2>4, <2>5 DEF TimerTypeOK
  <1>3. UidsFresh
    <2>1. \A t \in Timer : event[t] = 0
      BY <1>1
    <2>2. \A t \in Timer : event[t] < uid /\ ~(event[t] > 0)
      BY <1>1, <2>1
    <2>3. \A e \in pending : FALSE
      BY <1>1
    <2> QED
      BY <1>1, <2>2, <2>3 DEF UidsFresh
  <1>4. Agreement
    BY <1>1 DEF Agreement
  <1> QED
    BY <1>1, <1>2, <1>3, <1>4 DEF TimerInv, PendingInFuture, NoAbort

(* Scheduling the event of t into a queue q that does not hold it, with    *)
(* the event's sign saying so.                                             *)
LEMMA InsertKeeps ==
    ASSUME TimerInv, NEW t \in Timer, NEW u \in Int, u <= 0, NEW q,
           q \subseteq pending,
           \A e \in pending : e \in q \/ e.uid = event[t],
           \A e \in q : e.uid # event[t],
           Insert(t, u, q), UNCHANGED <<clock, halted, handling>>
    PROVE TimerInv'
  <1>1. PICK d \in Delays :
          pending' = q \cup {[time |-> clock + d, uid |-> uid]}
    BY DEF Insert
  <1>2. /\ event' = [event EXCEPT ![t] = uid]
        /\ uid' = uid + 1
        /\ status' = [status EXCEPT ![t] = "PENDING"]
        /\ aborted' = aborted
    BY DEF Insert
  <1> DEFINE new == [time |-> clock + d, uid |-> uid]
  <1>3. /\ clock \in Nat /\ uid \in Nat /\ d \in Nat /\ pending \subseteq Event
        /\ uid >= 1
    BY DelayAssumption DEF TimerInv, TimerTypeOK, TypeOK, UidsFresh
  <1>4. new \in Event /\ new.time = clock + d /\ new.uid = uid
    BY <1>3 DEF Event
  <1>5. \A e \in pending' : e = new \/ (e \in q /\ e \in pending /\ e.uid < uid)
    BY <1>1, <1>3 DEF TimerInv, UidsFresh
  <1>6. TimerTypeOK'
    <2>1. TypeOK'
      BY <1>1, <1>2, <1>3, <1>4 DEF TimerInv, TimerTypeOK, TypeOK
    <2> QED
      BY <2>1, <1>2, <1>3 DEF TimerInv, TimerTypeOK
  <1>7. PendingInFuture'
    BY <1>3, <1>4, <1>5 DEF TimerInv, PendingInFuture
  <1>8. UidsFresh'
    <2>1. \A e \in pending' : e.uid \in 1..(uid' - 1)
      BY <1>2, <1>3, <1>4, <1>5 DEF TimerInv, UidsFresh
    <2>2. \A e, f \in pending' : e.uid = f.uid => e = f
      BY <1>4, <1>5 DEF TimerInv, UidsFresh
    <2>3. \A s \in Timer : event'[s] < uid'
      BY <1>2, <1>3 DEF TimerInv, UidsFresh, TimerTypeOK
    <2>4. ASSUME NEW r \in Timer, NEW s \in Timer, event'[s] > 0, event'[r] = event'[s]
          PROVE r = s
      BY <2>4, <1>2, <1>3 DEF TimerInv, UidsFresh, TimerTypeOK
    <2> QED
      BY <2>1, <2>2, <2>3, <2>4, <1>2, <1>3 DEF UidsFresh
  <1>9. Agreement'
    <2> SUFFICES ASSUME NEW s \in Timer
                 PROVE /\ status'[s] = "PENDING" <=> \E e \in pending' : e.uid = event'[s]
                       /\ status'[s] = "PENDING" <=> event'[s] > 0
      BY DEF Agreement
    <2>1. CASE s = t
      <3>1. status'[s] = "PENDING" /\ event'[s] = uid
        BY <1>2, <2>1 DEF TimerInv, TimerTypeOK
      <3>2. new \in pending' /\ new.uid = event'[s]
        BY <1>1, <1>4, <3>1
      <3> QED
        BY <3>1, <3>2, <1>3
    <2>2. CASE s # t
      <3>1. /\ status'[s] = status[s] /\ event'[s] = event[s]
            /\ event[s] \in Int /\ event[s] < uid
        BY <1>2, <2>2 DEF TimerInv, TimerTypeOK, UidsFresh
      <3>2. (\E e \in pending' : e.uid = event[s]) => \E e \in pending : e.uid = event[s]
        BY <1>4, <1>5, <3>1
      <3>3. ASSUME NEW e \in pending, e.uid = event[s]
            PROVE e \in pending'
        <4>1. event[s] > 0
          BY <3>3 DEF TimerInv, Agreement
        <4>2. e.uid # event[t]
          BY <4>1, <3>3, <2>2 DEF TimerInv, UidsFresh
        <4> QED
          BY <4>2, <1>1
      <3> QED
        BY <3>1, <3>2, <3>3 DEF TimerInv, Agreement
    <2> QED
      BY <2>1, <2>2
  <1> QED
    BY <1>2, <1>6, <1>7, <1>8, <1>9 DEF TimerInv, NoAbort

(* Taking events off the queue leaves the order and the numbers alone.     *)
LEMMA FewerKeep ==
    ASSUME TimerInv, pending' \subseteq pending, uid' = uid,
           \A t \in Timer : event'[t] = event[t] \/ event'[t] <= 0,
           event' \in [Timer -> Int]
    PROVE UidsFresh'
  <1>1. uid \in Nat /\ uid >= 1 /\ event \in [Timer -> Int]
    BY DEF TimerInv, TimerTypeOK, TypeOK, UidsFresh
  <1>2. \A t \in Timer : event'[t] < uid'
    BY <1>1 DEF TimerInv, UidsFresh
  <1>3. ASSUME NEW s \in Timer, NEW t \in Timer, event'[t] > 0, event'[s] = event'[t]
        PROVE s = t
    BY <1>1, <1>3 DEF TimerInv, UidsFresh
  <1>4. /\ \A e \in pending' : e.uid \in 1..(uid' - 1)
        /\ \A e, f \in pending' : e.uid = f.uid => e = f
    BY DEF TimerInv, UidsFresh
  <1> QED
    BY <1>1, <1>2, <1>3, <1>4 DEF UidsFresh

(* The first event of the queue goes, the rest is not before it.           *)
LEMMA DispatchKeepsOrder ==
    ASSUME TimerInv, NEW e \in pending, DispatchOf(e)
    PROVE PendingInFuture' /\ clock' \in Nat
  <1>1. pending \subseteq Event /\ e.time \in Nat
    BY DEF TimerInv, TimerTypeOK, TypeOK, Event
  <1>2. \A f \in pending' : f \in pending /\ Earlier(e, f)
    BY DEF DispatchOf
  <1>3. \A f \in pending' : f.time \in Nat /\ f.time >= e.time
    BY <1>1, <1>2 DEF Earlier, Event
  <1> QED
    BY <1>1, <1>3 DEF PendingInFuture, DispatchOf

(* The event of another timer is another event.                            *)
LEMMA OthersStay ==
    ASSUME TimerInv, NEW t \in Timer, NEW s \in Timer, s # t,
           NEW e \in pending, e.uid = event[s]
    PROVE e.uid # event[t]
  <1>1. event[s] > 0 /\ event \in [Timer -> Int]
    BY DEF TimerInv, Agreement, TimerTypeOK
  <1> QED
    BY <1>1 DEF TimerInv, UidsFresh

(* _cancel() and the end of CancelTimer: the event of t leaves.            *)
LEMMA CancelKeeps ==
    ASSUME TimerInv, NEW t \in Timer, CancelTimer(t)
    PROVE TimerInv'
  <1>1. /\ event \in [Timer -> Int] /\ event[t] > 0 /\ status[t] = "PENDING"
        /\ status \in [Timer -> {"IDLE", "PENDING", "HANDLING"}]
    BY DEF CancelTimer, TimerInv, Agreement, TimerTypeOK
  <1>2. /\ pending' = {e \in pending : e.uid # event[t]}
        /\ event' = [event EXCEPT ![t] = -event[t]]
        /\ status' = [status EXCEPT ![t] = "IDLE"]
        /\ UNCHANGED <<clock, uid, halted, handling, aborted>>
    BY <1>1 DEF CancelTimer, QueueAfterCancel, UidAfterCancel, Without
  <1>3. TimerTypeOK'
    BY <1>1, <1>2 DEF TimerInv, TimerTypeOK, TypeOK
  <1>4. PendingInFuture'
    BY <1>2 DEF TimerInv, PendingInFuture
  <1>5. UidsFresh'
    BY <1>1, <1>2, FewerKeep
  <1>6. Agreement'
    <2> SUFFICES ASSUME NEW s \in Timer
                 PROVE /\ status'[s] = "PENDING" <=> \E e \in pending' : e.uid = event'[s]
                       /\ status'[s] = "PENDING" <=> event'[s] > 0
      BY DEF Agreement
    <2>1. CASE s = t
      <3>1. status'[s] # "PENDING" /\ event'[s] = -event[t] /\ event'[s] < 0
        BY <1>1, <1>2, <2>1
      <3>2. \A e \in pending' : e.uid > 0
        BY <1>2 DEF TimerInv, UidsFresh, TimerTypeOK, TypeOK
      <3> QED
        BY <3>1, <3>2, <1>1
    <2>2. CASE s # t
      <3>1. status'[s] = status[s] /\ event'[s] = event[s]
        BY <1>1, <1>2, <2>2
      <3>2. \A e \in pending : e.uid = event[s] => e \in pending'
        BY <1>2, <2>2, OthersStay
      <3> QED
        BY <1>2, <3>1, <3>2 DEF TimerInv, Agreement
    <2> QED
      BY <2>1, <2>2
  <1> QED
    BY <1>2, <1>3, <1>4, <1>5, <1>6 DEF TimerInv, NoAbort

(* The event that run() takes for t is the one t is pending for.           *)
LEMMA ExpireKeeps ==
    ASSUME TimerInv, NEW t \in Timer, Expire(t)
    PROVE TimerInv'
  <1>1. PICK e \in pending : e.uid = event[t] /\ DispatchOf(e)
    BY DEF Expire
  <1>2. status[t] = "PENDING" /\ event[t] > 0
    BY <1>1 DEF TimerInv, Agreement
  <1>3. /\ event' = [event EXCEPT ![t] = -event[t]]
        /\ status' = [status EXCEPT ![t] = "HANDLING"]
        /\ handling = None /\ handling' = t
        /\ UNCHANGED <<uid, halted, aborted>>
    BY <1>2 DEF Expire
  <1>4. pending' = pending \ {e}
    BY <1>1 DEF DispatchOf
  <1>5. /\ event \in [Timer -> Int]
        /\ status \in [Timer -> {"IDLE", "PENDING", "HANDLING"}]
    BY DEF TimerInv, TimerTypeOK
  <1>6. PendingInFuture' /\ clock' \in Nat
    BY <1>1, DispatchKeepsOrder
  <1>7. TimerTypeOK'
    <2>1. \A s \in Timer : status[s] # "HANDLING"
      BY <1>3, NoneAssumption DEF TimerInv, TimerTypeOK
    <2> QED
      BY <2>1, <1>3, <1>4, <1>5, <1>6 DEF TimerInv, TimerTypeOK, TypeOK
  <1>8. UidsFresh'
    BY <1>2, <1>3, <1>4, <1>5, FewerKeep
  <1>9. Agreement'
    <2> SUFFICES ASSUME NEW s \in Timer
                 PROVE /\ status'[s] = "PENDING" <=> \E f \in pending' : f.uid = event'[s]
                       /\ status'[s] = "PENDING" <=> event'[s] > 0
      BY DEF Agreement
    <2>1. CASE s = t
      <3>1. status'[s] # "PENDING" /\ event'[s] < 0
        BY <1>2, <1>3, <1>5, <2>1
      <3>2. \A f \in pending' : f.uid > 0
        BY <1>4 DEF TimerInv, UidsFresh, TimerTypeOK, TypeOK
      <3> QED
        BY <3>1, <3>2, <1>3, <1>5
    <2>2. CASE s # t
      <3>1. status'[s] = status[s] /\ event'[s] = event[s]
        BY <1>3, <1>5, <2>2
      <3>2. \A f \in pending : f.uid = event[s] => f \in pending'
        BY <1>1, <1>4, <2>2, OthersStay
      <3> QED
        BY <1>4, <3>1, <3>2 DEF TimerInv, Agreement
    <2> QED
      BY <2>1, <2>2
  <1> QED
    BY <1>3, <1>6, <1>7, <1>8, <1>9 DEF TimerInv, NoAbort

(* An event that no timer owns comes or goes.                              *)
LEMMA OthersKeep ==
    ASSUME TimerInv, OtherDispatch \/ OtherCall
    PROVE TimerInv'
  <1>1. CASE OtherDispatch
    <2>1. PICK e \in pending : ~OwnedByTimer(e) /\ DispatchOf(e)
      BY <1>1 DEF OtherDispatch
    <2>2. pending' = pending \ {e} /\ UNCHANGED <<uid, halted, status, event, handling, aborted>>
      BY <1>1, <2>1 DEF OtherDispatch, DispatchOf, timers
    <2>3. PendingInFuture' /\ clock' \in Nat
      BY <2>1, DispatchKeepsOrder
    <2>4. TimerTypeOK'
      BY <2>2, <2>3 DEF TimerInv, TimerTypeOK, TypeOK
    <2>5. UidsFresh'
      <3>1. event' \in [Timer -> Int]
        BY <2>4 DEF TimerTypeOK
      <3> QED
        BY <2>2, <3>1, FewerKeep
    <2>6. Agreement'
      BY <2>1, <2>2 DEF TimerInv, Agreement, OwnedByTimer
    <2> QED
      BY <2>2, <2>3, <2>4, <2>5, <2>6 DEF TimerInv, NoAbort
  <1>2. CASE Schedule /\ UNCHANGED timers
    <2>1. PICK d \in Delays :
            pending' = pending \cup {[time |-> clock + d, uid |-> uid]}
      BY <1>2 DEF Schedule
    <2>2. uid' = uid + 1 /\ UNCHANGED <<clock, halted, status, event, handling, aborted>>
      BY <1>2 DEF Schedule, timers
    <2> DEFINE new == [time |-> clock + d, uid |-> uid]
    <2>3. /\ clock \in Nat /\ uid \in Nat /\ uid >= 1 /\ d \in Nat
          /\ pending \subseteq Event
      BY DelayAssumption DEF TimerInv, TimerTypeOK, TypeOK, UidsFresh
    <2>4. new \in Event /\ new.time = clock + d /\ new.uid = uid
      BY <2>3 DEF Event
    <2>5. \A e \in pending' : e = new \/ (e \in pending /\ e.uid < uid)
      BY <2>1, <2>3 DEF TimerInv, UidsFresh
    <2>6. TimerTypeOK'
      BY <2>1, <2>2, <2>3, <2>4 DEF TimerInv, TimerTypeOK, TypeOK
    <2>7. PendingInFuture'
      BY <2>2, <2>3, <2>4, <2>5 DEF TimerInv, PendingInFuture
    <2>8. \A t \in Timer : event[t] \in Int /\ event[t] < uid
      BY DEF TimerInv, TimerTypeOK, UidsFresh
    <2>9. UidsFresh'
      <3>1. \A e \in pending' : e.uid \in 1..(uid' - 1)
        BY <2>2, <2>3, <2>4, <2>5 DEF TimerInv, UidsFresh
      <3>2. \A e, f \in pending' : e.uid = f.uid => e = f
        BY <2>4, <2>5 DEF TimerInv, UidsFresh
      <3>3. \A t \in Timer : event'[t] < uid'
        BY <2>2, <2>3, <2>8
      <3> QED
        BY <2>2, <2>3, <3>1, <3>2, <3>3 DEF TimerInv, UidsFresh
    <2>10. Agreement'
      <3>1. \A t \in Timer : (\E e \in pending' : e.uid = event[t]) <=> (\E e \in pending : e.uid = event[t])
        BY <2>1, <2>3, <2>4, <2>5, <2>8
      <3> QED
        BY <2>2, <3>1 DEF TimerInv, Agreement
    <2> QED
      BY <2>2, <2>6, <2>7, <2>9, <2>10 DEF TimerInv, NoAbort
  <1>3. CASE (Halt \/ Resume) /\ UNCHANGED timers
    <2>1. UNCHANGED <<pending, clock, uid, status, event, handling, aborted>> /\ halted' \in BOOLEAN
      BY <1>3 DEF Halt, Resume, timers
    <2> QED
      BY <2>1 DEF TimerInv, TimerTypeOK, TypeOK, PendingInFuture, UidsFresh, Agreement, NoAbort
  <1> QED
    BY <1>1, <1>2, <1>3 DEF OtherCall

(* One step of the timers or of anything else keeps the invariant.         *)
LEMMA TimerInvStep == TimerInv /\ [TimerNext]_timerVars => TimerInv'
  <1> SUFFICES ASSUME TimerInv, [TimerNext]_timerVars PROVE TimerInv'
    OBVIOUS
  <1>1. ASSUME NEW t \in Timer, Sched(t) PROVE TimerInv'
    <2>1. event[t] \in Int /\ event[t] <= 0 /\ \A e \in pending : e.uid # event[t]
      BY <1>1 DEF Sched, TimerInv, Agreement, TimerTypeOK
    <2> QED
      BY <1>1, <2>1, InsertKeeps DEF Sched
  <1>2. ASSUME NEW t \in Timer, Resched(t) PROVE TimerInv'
    <2>0. event[t] \in Int /\ UNCHANGED <<clock, halted, handling>>
      BY <1>2 DEF Resched, TimerInv, TimerTypeOK
    <2>1. CASE status[t] = "PENDING"
      <3>1. event[t] > 0
        BY <2>1 DEF TimerInv, Agreement
      <3>2. Insert(t, -event[t], Without(t))
        BY <1>2, <2>1, <3>1 DEF Resched, UidAfterCancel, QueueAfterCancel
      <3>3. -event[t] \in Int /\ -event[t] <= 0
        BY <2>0, <3>1
      <3>4. /\ Without(t) \subseteq pending
            /\ \A e \in pending : e \in Without(t) \/ e.uid = event[t]
            /\ \A e \in Without(t) : e.uid # event[t]
        BY DEF Without
      <3> QED
        BY <2>0, <3>2, <3>3, <3>4, InsertKeeps
    <2>2. CASE status[t] # "PENDING"
      <3>1. event[t] <= 0 /\ \A e \in pending : e.uid # event[t]
        BY <2>0, <2>2 DEF TimerInv, Agreement
      <3>2. Insert(t, event[t], pending)
        BY <1>2, <2>2 DEF Resched
      <3> QED
        BY <2>0, <3>1, <3>2, InsertKeeps
    <2> QED
      BY <2>1, <2>2
  <1>3. ASSUME NEW t \in Timer, Return(t) PROVE TimerInv'
    <2>1. /\ status' = [status EXCEPT ![t] = IF @ = "HANDLING" THEN "IDLE" ELSE @]
          /\ handling = t /\ handling' = None
          /\ UNCHANGED <<pending, clock, uid, halted, event, aborted>>
      BY <1>3 DEF Return, vars
    <2>2. /\ status \in [Timer -> {"IDLE", "PENDING", "HANDLING"}]
          /\ \A s \in Timer : status[s] = "HANDLING" => s = t
      BY <2>1 DEF TimerInv, TimerTypeOK
    <2>3. \A s \in Timer : /\ status'[s] # "HANDLING"
                           /\ status'[s] = "PENDING" <=> status[s] = "PENDING"
      BY <2>1, <2>2
    <2>4. TimerTypeOK'
      BY <2>1, <2>2, <2>3 DEF TimerInv, TimerTypeOK, TypeOK
    <2>5. Agreement'
      BY <2>1, <2>3 DEF TimerInv, Agreement
    <2> QED
      BY <2>1, <2>4, <2>5 DEF TimerInv, PendingInFuture, UidsFresh, NoAbort
  <1>4. CASE UNCHANGED timerVars
    BY <1>4 DEF timerVars, vars, timers, TimerInv, TimerTypeOK, TypeOK,
       PendingInFuture, UidsFresh, Agreement, NoAbort
  <1> QED
    BY <1>1, <1>2, <1>3, <1>4, CancelKeeps, ExpireKeeps, OthersKeep DEF TimerNext

(* In every behaviour the timers and the queue agree.                      *)
THEOREM TimerInvariant == TimerSpec => []TimerInv
  BY TimerInvInit, TimerInvStep, PTL DEF TimerSpec

(* TimerHandler: status_ has a known value, and HANDLING only while        *)
(* expire() runs.                                                          *)
THEOREM TimerTypes == TimerSpec => []TimerTypeOK
  <1>1. TimerInv => TimerTypeOK
    BY DEF TimerInv
  <1> QED
    BY <1>1, TimerInvariant, PTL

(* A timer is pending exactly while its event is in the queue.             *)
THEOREM TimersAgree == TimerSpec => []Agreement
  <1>1. TimerInv => Agreement
    BY DEF TimerInv
  <1> QED
    BY <1>1, TimerInvariant, PTL

(* No sequence of calls of sched(), resched(), cancel() and force_cancel() *)
(* that keeps the contract ends in the abort() of schedule() or handle().  *)
THEOREM TimersNeverAbort == TimerSpec => []NoAbort
  <1>1. TimerInv => NoAbort
    BY DEF TimerInv
  <1> QED
    BY <1>1, TimerInvariant, PTL

(* The scheduler never goes backwards in time.                             *)
THEOREM NeverBackwards == TimerSpec => []PendingInFuture
  <1>1. TimerInv => PendingInFuture
    BY DEF TimerInv
  <1> QED
    BY <1>1, TimerInvariant, PTL
=============================================================================
