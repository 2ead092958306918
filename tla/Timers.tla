------------------------------- MODULE Timers -------------------------------
(***************************************************************************)
(* TimerHandler (common/timer-handler.cc) over the scheduler: each timer   *)
(* owns one Event, which may be in the scheduler's queue once.  The timer  *)
(* keeps status_, the event keeps the sign of its uid_; schedule() aborts  *)
(* when the event is in the queue, handle() when the timer is not pending. *)
(* What expire() calls before it returns comes between Expire and Return.  *)
(***************************************************************************)
EXTENDS EventQueue

CONSTANTS Timer, None

ASSUME NoneAssumption == None \notin Timer

VARIABLES
    status,     \* status_
    event,      \* event_.uid_: positive in the queue, negative when it left
    handling,   \* the timer whose expire() is running, or None
    aborted     \* abort() was called

timers == <<status, event, handling, aborted>>
timerVars == <<vars, timers>>

(* The types; a timer is in handling only while its expire() runs.         *)
TimerTypeOK ==
    /\ TypeOK
    /\ status \in [Timer -> {"IDLE", "PENDING", "HANDLING"}]
    /\ event \in [Timer -> Int]
    /\ handling \in Timer \cup {None}
    /\ aborted \in BOOLEAN
    /\ \A t \in Timer : status[t] = "HANDLING" => handling = t

TimerInit ==
    /\ Init
    /\ status = [t \in Timer |-> "IDLE"]
    /\ event = [t \in Timer |-> 0]
    /\ handling = None
    /\ aborted = FALSE

-----------------------------------------------------------------------------
(* The queue without the event of t *)
Without(t) == {e \in pending : e.uid # event[t]}

(* Mutant: cancelling leaves the sign of uid_. *)
UidAfterCancel_Kept(t) == event[t]

(* event_.uid_ after _cancel(), which returns at once for an event that is *)
(* not in the queue                                                        *)
UidAfterCancel(t) == IF event[t] > 0 THEN -event[t] ELSE event[t]

QueueAfterCancel(t) == IF event[t] > 0 THEN Without(t) ELSE pending

(* _sched(): Scheduler::schedule() of event_, whose uid_ is now u, into q *)
Insert(t, u, q) ==
    IF u > 0
    THEN /\ aborted' = TRUE
         /\ UNCHANGED <<pending, uid, status>>
         /\ event' = [event EXCEPT ![t] = u]
    ELSE /\ uid <= MaxUid
         /\ \E d \in Delays :
              pending' = q \cup {[time |-> clock + d, uid |-> uid]}
         /\ event' = [event EXCEPT ![t] = uid]
         /\ uid' = uid + 1
         /\ status' = [status EXCEPT ![t] = "PENDING"]
         /\ UNCHANGED aborted

(* sched(), by a caller that keeps its contract *)
Sched(t) ==
    /\ status[t] = "IDLE"
    /\ Insert(t, event[t], pending)
    /\ UNCHANGED <<clock, halted, handling>>

(* Mutant: the pending event is not taken off first. *)
Resched_NoCancel(t) ==
    /\ Insert(t, event[t], pending)
    /\ UNCHANGED <<clock, halted, handling>>

(* resched(), pending or not *)
Resched(t) ==
    /\ IF status[t] = "PENDING"
       THEN Insert(t, UidAfterCancel(t), QueueAfterCancel(t))
       ELSE Insert(t, event[t], pending)
    /\ UNCHANGED <<clock, halted, handling>>

(* cancel() and force_cancel() of a pending timer *)
CancelTimer(t) ==
    /\ status[t] = "PENDING"
    /\ pending' = QueueAfterCancel(t)
    /\ event' = [event EXCEPT ![t] = UidAfterCancel(t)]
    /\ status' = [status EXCEPT ![t] = "IDLE"]
    /\ UNCHANGED <<clock, uid, halted, handling, aborted>>

(* A round of Scheduler::run() that reaches t: dispatch() and handle() up  *)
(* to the call of expire()                                                 *)
Expire(t) ==
    /\ handling = None
    /\ \E e \in pending : e.uid = event[t] /\ DispatchOf(e)
    /\ event' = [event EXCEPT ![t] = -event[t]]
    /\ IF status[t] = "PENDING"
       THEN /\ status' = [status EXCEPT ![t] = "HANDLING"]
            /\ handling' = t
            /\ UNCHANGED aborted
       ELSE aborted' = TRUE /\ UNCHANGED <<status, handling>>
    /\ UNCHANGED <<uid, halted>>

(* Mutant: a timer that was started again in expire() becomes idle too. *)
Return_Always(t) ==
    /\ handling = t
    /\ handling' = None
    /\ status' = [status EXCEPT ![t] = "IDLE"]
    /\ UNCHANGED <<vars, event, aborted>>

(* The end of handle() *)
Return(t) ==
    /\ handling = t
    /\ handling' = None
    /\ status' = [status EXCEPT ![t] = IF @ = "HANDLING" THEN "IDLE" ELSE @]
    /\ UNCHANGED <<vars, event, aborted>>

(* Events of other handlers, and the commands of the script *)
OwnedByTimer(e) == \E t \in Timer : e.uid = event[t]

OtherDispatch ==
    /\ handling = None
    /\ \E e \in pending : ~OwnedByTimer(e) /\ DispatchOf(e)
    /\ UNCHANGED <<uid, halted, timers>>

OtherCall == (Schedule \/ Halt \/ Resume) /\ UNCHANGED timers

TimerNext ==
    /\ ~aborted
    /\ \/ \E t \in Timer :
            Sched(t) \/ Resched(t) \/ CancelTimer(t) \/ Expire(t) \/ Return(t)
       \/ OtherDispatch
       \/ OtherCall

TimerSpec == TimerInit /\ [][TimerNext]_timerVars

(* run() goes on, and expire() returns. *)
Run == OtherDispatch \/ \E t \in Timer : Expire(t) \/ Return(t)
TimerFairSpec == TimerSpec /\ WF_timerVars(Run)

-----------------------------------------------------------------------------
(* A timer is pending exactly while its event is in the queue, so that a   *)
(* cancelled timer never expires and a pending one is never forgotten; the *)
(* two sides are kept by different classes, status_ and the sign of uid_.  *)
Agreement ==
    \A t \in Timer :
        /\ status[t] = "PENDING" <=> \E e \in pending : e.uid = event[t]
        /\ status[t] = "PENDING" <=> event[t] > 0

(* Neither Scheduler::schedule() nor handle() aborts: an event is never    *)
(* scheduled while it is in the queue and never arrives at a timer that is *)
(* not pending.                                                            *)
NoAbort == ~aborted

(* What a timer was started for happens, unless it is started again,      *)
(* stopped, or the simulation halted.                                      *)
PendingExpires ==
    \A t \in Timer, u \in 1..MaxUid :
        event[t] = u ~> (event[t] # u \/ halted)
=============================================================================
