----------------------------- MODULE EventQueue -----------------------------
(***************************************************************************)
(* The event scheduler as its users see it (common/scheduler.cc): run()    *)
(* dispatches what is scheduled in the order of its time, and what has the *)
(* same time in the order it was scheduled; an event that is cancelled     *)
(* does not run; halt and resume lose nothing.  Every timer, delay line    *)
(* and at-command of the simulator relies on it.                           *)
(***************************************************************************)
EXTENDS Integers

CONSTANTS
    Delays,     \* the delays handlers schedule with
    MaxUid      \* bound: how many events are scheduled

ASSUME DelayAssumption == Delays \subseteq Nat /\ MaxUid \in Nat

VARIABLES
    pending,    \* the events scheduled and not yet dispatched or cancelled
    clock,      \* clock_
    uid,        \* uid_, the number of the next event
    halted      \* halted_

vars == <<pending, clock, uid, halted>>

Event == [time : Nat, uid : Nat]

TypeOK ==
    /\ pending \subseteq Event
    /\ clock \in Nat
    /\ uid \in Nat
    /\ halted \in BOOLEAN

Init ==
    /\ pending = {}
    /\ clock = 0
    /\ uid = 1
    /\ halted = FALSE

(* Mutant: events run in the order they were scheduled. *)
Earlier_Fifo(e, f) == e.uid < f.uid

(* The order of the queue *)
Earlier(e, f) == e.time < f.time \/ (e.time = f.time /\ e.uid < f.uid)

(* Scheduler::schedule(), of an event that is not scheduled *)
Schedule ==
    /\ uid <= MaxUid
    /\ \E d \in Delays :
         pending' = pending \cup {[time |-> clock + d, uid |-> uid]}
    /\ uid' = uid + 1
    /\ UNCHANGED <<clock, halted>>

(* deque() and dispatch() of e *)
DispatchOf(e) ==
    /\ ~halted
    /\ \A f \in pending \ {e} : Earlier(e, f)
    /\ pending' = pending \ {e}
    /\ clock' = e.time

(* One round of Scheduler::run() *)
Dispatch ==
    /\ \E e \in pending : DispatchOf(e)
    /\ UNCHANGED <<uid, halted>>

(* Scheduler::cancel() *)
Cancel ==
    /\ \E e \in pending : pending' = pending \ {e}
    /\ UNCHANGED <<clock, uid, halted>>

(* "$ns halt", "$ns resume" *)
Halt == halted' = TRUE /\ UNCHANGED <<pending, clock, uid>>
Resume == halted' = FALSE /\ UNCHANGED <<pending, clock, uid>>

Next == Schedule \/ Dispatch \/ Cancel \/ Halt \/ Resume

Spec == Init /\ [][Next]_vars

-----------------------------------------------------------------------------
(* dispatch() never goes back in time ("scheduler going backwards in       *)
(* time", abort()): whatever handlers schedule and cancel, nothing that    *)
(* is pending lies before the clock.                                       *)
PendingInFuture == \A e \in pending : e.time >= clock
=============================================================================
