----------------------------- MODULE Schedulers -----------------------------
(***************************************************************************)
(* The simulator with any of its schedulers: "$ns use-scheduler" decides   *)
(* for one of them before the first event (tcl/lib/ns-lib.tcl).  Users see *)
(* no difference: each is an EventQueue.                                   *)
(***************************************************************************)
EXTENDS Integers

CONSTANTS
    Delays,     \* the delays handlers schedule with
    MaxUid,     \* bound: how many events are scheduled
    Widths,     \* CalendarScheduler: the widths of a bucket
    TopFactor,  \* and top_threshold_ over nbuckets_
    Nil         \* SplayScheduler: the null pointer

ASSUME DelaysAssumption == Delays \subseteq Nat
ASSUME MaxUidAssumption == MaxUid \in Nat
ASSUME WidthsAssumption == Widths \subseteq Nat \ {0}
ASSUME TopFactorAssumption == TopFactor \in Nat
ASSUME NilAssumption == Nil \notin [time : Nat, uid : Nat]

VARIABLES
    type,                       \* of the scheduler that is used
    heap, skey,                 \* HeapScheduler
    buckets, count, width,      \* CalendarScheduler
    lastbucket, calClock, statQsize,
    root, left, right,          \* SplayScheduler
    clock, uid, halted          \* Scheduler, their base class

Heap == INSTANCE HeapScheduler
Calendar == INSTANCE CalendarScheduler
Splay == INSTANCE SplayScheduler

calendar == <<buckets, count, width, lastbucket, calClock, statQsize>>
tree == <<root, left, right>>
vars == <<type, heap, skey, calendar, tree, clock, uid, halted>>

Init ==
    /\ type \in {"Heap", "Calendar", "Splay"}
    /\ Heap!Init /\ Calendar!Init /\ Splay!Init

(* The one scheduler there is runs. *)
Next ==
    /\ UNCHANGED type
    /\ \/ /\ type = "Heap" /\ Heap!Next
          /\ UNCHANGED <<calendar, tree>>
       \/ /\ type = "Calendar" /\ Calendar!Next
          /\ UNCHANGED <<heap, skey, tree>>
       \/ /\ type = "Splay" /\ Splay!Next
          /\ UNCHANGED <<heap, skey, calendar>>

Spec == Init /\ [][Next]_vars

-----------------------------------------------------------------------------
(* The calendar's counters of distinct times, kept from the neighbours in  *)
(* the lists, stay true through insertions in two directions, removals and *)
(* copies; its thresholds and the assertions of cancel() rely on them.     *)
CountsDistinct == type = "Calendar" => Calendar!CountsDistinct

(* cancel() of the splay tree finds every pending event, wherever the      *)
(* rotations put those of the same time ("did not find it", abort()).      *)
CancelFinds == type = "Splay" => Splay!CancelFinds

(* Whatever the shape of the heap or the tree and the widths and sizes the *)
(* calendar has had, events are dispatched in the order of time, and of    *)
(* insertion where the times are equal, and none is lost.                  *)
Pending ==
    CASE type = "Heap"     -> Heap!Pending
      [] type = "Calendar" -> Calendar!Pending
      [] type = "Splay"    -> Splay!Pending

Queue == INSTANCE EventQueue WITH pending <- Pending
ImplementsEventQueue == Queue!Spec
=============================================================================
