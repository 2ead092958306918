---------------------------- MODULE HeapScheduler ---------------------------
(***************************************************************************)
(* The scheduler that keeps its events in a binary heap (HeapScheduler in  *)
(* common/scheduler.h, Heap in common/heap.h and common/scheduler.cc).     *)
(* Events at the same time are told apart by a second key, the number of   *)
(* the insertion.  heap_delete() moves an element to the root without      *)
(* comparing keys and then takes the root off.                             *)
(***************************************************************************)
EXTENDS Integers, Sequences, FiniteSets, SequencesExt

CONSTANTS Delays, MaxUid

VARIABLES
    heap,       \* h_elems from 1, with h_size the length
    skey,       \* h_s_key
    clock, uid, halted

vars == <<heap, skey, clock, uid, halted>>

Init ==
    /\ heap = <<>>
    /\ skey = 0
    /\ clock = 0
    /\ uid = 1
    /\ halted = FALSE

-----------------------------------------------------------------------------
Parent(i) == i \div 2
Left(i) == 2 * i
Right(i) == 2 * i + 1

(* Mutant: the second key is not compared. *)
Less_TimeOnly(x, y) == x.time < y.time

(* KEY_LESS_THAN *)
Less(x, y) == x.time < y.time \/ (x.time = y.time /\ x.skey < y.skey)

Swap(h, i, j) == [h EXCEPT ![i] = h[j], ![j] = h[i]]

(* A turn of the loop of heap_insert(): what is at place i moves up. *)
Up(s) ==
    IF s.i > 1 /\ Less(s.h[s.i], s.h[Parent(s.i)])
    THEN [h |-> Swap(s.h, s.i, Parent(s.i)), i |-> Parent(s.i)] ELSE s

(* The loop; after i turns it has ended. *)
SiftUp(h, i) ==
    LET run[k \in 0..i] == IF k = 0 THEN [h |-> h, i |-> i] ELSE Up(run[k - 1])
    IN run[i].h

(* The child that the loop of heap_extract_min() looks at *)
SmallerChild(h, i) ==
    IF Right(i) <= Len(h) /\ ~Less(h[Left(i)], h[Right(i)]) THEN Right(i)
    ELSE Left(i)

(* A turn of the loop of heap_extract_min(): what is at place i moves down. *)
Down(s) ==
    LET x == SmallerChild(s.h, s.i) IN
    IF Left(s.i) <= Len(s.h) /\ Less(s.h[x], s.h[s.i])
    THEN [h |-> Swap(s.h, s.i, x), i |-> x] ELSE s

SiftDown(h) ==
    LET run[k \in 0..Len(h)] == IF k = 0 THEN [h |-> h, i |-> 1] ELSE Down(run[k - 1])
    IN run[Len(h)].h

(* heap_extract_min() without its result *)
ExtractMin(h) ==
    IF Len(h) = 1 THEN <<>>
    ELSE SiftDown([Front(h) EXCEPT ![1] = Last(h)])

(* A turn of the loop of heap_delete(): up, without comparing keys *)
Raise(s) ==
    IF s.i > 1 THEN [h |-> Swap(s.h, s.i, Parent(s.i)), i |-> Parent(s.i)] ELSE s

ToRoot(h, i) ==
    LET run[k \in 0..i] == IF k = 0 THEN [h |-> h, i |-> i] ELSE Raise(run[k - 1])
    IN run[i].h

(* heap_delete() *)
Delete(h, i) == ExtractMin(ToRoot(h, i))

-----------------------------------------------------------------------------
(* Scheduler::schedule() and HeapScheduler::insert() *)
Schedule ==
    /\ uid <= MaxUid
    /\ \E d \in Delays :
         heap' = SiftUp(Append(heap, [time |-> clock + d, skey |-> skey, uid |-> uid]),
                        Len(heap) + 1)
    /\ skey' = skey + 1
    /\ uid' = uid + 1
    /\ UNCHANGED <<clock, halted>>

(* Scheduler::run(), HeapScheduler::deque() *)
Dispatch ==
    /\ ~halted /\ heap # <<>>
    /\ clock' = heap[1].time
    /\ heap' = ExtractMin(heap)
    /\ UNCHANGED <<skey, uid, halted>>

(* HeapScheduler::cancel() *)
Cancel ==
    /\ \E i \in DOMAIN heap : heap' = Delete(heap, i)
    /\ UNCHANGED <<skey, clock, uid, halted>>

Halt == halted' = TRUE /\ UNCHANGED <<heap, skey, clock, uid>>
Resume == halted' = FALSE /\ UNCHANGED <<heap, skey, clock, uid>>

Next == Schedule \/ Dispatch \/ Cancel \/ Halt \/ Resume

Spec == Init /\ [][Next]_vars

-----------------------------------------------------------------------------
(* The events that are scheduled *)
Pending == {[time |-> x.time, uid |-> x.uid] : x \in ToSet(heap)}
=============================================================================
