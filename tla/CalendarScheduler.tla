-------------------------- MODULE CalendarScheduler -------------------------
(***************************************************************************)
(* The calendar queue (CalendarScheduler in common/scheduler.cc), the      *)
(* scheduler ns uses unless told otherwise.  Events are hashed by their    *)
(* time into the days of a year of nbuckets days of some width; deque()    *)
(* looks at the days from lastbucket on for an event of this year.  When   *)
(* too many or too few distinct times are pending, or when searching gets  *)
(* expensive, everything is copied into a calendar with another number of  *)
(* days or another width.                                                  *)
(*                                                                         *)
(* Times are integers.  A bucket is the sequence of its circular list.     *)
(* The width a resize chooses is a statistic of the past (avg_gap_,        *)
(* head_search_, newwidth()): any member of Widths.                        *)
(***************************************************************************)
EXTENDS Integers, Sequences, FiniteSets, SequencesExt, FiniteSetsExt

CONSTANTS
    Delays,     \* the delays handlers schedule with
    MaxUid,     \* bound: how many events are scheduled
    Widths,     \* the widths of a bucket
    TopFactor   \* top_threshold_ over nbuckets_: 2 in reinit()

VARIABLES
    buckets,    \* buckets_[].list_, by index
    count,      \* buckets_[].count_, distinct times in a bucket
    width,      \* width_
    lastbucket, \* lastbucket_
    calClock,   \* cal_clock_
    statQsize,  \* stat_qsize_, distinct times in the calendar
    clock, uid, halted

calendar == <<buckets, count, width, lastbucket, calClock, statQsize>>
vars == <<buckets, count, width, lastbucket, calClock, statQsize,
          clock, uid, halted>>

(* The calendar as one value: what reinit() and resize() replace *)
Cal == [buckets |-> buckets, count |-> count, width |-> width,
        last |-> lastbucket, stat |-> statQsize]

Become(c) ==
    /\ buckets' = c.buckets
    /\ count' = c.count
    /\ width' = c.width
    /\ lastbucket' = c.last
    /\ statQsize' = c.stat

-----------------------------------------------------------------------------
NBuckets(c) == Cardinality(DOMAIN c.buckets)

(* CALENDAR_HASH *)
Hash(c, t) == (t \div c.width) % NBuckets(c)

TopThreshold(c) == TopFactor * NBuckets(c)
BotThreshold(c) == (NBuckets(c) \div 2) - 2

(* reinit() *)
Empty(n, w, start) ==
    [buckets |-> [i \in 0..n - 1 |-> <<>>], count |-> [i \in 0..n - 1 |-> 0],
     width |-> w, last |-> (start \div w) % n, stat |-> 0]

(* e is put into its bucket with k of the bucket's events before it; with  *)
(* fresh its time is new to the calendar.                                  *)
PutAt(c, e, k, fresh) ==
    LET i == Hash(c, e.time)
        one == IF fresh THEN 1 ELSE 0
    IN [c EXCEPT !.buckets[i] = InsertAt(@, k + 1, e),
                 !.count[i] = @ + one,
                 !.stat = @ + one]

Times(b) == {b[j].time : j \in DOMAIN b}

(* insert() without the resize: after the events of the same time; the     *)
(* event before it tells whether its time is new.                          *)
Put(c, e) ==
    LET b == c.buckets[Hash(c, e.time)]
        k == Cardinality({j \in DOMAIN b : b[j].time <= e.time})
    IN PutAt(c, e, k, k = 0 \/ b[k].time < e.time)

(* insert2(): before the events of the same time; the event after it tells *)
PutBefore(c, e) ==
    LET b == c.buckets[Hash(c, e.time)]
        k == Cardinality({j \in DOMAIN b : b[j].time < e.time})
    IN PutAt(c, e, k, k = Len(b) \/ b[k + 1].time # e.time)

(* The loops of resize(): a bucket is copied from its tail, and the buckets *)
(* in the order of the old indexes.                                        *)
CopiedBucket(c, b) ==
    LET run[k \in 0..Len(b)] ==
            IF k = 0 THEN c ELSE PutBefore(run[k - 1], b[Len(b) + 1 - k])
    IN run[Len(b)]

Copied(c, fresh) ==
    LET run[k \in 0..NBuckets(c)] ==
            IF k = 0 THEN fresh ELSE CopiedBucket(run[k - 1], c.buckets[k - 1])
    IN run[NBuckets(c)]

(* resize(), to another size or to another width *)
Resized(c, n, w, start) ==
    Copied(c, Empty(IF n < 4 THEN 4 ELSE n, w, start))

-----------------------------------------------------------------------------
(* The k-th bucket head() looks at *)
Looked(c, k) == (c.last + k) % NBuckets(c)

(* diff0_, diff1_, diff2_: how far from cal_clock_ the first event of the  *)
(* k-th bucket may be to be taken at once                                  *)
Horizon(c, k) ==
    CASE k = 0 -> (c.width * NBuckets(c)) \div 2
      [] k = 1 -> (c.width * NBuckets(c)) \div 2 + c.width
      [] OTHER -> c.width * NBuckets(c)

HeadOf(c, k) == c.buckets[Looked(c, k)][1]
Filled(c) == {k \in 0..NBuckets(c) - 1 : c.buckets[Looked(c, k)] # <<>>}

(* head(): the first bucket, but the last, whose first event is near       *)
(* enough, otherwise the bucket with the earliest event                    *)
Found(c, now) ==
    LET near == {k \in Filled(c) : /\ k < NBuckets(c) - 1
                                   /\ HeadOf(c, k).time - now < Horizon(c, k)}
    IN IF near # {} THEN Min(near)
       ELSE CHOOSE k \in Filled(c) :
              \A m \in Filled(c) : HeadOf(c, k).time <= HeadOf(c, m).time

-----------------------------------------------------------------------------
Init ==
    /\ buckets = [i \in 0..3 |-> <<>>]
    /\ count = [i \in 0..3 |-> 0]
    /\ width \in Widths
    /\ lastbucket = 0
    /\ calClock = 0
    /\ statQsize = 0
    /\ clock = 0
    /\ uid = 1
    /\ halted = FALSE

(* Mutant: head() went ahead and insert() does not go back. *)
Rewound_Never(c, t) == c

(* An event before cal_clock_, which head() may have put ahead of clock_ *)
Rewound(c, t) == IF calClock > t THEN [c EXCEPT !.last = Hash(c, t)] ELSE c

(* Scheduler::schedule() and insert() *)
Schedule ==
    /\ uid <= MaxUid
    /\ \E d \in Delays, w \in Widths :
         LET t == clock + d
             c == Put(Rewound(Cal, t), [time |-> t, uid |-> uid])
             at == IF calClock > t THEN t ELSE calClock
         IN /\ calClock' = at
            /\ IF c.stat > TopThreshold(c)
               THEN Become(Resized(c, 2 * NBuckets(c), w, at))
               ELSE w = width /\ Become(c)
    /\ uid' = uid + 1
    /\ UNCHANGED <<clock, halted>>

(* head() called without a deque() after it, as users of a scheduler that   *)
(* look at the next event may do: cal_clock_ and lastbucket_ go to it.     *)
Peek ==
    /\ Filled(Cal) # {}
    /\ LET k == Found(Cal, calClock) IN
         /\ calClock' = HeadOf(Cal, k).time
         /\ lastbucket' = Looked(Cal, k)
    /\ UNCHANGED <<buckets, count, width, statQsize, clock, uid, halted>>

(* Mutant: the event was the only one of its time if another follows. *)
Unlinked_NextOnly(c, i, j) ==
    LET b == c.buckets[i]
        only == Len(b) = 1 \/ b[(j % Len(b)) + 1].time # b[j].time
        one == IF only THEN 1 ELSE 0
    IN [c EXCEPT !.buckets[i] = RemoveAt(@, j), !.count[i] = @ - one,
                 !.stat = @ - one]

(* The j-th event leaves bucket i; its neighbours in the circular list     *)
(* tell whether it was the only one of its time.                           *)
Unlinked(c, i, j) ==
    LET b == c.buckets[i]
        next == b[(j % Len(b)) + 1]
        prev == b[IF j = 1 THEN Len(b) ELSE j - 1]
        only == Len(b) = 1 \/ (next.time # b[j].time /\ prev.time # b[j].time)
        one == IF only THEN 1 ELSE 0
    IN [c EXCEPT !.buckets[i] = RemoveAt(@, j), !.count[i] = @ - one,
                 !.stat = @ - one]

(* One round of run() with deque(): the width may be adjusted between      *)
(* finding the event and unlinking it, the size after.                     *)
Dispatch ==
    /\ ~halted
    /\ Filled(Cal) # {}
    /\ \E adjusted \in BOOLEAN, w1, w2 \in Widths :
         LET k == Found(Cal, calClock)
             e == HeadOf(Cal, k)
             c0 == [Cal EXCEPT !.last = Looked(Cal, k)]
             c1 == IF adjusted THEN Resized(c0, NBuckets(c0), w1, e.time) ELSE c0
             c2 == Unlinked(c1, c1.last, 1)
         IN /\ adjusted \/ w1 = width
            /\ clock' = e.time
            /\ calClock' = e.time
            /\ IF c2.stat < BotThreshold(c2)
               THEN Become(Resized(c2, NBuckets(c2) \div 2, w2, e.time))
               ELSE w2 = width /\ Become(c2)
    /\ UNCHANGED <<uid, halted>>

(* cancel() of an event that is pending *)
Cancel ==
    /\ \E i \in DOMAIN buckets : \E j \in DOMAIN buckets[i] :
         Become(Unlinked(Cal, i, j))
    /\ UNCHANGED <<calClock, clock, uid, halted>>

Halt == halted' = TRUE /\ UNCHANGED <<calendar, clock, uid>>
Resume == halted' = FALSE /\ UNCHANGED <<calendar, clock, uid>>

Next == Schedule \/ Peek \/ Dispatch \/ Cancel \/ Halt \/ Resume

Spec == Init /\ [][Next]_vars

-----------------------------------------------------------------------------
AllTimes == UNION {Times(buckets[i]) : i \in DOMAIN buckets}

(* The counters of distinct times, kept from the neighbours in the lists,  *)
(* stay true through insertions in two directions, removals and copies;    *)
(* the thresholds and the assertions of cancel() rely on them.             *)
CountsDistinct ==
    /\ \A i \in DOMAIN buckets : count[i] = Cardinality(Times(buckets[i]))
    /\ statQsize = Cardinality(AllTimes)

(* The events that are scheduled *)
Pending == UNION {ToSet(buckets[i]) : i \in DOMAIN buckets}
=============================================================================
