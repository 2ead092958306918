--------------------------- MODULE SchedulersProofs --------------------------
(***************************************************************************)
(* Proofs that each of the three schedulers is the queue of EventQueue,    *)
(* for any delays, any number of events, any widths and thresholds of the  *)
(* calendar.  A loop of the code is a function of the turns it has taken;  *)
(* a measure that shrinks with each turn shows that it ends in time.  The  *)
(* parts: loops; the heap; search trees, insert(), deque() and cancel() of *)
(* the splay tree; the calendar; the three of them as the queue.           *)
(***************************************************************************)
EXTENDS Schedulers, Sequences, FiniteSets, WellFoundedInduction,
        FiniteSetTheorems, SequenceTheorems, TLAPS

-----------------------------------------------------------------------------
(* Loops                                                                   *)

(* The order of the natural numbers, as a well-founded relation.           *)
LEMMA NatOrder ==
    \E R : /\ IsWellFoundedOn(R, Nat)
           /\ \A a, b \in Nat : a < b => <<a, b>> \in R
<1>1. IsWellFoundedOn(OpToRel(<, Nat), Nat)
  BY NatLessThanWellFounded, Zenon
<1>2. \A a, b \in Nat : a < b => <<a, b>> \in OpToRel(<, Nat)
  BY SMT DEF OpToRel
<1> QED
  BY <1>1, <1>2, Zenon

(* A nonempty set of natural numbers has a least element.                  *)
LEMMA LeastNumber ==
    ASSUME NEW S, S \subseteq Nat, S # {}
    PROVE  \E x \in S : \A y \in S : x <= y
<1>1. PICK R : /\ IsWellFoundedOn(R, Nat)
               /\ \A a, b \in Nat : a < b => <<a, b>> \in R
  BY NatOrder
<1>2. PICK x \in S : \A y \in S : ~(<<y, x>> \in R)
  <2>1. IsWellFoundedOn(R, Nat)
    BY <1>1, Zenon
  <2>2. \E x \in S : \A y \in S : ~(<<y, x>> \in R)
    BY ONLY <2>1, S \subseteq Nat, S # {}, WFMin, ZenonT(60)
  <2> QED
    BY <2>2, Zenon
<1>3. ASSUME NEW y \in S PROVE x <= y
  <2>1. x \in Nat /\ y \in Nat
    OBVIOUS
  <2>2. ~(y < x)
    BY <1>1, <1>2, <2>1
  <2> QED
    BY <2>1, <2>2
<1> QED
  BY <1>3

(* The numbers up to n are all in T if 0 is and T is closed under +1.      *)
LEMMA UpTo ==
    ASSUME NEW n \in Nat, NEW T, 0 \in T,
           \A k \in 1..n : k - 1 \in T => k \in T
    PROVE  0..n \subseteq T
<1> DEFINE S == {k \in 0..n : k \notin T}
<1> SUFFICES ASSUME S # {} PROVE FALSE
  OBVIOUS
<1>1. PICK k \in S : \A j \in S : k <= j
  <2>1. S \subseteq Nat
    OBVIOUS
  <2> HIDE DEF S
  <2> QED
    BY <2>1, LeastNumber
<1>2. k \in 1..n /\ k - 1 \notin S
  BY <1>1
<1> QED
  BY <1>1, <1>2

(* A loop starts with x0 and stays in X; its turn is the function F.       *)
Loops(X, F, x0) == x0 \in X /\ \A x \in X : F[x] \in X

(* n turns of it, as long as it stays in X                                 *)
IsRun(X, F, x0, n, g) ==
    /\ DOMAIN g = 0..n /\ g[0] = x0
    /\ \A k \in 1..n : g[k - 1] \in X => g[k] = F[g[k - 1]]

(* Turns do not leave D, and elsewhere get nearer to it, as the measure w  *)
(* says.                                                                   *)
Nears(X, F, D, w) ==
    \A x \in X : /\ w[x] \in Nat
                 /\ x \in D => F[x] \in D
                 /\ x \notin D => w[F[x]] < w[x]

(* A loop of any number of turns is a function, and never leaves X.        *)
LEMMA LoopExists ==
    ASSUME NEW X, NEW F, NEW x0, NEW n \in Nat, Loops(X, F, x0)
    PROVE  \E g : IsRun(X, F, x0, n, g) /\ g = [k \in 0..n |-> g[k]]
                   /\ \A k \in 0..n : g[k] \in X
<1> DEFINE T == {m \in 0..n : \E g \in [0..m -> X] : IsRun(X, F, x0, m, g)}
<1>1. 0 \in T
  <2> DEFINE g == [k \in 0..0 |-> x0]
  <2>1. g \in [0..0 -> X]
    BY DEF Loops
  <2>2. IsRun(X, F, x0, 0, g)
    BY DEF IsRun
  <2> HIDE DEF g
  <2> QED
    BY <2>1, <2>2
<1>2. ASSUME NEW m \in 1..n, m - 1 \in T PROVE m \in T
  <2>1. PICK g \in [0..m - 1 -> X] : IsRun(X, F, x0, m - 1, g)
    BY <1>2
  <2> DEFINE f == [k \in 0..m |-> IF k = m THEN F[g[m - 1]] ELSE g[k]]
  <2>2. f \in [0..m -> X]
    <3>1. ASSUME NEW k \in 0..m PROVE f[k] \in X
      <4>1. g[m - 1] \in X /\ (k # m => k \in 0..m - 1)
        OBVIOUS
      <4> QED
        BY <4>1 DEF Loops
    <3> QED
      BY <3>1
  <2>3. IsRun(X, F, x0, m, f)
    <3>1. ASSUME NEW k \in 1..m PROVE f[k] = F[f[k - 1]]
      <4>1. CASE k = m
        BY <4>1
      <4>2. CASE k # m
        <5>1. k \in 1..m - 1 /\ k - 1 # m /\ k - 1 \in 0..m
          BY <4>2
        <5> QED
          BY <2>1, <5>1 DEF IsRun
      <4> QED
        BY <4>1, <4>2
    <3>2. f[0] = x0 /\ DOMAIN f = 0..m
      BY <2>1 DEF IsRun
    <3> QED
      BY <3>1, <3>2 DEF IsRun
  <2> HIDE DEF f
  <2> QED
    BY <2>2, <2>3
<1>3. n \in T
  <2> HIDE DEF T
  <2>1. 0..n \subseteq T
    BY <1>1, <1>2, UpTo
  <2> QED
    BY <2>1
<1> QED
  BY <1>3

(* A loop whose measure is no more than n at first has ended after n turns.*)
LEMMA LoopEnds ==
    ASSUME NEW X, NEW F, NEW D, NEW w, NEW n \in Nat, NEW x0, NEW f,
           Loops(X, F, x0), Nears(X, F, D, w), w[x0] <= n,
           IsRun(X, F, x0, n, f)
    PROVE  f[n] \in X /\ f[n] \in D
<1> DEFINE T == {k \in Nat : f[k] \in X /\ (f[k] \in D \/ w[f[k]] + k <= n)}
<1>1. 0 \in T
  BY DEF Loops, Nears, IsRun
<1>2. ASSUME NEW k \in 1..n, k - 1 \in T PROVE k \in T
  <2> DEFINE x == f[k - 1]
             y == f[k]
  <2>1. x \in X /\ (x \in D \/ w[x] + (k - 1) <= n)
    BY <1>2
  <2>2. y = F[x] /\ y \in X
    BY <2>1 DEF Loops, IsRun
  <2>3. w[x] \in Nat /\ w[y] \in Nat
    BY <2>1, <2>2 DEF Nears
  <2>4. y \in D \/ w[y] < w[x]
    BY <2>1, <2>2 DEF Nears
  <2>5. x \in D => y \in D
    BY <2>1, <2>2 DEF Nears
  <2> HIDE DEF x, y
  <2>6. y \in D \/ w[y] + k <= n
    BY <2>1, <2>3, <2>4, <2>5
  <2> QED
    BY <2>2, <2>6 DEF y
<1>3. n \in T
  <2> HIDE DEF T
  <2>1. 0..n \subseteq T
    BY <1>1, <1>2, UpTo
  <2> QED
    BY <2>1
<1>4. f[n] \in X /\ (f[n] \in D \/ w[f[n]] = 0)
  BY <1>3 DEF Nears
<1> QED
  BY <1>4 DEF Loops, Nears

-----------------------------------------------------------------------------
(* The steps of EventQueue, from the events p to the events q              *)
Adds(p, q) ==
    /\ uid <= MaxUid
    /\ \E d \in Delays : q = p \cup {[time |-> clock + d, uid |-> uid]}
    /\ uid' = uid + 1
    /\ UNCHANGED <<clock, halted>>

Runs(p, q) ==
    \E e \in p :
        /\ ~halted
        /\ \A f \in p \ {e} : Queue!Earlier(e, f)
        /\ q = p \ {e}
        /\ clock' = e.time
        /\ UNCHANGED <<uid, halted>>

Drops(p, q) ==
    /\ \E e \in p : q = p \ {e}
    /\ UNCHANGED <<clock, uid, halted>>

Turns(p, q) ==
    /\ q = p
    /\ UNCHANGED <<clock, uid>>
    /\ halted' \in {TRUE, FALSE, halted}

Simulates(p, q) == Adds(p, q) \/ Runs(p, q) \/ Drops(p, q) \/ Turns(p, q)
(* What is in a sequence                                                   *)
Elements(h) == {h[i] : i \in 1..Len(h)}
(* The events there can be                                                 *)
Scheduled == [time : Nat, uid : Nat]

-----------------------------------------------------------------------------
(* The heap.                                                               *)

Entry == [time : Nat, skey : Nat, uid : Nat]

(* What the heap holds: entries told apart by their numbers, the second    *)
(* keys in the order of the numbers.                                       *)
Entries(h) ==
    /\ h \in Seq(Entry)
    /\ \A i \in 1..Len(h) : h[i].skey + 1 = h[i].uid
    /\ \A i, j \in 1..Len(h) : i # j => h[i].uid # h[j].uid

(* The order of the heap, but for the places in X and the children of Y    *)
OrderedBut(h, X, Y) ==
    \A j \in 2..Len(h) :
        j \notin X /\ Heap!Parent(j) \notin Y => Heap!Less(h[Heap!Parent(j)], h[j])

(* What is at place i may move: its parent is less than its children.      *)
Bridged(h, i) ==
    \A j \in 2..Len(h) :
        Heap!Parent(j) = i /\ i > 1 => Heap!Less(h[Heap!Parent(i)], h[j])

(* The parent of a place comes before it and has it as a child.            *)
LEMMA Parents ==
    ASSUME NEW j \in Nat, j >= 2
    PROVE  /\ Heap!Parent(j) \in 1..j - 1
           /\ \/ j = Heap!Left(Heap!Parent(j))
              \/ j = Heap!Right(Heap!Parent(j))
BY DEF Heap!Parent, Heap!Left, Heap!Right

(* The children of a place come after it and have it as their parent.      *)
LEMMA Children ==
    ASSUME NEW i \in Nat, i >= 1
    PROVE  /\ Heap!Left(i) \in Nat /\ Heap!Left(i) >= i + 1
           /\ Heap!Right(i) = Heap!Left(i) + 1
           /\ Heap!Parent(Heap!Left(i)) = i /\ Heap!Parent(Heap!Right(i)) = i
BY DEF Heap!Parent, Heap!Left, Heap!Right

(* The entries of a heap are in a strict total order.                      *)
LEMMA LessOrders ==
    ASSUME NEW h, Entries(h)
    PROVE  /\ \A i, j \in 1..Len(h) :
                i # j => (Heap!Less(h[i], h[j]) <=> ~Heap!Less(h[j], h[i]))
           /\ \A i, j, k \in 1..Len(h) :
                Heap!Less(h[i], h[j]) /\ Heap!Less(h[j], h[k]) => Heap!Less(h[i], h[k])
<1>1. \A i \in 1..Len(h) : h[i] \in Entry
  BY DEF Entries
<1>2. \A i \in 1..Len(h) : h[i].time \in Nat /\ h[i].skey \in Nat /\ h[i].uid \in Nat
  BY <1>1 DEF Entry
<1>3. \A i, j \in 1..Len(h) : i # j => h[i].skey # h[j].skey
  BY <1>2 DEF Entries
<1> QED
  BY <1>2, <1>3 DEF Heap!Less

(* heap_swap() moves two entries and nothing else.                         *)
LEMMA Swapped ==
    ASSUME NEW h, Entries(h), NEW i \in 1..Len(h), NEW j \in 1..Len(h)
    PROVE  LET g == Heap!Swap(h, i, j)
           IN  /\ Entries(g) /\ Len(g) = Len(h) /\ Elements(g) = Elements(h)
               /\ g[i] = h[j] /\ g[j] = h[i]
               /\ \A k \in 1..Len(h) : k \notin {i, j} => g[k] = h[k]
<1> DEFINE g == Heap!Swap(h, i, j)
<1>1. h \in Seq(Entry) /\ Len(h) \in Nat
  BY DEF Entries
<1>2. /\ g \in Seq(Entry) /\ Len(g) = Len(h)
      /\ g[i] = h[j] /\ g[j] = h[i]
      /\ \A k \in 1..Len(h) : k \notin {i, j} => g[k] = h[k]
  BY <1>1 DEF Heap!Swap
<1> HIDE DEF g
<1>3. Entries(g)
  BY <1>2 DEF Entries
<1>4. Elements(g) = Elements(h)
  <2>1. ASSUME NEW k \in 1..Len(h) PROVE g[k] \in Elements(h) /\ h[k] \in Elements(g)
    <3>1. CASE k = i
      BY <3>1, <1>2 DEF Elements
    <3>2. CASE k = j
      BY <3>2, <1>2 DEF Elements
    <3>3. CASE k \notin {i, j}
      BY <3>3, <1>2 DEF Elements
    <3> QED
      BY <3>1, <3>2, <3>3
  <2> QED
    BY <2>1, <1>2 DEF Elements
<1> QED
  BY <1>2, <1>3, <1>4 DEF g

-----------------------------------------------------------------------------
(* The loop of heap_insert() and that of heap_delete(): what is at place i *)
(* goes up, and the order holds elsewhere.                                 *)

Rising(h) ==
    {s \in [h : Seq(Entry), i : Nat] :
       /\ Entries(s.h) /\ Len(s.h) = Len(h) /\ Elements(s.h) = Elements(h)
       /\ s.i \in 1..Len(h)
       /\ OrderedBut(s.h, {s.i}, {})
       /\ Bridged(s.h, s.i)}

Risen(h) == {s \in Rising(h) : OrderedBut(s.h, {}, {})}

(* A turn of the loop of heap_insert() goes up, or the loop has ended      *)
(* with the heap in order.                                                 *)
LEMMA UpTurn ==
    ASSUME NEW h, NEW s \in Rising(h)
    PROVE  /\ Heap!Up(s) \in Rising(h)
           /\ Heap!Up(s) # s => Heap!Up(s).i < s.i
           /\ Heap!Up(s) = s => s \in Risen(h)
<1> DEFINE p == Heap!Parent(s.i)
           g == Heap!Swap(s.h, s.i, p)
           n == Len(h)
<1>1. /\ s = [h |-> s.h, i |-> s.i] /\ Entries(s.h) /\ Len(s.h) = n /\ n \in Nat
      /\ Elements(s.h) = Elements(h) /\ s.i \in 1..n
      /\ OrderedBut(s.h, {s.i}, {}) /\ Bridged(s.h, s.i)
  BY DEF Rising, Entries
<1>2. CASE s.i > 1 /\ Heap!Less(s.h[s.i], s.h[p])
  <2>1. Heap!Up(s) = [h |-> g, i |-> p]
    BY <1>2 DEF Heap!Up
  <2>2. p \in 1..s.i - 1
    BY <1>1, <1>2, Parents
  <2>3. /\ Entries(g) /\ Len(g) = n /\ Elements(g) = Elements(h)
        /\ g[s.i] = s.h[p] /\ g[p] = s.h[s.i]
        /\ \A k \in 1..n : k \notin {s.i, p} => g[k] = s.h[k]
    <3>1. p \in 1..Len(s.h) /\ s.i \in 1..Len(s.h)
      BY <1>1, <2>2
    <3> HIDE DEF p
    <3>2. /\ Entries(g) /\ Len(g) = Len(s.h) /\ Elements(g) = Elements(s.h)
          /\ g[s.i] = s.h[p] /\ g[p] = s.h[s.i]
          /\ \A k \in 1..Len(s.h) : k \notin {s.i, p} => g[k] = s.h[k]
      BY <1>1, <3>1, Swapped
    <3> QED
      BY <1>1, <3>2
  <2> HIDE DEF g, p
  <2>5. ASSUME NEW j \in 2..n, j # p PROVE Heap!Less(g[Heap!Parent(j)], g[j])
    <3> DEFINE q == Heap!Parent(j)
    <3>1. q \in 1..j - 1
      BY Parents
    <3>2. CASE j = s.i
      BY <3>2, <1>2, <2>3 DEF p
    <3>3. CASE j # s.i /\ q = s.i
      <4>1. Heap!Less(s.h[p], s.h[j])
        BY <3>3, <1>1, <1>2 DEF Bridged, p
      <4>2. g[q] = s.h[p] /\ g[j] = s.h[j]
        BY <3>3, <2>3, <2>5
      <4> QED
        BY <4>1, <4>2
    <3>4. CASE j # s.i /\ q = p
      <4>1. Heap!Less(s.h[p], s.h[j])
        BY <3>4, <1>1 DEF OrderedBut
      <4>2. Heap!Less(s.h[s.i], s.h[j])
        <5>1. p \in 1..n /\ s.i \in 1..n /\ j \in 1..n
          BY <1>1, <2>2
        <5> QED
          BY <4>1, <1>1, <1>2, <5>1, LessOrders DEF p
      <4>3. g[q] = s.h[s.i] /\ g[j] = s.h[j]
        BY <3>4, <2>3, <2>5
      <4> QED
        BY <4>2, <4>3
    <3>5. CASE j # s.i /\ q \notin {s.i, p}
      <4>1. Heap!Less(s.h[q], s.h[j])
        BY <3>5, <1>1 DEF OrderedBut
      <4>2. g[q] = s.h[q] /\ g[j] = s.h[j]
        BY <3>1, <3>5, <2>3, <2>5
      <4> QED
        BY <4>1, <4>2
    <3> QED
      BY <3>2, <3>3, <3>4, <3>5
  <2>6. OrderedBut(g, {p}, {})
    BY <2>3, <2>5 DEF OrderedBut
  <2>7. Bridged(g, p)
    <3> SUFFICES ASSUME NEW j \in 2..n, Heap!Parent(j) = p, p > 1
                 PROVE  Heap!Less(g[Heap!Parent(p)], g[j])
      BY <2>3 DEF Bridged
    <3> DEFINE q == Heap!Parent(p)
    <3>1. q \in 1..p - 1
      BY <1>1, <2>2, Parents
    <3>2. Heap!Less(s.h[q], s.h[p])
      BY <1>1, <2>2 DEF OrderedBut
    <3>3. g[q] = s.h[q]
      BY <2>2, <2>3, <3>1, <1>1
    <3>4. CASE j = s.i
      BY <3>2, <3>3, <3>4, <2>3
    <3>5. CASE j # s.i
      <4>1. Heap!Less(s.h[p], s.h[j]) /\ j # p
        <5>1. p \in 1..j - 1
          BY Parents
        <5> QED
          BY <5>1, <3>5, <1>1, <2>2 DEF OrderedBut
      <4>2. q \in 1..n /\ p \in 1..n /\ j \in 1..n
        BY <1>1, <2>2, <3>1
      <4>3. Heap!Less(s.h[q], s.h[j])
        BY <3>2, <4>1, <4>2, <1>1, LessOrders
      <4> QED
        BY <4>1, <4>3, <3>3, <3>5, <2>3
    <3> QED
      BY <3>4, <3>5
  <2>8. Heap!Up(s) \in Rising(h) /\ Heap!Up(s).i < s.i
    <3>1. p \in Nat /\ p \in 1..n /\ g \in Seq(Entry) /\ p < s.i
      BY <2>2, <2>3, <1>1 DEF Entries
    <3> DEFINE u == [h |-> g, i |-> p]
    <3>2. u \in [h : Seq(Entry), i : Nat] /\ u.h = g /\ u.i = p
      BY <3>1
    <3> HIDE DEF u
    <3>3. u \in Rising(h)
      BY <2>3, <2>6, <2>7, <3>1, <3>2 DEF Rising
    <3> QED
      BY <2>1, <3>1, <3>2, <3>3 DEF u
  <2> QED
    BY <2>8, <1>1
<1>3. CASE ~(s.i > 1 /\ Heap!Less(s.h[s.i], s.h[p]))
  <2>1. Heap!Up(s) = s
    BY <1>3 DEF Heap!Up
  <2>2. ASSUME s.i > 1 PROVE Heap!Less(s.h[p], s.h[s.i])
    <3>1. p \in 1..s.i - 1
      BY <1>1, <2>2, Parents
    <3>2. p \in 1..n /\ s.i \in 1..n /\ p # s.i
      BY <3>1, <1>1
    <3> QED
      BY <3>2, <1>1, <1>3, <2>2, LessOrders
  <2>3. OrderedBut(s.h, {}, {})
    BY <2>2, <1>1 DEF OrderedBut
  <2> QED
    BY <2>1, <2>3 DEF Risen
<1> QED
  BY <1>2, <1>3

(* Nothing moves up in a heap that is in order.                            *)
LEMMA UpStays ==
    ASSUME NEW h, NEW s \in Risen(h)
    PROVE  Heap!Up(s) = s
<1>1. /\ Entries(s.h) /\ s.i \in 1..Len(s.h) /\ Len(s.h) \in Nat
      /\ OrderedBut(s.h, {}, {})
  BY DEF Risen, Rising, Entries
<1>2. CASE s.i > 1
  <2>1. Heap!Parent(s.i) \in 1..s.i - 1
    BY <1>1, <1>2, Parents
  <2>2. Heap!Less(s.h[Heap!Parent(s.i)], s.h[s.i])
    BY <1>1, <1>2 DEF OrderedBut
  <2>3. ~Heap!Less(s.h[s.i], s.h[Heap!Parent(s.i)])
    <3>1. Heap!Parent(s.i) \in 1..Len(s.h) /\ Heap!Parent(s.i) # s.i
      BY <2>1, <1>1
    <3> QED
      BY <3>1, <2>2, <1>1, LessOrders
  <2> QED
    BY <2>3 DEF Heap!Up
<1> QED
  BY <1>2 DEF Heap!Up

(* heap_insert() puts the heap in order again.                             *)
LEMMA SiftedUp ==
    ASSUME NEW h, NEW i, [h |-> h, i |-> i] \in Rising(h)
    PROVE  LET g == Heap!SiftUp(h, i)
           IN  Entries(g) /\ OrderedBut(g, {}, {}) /\ Elements(g) = Elements(h)
<1> DEFINE x0 == [h |-> h, i |-> i]
           X == Rising(h)
           F == [s \in X |-> Heap!Up(s)]
           w == [s \in X |-> s.i]
           P(f) == f = [k \in 0..i |-> IF k = 0 THEN x0 ELSE Heap!Up(f[k - 1])]
           c == CHOOSE f : P(f)
<1>1. i \in Nat /\ Loops(X, F, x0)
  BY UpTurn DEF Rising, Loops
<1>2. Nears(X, F, Risen(h), w) /\ w[x0] <= i
  <2>1. \A s \in X : F[s] = Heap!Up(s) /\ w[s] = s.i /\ w[s] \in Nat
    BY DEF Rising
  <2>2. \A s \in X : F[s] \in X /\ w[F[s]] = F[s].i
    BY <2>1, UpTurn
  <2>3. \A s \in X : s \in Risen(h) => F[s] \in Risen(h)
    BY <2>1, UpStays
  <2>4. \A s \in X : s \notin Risen(h) => w[F[s]] < w[s]
    BY <2>1, <2>2, UpTurn
  <2>5. w[x0] = i
    BY DEF Rising
  <2> HIDE DEF w, F
  <2> QED
    BY <2>1, <2>3, <2>4, <2>5, <1>1 DEF Nears
<1>3. PICK g : /\ IsRun(X, F, x0, i, g) /\ g = [k \in 0..i |-> g[k]]
               /\ \A k \in 0..i : g[k] \in X
  <2> HIDE DEF F, x0, X
  <2> QED
    BY <1>1, LoopExists
<1>4. P(g)
  <2>1. \A k \in 1..i : k - 1 \in 0..i /\ g[k - 1] \in X /\ F[g[k - 1]] = Heap!Up(g[k - 1])
    BY <1>1, <1>3
  <2> HIDE DEF F, X, x0
  <2>2. g[0] = x0 /\ \A k \in 1..i : g[k] = Heap!Up(g[k - 1])
    BY <2>1, <1>3 DEF IsRun
  <2>3. \A k \in 0..i : g[k] = IF k = 0 THEN x0 ELSE Heap!Up(g[k - 1])
    <3>1. \A k \in 0..i : k # 0 => k \in 1..i
      BY <1>1
    <3> QED
      BY <2>2, <3>1
  <2>4. g = [k \in 0..i |-> g[k]]
    BY <1>3
  <2> QED
    BY ONLY <2>3, <2>4
<1>5. P(c)
  BY <1>4
<1>6. IsRun(X, F, x0, i, c)
  <2> HIDE DEF c, x0
  <2> QED
    BY <1>5, <1>1 DEF IsRun
<1>7. c[i] \in Risen(h)
  <2> HIDE DEF c, x0, F, w, X
  <2> QED
    BY <1>1, <1>2, <1>6, LoopEnds
<1>8. Heap!SiftUp(h, i) = c[i].h
  BY DEF Heap!SiftUp
<1> HIDE DEF c
<1> QED
  BY <1>7, <1>8 DEF Risen, Rising

-----------------------------------------------------------------------------
(* heap_delete() takes what is at place i of a heap in order to the root.  *)

Raising(h, i) ==
    {s \in [h : Seq(Entry), i : Nat] :
       /\ Entries(s.h) /\ Len(s.h) = Len(h) /\ Elements(s.h) = Elements(h)
       /\ s.i \in 1..Len(h) /\ s.h[s.i] = h[i]
       /\ OrderedBut(s.h, {s.i}, {s.i})
       /\ Bridged(s.h, s.i)}

Raised(h, i) == {s \in Raising(h, i) : s.i = 1}

(* A turn of the loop of heap_delete() goes up until it is at the root.    *)
LEMMA RaiseTurn ==
    ASSUME NEW h, NEW i, NEW s \in Raising(h, i)
    PROVE  /\ Heap!Raise(s) \in Raising(h, i)
           /\ s \notin Raised(h, i) => Heap!Raise(s).i < s.i
           /\ s \in Raised(h, i) => Heap!Raise(s) = s
<1> DEFINE p == Heap!Parent(s.i)
           g == Heap!Swap(s.h, s.i, p)
           n == Len(h)
<1>1. /\ s = [h |-> s.h, i |-> s.i] /\ Entries(s.h) /\ Len(s.h) = n /\ n \in Nat
      /\ Elements(s.h) = Elements(h) /\ s.i \in 1..n /\ s.h[s.i] = h[i]
      /\ OrderedBut(s.h, {s.i}, {s.i}) /\ Bridged(s.h, s.i)
  BY DEF Raising, Entries
<1>2. CASE s.i > 1
  <2>1. Heap!Raise(s) = [h |-> g, i |-> p]
    BY <1>2 DEF Heap!Raise
  <2>2. p \in 1..s.i - 1
    BY <1>1, <1>2, Parents
  <2>3. /\ Entries(g) /\ Len(g) = n /\ Elements(g) = Elements(h)
        /\ g[s.i] = s.h[p] /\ g[p] = s.h[s.i]
        /\ \A k \in 1..n : k \notin {s.i, p} => g[k] = s.h[k]
    <3>1. p \in 1..Len(s.h) /\ s.i \in 1..Len(s.h)
      BY <1>1, <2>2
    <3> HIDE DEF p
    <3>2. /\ Entries(g) /\ Len(g) = Len(s.h) /\ Elements(g) = Elements(s.h)
          /\ g[s.i] = s.h[p] /\ g[p] = s.h[s.i]
          /\ \A k \in 1..Len(s.h) : k \notin {s.i, p} => g[k] = s.h[k]
      BY <1>1, <3>1, Swapped
    <3> QED
      BY <1>1, <3>2
  <2> HIDE DEF g, p
  <2>4. ASSUME NEW j \in 2..n, j # p, Heap!Parent(j) # p
        PROVE  Heap!Less(g[Heap!Parent(j)], g[j])
    <3> DEFINE q == Heap!Parent(j)
    <3>1. q \in 1..j - 1 /\ j # s.i
      BY <2>4, Parents DEF p
    <3>2. CASE q = s.i
      <4>1. Heap!Less(s.h[p], s.h[j])
        BY <3>2, <1>1, <1>2 DEF Bridged, p
      <4>2. g[q] = s.h[p] /\ g[j] = s.h[j]
        BY <3>1, <3>2, <2>3, <2>4
      <4> QED
        BY <4>1, <4>2
    <3>3. CASE q # s.i
      <4>1. Heap!Less(s.h[q], s.h[j])
        BY <3>1, <3>3, <1>1 DEF OrderedBut
      <4>2. g[q] = s.h[q] /\ g[j] = s.h[j]
        BY <3>1, <3>3, <2>3, <2>4
      <4> QED
        BY <4>1, <4>2
    <3> QED
      BY <3>2, <3>3
  <2>5. OrderedBut(g, {p}, {p})
    BY <2>3, <2>4 DEF OrderedBut
  <2>6. Bridged(g, p)
    <3> SUFFICES ASSUME NEW j \in 2..n, Heap!Parent(j) = p, p > 1
                 PROVE  Heap!Less(g[Heap!Parent(p)], g[j])
      BY <2>3 DEF Bridged
    <3> DEFINE q == Heap!Parent(p)
    <3>1. q \in 1..p - 1
      BY <1>1, <2>2, Parents
    <3>2. Heap!Less(s.h[q], s.h[p])
      BY <1>1, <2>2, <3>1 DEF OrderedBut
    <3>3. g[q] = s.h[q]
      BY <2>2, <2>3, <3>1, <1>1
    <3>4. CASE j = s.i
      BY <3>2, <3>3, <3>4, <2>3
    <3>5. CASE j # s.i
      <4>1. Heap!Less(s.h[p], s.h[j]) /\ j # p
        <5>1. p \in 1..j - 1
          BY Parents
        <5> QED
          BY <5>1, <3>5, <1>1, <2>2 DEF OrderedBut
      <4>2. q \in 1..n /\ p \in 1..n /\ j \in 1..n
        BY <1>1, <2>2, <3>1
      <4>3. Heap!Less(s.h[q], s.h[j])
        BY <3>2, <4>1, <4>2, <1>1, LessOrders
      <4> QED
        BY <4>1, <4>3, <3>3, <3>5, <2>3
    <3> QED
      BY <3>4, <3>5
  <2>7. p \in Nat /\ p \in 1..n /\ g \in Seq(Entry) /\ p < s.i
    BY <2>2, <2>3, <1>1 DEF Entries
  <2> DEFINE u == [h |-> g, i |-> p]
  <2>8. u \in [h : Seq(Entry), i : Nat] /\ u.h = g /\ u.i = p
    BY <2>7
  <2> HIDE DEF u
  <2>9. u \in Raising(h, i)
    BY <1>1, <2>3, <2>5, <2>6, <2>7, <2>8 DEF Raising
  <2>10. Heap!Raise(s) = u /\ u.i < s.i /\ s \notin Raised(h, i)
    BY <1>2, <2>1, <2>7, <2>8 DEF u, Raised
  <2> QED
    BY <2>9, <2>10
<1>3. CASE ~(s.i > 1)
  BY <1>1, <1>3 DEF Heap!Raise, Raised
<1> QED
  BY <1>2, <1>3

(* heap_delete() brings the entry to the root, and disorders the root      *)
(* alone.                                                                  *)
LEMMA TakenToRoot ==
    ASSUME NEW h, NEW i \in 1..Len(h), Entries(h), OrderedBut(h, {}, {})
    PROVE  LET g == Heap!ToRoot(h, i)
           IN  /\ Entries(g) /\ Len(g) = Len(h) /\ Elements(g) = Elements(h)
               /\ g[1] = h[i] /\ OrderedBut(g, {1}, {1})
<1>0. [h |-> h, i |-> i] \in Raising(h, i)
  <2>1. h \in Seq(Entry) /\ Len(h) \in Nat
    BY DEF Entries
  <2>2. OrderedBut(h, {i}, {i})
    BY DEF OrderedBut
  <2>3. Bridged(h, i)
    <3> SUFFICES ASSUME NEW j \in 2..Len(h), Heap!Parent(j) = i, i > 1
                 PROVE  Heap!Less(h[Heap!Parent(i)], h[j])
      BY DEF Bridged
    <3>1. Heap!Parent(i) \in 1..Len(h) /\ j \in 1..Len(h)
      BY <2>1, Parents
    <3>2. Heap!Less(h[Heap!Parent(i)], h[i]) /\ Heap!Less(h[i], h[j])
      BY <2>1 DEF OrderedBut
    <3> QED
      BY <3>1, <3>2, LessOrders
  <2> DEFINE u == [h |-> h, i |-> i]
  <2>4. u \in [h : Seq(Entry), i : Nat] /\ u.h = h /\ u.i = i
    BY <2>1
  <2> HIDE DEF u
  <2>5. u \in Raising(h, i)
    BY <2>1, <2>2, <2>3, <2>4 DEF Raising
  <2> QED
    BY <2>5 DEF u
<1> DEFINE x0 == [h |-> h, i |-> i]
           X == Raising(h, i)
           F == [s \in X |-> Heap!Raise(s)]
           w == [s \in X |-> s.i]
           P(f) == f = [k \in 0..i |-> IF k = 0 THEN x0 ELSE Heap!Raise(f[k - 1])]
           c == CHOOSE f : P(f)
<1>1. i \in Nat /\ Loops(X, F, x0)
  BY <1>0, RaiseTurn DEF Raising, Loops
<1>2. Nears(X, F, Raised(h, i), w) /\ w[x0] <= i
  <2>1. \A s \in X : F[s] = Heap!Raise(s) /\ w[s] = s.i /\ w[s] \in Nat
    BY DEF Raising
  <2>2. \A s \in X : F[s] \in X
    BY <2>1, RaiseTurn
  <2>3. \A s \in X : s \in Raised(h, i) => F[s] \in Raised(h, i)
    BY <2>1, RaiseTurn
  <2>4. \A s \in X : s \notin Raised(h, i) => w[F[s]] < w[s]
    BY <2>1, <2>2, RaiseTurn
  <2>5. w[x0] <= i
    BY <1>0, <1>1, <2>1 DEF Loops
  <2> HIDE DEF w, F
  <2> QED
    BY <2>1, <2>3, <2>4, <2>5, <1>1 DEF Nears
<1>3. PICK g : /\ IsRun(X, F, x0, i, g) /\ g = [k \in 0..i |-> g[k]]
               /\ \A k \in 0..i : g[k] \in X
  <2> HIDE DEF F, x0, X
  <2> QED
    BY <1>1, LoopExists
<1>4. P(g)
  <2>1. \A k \in 1..i : /\ k - 1 \in 0..i /\ g[k - 1] \in X
                        /\ F[g[k - 1]] = Heap!Raise(g[k - 1])
    BY <1>1, <1>3
  <2> HIDE DEF F, X, x0
  <2>2. g[0] = x0 /\ \A k \in 1..i : g[k] = Heap!Raise(g[k - 1])
    BY <2>1, <1>3 DEF IsRun
  <2>3. \A k \in 0..i : g[k] = IF k = 0 THEN x0 ELSE Heap!Raise(g[k - 1])
    <3>1. \A k \in 0..i : k # 0 => k \in 1..i
      BY <1>1
    <3> QED
      BY <2>2, <3>1
  <2>4. g = [k \in 0..i |-> g[k]]
    BY <1>3
  <2> QED
    BY ONLY <2>3, <2>4
<1>5. P(c)
  BY <1>4
<1>6. IsRun(X, F, x0, i, c)
  <2> HIDE DEF c, x0
  <2> QED
    BY <1>5, <1>1 DEF IsRun
<1>7. c[i] \in Raised(h, i)
  <2> HIDE DEF c, x0, F, w, X
  <2> QED
    BY <1>1, <1>2, <1>6, LoopEnds
<1>8. Heap!ToRoot(h, i) = c[i].h
  BY DEF Heap!ToRoot
<1> HIDE DEF c
<1> QED
  BY <1>7, <1>8 DEF Raised, Raising


-----------------------------------------------------------------------------
(* heap_extract_min(): what is at place i goes down.                       *)

Sinking(h) ==
    {s \in [h : Seq(Entry), i : Nat] :
       /\ Entries(s.h) /\ Len(s.h) = Len(h) /\ Elements(s.h) = Elements(h)
       /\ s.i \in 1..Len(h)
       /\ OrderedBut(s.h, {}, {s.i})
       /\ Bridged(s.h, s.i)}

Sunk(h) == {s \in Sinking(h) : OrderedBut(s.h, {}, {})}

(* heap_extract_min() goes on with the child that is no greater than the   *)
(* other one, if there is another one.                                     *)
LEMMA SmallerOfChildren ==
    ASSUME NEW h, Entries(h), NEW i \in 1..Len(h), Heap!Left(i) <= Len(h)
    PROVE  LET x == Heap!SmallerChild(h, i)
           IN  /\ x \in i + 1..Len(h) /\ Heap!Parent(x) = i
               /\ \A j \in 2..Len(h) :
                    Heap!Parent(j) = i /\ j # x => Heap!Less(h[x], h[j])
<1> DEFINE x == Heap!SmallerChild(h, i)
           l == Heap!Left(i)
           r == Heap!Right(i)
<1>1. Len(h) \in Nat /\ i \in Nat /\ i >= 1
  BY DEF Entries
<1>2. /\ l \in i + 1..Len(h) /\ r = l + 1
      /\ Heap!Parent(l) = i /\ Heap!Parent(r) = i
  BY <1>1, Children
<1>3. \A j \in 2..Len(h) : Heap!Parent(j) = i => j = l \/ j = r
  BY <1>1, Parents
<1>4. /\ x \in i + 1..Len(h) /\ Heap!Parent(x) = i
      /\ \A j \in 2..Len(h) :
           Heap!Parent(j) = i /\ j # x => Heap!Less(h[x], h[j])
  <2>1. CASE r <= Len(h) /\ ~Heap!Less(h[l], h[r])
    <3>1. x = r
      BY <2>1 DEF Heap!SmallerChild
    <3>2. Heap!Less(h[r], h[l])
      <4>1. l \in 1..Len(h) /\ r \in 1..Len(h) /\ l # r
        BY <1>1, <1>2, <2>1
      <4> HIDE DEF l, r
      <4> QED
        BY <4>1, <2>1, LessOrders
    <3> HIDE DEF l, r, x
    <3>3. r \in i + 1..Len(h)
      BY <1>1, <1>2, <2>1
    <3> QED
      BY <3>1, <3>2, <3>3, <1>2, <1>3
  <2>2. CASE ~(r <= Len(h) /\ ~Heap!Less(h[l], h[r]))
    <3>1. x = l
      BY <2>2 DEF Heap!SmallerChild
    <3> HIDE DEF l, r, x
    <3>2. ASSUME NEW j \in 2..Len(h), j = r PROVE Heap!Less(h[l], h[j])
      BY <2>2, <3>2
    <3> QED
      BY <3>1, <3>2, <1>2, <1>3
  <2> QED
    BY <2>1, <2>2
<1> QED
  BY <1>4

(* A turn of the loop of heap_extract_min() goes down, or it has ended.    *)
LEMMA DownTurn ==
    ASSUME NEW h, NEW s \in Sinking(h)
    PROVE  /\ Heap!Down(s) \in Sinking(h)
           /\ s \notin Sunk(h) => Heap!Down(s).i > s.i
           /\ s \in Sunk(h) => Heap!Down(s) = s
<1> DEFINE x == Heap!SmallerChild(s.h, s.i)
           g == Heap!Swap(s.h, s.i, x)
           n == Len(h)
<1>1. /\ s = [h |-> s.h, i |-> s.i] /\ Entries(s.h) /\ Len(s.h) = n /\ n \in Nat
      /\ Elements(s.h) = Elements(h) /\ s.i \in 1..n
      /\ OrderedBut(s.h, {}, {s.i}) /\ Bridged(s.h, s.i)
  BY DEF Sinking, Entries
<1>2. ASSUME Heap!Left(s.i) <= n
      PROVE  /\ x \in s.i + 1..n /\ Heap!Parent(x) = s.i
             /\ \A j \in 2..n :
                  Heap!Parent(j) = s.i /\ j # x => Heap!Less(s.h[x], s.h[j])
  <2>1. s.i \in 1..Len(s.h) /\ Heap!Left(s.i) <= Len(s.h)
    BY <1>1, <1>2
  <2> QED
    BY <1>1, <2>1, SmallerOfChildren
<1>3. CASE Heap!Left(s.i) <= n /\ Heap!Less(s.h[x], s.h[s.i])
  <2>1. Heap!Down(s) = [h |-> g, i |-> x]
    BY <1>1, <1>3 DEF Heap!Down
  <2>2. /\ x \in s.i + 1..n /\ Heap!Parent(x) = s.i
        /\ \A j \in 2..n :
             Heap!Parent(j) = s.i /\ j # x => Heap!Less(s.h[x], s.h[j])
    BY <1>2, <1>3
  <2>3. /\ Entries(g) /\ Len(g) = n /\ Elements(g) = Elements(h)
        /\ g[s.i] = s.h[x] /\ g[x] = s.h[s.i]
        /\ \A k \in 1..n : k \notin {s.i, x} => g[k] = s.h[k]
    <3>1. x \in 1..Len(s.h) /\ s.i \in 1..Len(s.h)
      BY <1>1, <2>2
    <3> HIDE DEF x
    <3>2. /\ Entries(g) /\ Len(g) = Len(s.h) /\ Elements(g) = Elements(s.h)
          /\ g[s.i] = s.h[x] /\ g[x] = s.h[s.i]
          /\ \A k \in 1..Len(s.h) : k \notin {s.i, x} => g[k] = s.h[k]
      BY <1>1, <3>1, Swapped
    <3> QED
      BY <1>1, <3>2
  <2> HIDE DEF g, x
  <2>4. ASSUME NEW j \in 2..n, Heap!Parent(j) # x
        PROVE  Heap!Less(g[Heap!Parent(j)], g[j])
    <3> DEFINE q == Heap!Parent(j)
    <3>1. q \in 1..j - 1
      BY Parents
    <3>2. CASE j = x
      BY <3>2, <1>3, <2>2, <2>3
    <3>3. CASE j = s.i
      <4>1. x \in 2..n /\ s.i > 1
        BY <1>1, <2>2, <3>3
      <4>2. Heap!Less(s.h[q], s.h[x])
        BY <4>1, <3>3, <1>1, <2>2 DEF Bridged
      <4>3. g[q] = s.h[q]
        BY <3>1, <3>3, <1>1, <2>2, <2>3
      <4> QED
        BY <4>2, <4>3, <3>3, <2>3
    <3>4. CASE j \notin {x, s.i} /\ q = s.i
      BY <3>4, <2>2, <2>3
    <3>5. CASE j \notin {x, s.i} /\ q # s.i
      <4>1. Heap!Less(s.h[q], s.h[j])
        BY <3>5, <1>1 DEF OrderedBut
      <4>2. g[q] = s.h[q] /\ g[j] = s.h[j]
        BY <3>1, <3>5, <2>3, <2>4
      <4> QED
        BY <4>1, <4>2
    <3> QED
      BY <3>2, <3>3, <3>4, <3>5
  <2>5. OrderedBut(g, {}, {x})
    BY <2>3, <2>4 DEF OrderedBut
  <2>6. Bridged(g, x)
    <3> SUFFICES ASSUME NEW j \in 2..n, Heap!Parent(j) = x
                 PROVE  Heap!Less(g[Heap!Parent(x)], g[j])
      BY <2>3 DEF Bridged
    <3>1. x \in 1..j - 1 /\ x > s.i
      BY <1>1, <2>2, Parents
    <3>2. Heap!Less(s.h[x], s.h[j])
      BY <3>1, <1>1 DEF OrderedBut
    <3>3. g[j] = s.h[j] /\ g[Heap!Parent(x)] = s.h[x]
      BY <1>1, <2>2, <2>3, <3>1
    <3> QED
      BY <3>2, <3>3
  <2>7. x \in Nat /\ x \in 1..n /\ g \in Seq(Entry) /\ x > s.i
    BY <2>2, <2>3, <1>1 DEF Entries
  <2> DEFINE u == [h |-> g, i |-> x]
  <2>8. u \in [h : Seq(Entry), i : Nat] /\ u.h = g /\ u.i = x
    BY <2>7
  <2> HIDE DEF u
  <2>9. u \in Sinking(h)
    BY <2>3, <2>5, <2>6, <2>7, <2>8 DEF Sinking
  <2>10. s \notin Sunk(h)
    <3>1. SUFFICES ASSUME OrderedBut(s.h, {}, {}) PROVE FALSE
      BY DEF Sunk
    <3>2. x \in 2..n /\ x \in 1..n /\ x # s.i
      BY <1>1, <2>2
    <3>3. Heap!Less(s.h[s.i], s.h[x])
      BY <3>1, <3>2, <2>2, <1>1 DEF OrderedBut
    <3> QED
      BY <3>2, <3>3, <1>1, <1>3, LessOrders
  <2> QED
    BY <2>1, <2>7, <2>8, <2>9, <2>10 DEF u
<1>4. CASE ~(Heap!Left(s.i) <= n /\ Heap!Less(s.h[x], s.h[s.i]))
  <2>1. Heap!Down(s) = s
    BY <1>1, <1>4 DEF Heap!Down
  <2>2. ASSUME NEW j \in 2..n, Heap!Parent(j) = s.i
        PROVE  Heap!Less(s.h[s.i], s.h[j])
    <3>1. Heap!Left(s.i) <= n
      <4>1. j = Heap!Left(s.i) \/ j = Heap!Left(s.i) + 1
        BY <1>1, <2>2, Parents, Children
      <4>2. Heap!Left(s.i) \in Nat
        BY <1>1, Children
      <4> QED
        BY <4>1, <4>2
    <3>2. /\ x \in s.i + 1..n
          /\ j # x => Heap!Less(s.h[x], s.h[j])
      BY <3>1, <1>2, <2>2
    <3> HIDE DEF x
    <3>3. x \in 1..n /\ j \in 1..n /\ x # s.i /\ s.i \in 1..n
      BY <3>2, <1>1
    <3>4. Heap!Less(s.h[s.i], s.h[x])
      BY <3>1, <3>3, <1>1, <1>4, LessOrders
    <3> QED
      BY <3>2, <3>3, <3>4, <1>1, LessOrders
  <2>3. OrderedBut(s.h, {}, {})
    BY <2>2, <1>1 DEF OrderedBut
  <2> QED
    BY <2>1, <2>3 DEF Sunk
<1> QED
  BY <1>3, <1>4

(* A heap in order but for its root is in order after the loop.            *)
LEMMA SiftedDown ==
    ASSUME NEW h, Entries(h), Len(h) > 0, OrderedBut(h, {}, {1})
    PROVE  LET g == Heap!SiftDown(h)
           IN  Entries(g) /\ OrderedBut(g, {}, {}) /\ Elements(g) = Elements(h)
<1>0. [h |-> h, i |-> 1] \in Sinking(h) /\ Len(h) \in Nat
  <2>1. h \in Seq(Entry) /\ Len(h) \in Nat
    BY DEF Entries
  <2>2. Bridged(h, 1)
    BY DEF Bridged
  <2> DEFINE u == [h |-> h, i |-> 1]
  <2>3. u \in [h : Seq(Entry), i : Nat] /\ u.h = h /\ u.i = 1
    BY <2>1
  <2> HIDE DEF u
  <2>4. u \in Sinking(h)
    <3>1. 1 \in 1..Len(h)
      BY <2>1
    <3> QED
      BY <2>2, <2>3, <3>1 DEF Sinking
  <2> QED
    BY <2>1, <2>4 DEF u
<1> DEFINE x0 == [h |-> h, i |-> 1]
           X == Sinking(h)
           F == [s \in X |-> Heap!Down(s)]
           w == [s \in X |-> Len(h) - s.i]
           P(f) == f = [k \in 0..Len(h) |-> IF k = 0 THEN x0 ELSE Heap!Down(f[k - 1])]
           c == CHOOSE f : P(f)
<1>1. Len(h) \in Nat /\ Loops(X, F, x0)
  BY <1>0, DownTurn DEF Sinking, Loops
<1>2. Nears(X, F, Sunk(h), w) /\ w[x0] <= Len(h)
  <2>1. \A s \in X : F[s] = Heap!Down(s) /\ w[s] = Len(h) - s.i /\ w[s] \in Nat
    BY <1>0 DEF Sinking
  <2>2. \A s \in X : F[s] \in X
    BY <2>1, DownTurn
  <2>3. \A s \in X : s \in Sunk(h) => F[s] \in Sunk(h)
    BY <2>1, DownTurn
  <2>4. \A s \in X : s \notin Sunk(h) => w[F[s]] < w[s]
    <3> SUFFICES ASSUME NEW s \in X, s \notin Sunk(h) PROVE w[F[s]] < w[s]
      OBVIOUS
    <3>1. F[s] = Heap!Down(s) /\ w[s] = Len(h) - s.i /\ w[F[s]] = Len(h) - Heap!Down(s).i
      BY <2>1, <2>2
    <3>2. s.i \in Nat /\ Heap!Down(s).i \in Nat /\ Heap!Down(s).i > s.i
      BY DownTurn DEF Sinking
    <3> QED
      BY <3>1, <3>2, <1>0
  <2>5. w[x0] <= Len(h)
    BY <1>0, <1>1, <2>1 DEF Loops
  <2> HIDE DEF w, F
  <2> QED
    BY <2>1, <2>3, <2>4, <2>5, <1>1 DEF Nears
<1>3. PICK g : /\ IsRun(X, F, x0, Len(h), g) /\ g = [k \in 0..Len(h) |-> g[k]]
               /\ \A k \in 0..Len(h) : g[k] \in X
  <2> HIDE DEF F, x0, X
  <2> QED
    BY <1>1, LoopExists
<1>4. P(g)
  <2>1. \A k \in 1..Len(h) : /\ k - 1 \in 0..Len(h) /\ g[k - 1] \in X
                        /\ F[g[k - 1]] = Heap!Down(g[k - 1])
    BY <1>1, <1>3
  <2> HIDE DEF F, X, x0
  <2>2. g[0] = x0 /\ \A k \in 1..Len(h) : g[k] = Heap!Down(g[k - 1])
    BY <2>1, <1>3 DEF IsRun
  <2>3. \A k \in 0..Len(h) : g[k] = IF k = 0 THEN x0 ELSE Heap!Down(g[k - 1])
    <3>1. \A k \in 0..Len(h) : k # 0 => k \in 1..Len(h)
      BY <1>1
    <3> QED
      BY <2>2, <3>1
  <2>4. g = [k \in 0..Len(h) |-> g[k]]
    BY <1>3
  <2> QED
    BY ONLY <2>3, <2>4
<1>5. P(c)
  BY <1>4
<1>6. IsRun(X, F, x0, Len(h), c)
  <2> HIDE DEF c, x0
  <2> QED
    BY <1>5, <1>1 DEF IsRun
<1>7. c[Len(h)] \in Sunk(h)
  <2> HIDE DEF c, x0, F, w, X
  <2> QED
    BY <1>1, <1>2, <1>6, LoopEnds
<1>8. Heap!SiftDown(h) = c[Len(h)].h
  BY DEF Heap!SiftDown
<1> HIDE DEF c
<1> QED
  BY <1>7, <1>8 DEF Sunk, Sinking

(* Nothing is less than the root of a heap in order.                       *)
LEMMA RootIsLeast ==
    ASSUME NEW h, Entries(h), OrderedBut(h, {}, {}), NEW i \in 2..Len(h)
    PROVE  Heap!Less(h[1], h[i])
<1> DEFINE S == {j \in 2..Len(h) : ~Heap!Less(h[1], h[j])}
<1> SUFFICES ASSUME S # {} PROVE FALSE
  OBVIOUS
<1>1. Len(h) \in Nat
  BY DEF Entries
<1>2. PICK j \in S : \A k \in S : j <= k
  <2>1. S \subseteq Nat
    OBVIOUS
  <2> HIDE DEF S
  <2> QED
    BY <2>1, LeastNumber
<1> DEFINE p == Heap!Parent(j)
<1>3. p \in 1..j - 1 /\ j \in 2..Len(h)
  BY Parents
<1>4. Heap!Less(h[p], h[j])
  BY <1>3 DEF OrderedBut
<1>5. p # 1
  BY <1>4
<1>6. Heap!Less(h[1], h[p])
  BY <1>2, <1>3, <1>5, <1>1
<1> QED
  <2>1. p \in 1..Len(h) /\ j \in 1..Len(h) /\ 1 \in 1..Len(h)
    BY <1>1, <1>3
  <2>2. Heap!Less(h[1], h[j])
    BY <2>1, <1>4, <1>6, LessOrders
  <2> QED
    BY <2>2

(* heap_extract_min() takes the root off, whatever is there.               *)
LEMMA Extracted ==
    ASSUME NEW h, Entries(h), Len(h) > 0, OrderedBut(h, {1}, {1})
    PROVE  LET g == Heap!ExtractMin(h)
           IN  /\ Entries(g) /\ OrderedBut(g, {}, {})
               /\ Elements(g) = Elements(h) \ {h[1]}
<1> DEFINE n == Len(h)
           m == [Heap!Front(h) EXCEPT ![1] = Heap!Last(h)]
<1>1. h \in Seq(Entry) /\ n \in Nat
  BY DEF Entries
<1>2. CASE n = 1
  <2>1. Heap!ExtractMin(h) = <<>>
    BY <1>2 DEF Heap!ExtractMin
  <2>2. Entries(<<>>) /\ OrderedBut(<<>>, {}, {}) /\ Elements(<<>>) = {}
    <3>1. <<>> \in Seq(Entry) /\ Len(<<>>) = 0
      OBVIOUS
    <3> QED
      BY <3>1 DEF Entries, OrderedBut, Elements
  <2>3. Elements(h) = {h[1]}
    BY <1>2 DEF Elements
  <2> QED
    BY <2>1, <2>2, <2>3
<1>3. CASE n # 1
  <2>1. Heap!ExtractMin(h) = Heap!SiftDown(m)
    BY <1>3 DEF Heap!ExtractMin
  <2>2. /\ m \in Seq(Entry) /\ Len(m) = n - 1 /\ m[1] = h[n]
        /\ \A k \in 2..n - 1 : m[k] = h[k]
    <3>1. /\ Heap!Front(h) \in Seq(Entry) /\ Len(Heap!Front(h)) = n - 1
          /\ \A k \in 1..n - 1 : Heap!Front(h)[k] = h[k]
      <4>1. \A k \in 1..n - 1 : h[k] \in Entry
        BY <1>1
      <4>2. n - 1 \in Int /\ 1 \in Int /\ 1 <= n - 1 /\ n - 1 - 1 + 1 = n - 1
        <5>1. \A a \in Nat : a > 0 /\ a # 1 => /\ a - 1 \in Int /\ 1 <= a - 1
                                              /\ a - 1 - 1 + 1 = a - 1
          OBVIOUS
        <5>2. n > 0
          OBVIOUS
        <5> HIDE DEF n
        <5> QED
          BY <1>1, <1>3, <5>1, <5>2
      <4> DEFINE m1 == n - 1
                 q == SubSeq(h, 1, m1)
      <4>3. q = Heap!Front(h)
        BY DEF Heap!Front
      <4>4. \A k \in 1..m1 : 1 + k - 1 = k
        BY <4>2
      <4> HIDE DEF m1, q
      <4>5. /\ q \in Seq(Entry) /\ Len(q) = m1 - 1 + 1
            /\ \A k \in 1..m1 - 1 + 1 : q[k] = h[1 + k - 1]
        BY <4>1, <4>2, SubSeqProperties DEF m1, q
      <4>6. m1 - 1 + 1 = m1
        BY <4>2 DEF m1
      <4> QED
        BY <4>3, <4>4, <4>5, <4>6 DEF m1
    <3>2. Heap!Last(h) = h[n] /\ h[n] \in Entry
      BY <1>1 DEF Heap!Last
    <3> QED
      BY <3>1, <3>2, <1>1, <1>3
  <2> HIDE DEF m
  <2>3. \A k \in 1..n - 1 : \E j \in 2..n : m[k] = h[j] /\ (k # 1 => j = k) /\ (k = 1 => j = n)
    <3> SUFFICES ASSUME NEW k \in 1..n - 1
                 PROVE  \E j \in 2..n : m[k] = h[j] /\ (k # 1 => j = k) /\ (k = 1 => j = n)
      OBVIOUS
    <3>1. CASE k = 1
      BY <3>1, <2>2, <1>1
    <3>2. CASE k # 1
      BY <3>2, <2>2, <1>1
    <3> QED
      BY <3>1, <3>2
  <2>4. Entries(m)
    <3>1. \A k \in 1..Len(m) : m[k].skey + 1 = m[k].uid
      BY <2>2, <2>3, <1>1 DEF Entries
    <3>2. \A k, j \in 1..Len(m) : k # j => m[k].uid # m[j].uid
      <4> SUFFICES ASSUME NEW k \in 1..n - 1, NEW j \in 1..n - 1, k # j
                   PROVE  m[k].uid # m[j].uid
        BY <2>2
      <4>1. PICK a \in 2..n : m[k] = h[a] /\ (k # 1 => a = k) /\ (k = 1 => a = n)
        BY <2>3
      <4>2. PICK b \in 2..n : m[j] = h[b] /\ (j # 1 => b = j) /\ (j = 1 => b = n)
        BY <2>3
      <4>3. a # b /\ a \in 1..n /\ b \in 1..n
        BY <4>1, <4>2, <1>1
      <4> QED
        BY <4>1, <4>2, <4>3 DEF Entries
    <3> QED
      BY <2>2, <3>1, <3>2 DEF Entries
  <2>5. OrderedBut(m, {}, {1})
    <3> SUFFICES ASSUME NEW j \in 2..n - 1, Heap!Parent(j) # 1
                 PROVE  Heap!Less(m[Heap!Parent(j)], m[j])
      BY <2>2 DEF OrderedBut
    <3>1. Heap!Parent(j) \in 2..n - 1
      BY <1>1, Parents
    <3>2. Heap!Less(h[Heap!Parent(j)], h[j])
      BY <1>1 DEF OrderedBut
    <3> QED
      BY <3>1, <3>2, <2>2
  <2>6. Elements(m) = Elements(h) \ {h[1]}
    <3>1. ASSUME NEW k \in 1..n - 1 PROVE m[k] \in Elements(h) \ {h[1]}
      <4>1. PICK a \in 2..n : m[k] = h[a]
        BY <2>3
      <4>2. a \in 1..n /\ 1 \in 1..n /\ a # 1
        BY <1>1
      <4>3. h[a] # h[1]
        BY <4>2 DEF Entries
      <4> QED
        BY <4>1, <4>2, <4>3 DEF Elements
    <3>2. ASSUME NEW a \in 2..n PROVE h[a] \in Elements(m)
      <4>1. CASE a = n
        BY <4>1, <2>2, <1>1 DEF Elements
      <4>2. CASE a # n
        <5>1. a \in 2..n - 1 /\ a \in 1..n - 1
          BY <4>2, <1>1
        <5> QED
          BY <5>1, <2>2 DEF Elements
      <4> QED
        BY <4>1, <4>2
    <3>3. Elements(m) \subseteq Elements(h) \ {h[1]}
      BY <3>1, <2>2 DEF Elements
    <3>4. \A a \in 1..n : a = 1 \/ a \in 2..n
      BY <1>1
    <3>5. Elements(h) \ {h[1]} \subseteq Elements(m)
      BY <3>2, <3>4 DEF Elements
    <3> QED
      BY <3>3, <3>5
  <2>7. Len(m) > 0
    BY <2>2, <1>1, <1>3
  <2> QED
    BY <2>1, <2>4, <2>5, <2>6, <2>7, SiftedDown
<1> QED
  BY <1>2, <1>3

(* heap_delete() takes out the entry it is called for, and the order       *)
(* stays.                                                                  *)
LEMMA Deleted ==
    ASSUME NEW h, Entries(h), OrderedBut(h, {}, {}), NEW i \in 1..Len(h)
    PROVE  LET g == Heap!Delete(h, i)
           IN  /\ Entries(g) /\ OrderedBut(g, {}, {})
               /\ Elements(g) = Elements(h) \ {h[i]}
<1> DEFINE m == Heap!ToRoot(h, i)
<1>1. /\ Entries(m) /\ Len(m) = Len(h) /\ Elements(m) = Elements(h)
      /\ m[1] = h[i] /\ OrderedBut(m, {1}, {1})
  BY TakenToRoot
<1>2. Len(m) > 0
  BY <1>1 DEF Entries
<1>3. Heap!Delete(h, i) = Heap!ExtractMin(m)
  BY DEF Heap!Delete
<1> HIDE DEF m
<1> QED
  BY <1>1, <1>2, <1>3, Extracted

(* heap_insert() adds the newest entry, and the order stays.               *)
LEMMA Inserted ==
    ASSUME NEW h, Entries(h), OrderedBut(h, {}, {}), NEW e \in Entry,
           e.skey + 1 = e.uid, \A i \in 1..Len(h) : h[i].uid < e.uid
    PROVE  LET g == Heap!SiftUp(Append(h, e), Len(h) + 1)
           IN  /\ Entries(g) /\ OrderedBut(g, {}, {})
               /\ Elements(g) = Elements(h) \cup {e}
<1> DEFINE n == Len(h)
           m == Append(h, e)
           u == [h |-> m, i |-> n + 1]
<1>1. h \in Seq(Entry) /\ n \in Nat
  BY DEF Entries
<1>2. /\ m \in Seq(Entry) /\ Len(m) = n + 1 /\ m[n + 1] = e
      /\ \A k \in 1..n : m[k] = h[k]
  BY <1>1
<1> HIDE DEF m
<1>3. \A k \in 1..n + 1 : k = n + 1 \/ k \in 1..n
  BY <1>1
<1>4. \A k \in 1..n : h[k].uid \in Nat
  <2>1. \A k \in 1..n : h[k] \in Entry
    BY <1>1
  <2> QED
    BY <2>1 DEF Entry
<1>5. Entries(m)
  <2>1. \A k \in 1..n + 1 : m[k].skey + 1 = m[k].uid
    BY <1>2, <1>3 DEF Entries
  <2>2. ASSUME NEW k \in 1..n + 1, NEW j \in 1..n + 1, k # j
        PROVE  m[k].uid # m[j].uid
    <3>1. CASE k = n + 1 \/ j = n + 1
      <4>1. \A a \in 1..n : h[a].uid # e.uid
        BY <1>4 DEF Entry
      <4> QED
        BY <4>1, <3>1, <2>2, <1>2, <1>3
    <3>2. CASE k \in 1..n /\ j \in 1..n
      BY <3>2, <2>2, <1>2 DEF Entries
    <3> QED
      BY <3>1, <3>2, <1>3
  <2> QED
    BY <2>1, <2>2, <1>2 DEF Entries
<1>6. OrderedBut(m, {n + 1}, {})
  <2> SUFFICES ASSUME NEW j \in 2..n PROVE Heap!Less(m[Heap!Parent(j)], m[j])
    BY <1>1, <1>2 DEF OrderedBut
  <2>1. Heap!Parent(j) \in 1..n
    BY <1>1, Parents
  <2>2. Heap!Less(h[Heap!Parent(j)], h[j])
    BY DEF OrderedBut
  <2> QED
    BY <2>1, <2>2, <1>2
<1>7. Bridged(m, n + 1)
  <2> SUFFICES ASSUME NEW j \in 2..n + 1, Heap!Parent(j) = n + 1 PROVE FALSE
    BY <1>2 DEF Bridged
  <2> QED
    BY <1>1, Parents
<1>8. u \in Rising(m)
  <2>1. u \in [h : Seq(Entry), i : Nat] /\ u.h = m /\ u.i = n + 1
    BY <1>1, <1>2
  <2>2. n + 1 \in 1..Len(m)
    BY <1>1, <1>2
  <2> HIDE DEF u
  <2> QED
    BY <2>1, <2>2, <1>5, <1>6, <1>7 DEF Rising
<1>9. Elements(m) = Elements(h) \cup {e}
  BY <1>1, <1>2, <1>3 DEF Elements
<1> QED
  BY <1>8, <1>9, SiftedUp DEF m

(* What users see of an entry                                              *)
View(x) == [time |-> x.time, uid |-> x.uid]
Views(h) == {View(x) : x \in Elements(h)}

(* The events of the heap are what its entries show.                       *)
LEMMA PendingIsViews ==
    ASSUME Entries(heap)
    PROVE  Heap!Pending = Views(heap)
BY DEF Entries, Heap!Pending, Heap!ToSet, Views, View, Elements

(* Two entries do not show the same event: with one of them its event      *)
(* goes.                                                                   *)
LEMMA ViewsDiffer ==
    ASSUME NEW h, Entries(h), NEW x \in Elements(h)
    PROVE  /\ View(x) \in [time : Nat, uid : Nat]
           /\ \A g : Elements(g) = Elements(h) \ {x} => Views(g) = Views(h) \ {View(x)}
<1>1. \A y \in Elements(h) : y \in Entry
  BY DEF Entries, Elements
<1>2. \A y \in Elements(h) : y # x => y.uid # x.uid
  BY DEF Entries, Elements
<1>3. \A y \in Elements(h) : y # x => View(y) # View(x)
  BY <1>2 DEF View
<1>4. View(x) \in [time : Nat, uid : Nat]
  BY <1>1 DEF View, Entry
<1>5. \A g : Elements(g) = Elements(h) \ {x} => Views(g) = Views(h) \ {View(x)}
  BY <1>3 DEF Views
<1> QED
  BY <1>4, <1>5

-----------------------------------------------------------------------------
(* The heap is in order and its entries have the numbers given so far.     *)
HeapInv ==
    /\ Entries(heap) /\ OrderedBut(heap, {}, {})
    /\ skey \in Nat /\ uid = skey + 1 /\ clock \in Nat
    /\ \A i \in 1..Len(heap) : heap[i].uid < uid

(* The heap is empty at the start.                                         *)
LEMMA HeapInit ==
    ASSUME Heap!Init
    PROVE  HeapInv /\ Heap!Pending = {}
<1>1. heap = <<>> /\ skey = 0 /\ uid = 1 /\ clock = 0
  BY DEF Heap!Init
<1>2. <<>> \in Seq(Entry) /\ Len(<<>>) = 0
  OBVIOUS
<1>3. Entries(heap) /\ OrderedBut(heap, {}, {}) /\ Elements(heap) = {}
  BY <1>1, <1>2 DEF Entries, OrderedBut, Elements
<1>4. Heap!Pending = {}
  BY <1>3, PendingIsViews DEF Views
<1> QED
  BY <1>1, <1>2, <1>3, <1>4 DEF HeapInv

(* The numbers of the entries are less than u.                             *)
LEMMA NumbersBelow ==
    ASSUME NEW h, Entries(h), NEW u
    PROVE  (\A i \in 1..Len(h) : h[i].uid < u) <=> \A x \in Elements(h) : x.uid < u
BY DEF Elements

(* HeapScheduler::insert() adds the event it is called with.               *)
LEMMA HeapSchedule ==
    ASSUME HeapInv, Heap!Schedule
    PROVE  HeapInv' /\ Adds(Heap!Pending, Heap!Pending')
<1>1. PICK d \in Delays :
        heap' = Heap!SiftUp(Append(heap, [time |-> clock + d, skey |-> skey, uid |-> uid]),
                            Len(heap) + 1)
  BY DEF Heap!Schedule
<1> DEFINE e == [time |-> clock + d, skey |-> skey, uid |-> uid]
<1>2. /\ skey' = skey + 1 /\ uid' = uid + 1 /\ clock' = clock /\ halted' = halted
      /\ uid <= MaxUid
  BY DEF Heap!Schedule
<1>3. /\ Entries(heap) /\ OrderedBut(heap, {}, {})
      /\ skey \in Nat /\ uid = skey + 1 /\ clock \in Nat
      /\ \A i \in 1..Len(heap) : heap[i].uid < uid
  BY DEF HeapInv
<1>4. e \in Entry /\ e.uid = uid /\ e.skey + 1 = e.uid /\ View(e) = [time |-> clock + d, uid |-> uid]
  BY <1>3, DelaysAssumption DEF Entry, View
<1> HIDE DEF e
<1>5. /\ Entries(heap') /\ OrderedBut(heap', {}, {})
      /\ Elements(heap') = Elements(heap) \cup {e}
  <2>1. \A i \in 1..Len(heap) : heap[i].uid < e.uid
    BY <1>3, <1>4
  <2> QED
    BY <1>1, <1>3, <1>4, <2>1, Inserted DEF e
<1>6. \A x \in Elements(heap') : x.uid < uid'
  <2>1. \A x \in Elements(heap) : x.uid < uid
    BY <1>3, NumbersBelow
  <2>2. \A x \in Elements(heap) : x.uid \in Nat
    <3>1. \A x \in Elements(heap) : x \in Entry
      BY <1>3 DEF Elements, Entries
    <3> QED
      BY <3>1 DEF Entry
  <2> QED
    BY <2>1, <2>2, <1>2, <1>3, <1>4, <1>5
<1>7. HeapInv'
  <2>1. \A i \in 1..Len(heap') : heap'[i].uid < uid'
    BY <1>5, <1>6, NumbersBelow
  <2> QED
    BY <2>1, <1>2, <1>3, <1>5 DEF HeapInv
<1>8. Views(heap') = Views(heap) \cup {View(e)}
  BY <1>5 DEF Views
<1>9. Heap!Pending = Views(heap) /\ Heap!Pending' = Views(heap')
  <2>1. Heap!Pending = Views(heap)
    BY <1>3, PendingIsViews
  <2>2. Heap!Pending' = Views(heap')
    BY <1>5 DEF Entries, Heap!Pending, Heap!ToSet, Views, View, Elements
  <2> QED
    BY <2>1, <2>2
<1> QED
  BY <1>2, <1>4, <1>7, <1>8, <1>9 DEF Adds

(* What leaves the heap                                                    *)
LEMMA HeapLoses ==
    ASSUME HeapInv, NEW i \in 1..Len(heap),
           Entries(heap'), OrderedBut(heap', {}, {}),
           Elements(heap') = Elements(heap) \ {heap[i]},
           skey' = skey, uid' = uid, clock' \in Nat
    PROVE  /\ HeapInv'
           /\ View(heap[i]) \in Heap!Pending
           /\ Heap!Pending' = Heap!Pending \ {View(heap[i])}
<1>1. /\ Entries(heap) /\ skey \in Nat /\ uid = skey + 1
      /\ \A x \in Elements(heap) : x.uid < uid
  BY NumbersBelow DEF HeapInv
<1>2. HeapInv'
  <2>1. \A x \in Elements(heap') : x.uid < uid'
    BY <1>1
  <2>2. \A k \in 1..Len(heap') : heap'[k].uid < uid'
    BY <2>1, NumbersBelow
  <2> QED
    BY <1>1, <2>2 DEF HeapInv
<1>3. heap[i] \in Elements(heap)
  BY DEF Elements
<1>4. Heap!Pending = Views(heap) /\ Heap!Pending' = Views(heap')
  <2>1. Heap!Pending = Views(heap)
    BY <1>1, PendingIsViews
  <2>2. Heap!Pending' = Views(heap')
    BY DEF Entries, Heap!Pending, Heap!ToSet, Views, View, Elements
  <2> QED
    BY <2>1, <2>2
<1>5. Views(heap') = Views(heap) \ {View(heap[i])}
  BY <1>1, <1>3, ViewsDiffer
<1>6. View(heap[i]) \in Views(heap)
  BY <1>3 DEF Views
<1> QED
  BY <1>2, <1>4, <1>5, <1>6

(* HeapScheduler::deque() takes the first event of the queue.              *)
LEMMA HeapDispatch ==
    ASSUME HeapInv, Heap!Dispatch
    PROVE  HeapInv' /\ Runs(Heap!Pending, Heap!Pending')
<1>1. /\ ~halted /\ heap # <<>> /\ clock' = heap[1].time
      /\ heap' = Heap!ExtractMin(heap)
      /\ skey' = skey /\ uid' = uid /\ halted' = halted
  BY DEF Heap!Dispatch
<1>2. Entries(heap) /\ OrderedBut(heap, {}, {})
  BY DEF HeapInv
<1>3. heap \in Seq(Entry) /\ Len(heap) \in Nat /\ Len(heap) > 0 /\ 1 \in 1..Len(heap)
  BY <1>1, <1>2 DEF Entries
<1>4. OrderedBut(heap, {1}, {1})
  BY <1>2 DEF OrderedBut
<1>5. /\ Entries(heap') /\ OrderedBut(heap', {}, {})
      /\ Elements(heap') = Elements(heap) \ {heap[1]}
  BY <1>1, <1>2, <1>3, <1>4, Extracted
<1>6. heap[1] \in Entry
  BY <1>3
<1>7. clock' \in Nat
  BY <1>1, <1>6 DEF Entry
<1> DEFINE e == View(heap[1])
<1>8. HeapInv' /\ e \in Heap!Pending /\ Heap!Pending' = Heap!Pending \ {e}
  BY <1>1, <1>3, <1>5, <1>7, HeapLoses
<1>9. \A f \in Heap!Pending \ {e} : Queue!Earlier(e, f)
  <2> SUFFICES ASSUME NEW f \in Heap!Pending, f # e PROVE Queue!Earlier(e, f)
    OBVIOUS
  <2>1. f \in Views(heap)
    BY <1>2, PendingIsViews
  <2>2. PICK i \in 1..Len(heap) : f = View(heap[i])
    BY <2>1 DEF Views, Elements
  <2>3. i \in 2..Len(heap)
    BY <1>3, <2>2
  <2>4. Heap!Less(heap[1], heap[i])
    BY <1>2, <2>3, RootIsLeast
  <2>5. /\ heap[1].skey + 1 = heap[1].uid /\ heap[i].skey + 1 = heap[i].uid
        /\ heap[1] \in Entry /\ heap[i] \in Entry
    BY <1>2, <1>3 DEF Entries
  <2>6. /\ e.time = heap[1].time /\ e.uid = heap[1].uid
        /\ f.time = heap[i].time /\ f.uid = heap[i].uid
    BY <2>2 DEF View
  <2> HIDE DEF e
  <2> QED
    BY <2>4, <2>5, <2>6 DEF Heap!Less, Queue!Earlier, Entry
<1>10. clock' = e.time
  BY <1>1 DEF View
<1> HIDE DEF e
<1> QED
  BY <1>1, <1>8, <1>9, <1>10 DEF Runs

(* HeapScheduler::cancel() takes out one event.                            *)
LEMMA HeapCancel ==
    ASSUME HeapInv, Heap!Cancel
    PROVE  HeapInv' /\ Drops(Heap!Pending, Heap!Pending')
<1>1. PICK i \in DOMAIN heap : heap' = Heap!Delete(heap, i)
  BY DEF Heap!Cancel
<1>2. skey' = skey /\ uid' = uid /\ halted' = halted /\ clock' = clock
  BY DEF Heap!Cancel
<1>3. Entries(heap) /\ OrderedBut(heap, {}, {}) /\ clock \in Nat
  BY DEF HeapInv
<1>4. i \in 1..Len(heap)
  BY <1>3 DEF Entries
<1>5. /\ Entries(heap') /\ OrderedBut(heap', {}, {})
      /\ Elements(heap') = Elements(heap) \ {heap[i]}
  BY <1>1, <1>3, <1>4, Deleted
<1>6. /\ HeapInv' /\ View(heap[i]) \in Heap!Pending
      /\ Heap!Pending' = Heap!Pending \ {View(heap[i])}
  BY <1>2, <1>3, <1>4, <1>5, HeapLoses
<1> QED
  BY <1>2, <1>6 DEF Drops

(* Every step of the heap is one of the queue.                             *)
LEMMA HeapStep ==
    ASSUME HeapInv, Heap!Next \/ UNCHANGED <<heap, skey, clock, uid, halted>>
    PROVE  HeapInv' /\ Simulates(Heap!Pending, Heap!Pending')
<1>1. CASE Heap!Schedule
  BY <1>1, HeapSchedule DEF Simulates
<1>2. CASE Heap!Dispatch
  BY <1>2, HeapDispatch DEF Simulates
<1>3. CASE Heap!Cancel
  BY <1>3, HeapCancel DEF Simulates
<1>4. CASE \/ Heap!Halt \/ Heap!Resume
           \/ UNCHANGED <<heap, skey, clock, uid, halted>>
  <2>1. /\ UNCHANGED <<heap, skey, clock, uid>>
        /\ halted' \in {TRUE, FALSE, halted}
    BY <1>4 DEF Heap!Halt, Heap!Resume
  <2>2. HeapInv' /\ Heap!Pending' = Heap!Pending
    BY <2>1 DEF HeapInv, Heap!Pending
  <2> QED
    BY <2>1, <2>2 DEF Simulates, Turns
<1> QED
  BY <1>1, <1>2, <1>3, <1>4 DEF Heap!Next

-----------------------------------------------------------------------------
(* Search trees.                                                           *)

(* x is before y in the order O, a set of pairs.                           *)
Lt(O, x, y) == <<x, y>> \in O
Converse(O) == {p \in Scheduled \X Scheduled : <<p[2], p[1]>> \in O}

(* O orders S strictly and totally.                                        *)
Orders(O, S) ==
    /\ \A x, y \in S : x # y => (Lt(O, x, y) <=> ~Lt(O, y, x))
    /\ \A x \in S : ~Lt(O, x, x)
    /\ \A x, y, z \in S : Lt(O, x, y) /\ Lt(O, y, z) => Lt(O, x, z)

(* The order of the queue                                                  *)
InTime == {p \in Scheduled \X Scheduled : Queue!Earlier(p[1], p[2])}

Lower(O, A, x) == {y \in A : Lt(O, y, x)}
Upper(O, A, x) == {y \in A : Lt(O, x, y)}

(* What is below the pointer x; D[y] is what is below the node y.          *)
Sub(D, x) == IF x = Nil THEN {} ELSE D[x]

(* The nodes S with their pointers f to the left and g to the right: what  *)
(* is below a node is divided as in a search tree.                         *)
Tidy(O, f, g, S, D) ==
    /\ S \subseteq Scheduled /\ IsFiniteSet(S) /\ Orders(O, S)
    /\ \A x \in S : /\ x \in D[x] /\ D[x] \subseteq S
                    /\ f[x] \in S \cup {Nil} /\ g[x] \in S \cup {Nil}
                    /\ Sub(D, f[x]) = Lower(O, D[x], x)
                    /\ Sub(D, g[x]) = Upper(O, D[x], x)

(* The null pointer points to no event.                                    *)
LEMMA NilIsNoNode == Nil \notin Scheduled
BY NilAssumption DEF Scheduled

(* Time, and among equals the number, orders events totally.               *)
LEMMA InTimeOrders ==
    ASSUME NEW S, S \subseteq Scheduled
    PROVE  Orders(InTime, S)
<1>1. \A x \in S : x = [time |-> x.time, uid |-> x.uid] /\ x.time \in Nat /\ x.uid \in Nat
  BY DEF Scheduled
<1>2. \A x, y \in S : Lt(InTime, x, y) <=> Queue!Earlier(x, y)
  BY DEF Lt, InTime
<1>3. \A x, y \in S : x # y => x.time # y.time \/ x.uid # y.uid
  BY <1>1
<1>4. \A x, y \in S : x # y => (Queue!Earlier(x, y) <=> ~Queue!Earlier(y, x))
  BY <1>1, <1>3 DEF Queue!Earlier
<1>5. \A x \in S : ~Queue!Earlier(x, x)
  BY <1>1 DEF Queue!Earlier
<1>6. \A x, y, z \in S : Queue!Earlier(x, y) /\ Queue!Earlier(y, z) => Queue!Earlier(x, z)
  BY <1>1 DEF Queue!Earlier
<1> QED
  BY <1>2, <1>4, <1>5, <1>6 DEF Orders

(* The order seen in a mirror                                              *)
LEMMA ConverseIs ==
    ASSUME NEW O, NEW x \in Scheduled, NEW y \in Scheduled
    PROVE  Lt(Converse(O), x, y) <=> Lt(O, y, x)
BY DEF Lt, Converse

(* Seen in a mirror it is a search tree too.                               *)
LEMMA TidyMirror ==
    ASSUME NEW O, NEW f, NEW g, NEW S, NEW D, Tidy(O, f, g, S, D)
    PROVE  Tidy(Converse(O), g, f, S, D)
<1>1. /\ S \subseteq Scheduled /\ Orders(O, S)
      /\ \A x \in S : D[x] \subseteq S
  BY DEF Tidy
<1>2. \A x, y \in S : Lt(Converse(O), x, y) <=> Lt(O, y, x)
  BY <1>1, ConverseIs
<1>3. Orders(Converse(O), S)
  BY <1>1, <1>2 DEF Orders
<1>4. \A x \in S : /\ Lower(Converse(O), D[x], x) = Upper(O, D[x], x)
                   /\ Upper(Converse(O), D[x], x) = Lower(O, D[x], x)
  BY <1>1, <1>2 DEF Lower, Upper
<1> QED
  BY <1>3, <1>4 DEF Tidy

(* The children of a node are below it, and it is not below them.          *)
LEMMA ChildBelow ==
    ASSUME NEW O, NEW f, NEW g, NEW S, NEW D, Tidy(O, f, g, S, D), NEW x \in S
    PROVE  /\ Sub(D, f[x]) \subseteq D[x] \ {x} /\ Sub(D, g[x]) \subseteq D[x] \ {x}
           /\ D[x] = {x} \cup Sub(D, f[x]) \cup Sub(D, g[x])
           /\ Sub(D, f[x]) \cap Sub(D, g[x]) = {}
           /\ f[x] # Nil => f[x] \in S /\ f[x] \in D[f[x]] /\ f[x] \in D[x] /\ f[x] # x
                            /\ Lt(O, f[x], x)
           /\ g[x] # Nil => g[x] \in S /\ g[x] \in D[g[x]] /\ g[x] \in D[x] /\ g[x] # x
                            /\ Lt(O, x, g[x])
<1>1. /\ Orders(O, S) /\ x \in D[x] /\ D[x] \subseteq S
      /\ f[x] \in S \cup {Nil} /\ g[x] \in S \cup {Nil}
      /\ Sub(D, f[x]) = Lower(O, D[x], x) /\ Sub(D, g[x]) = Upper(O, D[x], x)
      /\ \A y \in S : y \in D[y]
  BY DEF Tidy
<1>2. f[x] # Nil => f[x] \in Lower(O, D[x], x)
  BY <1>1 DEF Sub
<1>3. g[x] # Nil => g[x] \in Upper(O, D[x], x)
  BY <1>1 DEF Sub
<1>4. Lower(O, D[x], x) \subseteq D[x] \ {x} /\ Upper(O, D[x], x) \subseteq D[x] \ {x}
  BY <1>1 DEF Orders, Lower, Upper
<1>5. D[x] = {x} \cup Lower(O, D[x], x) \cup Upper(O, D[x], x)
  BY <1>1 DEF Orders, Lower, Upper
<1>6. Lower(O, D[x], x) \cap Upper(O, D[x], x) = {}
  BY <1>1 DEF Orders, Lower, Upper
<1>7. f[x] # Nil => Lt(O, f[x], x)
  BY <1>2 DEF Lower
<1>8. g[x] # Nil => Lt(O, x, g[x])
  BY <1>3 DEF Upper
<1> QED
  BY <1>1, <1>2, <1>3, <1>4, <1>5, <1>6, <1>7, <1>8

(* What is below a node has below it only what is below the node.          *)
LEMMA BelowIsBelow ==
    ASSUME NEW O, NEW f, NEW g, NEW S, NEW D, Tidy(O, f, g, S, D),
           NEW x \in S, NEW y \in D[x]
    PROVE  D[y] \subseteq D[x]
<1> DEFINE Bad == {z \in S : \E v \in D[z] : ~(D[v] \subseteq D[z])}
           Sizes == {Cardinality(D[z]) : z \in Bad}
<1> SUFFICES ASSUME x \in Bad PROVE FALSE
  OBVIOUS
<1>1. \A z \in S : IsFiniteSet(D[z]) /\ Cardinality(D[z]) \in Nat
  BY FS_Subset, FS_CardinalityType DEF Tidy
<1>2. PICK m \in Sizes : \A k \in Sizes : m <= k
  <2>1. Sizes \subseteq Nat /\ Sizes # {}
    BY <1>1
  <2> HIDE DEF Sizes
  <2> QED
    BY <2>1, LeastNumber
<1>3. PICK z \in Bad : m = Cardinality(D[z])
  OBVIOUS
<1>4. PICK v \in D[z] : ~(D[v] \subseteq D[z])
  OBVIOUS
<1>5. z \in S
  OBVIOUS
<1>6. v # z
  BY <1>4
<1>7. PICK c \in {f[z], g[z]} : c # Nil /\ v \in D[c] /\ c \in S /\ D[c] \subseteq D[z] \ {z}
  BY <1>5, <1>6, ChildBelow DEF Sub
<1>8. z \in D[z]
  BY <1>5 DEF Tidy
<1>9. Cardinality(D[c]) < Cardinality(D[z])
  <2>1. D[c] \subseteq D[z] /\ D[c] # D[z]
    BY <1>7, <1>8
  <2>2. Cardinality(D[c]) <= Cardinality(D[z]) /\ Cardinality(D[c]) # Cardinality(D[z])
    BY <2>1, <1>1, <1>5, FS_Subset
  <2>3. Cardinality(D[c]) \in Nat /\ Cardinality(D[z]) \in Nat
    BY <1>1, <1>5, <1>7
  <2> QED
    BY <2>2, <2>3
<1>10. c \notin Bad
  BY <1>1, <1>2, <1>3, <1>5, <1>7, <1>9
<1>11. D[v] \subseteq D[c]
  BY <1>7, <1>10
<1> QED
  BY <1>4, <1>7, <1>11

(* Of two nodes of a tree one is below the other, or nothing is below both.*)
LEMMA BelowOrApart ==
    ASSUME NEW O, NEW f, NEW g, NEW S, NEW D, Tidy(O, f, g, S, D),
           NEW r \in S, NEW x \in D[r], NEW y \in D[r]
    PROVE  x \in D[y] \/ y \in D[x] \/ D[x] \cap D[y] = {}
<1> DEFINE Fine(z) == \A a, b \in D[z] : a \in D[b] \/ b \in D[a] \/ D[a] \cap D[b] = {}
           Bad == {z \in S : ~Fine(z)}
           Sizes == {Cardinality(D[z]) : z \in Bad}
<1> SUFFICES ASSUME r \in Bad PROVE FALSE
  OBVIOUS
<1>1. \A z \in S : IsFiniteSet(D[z]) /\ Cardinality(D[z]) \in Nat
  BY FS_Subset, FS_CardinalityType DEF Tidy
<1>2. PICK m \in Sizes : \A k \in Sizes : m <= k
  <2>1. Sizes \subseteq Nat /\ Sizes # {}
    BY <1>1
  <2> HIDE DEF Sizes
  <2> QED
    BY <2>1, LeastNumber
<1>3. PICK z \in Bad : m = Cardinality(D[z])
  OBVIOUS
<1>4. z \in S /\ z \in D[z]
  BY DEF Tidy
<1>5. PICK a \in D[z] : \E b \in D[z] : ~(a \in D[b] \/ b \in D[a] \/ D[a] \cap D[b] = {})
  OBVIOUS
<1>6. PICK b \in D[z] : ~(a \in D[b] \/ b \in D[a] \/ D[a] \cap D[b] = {})
  BY <1>5
<1>7. a # z /\ b # z
  BY <1>6
<1>8. /\ D[z] = {z} \cup Sub(D, f[z]) \cup Sub(D, g[z])
      /\ Sub(D, f[z]) \cap Sub(D, g[z]) = {}
      /\ \A c \in {f[z], g[z]} : c # Nil => c \in S /\ D[c] \subseteq D[z] \ {z}
  BY <1>4, ChildBelow DEF Sub
<1>9. \A c \in {f[z], g[z]} : c # Nil => Fine(c)
  <2> SUFFICES ASSUME NEW c \in {f[z], g[z]}, c # Nil PROVE c \notin Bad
    BY <1>8
  <2>1. Cardinality(D[c]) < Cardinality(D[z])
    <3>1. D[c] \subseteq D[z] /\ D[c] # D[z]
      BY <1>4, <1>8
    <3>2. Cardinality(D[c]) <= Cardinality(D[z]) /\ Cardinality(D[c]) # Cardinality(D[z])
      BY <3>1, <1>1, <1>4, FS_Subset
    <3>3. c \in S
      BY <1>8
    <3>4. Cardinality(D[c]) \in Nat /\ Cardinality(D[z]) \in Nat
      BY <3>3, <1>1, <1>4
    <3> QED
      BY <3>2, <3>4
  <2> QED
    BY <2>1, <1>1, <1>2, <1>3, <1>8
<1>10. CASE \E c \in {f[z], g[z]} : c # Nil /\ a \in D[c] /\ b \in D[c]
  BY <1>6, <1>9, <1>10
<1>11. CASE ~ \E c \in {f[z], g[z]} : c # Nil /\ a \in D[c] /\ b \in D[c]
  <2>1. PICK c \in {f[z], g[z]} : c # Nil /\ a \in D[c] /\ c \in S
    BY <1>7, <1>8 DEF Sub
  <2>2. PICK d \in {f[z], g[z]} : d # Nil /\ b \in D[d] /\ d \in S
    BY <1>7, <1>8 DEF Sub
  <2>3. D[c] \cap D[d] = {}
    BY <2>1, <2>2, <1>8, <1>11 DEF Sub
  <2>4. D[a] \subseteq D[c] /\ D[b] \subseteq D[d]
    BY <2>1, <2>2, BelowIsBelow
  <2> QED
    BY <2>3, <2>4, <1>6
<1> QED
  BY <1>10, <1>11

(* A node has one parent at most.                                          *)
LEMMA OneParent ==
    ASSUME NEW O, NEW f, NEW g, NEW S, NEW D, Tidy(O, f, g, S, D),
           NEW r \in S, NEW x \in D[r], NEW y \in D[r], NEW c, c # Nil,
           c \in {f[x], g[x]}, c \in {f[y], g[y]}
    PROVE  x = y /\ f[x] # g[x]
<1>1. D[r] \subseteq S /\ x \in S /\ y \in S
  BY DEF Tidy
<1>2. /\ c \in D[c] /\ c \in D[x] /\ c \in D[y]
      /\ D[c] \subseteq D[x] \ {x} /\ D[c] \subseteq D[y] \ {y}
  BY <1>1, ChildBelow DEF Sub
<1>3. f[x] # g[x]
  <2> x \in S
    BY <1>1
  <2>1. Sub(D, f[x]) \cap Sub(D, g[x]) = {}
    BY ONLY Tidy(O, f, g, S, D), x \in S, ChildBelow
  <2>2. c \in Sub(D, c)
    BY <1>2 DEF Sub
  <2> QED
    BY <2>1, <2>2
<1>4. ASSUME NEW a \in S, NEW b \in S, a \in D[b], a # b, c \in {f[a], g[a]},
             c \in {f[b], g[b]}
      PROVE  FALSE
  <2>1. /\ c \in D[c] /\ c \in S /\ c \in D[a] /\ D[c] \subseteq D[a] \ {a}
        /\ D[c] \subseteq D[b] \ {b}
    BY <1>4, ChildBelow DEF Sub
  <2>2. PICK d \in {f[b], g[b]} : d # Nil /\ a \in D[d] /\ d \in S
    BY <1>4, ChildBelow DEF Sub
  <2>3. D[a] \subseteq D[d]
    BY <2>2, BelowIsBelow
  <2>4. c = d
    <3>1. Sub(D, f[b]) \cap Sub(D, g[b]) = {}
      BY ChildBelow
    <3>2. c \in Sub(D, c) /\ c \in Sub(D, d)
      BY <2>1, <2>2, <2>3 DEF Sub
    <3> QED
      BY <3>1, <3>2, <2>2, <1>4
  <2> QED
    BY <2>1, <2>2, <2>4
<1>5. x \in D[y] \/ y \in D[x] \/ D[x] \cap D[y] = {}
  BY BelowOrApart
<1> QED
  BY <1>1, <1>2, <1>3, <1>4, <1>5

(* A search tree in the mirror is one.                                     *)
LEMMA TidyUnmirror ==
    ASSUME NEW O, NEW f, NEW g, NEW S, NEW D, Tidy(Converse(O), g, f, S, D)
    PROVE  Tidy(O, f, g, S, D)
<1>1. /\ S \subseteq Scheduled /\ Orders(Converse(O), S)
      /\ \A x \in S : D[x] \subseteq S
  BY DEF Tidy
<1>2. \A x, y \in S : Lt(Converse(O), x, y) <=> Lt(O, y, x)
  BY <1>1, ConverseIs
<1>3. Orders(O, S)
  BY <1>1, <1>2 DEF Orders
<1>4. \A x \in S : /\ Lower(Converse(O), D[x], x) = Upper(O, D[x], x)
                   /\ Upper(Converse(O), D[x], x) = Lower(O, D[x], x)
  BY <1>1, <1>2 DEF Lower, Upper
<1> QED
  BY <1>3, <1>4 DEF Tidy

(* Of two nodes of a tree only one can be below the other.                 *)
LEMMA NotBelowBoth ==
    ASSUME NEW O, NEW f, NEW g, NEW S, NEW D, Tidy(O, f, g, S, D),
           NEW x \in S, NEW y \in D[x], x \in D[y]
    PROVE  x = y
<1> SUFFICES ASSUME x # y PROVE FALSE
  OBVIOUS
<1>1. PICK c \in {f[x], g[x]} : c # Nil /\ y \in D[c] /\ c \in S
  <2>1. /\ D[x] = {x} \cup Sub(D, f[x]) \cup Sub(D, g[x])
        /\ \A c \in {f[x], g[x]} : c # Nil => c \in S
    BY ChildBelow
  <2>2. PICK c \in {f[x], g[x]} : y \in Sub(D, c)
    BY <2>1
  <2>3. c # Nil /\ y \in D[c]
    BY <2>2 DEF Sub
  <2> QED
    BY <2>1, <2>3
<1>2. D[c] \subseteq D[x] \ {x}
  <2>1. Sub(D, f[x]) \subseteq D[x] \ {x} /\ Sub(D, g[x]) \subseteq D[x] \ {x}
    BY ChildBelow
  <2> QED
    BY <1>1, <2>1 DEF Sub
<1>3. D[y] \subseteq D[c]
  BY <1>1, BelowIsBelow
<1> QED
  BY <1>2, <1>3

(* f1 and g1 are f and g after a rotation: x, at the left of a, comes      *)
(* above it.                                                               *)
Rotated(a, x, f, g, S, f1, g1) ==
    /\ f1[a] = g[x] /\ g1[a] = g[a]
    /\ f1[x] = f[x] /\ g1[x] = a
    /\ \A y \in S \ {a, x} : /\ f1[y] = IF f[y] = a THEN x ELSE f[y]
                             /\ g1[y] = IF g[y] = a THEN x ELSE g[y]

OnlyChildOf(a, x, f, g, S) ==
    x = f[a] /\ x # Nil /\ \A y \in S \ {a} : x # f[y] /\ x # g[y]

(* A rotation leaves a search tree, with the same nodes below it.          *)
LEMMA RotateTidy ==
    ASSUME NEW O, NEW f, NEW g, NEW S, NEW D, Tidy(O, f, g, S, D),
           NEW a \in S, NEW x, OnlyChildOf(a, x, f, g, S),
           NEW f1, NEW g1, Rotated(a, x, f, g, S, f1, g1)
    PROVE  \E D1 : /\ Tidy(O, f1, g1, S, D1) /\ D1[x] = D[a]
                   /\ \A y \in S \ {a, x} : D1[y] = D[y]
<1> DEFINE A == D[a] \ ({x} \cup Lower(O, D[x], x))
           D1 == [y \in S |-> IF y = x THEN D[a] ELSE IF y = a THEN A ELSE D[y]]
<1>1. /\ S \subseteq Scheduled /\ IsFiniteSet(S) /\ Orders(O, S)
      /\ \A y \in S : /\ y \in D[y] /\ D[y] \subseteq S
                      /\ f[y] \in S \cup {Nil} /\ g[y] \in S \cup {Nil}
                      /\ Sub(D, f[y]) = Lower(O, D[y], y)
                      /\ Sub(D, g[y]) = Upper(O, D[y], y)
  BY DEF Tidy
<1>2. /\ x \in S /\ x = f[a] /\ x # Nil /\ x # a /\ Lt(O, x, a) /\ x \in D[a]
      /\ \A y \in S \ {a} : x # f[y] /\ x # g[y]
  BY ChildBelow DEF OnlyChildOf
<1>3. D[x] = Lower(O, D[a], a)
  BY <1>1, <1>2 DEF Sub
<1>4. \A y \in S : y # x /\ y # a => D1[y] = D[y]
  OBVIOUS
<1>5. D1[x] = D[a] /\ D1[a] = A
  BY <1>2
<1>6. \A c : c # x /\ c # a /\ c \in S \cup {Nil} => Sub(D1, c) = Sub(D, c)
  BY <1>4 DEF Sub
<1>7. Sub(D1, x) = D[a] /\ Sub(D1, a) = A
  BY <1>1, <1>2, <1>5, NilIsNoNode DEF Sub
<1> HIDE DEF D1
<1>8. ASSUME NEW y \in S \ {a, x}
      PROVE  /\ y \in D1[y] /\ D1[y] \subseteq S
             /\ f1[y] \in S \cup {Nil} /\ g1[y] \in S \cup {Nil}
             /\ Sub(D1, f1[y]) = Lower(O, D1[y], y)
             /\ Sub(D1, g1[y]) = Upper(O, D1[y], y)
  <2>1. D1[y] = D[y] /\ y \in D[y] /\ D[y] \subseteq S
    BY <1>1, <1>4
  <2>2. /\ f[y] \in S \cup {Nil} /\ g[y] \in S \cup {Nil} /\ f[y] # x /\ g[y] # x
        /\ Sub(D, f[y]) = Lower(O, D[y], y) /\ Sub(D, g[y]) = Upper(O, D[y], y)
    BY <1>1, <1>2
  <2>3. /\ f1[y] = IF f[y] = a THEN x ELSE f[y]
        /\ g1[y] = IF g[y] = a THEN x ELSE g[y]
    BY DEF Rotated
  <2>4. Sub(D, a) = D[a]
    BY <1>1, NilIsNoNode DEF Sub
  <2>5. Sub(D1, f1[y]) = Sub(D, f[y]) /\ f1[y] \in S \cup {Nil}
    BY <2>2, <2>3, <2>4, <1>2, <1>6, <1>7
  <2>6. Sub(D1, g1[y]) = Sub(D, g[y]) /\ g1[y] \in S \cup {Nil}
    BY <2>2, <2>3, <2>4, <1>2, <1>6, <1>7
  <2> QED
    BY <2>1, <2>2, <2>5, <2>6
<1>9. /\ a \in D1[a] /\ D1[a] \subseteq S
      /\ f1[a] \in S \cup {Nil} /\ g1[a] \in S \cup {Nil}
      /\ Sub(D1, f1[a]) = Lower(O, D1[a], a)
      /\ Sub(D1, g1[a]) = Upper(O, D1[a], a)
  <2>1. f1[a] = g[x] /\ g1[a] = g[a]
    BY DEF Rotated
  <2>2. g[x] # x /\ g[x] # a
    <3>1. Sub(D, g[x]) \subseteq D[x] \ {x} /\ a \notin D[x]
      BY <1>1, <1>2, <1>3, ChildBelow DEF Lower, Orders
    <3> QED
      BY <1>1, <1>2, <3>1, NilIsNoNode DEF Sub
  <2>3. g[a] # x /\ g[a] # a
    <3>1. Sub(D, g[a]) \subseteq Upper(O, D[a], a)
      BY <1>1
    <3>2. x \notin Upper(O, D[a], a) /\ a \notin Upper(O, D[a], a)
      BY <1>1, <1>2 DEF Upper, Orders
    <3> QED
      BY <1>1, <1>2, <3>1, <3>2, NilIsNoNode DEF Sub
  <2>4. Sub(D1, f1[a]) = Upper(O, D[x], x) /\ Sub(D1, g1[a]) = Upper(O, D[a], a)
    BY <1>1, <1>2, <1>6, <2>1, <2>2, <2>3
  <2>5. Upper(O, D[x], x) = Lower(O, A, a)
    BY <1>1, <1>2, <1>3 DEF Lower, Upper, Orders
  <2>6. Upper(O, D[a], a) = Upper(O, A, a)
    BY <1>1, <1>2, <1>3 DEF Lower, Upper, Orders
  <2>7. a \in A /\ A \subseteq S
    BY <1>1, <1>2, <1>3 DEF Lower, Orders
  <2> QED
    BY <1>1, <1>2, <1>5, <2>1, <2>4, <2>5, <2>6, <2>7
<1>10. /\ x \in D1[x] /\ D1[x] \subseteq S
       /\ f1[x] \in S \cup {Nil} /\ g1[x] \in S \cup {Nil}
       /\ Sub(D1, f1[x]) = Lower(O, D1[x], x)
       /\ Sub(D1, g1[x]) = Upper(O, D1[x], x)
  <2>1. f1[x] = f[x] /\ g1[x] = a
    BY DEF Rotated
  <2>2. f[x] # x /\ f[x] # a
    <3>1. Sub(D, f[x]) \subseteq D[x] \ {x} /\ a \notin D[x]
      BY <1>1, <1>2, <1>3, ChildBelow DEF Lower, Orders
    <3> QED
      BY <1>1, <1>2, <3>1, NilIsNoNode DEF Sub
  <2>3. Sub(D1, f1[x]) = Lower(O, D[x], x) /\ Sub(D1, g1[x]) = A
    BY <1>1, <1>2, <1>6, <1>7, <2>1, <2>2
  <2>4. Lower(O, D[x], x) = Lower(O, D[a], x)
    BY <1>1, <1>2, <1>3 DEF Lower, Orders
  <2>5. A = Upper(O, D[a], x)
    BY <1>1, <1>2, <1>3 DEF Lower, Upper, Orders
  <2> QED
    BY <1>1, <1>2, <1>5, <2>1, <2>3, <2>4, <2>5
<1>11. Tidy(O, f1, g1, S, D1)
  BY <1>1, <1>8, <1>9, <1>10 DEF Tidy
<1> QED
  BY <1>4, <1>5, <1>11

(* f1 and g1 are f and g after e gave its place to c.                      *)
Spliced(e, c, f, g, S, f1, g1) ==
    \A y \in S \ {e} : /\ f1[y] = IF f[y] = e THEN c ELSE f[y]
                       /\ g1[y] = IF g[y] = e THEN c ELSE g[y]

(* c has below it what is below e.                                         *)
Follows(c, e, S, D) == c \in S \cup {Nil} /\ Sub(D, c) = D[e] \ {e}

(* With its only child in its place a node leaves the tree, and every      *)
(* other node keeps what is below it.                                      *)
LEMMA SpliceTidy ==
    ASSUME NEW O, NEW f, NEW g, NEW S, NEW D, Tidy(O, f, g, S, D),
           NEW e \in S, NEW c, Follows(c, e, S, D),
           NEW f1, NEW g1, Spliced(e, c, f, g, S, f1, g1)
    PROVE  \E D1 : /\ Tidy(O, f1, g1, S \ {e}, D1)
                   /\ \A y \in S \ {e} : D1[y] = D[y] \ {e}
                   /\ Sub(D1, c) = D[e] \ {e} /\ c # e
<1> DEFINE D1 == [y \in S |-> D[y] \ {e}]
<1> c \in S \cup {Nil} /\ Sub(D, c) = D[e] \ {e}
  BY DEF Follows
<1>1. /\ S \subseteq Scheduled /\ IsFiniteSet(S) /\ Orders(O, S)
      /\ \A y \in S : /\ y \in D[y] /\ D[y] \subseteq S
                      /\ f[y] \in S \cup {Nil} /\ g[y] \in S \cup {Nil}
                      /\ Sub(D, f[y]) = Lower(O, D[y], y)
                      /\ Sub(D, g[y]) = Upper(O, D[y], y)
  BY DEF Tidy
<1>2. c # e
  BY <1>1, NilIsNoNode DEF Sub
<1>3. \A y \in S \cup {Nil} : Sub(D1, y) = Sub(D, y) \ {e}
  BY DEF Sub
<1>4. Sub(D1, c) = D[e] \ {e}
  BY <1>2, <1>3
<1>5. \A y \in S : D1[y] = D[y] \ {e}
  OBVIOUS
<1> HIDE DEF D1
<1>6. Sub(D, e) = D[e]
  BY <1>1, NilIsNoNode DEF Sub
<1>7. ASSUME NEW y \in S \ {e}
      PROVE  /\ y \in D1[y] /\ D1[y] \subseteq S \ {e}
             /\ f1[y] \in (S \ {e}) \cup {Nil} /\ g1[y] \in (S \ {e}) \cup {Nil}
             /\ Sub(D1, f1[y]) = Lower(O, D1[y], y)
             /\ Sub(D1, g1[y]) = Upper(O, D1[y], y)
  <2>1. /\ f1[y] = IF f[y] = e THEN c ELSE f[y]
        /\ g1[y] = IF g[y] = e THEN c ELSE g[y]
    BY DEF Spliced
  <2>2. /\ f[y] \in S \cup {Nil} /\ g[y] \in S \cup {Nil}
        /\ Sub(D, f[y]) = Lower(O, D[y], y) /\ Sub(D, g[y]) = Upper(O, D[y], y)
        /\ y \in D[y] /\ D[y] \subseteq S
    BY <1>1
  <2>3. Sub(D1, f1[y]) = Sub(D, f[y]) \ {e}
    BY <1>2, <1>3, <1>4, <1>6, <2>1, <2>2
  <2>4. Sub(D1, g1[y]) = Sub(D, g[y]) \ {e}
    BY <1>2, <1>3, <1>4, <1>6, <2>1, <2>2
  <2>5. /\ Lower(O, D1[y], y) = Lower(O, D[y], y) \ {e}
        /\ Upper(O, D1[y], y) = Upper(O, D[y], y) \ {e}
    BY <1>5 DEF Lower, Upper
  <2> QED
    BY <1>2, <1>5, <2>1, <2>2, <2>3, <2>4, <2>5
<1>8. Tidy(O, f1, g1, S \ {e}, D1)
  <2>1. IsFiniteSet(S \ {e}) /\ S \ {e} \subseteq Scheduled
    BY <1>1, FS_Subset
  <2>2. Orders(O, S \ {e})
    BY <1>1 DEF Orders
  <2> QED
    BY <1>7, <2>1, <2>2 DEF Tidy
<1> QED
  BY <1>2, <1>4, <1>5, <1>8

(* f1 and g1 are f and g after q, which is new, took the place of e.       *)
Renamed(e, q, f, g, S, f1, g1) ==
    /\ f1[q] = f[e] /\ g1[q] = g[e]
    /\ \A y \in S \ {e} : /\ f1[y] = IF f[y] = e THEN q ELSE f[y]
                          /\ g1[y] = IF g[y] = e THEN q ELSE g[y]

(* For what is above or below e, q is where e was.                         *)
Stands(O, e, q, S, D) ==
    \A y \in S \ {e} : y \in D[e] \/ e \in D[y]
        => (Lt(O, y, e) <=> Lt(O, y, q)) /\ (Lt(O, e, y) <=> Lt(O, q, y))

Newcomer(O, q, S) == q \in Scheduled /\ q \notin S /\ Orders(O, S \cup {q})

(* D1 says what is below what after q took the place of e.                 *)
Succeeds(O, e, q, S, D, f1, g1, D1) ==
    /\ Tidy(O, f1, g1, (S \ {e}) \cup {q}, D1)
    /\ D1[q] = (D[e] \ {e}) \cup {q}
    /\ \A y \in S \ {e} :
         D1[y] = IF e \in D[y] THEN (D[y] \ {e}) \cup {q} ELSE D[y]

(* A node that belongs where e is can take its place.                      *)
LEMMA RenameTidy ==
    ASSUME NEW O, NEW f, NEW g, NEW S, NEW D, Tidy(O, f, g, S, D),
           NEW e \in S, NEW q, Newcomer(O, q, S), Stands(O, e, q, S, D),
           NEW f1, NEW g1, Renamed(e, q, f, g, S, f1, g1)
    PROVE  \E D1 : Succeeds(O, e, q, S, D, f1, g1, D1)
<1>0. q \in Scheduled /\ q \notin S /\ Orders(O, S \cup {q})
  BY DEF Newcomer
<1> DEFINE T == (S \ {e}) \cup {q}
           To(A) == IF e \in A THEN (A \ {e}) \cup {q} ELSE A
           D1 == [y \in T |-> IF y = q THEN To(D[e]) ELSE To(D[y])]
<1>1. /\ S \subseteq Scheduled /\ IsFiniteSet(S) /\ Orders(O, S)
      /\ \A y \in S : /\ y \in D[y] /\ D[y] \subseteq S
                      /\ f[y] \in S \cup {Nil} /\ g[y] \in S \cup {Nil}
                      /\ Sub(D, f[y]) = Lower(O, D[y], y)
                      /\ Sub(D, g[y]) = Upper(O, D[y], y)
  BY DEF Tidy
<1>2. e # q /\ e # Nil /\ q # Nil
  BY <1>0, <1>1, NilIsNoNode
<1>3. D1[q] = To(D[e]) /\ \A y \in S \ {e} : D1[y] = To(D[y])
  <2>1. \A y \in S \ {e} : y # q
    BY <1>0
  <2> HIDE DEF To
  <2> QED
    BY <2>1
<1>4. /\ \A y \in (S \ {e}) \cup {Nil} : Sub(D1, y) = To(Sub(D, y))
      /\ Sub(D1, q) = To(Sub(D, e))
  BY <1>1, <1>2, <1>3 DEF Sub
<1> HIDE DEF D1
<1>5. ASSUME NEW y \in S \ {e}
      PROVE  /\ y \in D1[y] /\ D1[y] \subseteq T
             /\ f1[y] \in T \cup {Nil} /\ g1[y] \in T \cup {Nil}
             /\ Sub(D1, f1[y]) = Lower(O, D1[y], y)
             /\ Sub(D1, g1[y]) = Upper(O, D1[y], y)
  <2>1. /\ f1[y] = IF f[y] = e THEN q ELSE f[y]
        /\ g1[y] = IF g[y] = e THEN q ELSE g[y]
    BY DEF Renamed
  <2>2. /\ f[y] \in S \cup {Nil} /\ g[y] \in S \cup {Nil}
        /\ Sub(D, f[y]) = Lower(O, D[y], y) /\ Sub(D, g[y]) = Upper(O, D[y], y)
        /\ y \in D[y] /\ D[y] \subseteq S
    BY <1>1
  <2>3. /\ Sub(D1, f1[y]) = To(Sub(D, f[y])) /\ f1[y] \in T \cup {Nil}
        /\ Sub(D1, g1[y]) = To(Sub(D, g[y])) /\ g1[y] \in T \cup {Nil}
    BY <1>2, <1>4, <2>1, <2>2
  <2>4. Lower(O, To(D[y]), y) = To(Lower(O, D[y], y)) /\ Upper(O, To(D[y]), y) = To(Upper(O, D[y], y))
    <3>1. CASE e \in D[y]
      <4>1. /\ Lt(O, y, e) <=> Lt(O, y, q)
            /\ Lt(O, e, y) <=> Lt(O, q, y)
        BY <3>1 DEF Stands
      <4>2. To(D[y]) = (D[y] \ {e}) \cup {q}
        BY <3>1
      <4>3. e \in Lower(O, D[y], y) <=> Lt(O, q, y)
        BY <3>1, <4>1 DEF Lower
      <4>4. e \in Upper(O, D[y], y) <=> Lt(O, y, q)
        BY <3>1, <4>1 DEF Upper
      <4> QED
        BY <4>1, <4>2, <4>3, <4>4, <1>2, <2>2 DEF Lower, Upper
    <3>2. CASE e \notin D[y]
      BY <3>2 DEF Lower, Upper
    <3> QED
      BY <3>1, <3>2
  <2>5. y \in To(D[y]) /\ To(D[y]) \subseteq T
    BY <2>2
  <2> HIDE DEF To, T
  <2> QED
    BY <1>3, <2>2, <2>3, <2>4, <2>5
<1>6. /\ q \in D1[q] /\ D1[q] \subseteq T
      /\ f1[q] \in T \cup {Nil} /\ g1[q] \in T \cup {Nil}
      /\ Sub(D1, f1[q]) = Lower(O, D1[q], q)
      /\ Sub(D1, g1[q]) = Upper(O, D1[q], q)
  <2>1. f1[q] = f[e] /\ g1[q] = g[e]
    BY DEF Renamed
  <2>2. f[e] # e /\ g[e] # e
    BY ChildBelow, <1>2
  <2>3. /\ f[e] \in S \cup {Nil} /\ g[e] \in S \cup {Nil}
        /\ Sub(D, f[e]) = Lower(O, D[e], e) /\ Sub(D, g[e]) = Upper(O, D[e], e)
        /\ e \in D[e] /\ D[e] \subseteq S
    BY <1>1
  <2>4. e \notin Lower(O, D[e], e) /\ e \notin Upper(O, D[e], e)
    BY <1>1 DEF Orders, Lower, Upper
  <2>5. /\ Sub(D1, f1[q]) = Lower(O, D[e], e) /\ f1[q] \in T \cup {Nil}
        /\ Sub(D1, g1[q]) = Upper(O, D[e], e) /\ g1[q] \in T \cup {Nil}
    BY <1>4, <2>1, <2>2, <2>3, <2>4
  <2>6. D1[q] = (D[e] \ {e}) \cup {q}
    BY <1>3, <2>3
  <2>7. ~Lt(O, q, q) /\ ~Lt(O, e, e)
    BY <1>0, <1>1 DEF Orders
  <2>8. \A y \in D[e] \ {e} : (Lt(O, y, e) <=> Lt(O, y, q)) /\ (Lt(O, e, y) <=> Lt(O, q, y))
    BY <2>3 DEF Stands
  <2>9. Lower(O, D1[q], q) = Lower(O, D[e], e) /\ Upper(O, D1[q], q) = Upper(O, D[e], e)
    BY <2>6, <2>7, <2>8, <2>3 DEF Lower, Upper
  <2>10. q \in D1[q] /\ D1[q] \subseteq T
    BY <2>3, <2>6
  <2> QED
    BY <2>5, <2>9, <2>10
<1>7. Tidy(O, f1, g1, T, D1)
  <2>1. IsFiniteSet(T) /\ T \subseteq Scheduled
    BY <1>0, <1>1, FS_Subset, FS_AddElement
  <2>2. Orders(O, T)
    BY <1>0 DEF Orders
  <2>3. \A y \in T : y = q \/ y \in S \ {e}
    OBVIOUS
  <2> HIDE DEF T
  <2> QED
    BY <1>5, <1>6, <2>1, <2>2, <2>3 DEF Tidy
<1>8. D1[q] = (D[e] \ {e}) \cup {q}
  BY <1>1, <1>3
<1>9. \A y \in S \ {e} : D1[y] = To(D[y])
  BY <1>3
<1> HIDE DEF T
<1> QED
  BY <1>7, <1>8, <1>9 DEF Succeeds, T

-----------------------------------------------------------------------------
(* insert() takes the tree to pieces.                                      *)

Closed(f, x) == [f EXCEPT ![x] = Nil]

(* The middle tree M has the root t; n is to the right of the left tree L, *)
(* whose last node is l, and to the left of the right tree R, whose first  *)
(* node is r.  n holds R at its left and L at its right, and an end is n   *)
(* where the tree is empty.                                                *)
Pieces(O, n, f, g, t, l, r, S, D, L, M, R) ==
    /\ n \in Scheduled /\ n \notin S /\ Orders(O, S \cup {n})
    /\ f \in [S \cup {n} -> S \cup {Nil}] /\ g \in [S \cup {n} -> S \cup {Nil}]
    /\ Tidy(O, Closed(f, r), Closed(g, l), S, D)
    /\ S = L \cup M \cup R
    /\ t \in S \cup {Nil} /\ Sub(D, t) = M
    /\ Sub(D, Closed(f, r)[n]) = R
    /\ Sub(D, Closed(g, l)[n]) = L
    /\ \A x \in L : \A y \in M \cup R \cup {n} : Lt(O, x, y)
    /\ \A x \in M \cup L \cup {n} : \A y \in R : Lt(O, x, y)
    /\ l \in L \cup {n} /\ \A x \in L : l \in L /\ (x = l \/ Lt(O, x, l))
    /\ r \in R \cup {n} /\ \A x \in R : r \in R /\ (x = r \/ Lt(O, r, x))

(* The mirror of an order is an order.                                     *)
LEMMA OrdersMirror ==
    ASSUME NEW O, NEW S, S \subseteq Scheduled, Orders(O, S)
    PROVE  Orders(Converse(O), S)
<1>1. \A x, y \in S : Lt(Converse(O), x, y) <=> Lt(O, y, x)
  BY ConverseIs
<1> QED
  BY <1>1 DEF Orders

(* An order whose mirror is an order is one.                               *)
LEMMA OrdersUnmirror ==
    ASSUME NEW O, NEW S, S \subseteq Scheduled, Orders(Converse(O), S)
    PROVE  Orders(O, S)
<1>1. \A x, y \in S : Lt(Converse(O), x, y) <=> Lt(O, y, x)
  BY ConverseIs
<1> QED
  BY <1>1 DEF Orders

(* In a mirror the left tree is the right one.                             *)
LEMMA PiecesMirror ==
    ASSUME NEW O, NEW n, NEW f, NEW g, NEW t, NEW l, NEW r, NEW S, NEW D,
           NEW L, NEW M, NEW R, Pieces(O, n, f, g, t, l, r, S, D, L, M, R)
    PROVE  Pieces(Converse(O), n, g, f, t, r, l, S, D, R, M, L)
<1>1. S \cup {n} \subseteq Scheduled /\ Orders(O, S \cup {n})
  BY DEF Pieces, Tidy
<1>2. /\ Orders(Converse(O), S \cup {n})
      /\ Tidy(Converse(O), Closed(g, l), Closed(f, r), S, D)
  BY <1>1, OrdersMirror, TidyMirror DEF Pieces
<1>3. \A x, y \in S \cup {n} : Lt(Converse(O), x, y) <=> Lt(O, y, x)
  BY <1>1, ConverseIs
<1> QED
  BY <1>2, <1>3 DEF Pieces

(* Pieces seen in a mirror are pieces.                                     *)
LEMMA PiecesUnmirror ==
    ASSUME NEW O, NEW n, NEW f, NEW g, NEW t, NEW l, NEW r, NEW S, NEW D,
           NEW L, NEW M, NEW R, Pieces(Converse(O), n, g, f, t, r, l, S, D, R, M, L)
    PROVE  Pieces(O, n, f, g, t, l, r, S, D, L, M, R)
<1>1. S \cup {n} \subseteq Scheduled /\ Orders(Converse(O), S \cup {n})
  BY DEF Pieces, Tidy
<1>2. /\ Orders(O, S \cup {n})
      /\ Tidy(O, Closed(f, r), Closed(g, l), S, D)
  BY <1>1, OrdersUnmirror, TidyUnmirror DEF Pieces
<1>3. \A x, y \in S \cup {n} : Lt(Converse(O), x, y) <=> Lt(O, y, x)
  BY <1>1, ConverseIs
<1> QED
  BY <1>2, <1>3 DEF Pieces

(* What is below a node of a piece is in the piece.                        *)
LEMMA PiecesApart ==
    ASSUME NEW O, NEW n, NEW f, NEW g, NEW t, NEW l, NEW r, NEW S, NEW D,
           NEW L, NEW M, NEW R, Pieces(O, n, f, g, t, l, r, S, D, L, M, R)
    PROVE  /\ \A y \in L : D[y] \subseteq L
           /\ \A y \in M : D[y] \subseteq M
           /\ \A y \in R : D[y] \subseteq R
           /\ L \cap M = {} /\ M \cap R = {} /\ L \cap R = {}
           /\ t # Nil => t \in M /\ D[t] = M /\ t \notin {n, l, r}
           /\ r = n => R = {}
           /\ l = n => L = {}
<1>1. /\ n \in Scheduled /\ n \notin S /\ Orders(O, S \cup {n})
      /\ f \in [S \cup {n} -> S \cup {Nil}] /\ g \in [S \cup {n} -> S \cup {Nil}]
      /\ Tidy(O, Closed(f, r), Closed(g, l), S, D)
      /\ S = L \cup M \cup R
      /\ t \in S \cup {Nil} /\ Sub(D, t) = M
      /\ Sub(D, Closed(f, r)[n]) = R
      /\ Sub(D, Closed(g, l)[n]) = L
      /\ \A x \in L : \A y \in M \cup R \cup {n} : Lt(O, x, y)
      /\ \A x \in M \cup L \cup {n} : \A y \in R : Lt(O, x, y)
      /\ l \in L \cup {n} /\ \A x \in L : l \in L /\ (x = l \/ Lt(O, x, l))
      /\ r \in R \cup {n} /\ \A x \in R : r \in R /\ (x = r \/ Lt(O, r, x))
  BY DEF Pieces
<1>2. \A c \in S \cup {Nil} : \A y \in Sub(D, c) : D[y] \subseteq Sub(D, c)
  <2> SUFFICES ASSUME NEW c \in S, NEW y \in D[c] PROVE D[y] \subseteq D[c]
    BY DEF Sub
  <2> QED
    BY <1>1, BelowIsBelow
<1>3. Closed(f, r)[n] \in S \cup {Nil} /\ Closed(g, l)[n] \in S \cup {Nil}
  BY <1>1 DEF Closed
<1>4. L \cap M = {} /\ M \cap R = {} /\ L \cap R = {}
  BY <1>1 DEF Orders
<1>5. t # Nil => t \in D[t] /\ D[t] = M
  BY <1>1 DEF Tidy, Sub
<1> QED
  BY <1>1, <1>2, <1>3, <1>4, <1>5

(* LINK_RIGHT: t and what is to its right go to the right tree.            *)
LEMMA LinkTurn ==
    ASSUME NEW O, NEW n, NEW f, NEW g, NEW t, NEW l, NEW r, NEW S, NEW D,
           NEW L, NEW M, NEW R, Pieces(O, n, f, g, t, l, r, S, D, L, M, R),
           t # Nil, Lt(O, n, t)
    PROVE  \E D1 : Pieces(O, n, [f EXCEPT ![r] = t], g, f[t], l, t, S, D1,
                          L, Lower(O, M, t), R \cup {t} \cup Upper(O, M, t))
<1> DEFINE f0 == Closed(f, r)
           g0 == Closed(g, l)
           f1 == [f EXCEPT ![r] = t]
           f2 == Closed(f1, t)
           T == {t} \cup Upper(O, M, t)
           D1 == [y \in S |-> IF y = t THEN T
                              ELSE IF r \in D[y] THEN D[y] \cup T ELSE D[y]]
<1>1. /\ n \in Scheduled /\ n \notin S /\ Orders(O, S \cup {n})
      /\ f \in [S \cup {n} -> S \cup {Nil}] /\ g \in [S \cup {n} -> S \cup {Nil}]
      /\ Tidy(O, f0, g0, S, D)
      /\ S = L \cup M \cup R
      /\ t \in S /\ Sub(D, t) = M
      /\ Sub(D, f0[n]) = R
      /\ Sub(D, g0[n]) = L
      /\ \A x \in L : \A y \in M \cup R \cup {n} : Lt(O, x, y)
      /\ \A x \in M \cup L \cup {n} : \A y \in R : Lt(O, x, y)
      /\ l \in L \cup {n} /\ \A x \in L : l \in L /\ (x = l \/ Lt(O, x, l))
      /\ r \in R \cup {n} /\ \A x \in R : r \in R /\ (x = r \/ Lt(O, r, x))
  BY DEF Pieces
<1>2. /\ S \subseteq Scheduled /\ IsFiniteSet(S) /\ Orders(O, S)
      /\ \A y \in S : /\ y \in D[y] /\ D[y] \subseteq S
                      /\ f0[y] \in S \cup {Nil} /\ g0[y] \in S \cup {Nil}
                      /\ Sub(D, f0[y]) = Lower(O, D[y], y)
                      /\ Sub(D, g0[y]) = Upper(O, D[y], y)
  BY <1>1 DEF Tidy
<1>3. /\ \A y \in L : D[y] \subseteq L
      /\ \A y \in M : D[y] \subseteq M
      /\ \A y \in R : D[y] \subseteq R
      /\ L \cap M = {} /\ M \cap R = {} /\ L \cap R = {}
      /\ t \in M /\ D[t] = M /\ t \notin {n, l, r}
      /\ r = n => R = {}
      /\ l = n => L = {}
  BY PiecesApart
<1>4. /\ f0 \in [S \cup {n} -> S \cup {Nil}] /\ g0 \in [S \cup {n} -> S \cup {Nil}]
      /\ f1 \in [S \cup {n} -> S \cup {Nil}] /\ f2 \in [S \cup {n} -> S \cup {Nil}]
      /\ f0[r] = Nil /\ \A y \in S \cup {n} : y # r => f0[y] = f[y]
      /\ f2[r] = t /\ f2[t] = Nil /\ \A y \in S \cup {n} : y \notin {r, t} => f2[y] = f0[y]
      /\ f[t] = f0[t] /\ f[t] \in S \cup {Nil}
  BY <1>1, <1>3 DEF Closed
<1>5. /\ \A y \in S : y # t /\ r \notin D[y] => D1[y] = D[y]
      /\ \A y \in S : y # t /\ r \in D[y] => D1[y] = D[y] \cup T
      /\ D1[t] = T
  BY <1>1
<1>6. /\ \A c \in S \cup {Nil} : c # t /\ r \notin Sub(D, c) => Sub(D1, c) = Sub(D, c)
      /\ \A c \in S \cup {Nil} : c # t /\ r \in Sub(D, c) => Sub(D1, c) = Sub(D, c) \cup T
      /\ Sub(D1, t) = T
  BY <1>5, <1>1 DEF Sub
<1> HIDE DEF D1, f0, g0, f1, f2
<1>7. T \subseteq M
  BY <1>3 DEF Upper
<1>8. \A y \in M : y # t => t \notin D[y]
  <2> SUFFICES ASSUME NEW y \in M, t \in D[y] PROVE y = t
    OBVIOUS
  <2> QED
    BY <1>1, <1>3, NotBelowBoth
<1>9. \A c : c \in S => c \in Sub(D, c)
  BY <1>2, NilIsNoNode DEF Sub
<1>10. ASSUME NEW y \in S
       PROVE  /\ y \in D1[y] /\ D1[y] \subseteq S
              /\ Sub(D1, f2[y]) = Lower(O, D1[y], y)
              /\ Sub(D1, g0[y]) = Upper(O, D1[y], y)
  <2>1. /\ y \in D[y] /\ D[y] \subseteq S
        /\ f0[y] \in S \cup {Nil} /\ g0[y] \in S \cup {Nil}
        /\ Sub(D, f0[y]) = Lower(O, D[y], y)
        /\ Sub(D, g0[y]) = Upper(O, D[y], y)
        /\ Lower(O, D[y], y) \subseteq D[y] /\ Upper(O, D[y], y) \subseteq D[y]
    BY <1>2 DEF Lower, Upper
  <2>2. CASE y # t /\ r \notin D[y]
    <3>1. t \notin D[y] /\ y # r
      BY <2>1, <2>2, <1>1, <1>3, <1>8
    <3>2. /\ f0[y] # t /\ g0[y] # t /\ r \notin Sub(D, f0[y]) /\ r \notin Sub(D, g0[y])
      BY <2>1, <2>2, <3>1, <1>9
    <3>3. D1[y] = D[y] /\ f2[y] = f0[y]
      BY <2>2, <3>1, <1>4, <1>5
    <3> QED
      BY <2>1, <3>2, <3>3, <1>6
  <2>3. CASE y # t /\ r \in D[y] /\ y # r
    <3>1. y \in R /\ r \in R /\ D[y] \subseteq R
      BY <2>1, <2>3, <1>1, <1>3
    <3>2. Lt(O, r, y) /\ ~Lt(O, y, r)
      BY <2>3, <3>1, <1>1, <1>2 DEF Orders
    <3>3. r \in Sub(D, f0[y]) /\ r \notin Sub(D, g0[y])
      BY <2>1, <2>3, <3>2 DEF Lower, Upper
    <3>4. f0[y] # t /\ g0[y] # t
      BY <2>1, <3>1, <1>3, <1>9
    <3>5. \A z \in T : Lt(O, z, y) /\ ~Lt(O, y, z)
      <4>1. \A z \in M : Lt(O, z, y) /\ z # y /\ z \in S
        BY <1>1, <1>3, <3>1
      <4> QED
        BY <4>1, <1>7, <1>2 DEF Orders
    <3>6. Lower(O, D[y] \cup T, y) = Lower(O, D[y], y) \cup T /\ Upper(O, D[y] \cup T, y) = Upper(O, D[y], y)
      BY <3>5 DEF Lower, Upper
    <3>7. D1[y] = D[y] \cup T /\ f2[y] = f0[y]
      BY <2>3, <1>4, <1>5
    <3> QED
      BY <2>1, <3>3, <3>4, <3>6, <3>7, <1>6, <1>7, <1>1
  <2>4. CASE y = r
    <3>1. y \in R /\ y # t /\ r \in D[y] /\ D[y] \subseteq R
      BY <2>1, <2>4, <1>1, <1>3
    <3>2. Lower(O, D[y], y) = {} /\ f2[y] = t
      BY <2>1, <2>4, <1>4 DEF Sub
    <3>3. \A z \in T : Lt(O, z, y) /\ ~Lt(O, y, z)
      <4>1. \A z \in M : Lt(O, z, y) /\ z # y /\ z \in S
        BY <1>1, <1>3, <3>1
      <4> QED
        BY <4>1, <1>7, <1>2 DEF Orders
    <3>4. Lower(O, D[y] \cup T, y) = T /\ Upper(O, D[y] \cup T, y) = Upper(O, D[y], y)
      BY <3>2, <3>3 DEF Lower, Upper
    <3>5. D1[y] = D[y] \cup T
      BY <3>1, <1>5
    <3>6. r \notin Sub(D, g0[y]) /\ g0[y] # t
      <4>1. ~Lt(O, y, y)
        BY <1>2 DEF Orders
      <4> QED
        BY <4>1, <2>1, <2>4, <3>1, <1>3, <1>9 DEF Upper
    <3> QED
      BY <2>1, <3>2, <3>4, <3>5, <3>6, <1>6, <1>7, <1>1
  <2>5. CASE y = t
    <3>1. D1[y] = T /\ f2[y] = Nil
      BY <2>5, <1>4, <1>5
    <3>2. Lower(O, T, t) = {} /\ Upper(O, T, t) = Upper(O, M, t)
      BY <1>1, <1>2, <1>3 DEF Lower, Upper, Orders
    <3>3. Sub(D, g0[t]) = Upper(O, M, t) /\ t \notin Upper(O, M, t) /\ r \notin Upper(O, M, t)
      BY <1>1, <1>2, <1>3 DEF Upper, Orders
    <3>4. g0[t] # t
      BY <1>1, <1>9, <3>3
    <3>5. Sub(D1, g0[t]) = Upper(O, M, t)
      BY <2>1, <2>5, <3>3, <3>4, <1>6
    <3>6. Sub(D1, f2[t]) = {}
      BY <2>5, <3>1 DEF Sub
    <3>7. t \in T /\ T \subseteq S
      BY <1>7, <1>1
    <3> HIDE DEF T
    <3> QED
      BY <2>5, <3>1, <3>2, <3>5, <3>6, <3>7
  <2> QED
    BY <2>2, <2>3, <2>4, <2>5
<1>11. Tidy(O, f2, g0, S, D1)
  BY <1>2, <1>4, <1>10 DEF Tidy
<1>12. Sub(D1, f[t]) = Lower(O, M, t)
  <2>1. Sub(D, f0[t]) = Lower(O, M, t) /\ t \notin Lower(O, M, t) /\ r \notin Lower(O, M, t)
    BY <1>1, <1>2, <1>3 DEF Lower, Orders
  <2>2. f0[t] # t
    BY <1>1, <1>9, <2>1
  <2> QED
    BY <1>4, <1>6, <2>1, <2>2
<1>13. Sub(D1, f2[n]) = R \cup T
  <2>1. CASE r = n
    BY <2>1, <1>3, <1>4, <1>6
  <2>2. CASE r # n
    <3>1. f2[n] = f0[n] /\ r \in Sub(D, f0[n]) /\ f0[n] \in S \cup {Nil}
      BY <2>2, <1>1, <1>3, <1>4
    <3>2. f0[n] # t
      BY <1>1, <1>3, <1>9
    <3> QED
      BY <3>1, <3>2, <1>1, <1>6
  <2> QED
    BY <2>1, <2>2
<1>14. Sub(D1, g0[n]) = L
  <2>1. g0[n] \in S \cup {Nil} /\ g0[n] # t /\ r \notin L
    BY <1>1, <1>3, <1>4, <1>9
  <2> QED
    BY <2>1, <1>1, <1>6
<1>15. M = Lower(O, M, t) \cup T
  BY <1>1, <1>2, <1>3 DEF Lower, Upper, Orders
<1>16. /\ S = L \cup Lower(O, M, t) \cup (R \cup T)
       /\ \A x \in L : \A y \in Lower(O, M, t) \cup (R \cup T) \cup {n} : Lt(O, x, y)
  BY <1>1, <1>15
<1>17. \A x \in Lower(O, M, t) \cup L \cup {n} : \A y \in R \cup T : Lt(O, x, y)
  <2>1. \A y \in T : y = t \/ Lt(O, t, y)
    BY DEF Upper
  <2>2. \A x \in Lower(O, M, t) \cup L \cup {n} : Lt(O, x, t)
    BY <1>1, <1>3 DEF Lower
  <2>3. \A x \in Lower(O, M, t) \cup L \cup {n} : x \in S \cup {n} /\ x \in M \cup L \cup {n}
    BY <1>1 DEF Lower
  <2>4. \A x, y, z \in S \cup {n} : Lt(O, x, y) /\ Lt(O, y, z) => Lt(O, x, z)
    BY <1>1 DEF Orders
  <2>5. T \subseteq S
    BY <1>1, <1>7
  <2> SUFFICES ASSUME NEW x \in Lower(O, M, t) \cup L \cup {n}, NEW y \in R \cup T
               PROVE  Lt(O, x, y)
    OBVIOUS
  <2>6. CASE y \in R
    BY <2>6, <2>3, <1>1
  <2>7. CASE y \in T
    BY <2>7, <2>1, <2>2, <2>3, <2>4, <2>5, <1>1
  <2> QED
    BY <2>6, <2>7
<1>18. \A x \in R \cup T : t \in R \cup T /\ (x = t \/ Lt(O, t, x))
  BY <1>1, <1>3 DEF Upper
<1>19. R \cup {t} \cup Upper(O, M, t) = R \cup T
  OBVIOUS
<1> HIDE DEF T
<1>20. Pieces(O, n, f1, g, f[t], l, t, S, D1, L, Lower(O, M, t), R \cup T)
  <2>1. t \in R \cup T
    BY DEF T
  <2> QED
    BY <1>1, <1>4, <1>11, <1>12, <1>13, <1>14, <1>16, <1>17, <1>18, <2>1 DEF Pieces, f2, g0
<1> QED
  BY <1>19, <1>20 DEF f1

(* ROTATE_RIGHT at the root of the middle tree                             *)
LEMMA RotateTurn ==
    ASSUME NEW O, NEW n, NEW f, NEW g, NEW t, NEW l, NEW r, NEW S, NEW D,
           NEW L, NEW M, NEW R, Pieces(O, n, f, g, t, l, r, S, D, L, M, R),
           t # Nil, f[t] # Nil
    PROVE  \E D1 : Pieces(O, n, [f EXCEPT ![t] = g[f[t]]], [g EXCEPT ![f[t]] = t],
                          f[t], l, r, S, D1, L, M, R)
<1> DEFINE x == f[t]
           f0 == Closed(f, r)
           g0 == Closed(g, l)
           f1 == [f EXCEPT ![t] = g[x]]
           g1 == [g EXCEPT ![x] = t]
           f2 == Closed(f1, r)
           g2 == Closed(g1, l)
<1>1. /\ n \in Scheduled /\ n \notin S /\ Orders(O, S \cup {n})
      /\ f \in [S \cup {n} -> S \cup {Nil}] /\ g \in [S \cup {n} -> S \cup {Nil}]
      /\ Tidy(O, f0, g0, S, D)
      /\ S = L \cup M \cup R
      /\ t \in S /\ Sub(D, t) = M
      /\ Sub(D, f0[n]) = R
      /\ Sub(D, g0[n]) = L
      /\ l \in L \cup {n} /\ r \in R \cup {n}
  BY DEF Pieces
<1>2. /\ \A y \in L : D[y] \subseteq L
      /\ \A y \in M : D[y] \subseteq M
      /\ \A y \in R : D[y] \subseteq R
      /\ L \cap M = {} /\ M \cap R = {} /\ L \cap R = {}
      /\ t \in M /\ D[t] = M /\ t \notin {n, l, r}
  BY PiecesApart
<1>3. f0[t] = x /\ x \in S /\ x # Nil
  BY <1>1, <1>2 DEF Closed
<1>4. x \in D[x] /\ x \in M /\ x # t /\ D[x] \subseteq M
  <2>1. Sub(D, f0[t]) \subseteq D[t] \ {t} /\ f0[t] \in D[f0[t]]
    BY <1>1, <1>3, ChildBelow
  <2> QED
    BY <2>1, <1>2, <1>3 DEF Sub
<1>5. /\ f0 \in [S \cup {n} -> S \cup {Nil}] /\ g0 \in [S \cup {n} -> S \cup {Nil}]
      /\ f1 \in [S \cup {n} -> S \cup {Nil}] /\ g1 \in [S \cup {n} -> S \cup {Nil}]
      /\ \A y \in S \cup {n} : /\ f0[y] = IF y = r THEN Nil ELSE f[y]
                               /\ g0[y] = IF y = l THEN Nil ELSE g[y]
                               /\ f1[y] = IF y = t THEN g[x] ELSE f[y]
                               /\ g1[y] = IF y = x THEN t ELSE g[y]
                               /\ f2[y] = IF y = r THEN Nil ELSE f1[y]
                               /\ g2[y] = IF y = l THEN Nil ELSE g1[y]
  BY <1>1, <1>2, <1>3 DEF Closed
<1> HIDE DEF f0, g0, f1, g1, f2, g2, x
<1>6. x \notin {n, l, r}
  BY <1>1, <1>2, <1>4
<1>7. /\ f2[t] = g0[x] /\ g2[t] = g0[t] /\ f2[x] = f0[x] /\ g2[x] = t
      /\ \A y \in (S \cup {n}) \ {t, x} : f2[y] = f0[y] /\ g2[y] = g0[y]
  BY <1>1, <1>2, <1>3, <1>4, <1>5, <1>6
<1>8. ASSUME NEW y \in S, NEW c \in {f0[y], g0[y]}, c # Nil
      PROVE  c \in D[c] /\ c \in D[y] /\ D[c] \subseteq D[y] \ {y}
  <2>1. /\ Sub(D, f0[y]) \subseteq D[y] \ {y} /\ Sub(D, g0[y]) \subseteq D[y] \ {y}
        /\ f0[y] # Nil => f0[y] \in D[f0[y]] /\ f0[y] \in D[y]
        /\ g0[y] # Nil => g0[y] \in D[g0[y]] /\ g0[y] \in D[y]
    BY <1>1, ChildBelow
  <2> QED
    BY <2>1, <1>8 DEF Sub
<1>9. \A y \in S : f0[y] # t /\ g0[y] # t
  <2> SUFFICES ASSUME NEW y \in S, NEW c \in {f0[y], g0[y]}, c = t PROVE FALSE
    OBVIOUS
  <2>1. t # Nil /\ t \in D[y] /\ D[t] \subseteq D[y] \ {y}
    BY <1>8
  <2>2. y \in M
    BY <2>1, <1>1, <1>2
  <2> QED
    BY <2>1, <2>2, <1>2
<1>10. OnlyChildOf(t, x, f0, g0, S)
  <2> SUFFICES ASSUME NEW y \in S, NEW c \in {f0[y], g0[y]}, c = x, y # t PROVE FALSE
    BY <1>3 DEF OnlyChildOf
  <2>1. x \in D[y]
    BY <1>3, <1>8
  <2>2. y \in D[t] /\ t \in D[t]
    BY <2>1, <1>1, <1>2, <1>4
  <2>3. x \in {f0[y], g0[y]} /\ x \in {f0[t], g0[t]}
    BY <1>3
  <2> QED
    BY <2>2, <2>3, <1>1, <1>3, OneParent
<1>11. Rotated(t, x, f0, g0, S, f2, g2)
  BY <1>7, <1>9, <1>4 DEF Rotated
<1>12. PICK D1 : /\ Tidy(O, f2, g2, S, D1) /\ D1[x] = D[t]
                 /\ \A y \in S \ {t, x} : D1[y] = D[y]
  BY <1>1, <1>10, <1>11, RotateTidy
<1>13. Sub(D1, x) = M
  BY <1>2, <1>3, <1>12 DEF Sub
<1>14. \A c \in S \cup {Nil} : Sub(D, c) \cap M = {} => Sub(D1, c) = Sub(D, c)
  <2> SUFFICES ASSUME NEW c \in S, Sub(D, c) \cap M = {} PROVE D1[c] = D[c]
    BY DEF Sub
  <2>1. c \in Sub(D, c)
    BY <1>1, NilIsNoNode DEF Tidy, Sub
  <2> QED
    BY <2>1, <1>2, <1>4, <1>12
<1>15. Sub(D1, f2[n]) = R /\ Sub(D1, g2[n]) = L
  <2>1. f2[n] = f0[n] /\ g2[n] = g0[n] /\ f0[n] \in S \cup {Nil} /\ g0[n] \in S \cup {Nil}
    BY <1>1, <1>5, <1>6, <1>7, <1>2
  <2> QED
    BY <2>1, <1>1, <1>2, <1>14
<1>16. Pieces(O, n, f1, g1, x, l, r, S, D1, L, M, R)
  BY <1>1, <1>3, <1>5, <1>12, <1>13, <1>15 DEF Pieces, f2, g2
<1> QED
  BY <1>16 DEF f1, g1, x

(* What is left of the middle lies between the ends.                       *)
Middle(O, S, n, l, r) == {y \in S : (l = n \/ Lt(O, l, y)) /\ (r = n \/ Lt(O, y, r))}

(* The ends tell which nodes are still in the middle tree.                 *)
LEMMA MiddleIs ==
    ASSUME NEW O, NEW n, NEW f, NEW g, NEW t, NEW l, NEW r, NEW S, NEW D,
           NEW L, NEW M, NEW R, Pieces(O, n, f, g, t, l, r, S, D, L, M, R)
    PROVE  Middle(O, S, n, l, r) = M
<1>1. /\ n \notin S /\ Orders(O, S \cup {n})
      /\ S = L \cup M \cup R
      /\ \A x \in L : \A y \in M \cup R \cup {n} : Lt(O, x, y)
      /\ \A x \in M \cup L \cup {n} : \A y \in R : Lt(O, x, y)
      /\ l \in L \cup {n} /\ \A x \in L : l \in L /\ (x = l \/ Lt(O, x, l))
      /\ r \in R \cup {n} /\ \A x \in R : r \in R /\ (x = r \/ Lt(O, r, x))
  BY DEF Pieces
<1>2. \A x, y \in S : Lt(O, x, y) => x # y /\ ~Lt(O, y, x)
  BY <1>1 DEF Orders
<1>3. M \subseteq Middle(O, S, n, l, r)
  BY <1>1 DEF Middle
<1>4. ASSUME NEW y \in Middle(O, S, n, l, r) PROVE y \in M
  <2>1. y \in S /\ (l = n \/ Lt(O, l, y)) /\ (r = n \/ Lt(O, y, r))
    BY DEF Middle
  <2>2. y \notin L
    BY <2>1, <1>1, <1>2
  <2>3. y \notin R
    BY <2>1, <1>1, <1>2
  <2> QED
    BY <2>1, <2>2, <2>3, <1>1
<1> QED
  BY <1>3, <1>4

Put(f, x, v) == [f EXCEPT ![x] = v]

(* A turn of the loop of insert() to the side of the smaller ones: with    *)
(* the right tree at its other side it is the one to the other side.       *)
LEMMA RightTurn ==
    ASSUME NEW O, NEW n, NEW f, NEW g, NEW t, NEW l, NEW r, NEW S, NEW D,
           NEW L, NEW M, NEW R, Pieces(O, n, f, g, t, l, r, S, D, L, M, R),
           t # Nil, Lt(O, n, t)
    PROVE  /\ f[t] # Nil /\ Lt(O, n, f[t]) =>
              LET x  == f[t]
                  f1 == Put(f, t, g[x])
                  g1 == Put(g, x, t)
              IN  \E D1, M1, R1 :
                    /\ Pieces(O, n, Put(f1, r, x), g1, f1[x], l, x, S, D1, L, M1, R1)
                    /\ M1 \subseteq M /\ M1 # M
           /\ \E D1, M1, R1 :
                /\ Pieces(O, n, Put(f, r, t), g, f[t], l, t, S, D1, L, M1, R1)
                /\ M1 \subseteq M /\ M1 # M
<1>1. ASSUME NEW f1, NEW g1, NEW x, NEW D1,
             Pieces(O, n, f1, g1, x, l, r, S, D1, L, M, R), x # Nil, Lt(O, n, x)
      PROVE  \E D2, M1, R1 :
                /\ Pieces(O, n, Put(f1, r, x), g1, f1[x], l, x, S, D2, L, M1, R1)
                /\ M1 \subseteq M /\ M1 # M
  <2>1. PICK D2 : Pieces(O, n, Put(f1, r, x), g1, f1[x], l, x, S, D2, L,
                         Lower(O, M, x), R \cup {x} \cup Upper(O, M, x))
    BY <1>1, LinkTurn DEF Put
  <2>2. x \in M /\ M \subseteq S /\ Orders(O, S \cup {n})
    <3>1. x \in M
      BY <1>1, PiecesApart
    <3>2. S = L \cup M \cup R /\ Orders(O, S \cup {n})
      BY <1>1 DEF Pieces
    <3> QED
      BY <3>1, <3>2
  <2>3. Lower(O, M, x) \subseteq M /\ x \notin Lower(O, M, x)
    BY <2>2 DEF Lower, Orders
  <2>4. Lower(O, M, x) # M
    BY <2>2, <2>3
  <2> QED
    BY <2>1, <2>3, <2>4
<1>2. ASSUME f[t] # Nil, Lt(O, n, f[t])
      PROVE  \E D1 : Pieces(O, n, Put(f, t, g[f[t]]), Put(g, f[t], t),
                          f[t], l, r, S, D1, L, M, R)
  BY <1>2, RotateTurn DEF Put
<1>3. \E D1, M1, R1 :
         /\ Pieces(O, n, Put(f, r, t), g, f[t], l, t, S, D1, L, M1, R1)
         /\ M1 \subseteq M /\ M1 # M
  BY <1>1
<1>4. ASSUME f[t] # Nil, Lt(O, n, f[t])
      PROVE  LET x  == f[t]
                 f1 == Put(f, t, g[x])
                 g1 == Put(g, x, t)
             IN  \E D1, M1, R1 :
                   /\ Pieces(O, n, Put(f1, r, x), g1, f1[x], l, x, S, D1, L, M1, R1)
                   /\ M1 \subseteq M /\ M1 # M
  <2> DEFINE x  == f[t]
             f1 == Put(f, t, g[x])
             g1 == Put(g, x, t)
  <2>1. PICK D1 : Pieces(O, n, f1, g1, x, l, r, S, D1, L, M, R)
    BY <1>2, <1>4
  <2>2. x # Nil /\ Lt(O, n, x)
    BY <1>4
  <2> HIDE DEF f1, g1, x
  <2>3. \E D2, M1, R1 :
          /\ Pieces(O, n, Put(f1, r, x), g1, f1[x], l, x, S, D2, L, M1, R1)
          /\ M1 \subseteq M /\ M1 # M
    BY <1>1, <2>1, <2>2
  <2> QED
    BY <2>3 DEF f1, g1, x
<1> QED
  BY <1>3, <1>4

(* The state of the loop of insert()                                       *)
Halves(t, l, r, f, g) == [t |-> t, l |-> l, r |-> r, left |-> f, right |-> g]

(* The state of the loop is a record of five fields.                       *)
LEMMA HalvesAre ==
    ASSUME NEW T, NEW A, NEW B, NEW F, NEW G,
           NEW s \in [t : T, l : A, r : B, left : F, right : G]
    PROVE  s = Halves(s.t, s.l, s.r, s.left, s.right)
BY DEF Halves

(* What ROTATE_RIGHT, ROTATE_LEFT, LINK_RIGHT and LINK_LEFT assign         *)
LEMMA SplayMoves ==
    ASSUME NEW t, NEW l, NEW r, NEW f, NEW g, NEW s, s = Halves(t, l, r, f, g)
    PROVE  /\ Splay!RotateRight(s) = Halves(f[t], l, r, Put(f, t, g[f[t]]),
                                     Put(g, f[t], t))
           /\ Splay!RotateLeft(s) = Halves(g[t], l, r, Put(f, g[t], t),
                                     Put(g, t, f[g[t]]))
           /\ Splay!LinkRight(s) = Halves(f[t], l, t, Put(f, r, t),
                                     g)
           /\ Splay!LinkLeft(s) = Halves(g[t], t, r, f,
                                     Put(g, l, t))
<1>1. s.t = t /\ s.l = l /\ s.r = r /\ s.left = f /\ s.right = g
  BY DEF Halves
<1>2. Splay!RotateRight(s) = Halves(f[t], l, r, Put(f, t, g[f[t]]),
                        Put(g, f[t], t))
  <2> DEFINE u == Splay!RotateRight(s)
  <2>1. s \in [t : {t, f[t]}, l : {l, l}, r : {r, r}, left : {f, Put(f, t, g[f[t]])},
              right : {g, Put(g, f[t], t)}]
    BY DEF Halves
  <2>2. /\ u.t = f[t] /\ u.l = l /\ u.r = r /\ u.left = Put(f, t, g[f[t]]) /\ u.right = Put(g, f[t], t)
        /\ u \in [t : {t, f[t]}, l : {l, l}, r : {r, r}, left : {f, Put(f, t, g[f[t]])},
                 right : {g, Put(g, f[t], t)}]
    BY <1>1, <2>1 DEF Splay!RotateRight, Put
  <2> HIDE DEF u
  <2>3. u = Halves(u.t, u.l, u.r, u.left, u.right)
    BY <2>2, HalvesAre
  <2> QED
    BY <2>2, <2>3 DEF u
<1>3. Splay!RotateLeft(s) = Halves(g[t], l, r, Put(f, g[t], t),
                        Put(g, t, f[g[t]]))
  <2> DEFINE u == Splay!RotateLeft(s)
  <2>1. s \in [t : {t, g[t]}, l : {l, l}, r : {r, r}, left : {f, Put(f, g[t], t)},
              right : {g, Put(g, t, f[g[t]])}]
    BY DEF Halves
  <2>2. /\ u.t = g[t] /\ u.l = l /\ u.r = r /\ u.left = Put(f, g[t], t) /\ u.right = Put(g, t, f[g[t]])
        /\ u \in [t : {t, g[t]}, l : {l, l}, r : {r, r}, left : {f, Put(f, g[t], t)},
                 right : {g, Put(g, t, f[g[t]])}]
    BY <1>1, <2>1 DEF Splay!RotateLeft, Put
  <2> HIDE DEF u
  <2>3. u = Halves(u.t, u.l, u.r, u.left, u.right)
    BY <2>2, HalvesAre
  <2> QED
    BY <2>2, <2>3 DEF u
<1>4. Splay!LinkRight(s) = Halves(f[t], l, t, Put(f, r, t),
                        g)
  <2> DEFINE u == Splay!LinkRight(s)
  <2>1. s \in [t : {t, f[t]}, l : {l, l}, r : {r, t}, left : {f, Put(f, r, t)},
              right : {g, g}]
    BY DEF Halves
  <2>2. /\ u.t = f[t] /\ u.l = l /\ u.r = t /\ u.left = Put(f, r, t) /\ u.right = g
        /\ u \in [t : {t, f[t]}, l : {l, l}, r : {r, t}, left : {f, Put(f, r, t)},
                 right : {g, g}]
    BY <1>1, <2>1 DEF Splay!LinkRight, Put
  <2> HIDE DEF u
  <2>3. u = Halves(u.t, u.l, u.r, u.left, u.right)
    BY <2>2, HalvesAre
  <2> QED
    BY <2>2, <2>3 DEF u
<1>5. Splay!LinkLeft(s) = Halves(g[t], t, r, f,
                        Put(g, l, t))
  <2> DEFINE u == Splay!LinkLeft(s)
  <2>1. s \in [t : {t, g[t]}, l : {l, t}, r : {r, r}, left : {f, f},
              right : {g, Put(g, l, t)}]
    BY DEF Halves
  <2>2. /\ u.t = g[t] /\ u.l = t /\ u.r = r /\ u.left = f /\ u.right = Put(g, l, t)
        /\ u \in [t : {t, g[t]}, l : {l, t}, r : {r, r}, left : {f, f},
                 right : {g, Put(g, l, t)}]
    BY <1>1, <2>1 DEF Splay!LinkLeft, Put
  <2> HIDE DEF u
  <2>3. u = Halves(u.t, u.l, u.r, u.left, u.right)
    BY <2>2, HalvesAre
  <2> QED
    BY <2>2, <2>3 DEF u
<1> QED
  BY <1>2, <1>3, <1>4, <1>5

(* n comes after all the events S: it has the greatest number.             *)
Newest(n, S) == n \in Scheduled /\ \A y \in S : y.uid < n.uid

(* insert() compares times alone: the new event goes after those of its    *)
(* time, where its number puts it.                                         *)
LEMMA NewestGoes ==
    ASSUME NEW S, S \subseteq Scheduled, NEW n, Newest(n, S), NEW t \in S
    PROVE  /\ n \notin S /\ n # t
           /\ Splay!Before(n, t) => Lt(InTime, n, t)
           /\ ~Splay!Before(n, t) => Lt(InTime, t, n)
<1>1. /\ n \in Scheduled /\ t \in Scheduled /\ t.uid < n.uid
      /\ n.time \in Nat /\ n.uid \in Nat /\ t.time \in Nat /\ t.uid \in Nat
      /\ \A y \in S : y.uid \in Nat /\ y.uid < n.uid
  BY DEF Newest, Scheduled
<1>2. n \notin S
  <2>1. ~(n.uid < n.uid)
    BY <1>1
  <2> QED
    BY <2>1, <1>1
<1>3. Splay!Before(n, t) => Queue!Earlier(n, t)
  BY <1>1 DEF Splay!Before, Queue!Earlier
<1>4. ~Splay!Before(n, t) => Queue!Earlier(t, n)
  BY <1>1 DEF Splay!Before, Queue!Earlier
<1> QED
  BY <1>1, <1>2, <1>3, <1>4 DEF Lt, InTime

InHalves(n, S, s, D, L, M, R) ==
    Pieces(InTime, n, s.left, s.right, s.t, s.l, s.r, S, D, L, M, R)

Splitting(n, S) ==
    {s \in [t : S \cup {Nil}, l : S \cup {n}, r : S \cup {n},
            left : [S \cup {n} -> S \cup {Nil}], right : [S \cup {n} -> S \cup {Nil}]] :
        \E D, L, M, R : InHalves(n, S, s, D, L, M, R)}

SplitUp(n, S) == {s \in Splitting(n, S) : s.t = Nil}

(* A turn of the loop of insert() moves nodes from the middle tree to the  *)
(* sides, until there are none left.                                       *)
LEMMA SplitTurn ==
    ASSUME NEW S, S \subseteq Scheduled, IsFiniteSet(S), NEW n, Newest(n, S),
           NEW s \in Splitting(n, S)
    PROVE  /\ Splay!Splayed(s, n) \in Splitting(n, S)
           /\ s \notin SplitUp(n, S) =>
                Cardinality(Middle(InTime, S, n, Splay!Splayed(s, n).l, Splay!Splayed(s, n).r))
                    < Cardinality(Middle(InTime, S, n, s.l, s.r))
           /\ s \in SplitUp(n, S) => Splay!Splayed(s, n) = s
<1> DEFINE t == s.t
           l == s.l
           r == s.r
           f == s.left
           g == s.right
<1>1. /\ s = Halves(t, l, r, f, g)
      /\ s \in [t : S \cup {Nil}, l : S \cup {n}, r : S \cup {n},
            left : [S \cup {n} -> S \cup {Nil}], right : [S \cup {n} -> S \cup {Nil}]]
  BY HalvesAre DEF Splitting
<1>2. PICK D, L, M, R : Pieces(InTime, n, f, g, t, l, r, S, D, L, M, R)
  BY DEF Splitting, InHalves
<1>3. /\ t \in S \cup {Nil} /\ l \in S \cup {n} /\ r \in S \cup {n}
      /\ f \in [S \cup {n} -> S \cup {Nil}] /\ g \in [S \cup {n} -> S \cup {Nil}]
      /\ n \notin S /\ M \subseteq S
      /\ Middle(InTime, S, n, l, r) = M
  <2>1. S = L \cup M \cup R /\ n \notin S
    BY <1>2 DEF Pieces
  <2> QED
    BY <1>1, <1>2, <2>1, MiddleIs
<1>4. s \in SplitUp(n, S) <=> t = Nil
  BY DEF SplitUp
<1>5. CASE t = Nil
  <2>1. Splay!Splayed(s, n) = s
    BY <1>5 DEF Splay!Splayed
  <2> QED
    BY <1>4, <1>5, <2>1
<1>6. CASE t # Nil
  <2>1. ASSUME NEW u, NEW D1, NEW L1, NEW M1, NEW R1,
               u = Splay!Splayed(s, n), u = Halves(u.t, u.l, u.r, u.left, u.right),
               Pieces(InTime, n, u.left, u.right, u.t, u.l, u.r, S, D1, L1, M1, R1),
               M1 \subseteq M, M1 # M
        PROVE  /\ Splay!Splayed(s, n) \in Splitting(n, S)
               /\ Cardinality(Middle(InTime, S, n, Splay!Splayed(s, n).l, Splay!Splayed(s, n).r))
                    < Cardinality(Middle(InTime, S, n, s.l, s.r))
    <3>1. /\ u.t \in S \cup {Nil} /\ u.l \in S \cup {n} /\ u.r \in S \cup {n}
          /\ u.left \in [S \cup {n} -> S \cup {Nil}]
          /\ u.right \in [S \cup {n} -> S \cup {Nil}]
      BY <2>1 DEF Pieces
    <3>2. u \in [t : S \cup {Nil}, l : S \cup {n}, r : S \cup {n},
            left : [S \cup {n} -> S \cup {Nil}], right : [S \cup {n} -> S \cup {Nil}]]
      BY <2>1, <3>1 DEF Halves
    <3>3. u \in Splitting(n, S)
      BY <2>1, <3>2 DEF Splitting, InHalves
    <3>4. Middle(InTime, S, n, u.l, u.r) = M1
      BY <2>1, MiddleIs
    <3>5. IsFiniteSet(M) /\ IsFiniteSet(M1)
      BY <1>3, <2>1, FS_Subset
    <3>6. Cardinality(M1) < Cardinality(M)
      <4>1. Cardinality(M1) <= Cardinality(M) /\ Cardinality(M1) # Cardinality(M)
        BY <3>5, <2>1, FS_Subset
      <4> QED
        BY <4>1, <3>5, FS_CardinalityType
    <3> QED
      BY <2>1, <3>3, <3>4, <3>6, <1>3
  <2>2. CASE Splay!Before(n, t)
    <3>1. Lt(InTime, n, t)
      BY <1>3, <1>6, <2>2, NewestGoes
    <3>2. CASE f[t] # Nil /\ Splay!Before(n, f[t])
      <4> DEFINE x  == f[t]
                 f1 == Put(f, t, g[x])
                 g1 == Put(g, x, t)
                 u == Halves(f1[x], l, x, Put(f1, r, x), g1)
      <4>1. Lt(InTime, n, x)
        <5>1. x \in S
          BY <1>3, <1>6, <3>2
        <5> QED
          BY <5>1, <3>2, NewestGoes
      <4>2. \E D1, M1, R1 :
              /\ Pieces(InTime, n, Put(f1, r, x), g1, f1[x], l, x, S, D1, L, M1, R1)
              /\ M1 \subseteq M /\ M1 # M
        BY <1>2, <1>6, <3>1, <3>2, <4>1, RightTurn
      <4>3. Splay!RotateRight(s) = Halves(x, l, r, f1, g1)
        <5> HIDE DEF t, l, r, f, g
        <5> QED
          BY <1>1, SplayMoves
      <4>4. Splay!LinkRight(Splay!RotateRight(s)) = u
        <5> HIDE DEF x, f1, g1, u
        <5> QED
          BY <4>3, SplayMoves DEF u
      <4>5. Splay!Splayed(s, n) = u
        <5> HIDE DEF u
        <5> QED
          BY <1>6, <2>2, <3>2, <4>4 DEF Splay!Splayed
      <4>6. /\ u.t = f1[x] /\ u.l = l /\ u.r = x /\ u.left = Put(f1, r, x)
            /\ u.right = g1
        BY DEF Halves
      <4> HIDE DEF u, x, f1, g1
      <4>7. u = Halves(u.t, u.l, u.r, u.left, u.right)
        BY <4>6 DEF u
      <4> QED
        BY <1>4, <1>6, <2>1, <4>2, <4>5, <4>6, <4>7
    <3>3. CASE ~(f[t] # Nil /\ Splay!Before(n, f[t]))
      <4> DEFINE u == Halves(f[t], l, t, Put(f, r, t), g)
      <4>1. \E D1, M1, R1 :
              /\ Pieces(InTime, n, Put(f, r, t), g, f[t], l, t, S, D1, L, M1, R1)
              /\ M1 \subseteq M /\ M1 # M
        BY <1>2, <1>6, <3>1, RightTurn
      <4>2. Splay!LinkRight(s) = u
        <5> HIDE DEF t, l, r, f, g
        <5> QED
          BY <1>1, SplayMoves
      <4>3. Splay!Splayed(s, n) = u
        <5> HIDE DEF u
        <5> QED
          BY <1>6, <2>2, <3>3, <4>2 DEF Splay!Splayed
      <4>4. /\ u.t = f[t] /\ u.l = l /\ u.r = t /\ u.left = Put(f, r, t)
            /\ u.right = g
        BY DEF Halves
      <4> HIDE DEF u
      <4>5. u = Halves(u.t, u.l, u.r, u.left, u.right)
        BY <4>4 DEF u
      <4> QED
        BY <1>4, <1>6, <2>1, <4>1, <4>3, <4>4, <4>5
    <3> QED
      BY <3>2, <3>3
  <2>3. CASE ~Splay!Before(n, t)
    <3>1. /\ Lt(Converse(InTime), n, t)
          /\ Pieces(Converse(InTime), n, g, f, t, r, l, S, D, R, M, L)
      <4>1. Lt(InTime, t, n) /\ n \in Scheduled /\ t \in Scheduled
        BY <1>3, <1>6, <2>3, NewestGoes DEF Newest
      <4> QED
        BY <4>1, <1>2, PiecesMirror, ConverseIs
    <3>2. CASE g[t] # Nil /\ ~Splay!Before(n, g[t])
      <4> DEFINE x  == g[t]
                 f1 == Put(f, x, t)
                 g1 == Put(g, t, f[x])
                 u == Halves(g1[x], x, r, f1, Put(g1, l, x))
      <4>1. Lt(Converse(InTime), n, x)
        <5>1. x \in S
          BY <1>3, <1>6, <3>2
        <5>2. Lt(InTime, x, n) /\ n \in Scheduled /\ x \in Scheduled
          BY <5>1, <3>2, NewestGoes DEF Newest
        <5> QED
          BY <5>2, ConverseIs
      <4>2. \E D1, M1, R1 :
              /\ Pieces(Converse(InTime), n, Put(g1, l, x), f1, g1[x], r, x, S, D1, R, M1, R1)
              /\ M1 \subseteq M /\ M1 # M
        BY <1>6, <3>1, <3>2, <4>1, RightTurn
      <4>3. Splay!RotateLeft(s) = Halves(x, l, r, f1, g1)
        <5> HIDE DEF t, l, r, f, g
        <5> QED
          BY <1>1, SplayMoves
      <4>4. Splay!LinkLeft(Splay!RotateLeft(s)) = u
        <5> HIDE DEF x, f1, g1, u
        <5> QED
          BY <4>3, SplayMoves DEF u
      <4>5. Splay!Splayed(s, n) = u
        <5> HIDE DEF u
        <5> QED
          BY <1>6, <2>3, <3>2, <4>4 DEF Splay!Splayed
      <4>6. /\ u.t = g1[x] /\ u.l = x /\ u.r = r /\ u.left = f1
            /\ u.right = Put(g1, l, x)
        BY DEF Halves
      <4> HIDE DEF u, x, f1, g1
      <4>7. u = Halves(u.t, u.l, u.r, u.left, u.right)
        BY <4>6 DEF u
      <4>8. \E D1, M1, R1 :
              /\ Pieces(InTime, n, f1, Put(g1, l, x), g1[x], x, r, S, D1, R1, M1, R)
              /\ M1 \subseteq M /\ M1 # M
        BY <4>2, PiecesUnmirror
      <4> QED
        BY <1>4, <1>6, <2>1, <4>5, <4>6, <4>7, <4>8
    <3>3. CASE ~(g[t] # Nil /\ ~Splay!Before(n, g[t]))
      <4> DEFINE u == Halves(g[t], t, r, f, Put(g, l, t))
      <4>1. \E D1, M1, R1 :
              /\ Pieces(Converse(InTime), n, Put(g, l, t), f, g[t], r, t, S, D1, R, M1, R1)
              /\ M1 \subseteq M /\ M1 # M
        BY <1>6, <3>1, RightTurn
      <4>2. Splay!LinkLeft(s) = u
        <5> HIDE DEF t, l, r, f, g
        <5> QED
          BY <1>1, SplayMoves
      <4>3. Splay!Splayed(s, n) = u
        <5> HIDE DEF u
        <5> QED
          BY <1>6, <2>3, <3>3, <4>2 DEF Splay!Splayed
      <4>4. /\ u.t = g[t] /\ u.l = t /\ u.r = r /\ u.left = f
            /\ u.right = Put(g, l, t)
        BY DEF Halves
      <4> HIDE DEF u
      <4>5. u = Halves(u.t, u.l, u.r, u.left, u.right)
        BY <4>4 DEF u
      <4>6. \E D1, M1, R1 :
              /\ Pieces(InTime, n, f, Put(g, l, t), g[t], t, r, S, D1, R1, M1, R)
              /\ M1 \subseteq M /\ M1 # M
        BY <4>1, PiecesUnmirror
      <4> QED
        BY <1>4, <1>6, <2>1, <4>3, <4>4, <4>5, <4>6
    <3> QED
      BY <3>2, <3>3
  <2> QED
    BY <2>2, <2>3
<1> QED
  BY <1>5, <1>6

(* tr is a search tree of the events S.                                    *)
TreeOf(tr, S) ==
    /\ tr.root \in S \cup {Nil}
    /\ tr.left \in [S -> S \cup {Nil}] /\ tr.right \in [S -> S \cup {Nil}]
    /\ \E D : Tidy(InTime, tr.left, tr.right, S, D) /\ Sub(D, tr.root) = S

(* The new event points to nothing yet.                                    *)
LEMMA WithIs ==
    ASSUME NEW S, NEW f \in [S -> S \cup {Nil}], NEW n, n \notin S
    PROVE  /\ Splay!With(f, n) \in [S \cup {n} -> S \cup {Nil}]
           /\ Splay!With(f, n)[n] = Nil /\ \A x \in S : Splay!With(f, n)[x] = f[x]
BY DEF Splay!With

(* Tidy looks at the pointers of the nodes alone.                          *)
LEMMA TidySame ==
    ASSUME NEW O, NEW f, NEW g, NEW S, NEW D, Tidy(O, f, g, S, D),
           NEW f1, NEW g1, \A x \in S : f1[x] = f[x] /\ g1[x] = g[x]
    PROVE  Tidy(O, f1, g1, S, D)
BY DEF Tidy

(* At the start of the loop the whole tree is the middle.                  *)
LEMMA SplitStart ==
    ASSUME NEW tr, NEW S, TreeOf(tr, S), NEW n, Newest(n, S)
    PROVE  Halves(tr.root, n, n, Splay!With(tr.left, n), Splay!With(tr.right, n))
               \in Splitting(n, S)
<1> DEFINE f == Splay!With(tr.left, n)
           g == Splay!With(tr.right, n)
           s == Halves(tr.root, n, n, f, g)
<1>1. PICK D : Tidy(InTime, tr.left, tr.right, S, D) /\ Sub(D, tr.root) = S
  BY DEF TreeOf
<1>2. S \subseteq Scheduled
  BY <1>1 DEF Tidy
<1>3. n \in Scheduled /\ n \notin S /\ S \cup {n} \subseteq Scheduled
  <2>1. \A y \in S : y # n
    BY <1>2, NewestGoes
  <2> QED
    BY <1>2, <2>1 DEF Newest
<1>4. /\ tr.left \in [S -> S \cup {Nil}] /\ tr.right \in [S -> S \cup {Nil}]
      /\ tr.root \in S \cup {Nil}
  BY DEF TreeOf
<1>5. /\ f \in [S \cup {n} -> S \cup {Nil}] /\ g \in [S \cup {n} -> S \cup {Nil}]
      /\ f[n] = Nil /\ g[n] = Nil
      /\ \A x \in S : f[x] = tr.left[x] /\ g[x] = tr.right[x]
  <2>1. \A h \in [S -> S \cup {Nil}] :
          /\ Splay!With(h, n) \in [S \cup {n} -> S \cup {Nil}]
          /\ Splay!With(h, n)[n] = Nil /\ \A x \in S : Splay!With(h, n)[x] = h[x]
    BY <1>3, WithIs
  <2> QED
    BY <2>1, <1>4
<1> HIDE DEF f, g
<1>6. /\ \A x \in S : Closed(f, n)[x] = tr.left[x] /\ Closed(g, n)[x] = tr.right[x]
      /\ Closed(f, n)[n] = Nil /\ Closed(g, n)[n] = Nil
  BY <1>3, <1>5 DEF Closed
<1>7. Tidy(InTime, Closed(f, n), Closed(g, n), S, D)
  BY <1>1, <1>6, TidySame
<1>8. Orders(InTime, S \cup {n})
  BY <1>3, InTimeOrders
<1>9. Pieces(InTime, n, f, g, tr.root, n, n, S, D, {}, S, {})
  BY <1>1, <1>3, <1>4, <1>5, <1>6, <1>7, <1>8 DEF Pieces, Sub
<1>10. /\ s.t = tr.root /\ s.l = n /\ s.r = n /\ s.left = f /\ s.right = g
       /\ s \in [t : S \cup {Nil}, l : S \cup {n}, r : S \cup {n},
            left : [S \cup {n} -> S \cup {Nil}], right : [S \cup {n} -> S \cup {Nil}]]
  BY <1>4, <1>5 DEF Halves
<1> HIDE DEF s
<1>11. s \in Splitting(n, S)
  BY <1>9, <1>10 DEF Splitting, InHalves
<1> QED
  BY <1>11 DEF s, f, g

(* The loop of insert() ends within as many turns as there are nodes,      *)
(* with no middle left.                                                    *)
LEMMA SplitEnds ==
    ASSUME NEW tr, NEW S, TreeOf(tr, S), NEW n, Newest(n, S)
    PROVE  Splay!Split(tr, n) \in SplitUp(n, S)
<1> DEFINE Turn(s) == Splay!Splayed(s, n)
           W(s) == Cardinality(Middle(InTime, S, n, s.l, s.r))
           start == Halves(tr.root, n, n, Splay!With(tr.left, n), Splay!With(tr.right, n))
           x0 == start
           X == Splitting(n, S)
           F == [s \in X |-> Turn(s)]
           w == [s \in X |-> W(s)]
           P(f) == f = [k \in 0..Cardinality(S) |-> IF k = 0 THEN x0 ELSE Turn(f[k - 1])]
           c == CHOOSE f : P(f)
<1>0. /\ S \subseteq Scheduled /\ IsFiniteSet(S) /\ Cardinality(S) \in Nat
      /\ start \in Splitting(n, S)
      /\ \A s : W(s) \in Nat /\ W(s) <= Cardinality(S)
      /\ \A s \in Splitting(n, S) :
           /\ Turn(s) \in Splitting(n, S)
           /\ s \notin SplitUp(n, S) => W(Turn(s)) < W(s)
           /\ s \in SplitUp(n, S) => Turn(s) = s
  <2>1. S \subseteq Scheduled /\ IsFiniteSet(S) /\ Cardinality(S) \in Nat
    BY FS_CardinalityType DEF TreeOf, Tidy
  <2>2. start \in Splitting(n, S)
    BY SplitStart
  <2>3. ASSUME NEW s PROVE W(s) \in Nat /\ W(s) <= Cardinality(S)
    <3>1. Middle(InTime, S, n, s.l, s.r) \subseteq S
      BY DEF Middle
    <3> QED
      BY <2>1, <3>1, FS_Subset, FS_CardinalityType
  <2>4. ASSUME NEW s \in Splitting(n, S)
        PROVE  /\ Turn(s) \in Splitting(n, S)
               /\ s \notin SplitUp(n, S) => W(Turn(s)) < W(s)
               /\ s \in SplitUp(n, S) => Turn(s) = s
    BY <2>1, SplitTurn
  <2> HIDE DEF W, Turn, start
  <2> QED
    BY <2>1, <2>2, <2>3, <2>4
<1> HIDE DEF W, Turn, start
<1>1. Cardinality(S) \in Nat /\ Loops(X, F, x0)
  BY <1>0 DEF SplitUp, Loops
<1>2. Nears(X, F, SplitUp(n, S), w) /\ w[x0] <= Cardinality(S)
  <2>1. \A s \in X : F[s] = Turn(s) /\ w[s] = W(s) /\ w[s] \in Nat
    BY <1>0 DEF SplitUp
  <2>2. \A s \in X : F[s] \in X
    BY <2>1, <1>0
  <2>3. \A s \in X : s \in SplitUp(n, S) => F[s] \in SplitUp(n, S)
    BY <2>1, <1>0
  <2>4. \A s \in X : s \notin SplitUp(n, S) => w[F[s]] < w[s]
    BY <2>1, <2>2, <1>0
  <2>5. w[x0] <= Cardinality(S)
    BY <1>0, <1>1, <2>1 DEF Loops
  <2> HIDE DEF w, F
  <2> QED
    BY <2>1, <2>3, <2>4, <2>5, <1>1 DEF Nears
<1>3. PICK g : /\ IsRun(X, F, x0, Cardinality(S), g) /\ g = [k \in 0..Cardinality(S) |-> g[k]]
               /\ \A k \in 0..Cardinality(S) : g[k] \in X
  <2> HIDE DEF F, x0, X
  <2> QED
    BY <1>1, LoopExists
<1>4. P(g)
  <2>1. \A k \in 1..Cardinality(S) : /\ k - 1 \in 0..Cardinality(S) /\ g[k - 1] \in X
                        /\ F[g[k - 1]] = Turn(g[k - 1])
    BY <1>1, <1>3
  <2> HIDE DEF F, X, x0
  <2>2. g[0] = x0 /\ \A k \in 1..Cardinality(S) : g[k] = Turn(g[k - 1])
    BY <2>1, <1>3 DEF IsRun
  <2>3. \A k \in 0..Cardinality(S) : g[k] = IF k = 0 THEN x0 ELSE Turn(g[k - 1])
    <3>1. \A k \in 0..Cardinality(S) : k # 0 => k \in 1..Cardinality(S)
      BY <1>1
    <3> QED
      BY <2>2, <3>1
  <2>4. g = [k \in 0..Cardinality(S) |-> g[k]]
    BY <1>3
  <2> QED
    BY ONLY <2>3, <2>4
<1>5. P(c)
  BY <1>4
<1>6. IsRun(X, F, x0, Cardinality(S), c)
  <2> HIDE DEF c, x0
  <2> QED
    BY <1>5, <1>1 DEF IsRun
<1>7. c[Cardinality(S)] \in SplitUp(n, S)
  <2> HIDE DEF c, x0, F, w, X
  <2> QED
    BY <1>1, <1>2, <1>6, LoopEnds
<1>8. Splay!Split(tr, n) = c[Cardinality(S)]
  <2>1. Splay!Size(tr) = Cardinality(S)
    <3>1. tr.left \in [S -> S \cup {Nil}]
      BY DEF TreeOf
    <3>2. DOMAIN tr.left = S
      BY <3>1
    <3> QED
      BY <3>2 DEF Splay!Size, Splay!Nodes, Splay!Cardinality, Cardinality
  <2> QED
    BY <2>1 DEF Splay!Split, Halves, Turn, start
<1> HIDE DEF c
<1> QED
  BY <1>7, <1>8

(* insert(): the tree has the event n more.                                *)
LEMMA InsertedTree ==
    ASSUME NEW tr, NEW S, TreeOf(tr, S), NEW n, Newest(n, S)
    PROVE  TreeOf(Splay!Inserted(tr, n), S \cup {n})
<1> DEFINE s == Splay!Split(tr, n)
           f == Closed(s.left, s.r)
           g == Closed(s.right, s.l)
           f1 == [f EXCEPT ![n] = g[n]]
           g1 == [g EXCEPT ![n] = f[n]]
<1>1. s \in Splitting(n, S) /\ s.t = Nil
  BY SplitEnds DEF SplitUp
<1>2. PICK D, L, M, R : Pieces(InTime, n, s.left, s.right, s.t, s.l, s.r, S, D, L, M, R)
  BY <1>1 DEF Splitting, InHalves
<1>3. Splay!Inserted(tr, n) = [root |-> n, left |-> f1, right |-> g1]
  BY DEF Splay!Inserted, Closed
<1> HIDE DEF s
<1>4. /\ n \in Scheduled /\ n \notin S /\ Orders(InTime, S \cup {n})
      /\ s.left \in [S \cup {n} -> S \cup {Nil}] /\ s.right \in [S \cup {n} -> S \cup {Nil}]
      /\ Tidy(InTime, f, g, S, D)
      /\ S = L \cup R
      /\ Sub(D, f[n]) = R
      /\ Sub(D, g[n]) = L
      /\ \A x \in L : Lt(InTime, x, n)
      /\ \A x \in R : Lt(InTime, n, x)
  BY <1>1, <1>2 DEF Pieces, Sub
<1>5. /\ f \in [S \cup {n} -> S \cup {Nil}] /\ g \in [S \cup {n} -> S \cup {Nil}]
      /\ f1 \in [S \cup {n} -> S \cup {Nil}] /\ g1 \in [S \cup {n} -> S \cup {Nil}]
      /\ f1[n] = g[n] /\ g1[n] = f[n]
      /\ \A x \in S : f1[x] = f[x] /\ g1[x] = g[x]
  BY <1>4 DEF Closed
<1> HIDE DEF f, g, f1, g1
<1> DEFINE D1 == [y \in S \cup {n} |-> IF y = n THEN S \cup {n} ELSE D[y]]
<1>6. D1[n] = S \cup {n} /\ \A y \in S : D1[y] = D[y]
  BY <1>4
<1>7. \A c \in S \cup {Nil} : Sub(D1, c) = Sub(D, c)
  BY <1>6 DEF Sub
<1> HIDE DEF D1
<1>8. /\ S \subseteq Scheduled /\ IsFiniteSet(S) /\ Orders(InTime, S)
      /\ \A y \in S : /\ y \in D[y] /\ D[y] \subseteq S
                      /\ f[y] \in S \cup {Nil} /\ g[y] \in S \cup {Nil}
                      /\ Sub(D, f[y]) = Lower(InTime, D[y], y)
                      /\ Sub(D, g[y]) = Upper(InTime, D[y], y)
  BY <1>4 DEF Tidy
<1>9. L = Lower(InTime, S \cup {n}, n) /\ R = Upper(InTime, S \cup {n}, n)
  BY <1>4 DEF Lower, Upper, Orders
<1>10. f[n] \in S \cup {Nil} /\ g[n] \in S \cup {Nil}
  BY <1>5
<1>11. Tidy(InTime, f1, g1, S \cup {n}, D1)
  <2>1. IsFiniteSet(S \cup {n}) /\ S \cup {n} \subseteq Scheduled
    BY <1>4, <1>8, FS_AddElement
  <2>2. ASSUME NEW y \in S
        PROVE  /\ y \in D1[y] /\ D1[y] \subseteq S \cup {n}
               /\ f1[y] \in S \cup {n} \cup {Nil} /\ g1[y] \in S \cup {n} \cup {Nil}
               /\ Sub(D1, f1[y]) = Lower(InTime, D1[y], y)
               /\ Sub(D1, g1[y]) = Upper(InTime, D1[y], y)
    BY <1>5, <1>6, <1>7, <1>8
  <2>3. /\ n \in D1[n] /\ D1[n] \subseteq S \cup {n}
        /\ f1[n] \in S \cup {n} \cup {Nil} /\ g1[n] \in S \cup {n} \cup {Nil}
        /\ Sub(D1, f1[n]) = Lower(InTime, D1[n], n)
        /\ Sub(D1, g1[n]) = Upper(InTime, D1[n], n)
    BY <1>4, <1>5, <1>6, <1>7, <1>9, <1>10
  <2> QED
    BY <1>4, <2>1, <2>2, <2>3 DEF Tidy
<1>12. Sub(D1, n) = S \cup {n}
  BY <1>4, <1>6, NilIsNoNode DEF Sub
<1>13. f1 \in [S \cup {n} -> S \cup {n} \cup {Nil}] /\ g1 \in [S \cup {n} -> S \cup {n} \cup {Nil}]
  BY <1>5
<1> QED
  BY <1>3, <1>11, <1>12, <1>13 DEF TreeOf

(* A tree without a root has no nodes.                                     *)
LEMMA RootIs ==
    ASSUME NEW tr, NEW S, TreeOf(tr, S)
    PROVE  /\ S \subseteq Scheduled /\ IsFiniteSet(S) /\ DOMAIN tr.left = S
           /\ tr.root = Nil <=> S = {}
           /\ S # {} => tr.root \in S
<1>1. PICK D : Tidy(InTime, tr.left, tr.right, S, D) /\ Sub(D, tr.root) = S
  BY DEF TreeOf
<1>2. /\ tr.root \in S \cup {Nil} /\ S \subseteq Scheduled /\ IsFiniteSet(S)
      /\ tr.left \in [S -> S \cup {Nil}]
  BY <1>1 DEF TreeOf, Tidy
<1>3. tr.root = Nil => S = {}
  BY <1>1 DEF Sub
<1>4. tr.root # Nil => tr.root \in S
  BY <1>2
<1> QED
  BY <1>2, <1>3, <1>4

(* insert() into an empty tree                                             *)
LEMMA FirstTree ==
    ASSUME NEW tr, NEW S, TreeOf(tr, S), S = {}, NEW n \in Scheduled
    PROVE  TreeOf([root |-> n, left |-> Splay!With(tr.left, n), right |-> Splay!With(tr.right, n)],
                  S \cup {n})
<1> DEFINE f == Splay!With(tr.left, n)
           g == Splay!With(tr.right, n)
           T == S \cup {n}
           D == [y \in T |-> T]
<1>1. tr.left \in [S -> S \cup {Nil}] /\ tr.right \in [S -> S \cup {Nil}] /\ n \notin S
  BY DEF TreeOf
<1>2. /\ f \in [T -> S \cup {Nil}] /\ g \in [T -> S \cup {Nil}]
      /\ f[n] = Nil /\ g[n] = Nil
  <2>1. \A h \in [S -> S \cup {Nil}] :
          /\ Splay!With(h, n) \in [S \cup {n} -> S \cup {Nil}]
          /\ Splay!With(h, n)[n] = Nil /\ \A x \in S : Splay!With(h, n)[x] = h[x]
    BY <1>1 DEF Splay!With
  <2> QED
    BY <1>1, <2>1
<1> HIDE DEF f, g
<1>3. T = {n}
  OBVIOUS
<1> HIDE DEF T
<1>4. Orders(InTime, T) /\ IsFiniteSet(T) /\ T \subseteq Scheduled
  BY <1>3, InTimeOrders, FS_Singleton
<1>5. Lower(InTime, T, n) = {} /\ Upper(InTime, T, n) = {} /\ D[n] = T
  BY <1>3, <1>4 DEF Lower, Upper, Orders
<1>6. Tidy(InTime, f, g, T, D) /\ Sub(D, n) = T
  BY <1>2, <1>3, <1>4, <1>5, NilIsNoNode DEF Tidy, Sub
<1> HIDE DEF D
<1>7. f \in [T -> T \cup {Nil}] /\ g \in [T -> T \cup {Nil}]
  BY <1>2, <1>3
<1> DEFINE tr1 == [root |-> n, left |-> f, right |-> g]
<1>8. tr1.root = n /\ tr1.left = f /\ tr1.right = g
  OBVIOUS
<1> HIDE DEF tr1
<1>9. TreeOf(tr1, T)
  BY <1>3, <1>6, <1>7, <1>8 DEF TreeOf
<1> QED
  BY <1>9 DEF tr1, f, g, T

WellTree(tr, S, D) ==
    /\ tr.root \in S \cup {Nil}
    /\ tr.left \in [S -> S \cup {Nil}] /\ tr.right \in [S -> S \cup {Nil}]
    /\ Tidy(InTime, tr.left, tr.right, S, D) /\ Sub(D, tr.root) = S

(* A search tree, with what is below each node named                       *)
LEMMA WellTreeIs ==
    ASSUME NEW tr, NEW S
    PROVE  TreeOf(tr, S) <=> \E D : WellTree(tr, S, D)
BY DEF TreeOf, WellTree

(* tr1 is tr after e gave its place to c.                                  *)
GaveWay(tr, e, c, S, tr1) ==
    /\ tr1.root = IF tr.root = e THEN c ELSE tr.root
    /\ tr1.left \in [S \ {e} -> S \cup {Nil}]
    /\ tr1.right \in [S \ {e} -> S \cup {Nil}]
    /\ Spliced(e, c, tr.left, tr.right, S, tr1.left, tr1.right)

(* A node with one child leaves the tree.                                  *)
LEMMA SplicedTree ==
    ASSUME NEW tr, NEW S, NEW D, WellTree(tr, S, D), NEW e \in S,
           NEW c, Follows(c, e, S, D),
           NEW tr1, GaveWay(tr, e, c, S, tr1)
    PROVE  \E D1 : /\ WellTree(tr1, S \ {e}, D1)
                   /\ \A y \in S \ {e} : D1[y] = D[y] \ {e}
<1> c \in S \cup {Nil}
  BY DEF Follows
<1> /\ tr1.root = IF tr.root = e THEN c ELSE tr.root
    /\ tr1.left \in [S \ {e} -> S \cup {Nil}]
    /\ tr1.right \in [S \ {e} -> S \cup {Nil}]
    /\ Spliced(e, c, tr.left, tr.right, S, tr1.left, tr1.right)
  BY DEF GaveWay
<1>1. /\ Tidy(InTime, tr.left, tr.right, S, D) /\ Sub(D, tr.root) = S
      /\ tr.root \in S \cup {Nil}
  BY DEF WellTree
<1>2. PICK D1 : /\ Tidy(InTime, tr1.left, tr1.right, S \ {e}, D1)
                /\ \A y \in S \ {e} : D1[y] = D[y] \ {e}
                /\ Sub(D1, c) = D[e] \ {e} /\ c # e
  <2> DEFINE f == tr.left
             g == tr.right
             f1 == tr1.left
             g1 == tr1.right
  <2>1. /\ Tidy(InTime, f, g, S, D) /\ Follows(c, e, S, D) /\ e \in S
        /\ Spliced(e, c, f, g, S, f1, g1)
    BY <1>1
  <2> HIDE DEF f, g, f1, g1
  <2>2. \E D1 : /\ Tidy(InTime, f1, g1, S \ {e}, D1)
                /\ \A y \in S \ {e} : D1[y] = D[y] \ {e}
                /\ Sub(D1, c) = D[e] \ {e} /\ c # e
    BY ONLY <2>1, SpliceTidy
  <2> QED
    BY <2>2 DEF f1, g1
<1>3. Sub(D1, tr1.root) = S \ {e} /\ tr1.root \in (S \ {e}) \cup {Nil}
  <2>1. CASE tr.root = e
    <3>1. D[e] = S /\ tr1.root = c
      BY <2>1, <1>1, NilIsNoNode DEF Sub, Tidy
    <3> QED
      BY <3>1, <1>2
  <2>2. CASE tr.root # e
    <3>1. tr1.root = tr.root /\ tr.root \in S \ {e}
      BY <2>2, <1>1 DEF Sub
    <3>2. D[tr.root] = S /\ tr.root # Nil
      BY <3>1, <1>1, NilIsNoNode DEF Sub, Tidy
    <3> QED
      BY <3>1, <3>2, <1>2 DEF Sub
  <2> QED
    BY <2>1, <2>2
<1>4. \A y \in S \ {e} : /\ tr1.left[y] \in (S \ {e}) \cup {Nil}
                         /\ tr1.right[y] \in (S \ {e}) \cup {Nil}
  BY <1>2 DEF Tidy
<1>5. /\ tr1.left \in [S \ {e} -> (S \ {e}) \cup {Nil}]
      /\ tr1.right \in [S \ {e} -> (S \ {e}) \cup {Nil}]
  BY <1>4
<1>6. WellTree(tr1, S \ {e}, D1)
  BY <1>2, <1>3, <1>5 DEF WellTree
<1> QED
  BY <1>2, <1>6

(* No node points to the root.                                             *)
LEMMA RootIsNoChild ==
    ASSUME NEW tr, NEW S, NEW D, WellTree(tr, S, D), NEW y \in S
    PROVE  /\ tr.root \in S /\ tr.root # Nil /\ D[tr.root] = S
           /\ tr.left[y] # tr.root /\ tr.right[y] # tr.root
           /\ \A c \in {tr.left[y], tr.right[y]} :
                c # Nil => /\ c \in S /\ c \in D[c] /\ D[c] \subseteq D[y] \ {y}
<1>1. /\ Tidy(InTime, tr.left, tr.right, S, D) /\ Sub(D, tr.root) = S
      /\ tr.root \in S \cup {Nil}
  BY DEF WellTree
<1>2. tr.root \in S /\ tr.root # Nil /\ D[tr.root] = S
  BY <1>1 DEF Sub
<1>3. /\ Sub(D, tr.left[y]) \subseteq D[y] \ {y} /\ Sub(D, tr.right[y]) \subseteq D[y] \ {y}
      /\ tr.left[y] # Nil => tr.left[y] \in S /\ tr.left[y] \in D[tr.left[y]]
      /\ tr.right[y] # Nil => tr.right[y] \in S /\ tr.right[y] \in D[tr.right[y]]
  BY <1>1, ChildBelow
<1>4. \A c \in {tr.left[y], tr.right[y]} :
        c # Nil => /\ c \in S /\ c \in D[c] /\ D[c] \subseteq D[y] \ {y}
  BY <1>3 DEF Sub
<1> QED
  BY <1>2, <1>4

(* A node has one parent.                                                  *)
LEMMA ParentIsOne ==
    ASSUME NEW tr, NEW S, NEW D, WellTree(tr, S, D), NEW x \in S, NEW y \in S, NEW c,
           c # Nil, c \in {tr.left[x], tr.right[x]}, c \in {tr.left[y], tr.right[y]}
    PROVE  x = y /\ tr.left[x] # tr.right[x]
<1>1. tr.root \in S /\ x \in D[tr.root] /\ y \in D[tr.root]
  BY RootIsNoChild
<1>2. Tidy(InTime, tr.left, tr.right, S, D)
  BY DEF WellTree
<1> QED
  BY <1>1, <1>2, OneParent

(* The pointers of the others stay.                                        *)
LEMMA WithoutIs ==
    ASSUME NEW S, NEW T, NEW f \in [S -> T], NEW e
    PROVE  /\ Splay!Without(f, e) \in [S \ {e} -> T]
           /\ \A x \in S \ {e} : Splay!Without(f, e)[x] = f[x]
BY DEF Splay!Without

(* s has the pointers of tr, in which e is the left child of p and the     *)
(* last one.                                                               *)
LeftEnd(tr, p, e, s) ==
    /\ tr.left[p] = e /\ tr.left[e] = Nil
    /\ s.left = tr.left /\ s.right = tr.right

(* deque(): p gives its left child e up.                                   *)
LEMMA TakenTree ==
    ASSUME NEW tr, NEW S, NEW D, WellTree(tr, S, D), NEW p \in S, NEW e \in S,
           NEW s, LeftEnd(tr, p, e, s)
    PROVE  /\ Splay!Taken(s, tr.root, p, e).event = e
           /\ TreeOf(Splay!Taken(s, tr.root, p, e).tree, S \ {e})
<1> DEFINE h == Put(tr.left, p, tr.right[e])
           tr1 == [root |-> tr.root, left |-> Splay!Without(h, e),
                   right |-> Splay!Without(tr.right, e)]
           d == Splay!Taken(s, tr.root, p, e)
<1> /\ tr.left[p] = e /\ tr.left[e] = Nil
    /\ s.left = tr.left /\ s.right = tr.right
  BY DEF LeftEnd
<1>1. d = [event |-> e, tree |-> tr1]
  BY DEF Splay!Taken, Put
<1>2. /\ tr.left \in [S -> S \cup {Nil}] /\ tr.right \in [S -> S \cup {Nil}]
      /\ Tidy(InTime, tr.left, tr.right, S, D)
  BY DEF WellTree
<1>3. /\ h \in [S -> S \cup {Nil}] /\ h[p] = tr.right[e]
      /\ \A x \in S : x # p => h[x] = tr.left[x]
  BY <1>2 DEF Put
<1> HIDE DEF h
<1>4. /\ tr1.root = tr.root
      /\ tr1.left \in [S \ {e} -> S \cup {Nil}] /\ tr1.right \in [S \ {e} -> S \cup {Nil}]
      /\ \A x \in S \ {e} : tr1.left[x] = h[x] /\ tr1.right[x] = tr.right[x]
  <2>1. \A k \in [S -> S \cup {Nil}] :
          /\ Splay!Without(k, e) \in [S \ {e} -> S \cup {Nil}]
          /\ \A x \in S \ {e} : Splay!Without(k, e)[x] = k[x]
    BY DEF Splay!Without
  <2> QED
    BY <2>1, <1>2, <1>3
<1>5. tr1 = tr1 /\ d.event = e /\ d.tree = tr1
  BY <1>1
<1> HIDE DEF tr1
<1>6. e # Nil /\ tr.root # e
  <2>1. tr.left[p] # tr.root
    BY RootIsNoChild
  <2> QED
    BY <1>2, <2>1, NilIsNoNode DEF Tidy
<1>7. ASSUME NEW y \in S, e \in {tr.left[y], tr.right[y]}
      PROVE  y = p /\ tr.right[y] # e
  <2>1. e \in {tr.left[p], tr.right[p]}
    OBVIOUS
  <2>2. y = p /\ tr.left[y] # tr.right[y]
    BY <1>6, <1>7, <2>1, ParentIsOne
  <2> QED
    BY <2>2
<1>8. Spliced(e, tr.right[e], tr.left, tr.right, S, tr1.left, tr1.right)
  <2> SUFFICES ASSUME NEW y \in S \ {e}
               PROVE  /\ tr1.left[y] = IF tr.left[y] = e THEN tr.right[e] ELSE tr.left[y]
                      /\ tr1.right[y] = IF tr.right[y] = e THEN tr.right[e] ELSE tr.right[y]
    BY DEF Spliced
  <2> QED
    BY <1>3, <1>4, <1>7
<1>9. tr.right[e] \in S \cup {Nil} /\ Sub(D, tr.right[e]) = D[e] \ {e}
  <2>1. /\ D[e] = {e} \cup Sub(D, tr.left[e]) \cup Sub(D, tr.right[e])
        /\ Sub(D, tr.right[e]) \subseteq D[e] \ {e}
    BY <1>2, ChildBelow
  <2>2. Sub(D, tr.left[e]) = {}
    BY DEF Sub
  <2>3. Sub(D, tr.right[e]) = D[e] \ {e}
    BY <2>1, <2>2
  <2> QED
    BY <1>2, <2>3
<1>10. \E D1 : WellTree(tr1, S \ {e}, D1)
  <2>1. Follows(tr.right[e], e, S, D) /\ GaveWay(tr, e, tr.right[e], S, tr1)
    BY <1>4, <1>6, <1>8, <1>9 DEF Follows, GaveWay
  <2> QED
    BY <2>1, SplicedTree
<1> QED
  BY <1>5, <1>10, WellTreeIs

AsTree(r, s) == [root |-> r, left |-> s.left, right |-> s.right]

(* The fields of a tree                                                    *)
LEMMA AsTreeIs ==
    ASSUME NEW r, NEW s
    PROVE  /\ AsTree(r, s).root = r /\ AsTree(r, s).left = s.left
           /\ AsTree(r, s).right = s.right
BY DEF AsTree

(* The events A are before the others of S.                                *)
First(S, A) == \A z \in A : \A y \in S \ A : Lt(InTime, z, y)

Fold(t, l, f, g) == [t |-> t, l |-> l, left |-> f, right |-> g]

(* The loop of deque(): l is the left child of t, and what is below it     *)
(* comes first.                                                            *)
Folding(S, r) ==
    {s \in [t : S, l : S, left : [S -> S \cup {Nil}], right : [S -> S \cup {Nil}]] :
        /\ s.left[s.t] = s.l
        /\ \E D : WellTree(AsTree(r, s), S, D) /\ First(S, D[s.l])}

FoldedUp(S, r) ==
    {s \in Folding(S, r) : s.left[s.l] = Nil \/ s.left[s.left[s.l]] = Nil}

(* The state of the loop of deque() is a record of four fields.            *)
LEMMA FoldAre ==
    ASSUME NEW T, NEW A, NEW F, NEW G,
           NEW s \in [t : T, l : A, left : F, right : G]
    PROVE  s = Fold(s.t, s.l, s.left, s.right)
BY DEF Fold

(* What the rotation in deque() assigns                                    *)
LEMMA FoldMoves ==
    ASSUME NEW t, NEW l, NEW f, NEW g, NEW s, s = Fold(t, l, f, g),
           f[l] # Nil, f[f[l]] # Nil
    PROVE  Splay!Folded(s) = Fold(f[l], f[f[l]], Put(Put(f, t, f[l]), l, g[f[l]]), Put(g, f[l], l))
<1> DEFINE f1 == Put(Put(f, t, f[l]), l, g[f[l]])
           g1 == Put(g, f[l], l)
           u == Splay!Folded(s)
<1>1. s.t = t /\ s.l = l /\ s.left = f /\ s.right = g
  BY DEF Fold
<1>2. s \in [t : {t, f[l]}, l : {l, f[f[l]]}, left : {f, f1}, right : {g, g1}]
  BY DEF Fold
<1>3. u = [s EXCEPT !.left = f1, !.right = g1, !.t = f[l], !.l = f[f[l]]]
  BY <1>1 DEF Splay!Folded, Put
<1> HIDE DEF f1, g1, u
<1>4. /\ u.t = f[l] /\ u.l = f[f[l]] /\ u.left = f1 /\ u.right = g1
      /\ u \in [t : {t, f[l]}, l : {l, f[f[l]]}, left : {f, f1}, right : {g, g1}]
  BY <1>2, <1>3
<1>5. u = Fold(u.t, u.l, u.left, u.right)
  BY <1>4, FoldAre
<1> QED
  BY <1>4, <1>5 DEF u, f1, g1

(* A turn of the loop of deque() comes nearer to the first event.          *)
LEMMA FoldTurn ==
    ASSUME NEW S, NEW r, NEW s \in Folding(S, r)
    PROVE  /\ Splay!Folded(s) \in Folding(S, r)
           /\ s \notin FoldedUp(S, r) =>
                Cardinality(Lower(InTime, S, Splay!Folded(s).t))
                    < Cardinality(Lower(InTime, S, s.t))
           /\ s \in FoldedUp(S, r) => Splay!Folded(s) = s
<1> DEFINE t == s.t
           l == s.l
           f == s.left
           g == s.right
           x == f[l]
           f1 == Put(Put(f, t, x), l, g[x])
           g1 == Put(g, x, l)
           u == Fold(x, f[x], f1, g1)
<1>1. /\ s = Fold(t, l, f, g) /\ t \in S /\ l \in S /\ f[t] = l
      /\ f \in [S -> S \cup {Nil}] /\ g \in [S -> S \cup {Nil}]
  BY FoldAre DEF Folding
<1>2. PICK D : WellTree(AsTree(r, s), S, D) /\ First(S, D[l])
  BY DEF Folding
<1>3. CASE x = Nil \/ f[x] = Nil
  <2>1. s \in FoldedUp(S, r)
    BY <1>3 DEF FoldedUp
  <2>2. Splay!Folded(s) = s
    BY <1>3 DEF Splay!Folded
  <2> QED
    BY <2>1, <2>2
<1>4. CASE x # Nil /\ f[x] # Nil
  <2>1. s \notin FoldedUp(S, r)
    BY <1>4 DEF FoldedUp
  <2>2. Splay!Folded(s) = u
    <3> HIDE DEF t, l, f, g
    <3> QED
      BY <1>1, <1>4, FoldMoves
  <2>3. /\ u.t = x /\ u.l = f[x] /\ u.left = f1 /\ u.right = g1
    BY DEF Fold
  <2> DEFINE tr == AsTree(r, s)
  <2>4. tr.root = r /\ tr.left = f /\ tr.right = g
    BY AsTreeIs
  <2>5. /\ Tidy(InTime, f, g, S, D) /\ Sub(D, r) = S
        /\ S \subseteq Scheduled /\ IsFiniteSet(S) /\ Orders(InTime, S)
    BY <1>2, <2>4 DEF WellTree, Tidy
  <2> HIDE DEF u, tr
  <2> x \in S /\ f[x] \in S
    BY <1>1, <1>4
  <2>6. /\ l \in D[l] /\ D[l] \subseteq D[t] \ {t}
        /\ x \in D[x] /\ D[x] \subseteq D[l] \ {l}
        /\ f[x] \in D[f[x]] /\ D[f[x]] \subseteq D[x] \ {x}
        /\ D[l] \subseteq S /\ D[t] \subseteq S /\ t \in D[t]
        /\ D[x] = Lower(InTime, D[l], l)
        /\ D[f[x]] = Lower(InTime, D[x], x)
    <3>1. \A y \in S : y \in D[y] /\ D[y] \subseteq S
      BY <2>5 DEF Tidy
    <3>2. l # Nil
      BY <1>1, <2>5, NilIsNoNode
    <3>3. \A y \in S : /\ Sub(D, f[y]) \subseteq D[y] \ {y}
                       /\ Sub(D, f[y]) = Lower(InTime, D[y], y)
      <4>1. Tidy(InTime, f, g, S, D)
        BY <2>5
      <4> HIDE DEF f, g
      <4>2. \A y \in S : Sub(D, f[y]) \subseteq D[y] \ {y}
        BY <4>1, ChildBelow
      <4>3. \A y \in S : Sub(D, f[y]) = Lower(InTime, D[y], y)
        BY <4>1 DEF Tidy
      <4> QED
        BY <4>2, <4>3
    <3> HIDE DEF f, t, l, x
    <3>4. Sub(D, f[t]) = D[l] /\ Sub(D, f[l]) = D[x] /\ Sub(D, f[x]) = D[f[x]]
      BY <1>1, <1>4, <3>2 DEF Sub, x
    <3> QED
      BY <1>1, <3>1, <3>3, <3>4
  <2>7. r \in S /\ r # Nil /\ D[r] = S /\ r # l /\ r # x
    <3>1. tr.root \in S /\ tr.root # Nil /\ D[tr.root] = S
      BY <1>1, <1>2, RootIsNoChild DEF tr
    <3> QED
      BY <1>1, <2>4, <2>6, <3>1
  <2>8. ASSUME NEW y \in S, NEW c \in {f[y], g[y]}
        PROVE  /\ c = l => y = t /\ g[y] # l
               /\ c = x => y = l /\ g[y] # x
    <3>1. l # Nil /\ l \in {tr.left[t], tr.right[t]} /\ x \in {tr.left[l], tr.right[l]}
      BY <1>1, <2>4, <2>5, NilIsNoNode
    <3>2. c = l => y = t /\ tr.left[y] # tr.right[y]
      BY <1>1, <1>2, <2>4, <3>1, ParentIsOne DEF tr
    <3>3. c = x => y = l /\ tr.left[y] # tr.right[y]
      BY <1>1, <1>2, <1>4, <2>4, <3>1, ParentIsOne DEF tr
    <3> QED
      BY <1>1, <2>4, <3>2, <3>3
  <2> t # l /\ x # l /\ x # t
    BY <2>6
  <2>9. /\ f1 \in [S -> S \cup {Nil}] /\ g1 \in [S -> S \cup {Nil}]
        /\ f1[l] = g[x] /\ f1[t] = x /\ \A y \in S : y \notin {l, t} => f1[y] = f[y]
        /\ g1[x] = l /\ \A y \in S : y # x => g1[y] = g[y]
    BY <1>1 DEF Put
  <2> HIDE DEF t, l, f, g, f1, g1
  <2>10. Rotated(l, x, f, g, S, f1, g1)
    <3>1. ASSUME NEW y \in S \ {l, x}
          PROVE  /\ f1[y] = IF f[y] = l THEN x ELSE f[y]
                 /\ g1[y] = IF g[y] = l THEN x ELSE g[y]
      BY <1>1, <2>8, <2>9
    <3> QED
      BY <1>1, <2>9, <3>1 DEF Rotated
  <2>11. OnlyChildOf(l, x, f, g, S)
    <3>1. \A y \in S \ {l} : x # f[y] /\ x # g[y]
      BY <2>8
    <3> QED
      BY <1>4, <3>1 DEF OnlyChildOf, x
  <2>12. PICK D1 : /\ Tidy(InTime, f1, g1, S, D1) /\ D1[x] = D[l]
                   /\ \A y \in S \ {l, x} : D1[y] = D[y]
    <3> HIDE DEF x
    <3> QED
      BY <1>1, <2>5, <2>10, <2>11, RotateTidy
  <2>13. WellTree(AsTree(r, u), S, D1)
    <3>1. AsTree(r, u).root = r /\ AsTree(r, u).left = f1 /\ AsTree(r, u).right = g1
      BY <2>3, AsTreeIs
    <3>2. Sub(D1, r) = S
      BY <2>7, <2>12 DEF Sub
    <3> QED
      BY <2>7, <2>9, <2>12, <3>1, <3>2 DEF WellTree
  <2>14. D1[f[x]] = D[f[x]]
    BY <2>6, <2>12
  <2>15. First(S, D[f[x]])
    <3> SUFFICES ASSUME NEW z \in D[f[x]], NEW y \in S \ D[f[x]] PROVE Lt(InTime, z, y)
      BY DEF First
    <3>1. z \in S /\ z \in D[x] /\ z \in D[l] /\ Lt(InTime, z, x) /\ Lt(InTime, z, l)
      BY <2>6 DEF Lower
    <3>2. CASE y \notin D[l]
      BY <1>2, <3>1, <3>2 DEF First
    <3>3. CASE y \in D[l] /\ y \notin D[x]
      <4>1. ~Lt(InTime, y, l)
        BY <2>6, <3>3 DEF Lower
      <4> QED
        BY <1>1, <2>5, <3>1, <4>1 DEF Orders
    <3>4. CASE y \in D[x]
      <4>1. ~Lt(InTime, y, x)
        BY <2>6, <3>4 DEF Lower
      <4> QED
        BY <1>1, <2>5, <3>1, <4>1 DEF Orders
    <3> QED
      BY <3>2, <3>3, <3>4
  <2>16. u \in Folding(S, r)
    <3>1. u.left[u.t] = u.l
      BY <2>3, <2>9
    <3>2. u \in [t : S, l : S, left : [S -> S \cup {Nil}], right : [S -> S \cup {Nil}]]
      BY <1>1, <2>9 DEF u, Fold
    <3> QED
      BY <2>3, <2>13, <2>14, <2>15, <3>1, <3>2 DEF Folding
  <2>17. Cardinality(Lower(InTime, S, x)) < Cardinality(Lower(InTime, S, t))
    <3>1. Lt(InTime, x, l) /\ Lt(InTime, l, t)
      <4>1. l \in D[t] /\ D[l] = Lower(InTime, D[t], t)
        <5>1. l # Nil /\ Sub(D, f[t]) = Lower(InTime, D[t], t)
          BY <1>1, <2>5, NilIsNoNode DEF Tidy
        <5> QED
          BY <1>1, <2>6, <5>1 DEF Sub
      <4> QED
        BY <2>6, <4>1 DEF Lower
    <3>2. \A y \in S : Lt(InTime, y, x) => Lt(InTime, y, t)
      BY <1>1, <2>5, <3>1 DEF Orders
    <3>3. ~Lt(InTime, l, x)
      BY <1>1, <2>5, <3>1 DEF Orders
    <3>4. /\ Lower(InTime, S, x) \subseteq Lower(InTime, S, t)
          /\ Lower(InTime, S, x) # Lower(InTime, S, t)
          /\ Lower(InTime, S, t) \subseteq S
      BY <1>1, <3>1, <3>2, <3>3 DEF Lower
    <3>5. IsFiniteSet(Lower(InTime, S, t)) /\ IsFiniteSet(Lower(InTime, S, x))
      BY <2>5, <3>4, FS_Subset
    <3>6. /\ Cardinality(Lower(InTime, S, x)) <= Cardinality(Lower(InTime, S, t))
          /\ Cardinality(Lower(InTime, S, x)) # Cardinality(Lower(InTime, S, t))
      BY <3>4, <3>5, FS_Subset
    <3> QED
      BY <3>5, <3>6, FS_CardinalityType
  <2> QED
    BY <2>1, <2>2, <2>3, <2>16, <2>17 DEF t
<1> QED
  BY <1>3, <1>4

(* The loop of deque() starts at the root and its left child.              *)
LEMMA SpineStart ==
    ASSUME NEW tr, NEW S, TreeOf(tr, S), S # {}, tr.left[tr.root] # Nil
    PROVE  Fold(tr.root, tr.left[tr.root], tr.left, tr.right) \in Folding(S, tr.root)
<1> DEFINE r == tr.root
           l == tr.left[r]
           s == Fold(r, l, tr.left, tr.right)
<1>1. PICK D : WellTree(tr, S, D)
  BY WellTreeIs
<1>2. /\ tr.left \in [S -> S \cup {Nil}] /\ tr.right \in [S -> S \cup {Nil}]
      /\ Tidy(InTime, tr.left, tr.right, S, D) /\ Sub(D, r) = S
      /\ S \subseteq Scheduled /\ Orders(InTime, S) /\ r \in S \cup {Nil}
  BY <1>1 DEF WellTree, Tidy
<1>3. r \in S /\ D[r] = S
  BY <1>2 DEF Sub
<1>4. l \in S /\ D[l] = Lower(InTime, S, r)
  <2>1. l \in S
    BY <1>2, <1>3
  <2>2. Sub(D, tr.left[r]) = Lower(InTime, D[r], r)
    BY <1>2, <1>3 DEF Tidy
  <2> QED
    BY <1>3, <2>1, <2>2 DEF Sub
<1>5. s.t = r /\ s.l = l /\ s.left = tr.left /\ s.right = tr.right
  BY DEF Fold
<1>6. s \in [t : S, l : S, left : [S -> S \cup {Nil}], right : [S -> S \cup {Nil}]]
  BY <1>2, <1>3, <1>4 DEF Fold
<1> HIDE DEF s
<1>7. WellTree(AsTree(r, s), S, D)
  BY <1>1, <1>5, AsTreeIs DEF WellTree
<1>8. First(S, D[l])
  <2> SUFFICES ASSUME NEW z \in D[l], NEW y \in S \ D[l] PROVE Lt(InTime, z, y)
    BY DEF First
  <2>1. z \in S /\ Lt(InTime, z, r) /\ ~Lt(InTime, y, r)
    BY <1>4 DEF Lower
  <2> QED
    BY <1>2, <1>3, <2>1 DEF Orders
<1>9. s \in Folding(S, r)
  BY <1>5, <1>6, <1>7, <1>8 DEF Folding
<1> QED
  BY <1>9 DEF s

(* The loop of deque() ends next to the first event.                       *)
LEMMA SpineEnds ==
    ASSUME NEW tr, NEW S, TreeOf(tr, S), S # {}, tr.left[tr.root] # Nil
    PROVE  Splay!Spine(tr) \in FoldedUp(S, tr.root)
<1> DEFINE W(s) == Cardinality(Lower(InTime, S, s.t))
           start == Fold(tr.root, tr.left[tr.root], tr.left, tr.right)
           Start == Folding(S, tr.root)
           End == FoldedUp(S, tr.root)
           x0 == start
           X == Start
           F == [s \in X |-> Splay!Folded(s)]
           w == [s \in X |-> W(s)]
           P(f) == f = [k \in 0..Cardinality(S) |-> IF k = 0 THEN x0 ELSE Splay!Folded(f[k - 1])]
           c == CHOOSE f : P(f)
<1>0. /\ S \subseteq Scheduled /\ IsFiniteSet(S) /\ Cardinality(S) \in Nat
      /\ start \in Start /\ DOMAIN tr.left = S
      /\ \A s : W(s) \in Nat /\ W(s) <= Cardinality(S)
      /\ \A s \in Start :
           /\ Splay!Folded(s) \in Start
           /\ s \notin End => W(Splay!Folded(s)) < W(s)
           /\ s \in End => Splay!Folded(s) = s
  <2>1. S \subseteq Scheduled /\ IsFiniteSet(S) /\ Cardinality(S) \in Nat /\ DOMAIN tr.left = S
    BY RootIs, FS_CardinalityType
  <2>2. start \in Start
    BY SpineStart
  <2>3. ASSUME NEW s PROVE W(s) \in Nat /\ W(s) <= Cardinality(S)
    <3>1. Lower(InTime, S, s.t) \subseteq S
      BY DEF Lower
    <3> QED
      BY <2>1, <3>1, FS_Subset, FS_CardinalityType
  <2>4. ASSUME NEW s \in Start
        PROVE  /\ Splay!Folded(s) \in Start
               /\ s \notin End => W(Splay!Folded(s)) < W(s)
               /\ s \in End => Splay!Folded(s) = s
    BY FoldTurn
  <2> HIDE DEF W, start, Start, End
  <2> QED
    BY <2>1, <2>2, <2>3, <2>4
<1> HIDE DEF W, start, Start, End
<1>1. Cardinality(S) \in Nat /\ Loops(X, F, x0)
  BY <1>0 DEF Loops
<1>2. Nears(X, F, End, w) /\ w[x0] <= Cardinality(S)
  <2>1. \A s \in X : F[s] = Splay!Folded(s) /\ w[s] = W(s) /\ w[s] \in Nat
    BY <1>0 DEF End
  <2>2. \A s \in X : F[s] \in X
    BY <2>1, <1>0
  <2>3. \A s \in X : s \in End => F[s] \in End
    BY <2>1, <1>0
  <2>4. \A s \in X : s \notin End => w[F[s]] < w[s]
    BY <2>1, <2>2, <1>0
  <2>5. w[x0] <= Cardinality(S)
    BY <1>0, <1>1, <2>1 DEF Loops
  <2> HIDE DEF w, F
  <2> QED
    BY <2>1, <2>3, <2>4, <2>5, <1>1 DEF Nears
<1>3. PICK g : /\ IsRun(X, F, x0, Cardinality(S), g) /\ g = [k \in 0..Cardinality(S) |-> g[k]]
               /\ \A k \in 0..Cardinality(S) : g[k] \in X
  <2> HIDE DEF F, x0, X
  <2> QED
    BY <1>1, LoopExists
<1>4. P(g)
  <2>1. \A k \in 1..Cardinality(S) : /\ k - 1 \in 0..Cardinality(S) /\ g[k - 1] \in X
                        /\ F[g[k - 1]] = Splay!Folded(g[k - 1])
    BY <1>1, <1>3
  <2> HIDE DEF F, X, x0
  <2>2. g[0] = x0 /\ \A k \in 1..Cardinality(S) : g[k] = Splay!Folded(g[k - 1])
    BY <2>1, <1>3 DEF IsRun
  <2>3. \A k \in 0..Cardinality(S) : g[k] = IF k = 0 THEN x0 ELSE Splay!Folded(g[k - 1])
    <3>1. \A k \in 0..Cardinality(S) : k # 0 => k \in 1..Cardinality(S)
      BY <1>1
    <3> QED
      BY <2>2, <3>1
  <2>4. g = [k \in 0..Cardinality(S) |-> g[k]]
    BY <1>3
  <2> QED
    BY ONLY <2>3, <2>4
<1>5. P(c)
  BY <1>4
<1>6. IsRun(X, F, x0, Cardinality(S), c)
  <2> HIDE DEF c, x0
  <2> QED
    BY <1>5, <1>1 DEF IsRun
<1>7. c[Cardinality(S)] \in End
  <2> HIDE DEF c, x0, F, w, X
  <2> QED
    BY <1>1, <1>2, <1>6, LoopEnds
<1>8. Splay!Spine(tr) = c[Cardinality(S)]
  <2>1. Splay!Size(tr) = Cardinality(S)
    BY <1>0 DEF Splay!Size, Splay!Nodes, Splay!Cardinality, Cardinality
  <2> QED
    BY <2>1 DEF Splay!Spine, Fold, start
<1> HIDE DEF c
<1> QED
  BY <1>7, <1>8 DEF End

(* deque() takes the first event out.                                      *)
LEMMA DequeuedTree ==
    ASSUME NEW tr, NEW S, TreeOf(tr, S), S # {}
    PROVE  LET d == Splay!Dequeued(tr)
           IN  /\ d.event \in S
               /\ TreeOf(d.tree, S \ {d.event})
               /\ \A y \in S \ {d.event} : Lt(InTime, d.event, y)
<1> DEFINE d == Splay!Dequeued(tr)
           r == tr.root
<1>1. PICK D : WellTree(tr, S, D)
  BY WellTreeIs
<1>2. /\ tr.left \in [S -> S \cup {Nil}] /\ tr.right \in [S -> S \cup {Nil}]
      /\ Tidy(InTime, tr.left, tr.right, S, D) /\ Sub(D, r) = S
      /\ S \subseteq Scheduled /\ Orders(InTime, S) /\ r \in S \cup {Nil}
  BY <1>1 DEF WellTree, Tidy
<1>3. r \in S /\ D[r] = S
  BY <1>2 DEF Sub
<1>4. CASE tr.left[r] = Nil
  <2> DEFINE tr1 == [root |-> tr.right[r], left |-> Splay!Without(tr.left, r),
                     right |-> Splay!Without(tr.right, r)]
  <2>1. d.event = r /\ d.tree = tr1
    BY <1>4 DEF Splay!Dequeued
  <2>2. \A k \in [S -> S \cup {Nil}] :
          /\ Splay!Without(k, r) \in [S \ {r} -> S \cup {Nil}]
          /\ \A x \in S \ {r} : Splay!Without(k, r)[x] = k[x]
    BY DEF Splay!Without
  <2>3. /\ tr1.root = tr.right[r]
        /\ tr1.left \in [S \ {r} -> S \cup {Nil}] /\ tr1.right \in [S \ {r} -> S \cup {Nil}]
        /\ \A x \in S \ {r} : tr1.left[x] = tr.left[x] /\ tr1.right[x] = tr.right[x]
    BY <1>2, <2>2
  <2> HIDE DEF tr1, d
  <2>4. GaveWay(tr, r, tr.right[r], S, tr1)
    <3>1. \A y \in S : tr.left[y] # r /\ tr.right[y] # r
      BY <1>1, RootIsNoChild
    <3> QED
      BY <2>3, <3>1 DEF GaveWay, Spliced
  <2>5. Sub(D, tr.left[r]) = Lower(InTime, S, r) /\ Lower(InTime, S, r) = {}
    BY <1>2, <1>3, <1>4 DEF Tidy, Sub
  <2>6. Follows(tr.right[r], r, S, D)
    <3>1. /\ D[r] = {r} \cup Sub(D, tr.left[r]) \cup Sub(D, tr.right[r])
          /\ Sub(D, tr.right[r]) \subseteq D[r] \ {r}
      BY <1>2, <1>3, ChildBelow
    <3> QED
      BY <1>2, <1>3, <2>5, <3>1 DEF Follows
  <2>7. TreeOf(tr1, S \ {r})
    <3>1. \E D1 : WellTree(tr1, S \ {r}, D1)
      BY <1>1, <1>3, <2>4, <2>6, SplicedTree
    <3> QED
      BY <3>1, WellTreeIs
  <2>8. \A y \in S \ {r} : Lt(InTime, r, y)
    BY <1>2, <1>3, <2>5 DEF Lower, Orders
  <2> QED
    BY <1>3, <2>1, <2>7, <2>8 DEF d
<1>5. CASE tr.left[r] # Nil
  <2> DEFINE s == Splay!Spine(tr)
             tr1 == AsTree(r, s)
             e == IF s.left[s.l] = Nil THEN s.l ELSE s.left[s.l]
             p == IF s.left[s.l] = Nil THEN s.t ELSE s.l
  <2>1. d = Splay!Taken(s, r, p, e)
    BY <1>5 DEF Splay!Dequeued
  <2>2. s \in FoldedUp(S, r)
    BY <1>5, SpineEnds
  <2> HIDE DEF d, s
  <2>3. /\ s.t \in S /\ s.l \in S /\ s.left[s.t] = s.l /\ s.left \in [S -> S \cup {Nil}]
        /\ s.left[s.l] = Nil \/ s.left[s.left[s.l]] = Nil
    BY <2>2 DEF FoldedUp, Folding
  <2>4. PICK D1 : WellTree(tr1, S, D1) /\ First(S, D1[s.l])
    BY <2>2 DEF FoldedUp, Folding
  <2>5. p \in S /\ e \in S /\ s.left[p] = e /\ s.left[e] = Nil
    BY <2>3
  <2>6. tr1.root = r /\ tr1.left = s.left /\ tr1.right = s.right
    BY AsTreeIs
  <2> HIDE DEF tr1, p
  <2>7. d.event = e /\ TreeOf(d.tree, S \ {e})
    <3>1. LeftEnd(tr1, p, e, s)
      BY <2>5, <2>6 DEF LeftEnd
    <3> HIDE DEF e
    <3>2. /\ Splay!Taken(s, tr1.root, p, e).event = e
          /\ TreeOf(Splay!Taken(s, tr1.root, p, e).tree, S \ {e})
      <4>1. WellTree(tr1, S, D1) /\ p \in S /\ e \in S
        BY <2>4, <2>5
      <4> QED
        BY ONLY <4>1, <3>1, TakenTree
    <3> QED
      BY <2>1, <2>6, <3>2
  <2>8. Tidy(InTime, s.left, s.right, S, D1)
    BY <2>4, <2>6 DEF WellTree
  <2>9. \A y \in S : Sub(D1, s.left[y]) = Lower(InTime, D1[y], y) /\ y \in D1[y]
    BY <2>8 DEF Tidy
  <2>10. Lower(InTime, D1[e], e) = {} /\ e \in D1[e]
    BY <2>5, <2>9 DEF Sub
  <2>11. e \in D1[s.l] /\ Lower(InTime, D1[s.l], e) = {}
    <3>1. CASE s.left[s.l] = Nil
      BY <2>3, <2>9, <2>10, <3>1
    <3>2. CASE s.left[s.l] # Nil
      <4>1. D1[e] = Lower(InTime, D1[s.l], s.l)
        BY <2>3, <2>9, <3>2 DEF Sub
      <4>2. e = s.left[s.l] /\ e \in D1[s.l] /\ Lt(InTime, e, s.l)
        BY <2>10, <3>2, <4>1 DEF Lower
      <4>3. D1[s.l] \subseteq S
        BY <2>3, <2>8 DEF Tidy
      <4>4. ASSUME NEW y \in D1[s.l], Lt(InTime, y, e) PROVE FALSE
        <5>1. Lt(InTime, y, s.l)
          BY <1>2, <2>3, <2>5, <4>2, <4>3, <4>4 DEF Orders
        <5> QED
          BY <2>10, <4>1, <4>4, <5>1 DEF Lower
      <4> QED
        BY <4>2, <4>4 DEF Lower
    <3> QED
      BY <3>1, <3>2
  <2>12. \A y \in S \ {e} : Lt(InTime, e, y)
    <3> HIDE DEF e
    <3> SUFFICES ASSUME NEW y \in S, y # e PROVE Lt(InTime, e, y)
      OBVIOUS
    <3>1. CASE y \in D1[s.l]
      <4>1. ~Lt(InTime, y, e)
        BY <2>11, <3>1 DEF Lower
      <4> QED
        BY <1>2, <2>5, <4>1 DEF Orders
    <3>2. CASE y \notin D1[s.l]
      BY <2>4, <2>11, <3>2 DEF First
    <3> QED
      BY <3>1, <3>2
  <2> HIDE DEF e
  <2> QED
    BY <2>5, <2>7, <2>12 DEF d
<1> QED
  BY <1>4, <1>5

(* The search of cancel() goes by the order of the queue.                  *)
LEMMA GoRightIs ==
    ASSUME NEW x \in Scheduled, NEW e \in Scheduled
    PROVE  Splay!GoRight(e, x) <=> Lt(InTime, x, e)
<1>1. x.time \in Nat /\ x.uid \in Nat /\ e.time \in Nat /\ e.uid \in Nat
  BY DEF Scheduled
<1>2. Splay!GoRight(e, x) <=> Queue!Earlier(x, e)
  BY <1>1 DEF Splay!GoRight, Queue!Earlier
<1> QED
  BY <1>2 DEF Lt, InTime

(* A part of a finite set is smaller.                                      *)
LEMMA SmallerSet ==
    ASSUME NEW B, IsFiniteSet(B), NEW A, A \subseteq B, A # B
    PROVE  Cardinality(A) < Cardinality(B)
<1>1. Cardinality(A) <= Cardinality(B) /\ Cardinality(A) # Cardinality(B) /\ IsFiniteSet(A)
  BY FS_Subset
<1> QED
  BY <1>1, FS_CardinalityType

(* The search for e has come to x by the pointer of p.                     *)
CameTo(tr, S, e, p, x) ==
    \/ p = Nil /\ x = tr.root
    \/ p \in S /\ x = IF Splay!GoRight(e, p) THEN tr.right[p] ELSE tr.left[p]

Seeking(tr, S, D, e) ==
    {s \in [p : S \cup {Nil}, x : S] : e \in D[s.x] /\ CameTo(tr, S, e, s.p, s.x)}

Found(tr, S, D, e) == {s \in Seeking(tr, S, D, e) : s.x = e}

Seek(tr, e, s) ==
    IF s.x \in {Nil, e} THEN s
    ELSE [p |-> s.x, x |-> IF Splay!GoRight(e, s.x) THEN tr.right[s.x]
                           ELSE tr.left[s.x]]

(* A turn of the search of cancel() goes down on the path to the event.    *)
LEMMA SeekTurn ==
    ASSUME NEW tr, NEW S, NEW D, WellTree(tr, S, D), NEW e \in S,
           NEW s \in Seeking(tr, S, D, e)
    PROVE  /\ Seek(tr, e, s) \in Seeking(tr, S, D, e)
           /\ s \notin Found(tr, S, D, e) =>
                Cardinality(D[Seek(tr, e, s).x]) < Cardinality(D[s.x])
           /\ s \in Found(tr, S, D, e) => Seek(tr, e, s) = s
<1> DEFINE x == s.x
           c == IF Splay!GoRight(e, x) THEN tr.right[x] ELSE tr.left[x]
           u == [p |-> x, x |-> c]
<1>1. x \in S /\ e \in D[x]
  BY DEF Seeking
<1>2. /\ Tidy(InTime, tr.left, tr.right, S, D) /\ S \subseteq Scheduled
      /\ Orders(InTime, S) /\ IsFiniteSet(S)
  BY DEF WellTree, Tidy
<1>3. CASE x = e
  BY <1>3 DEF Found, Seek
<1>4. CASE x # e
  <2>1. x # Nil
    BY <1>1, <1>2, NilIsNoNode
  <2>2. Seek(tr, e, s) = u
    BY <1>4, <2>1 DEF Seek
  <2>3. Splay!GoRight(e, x) <=> Lt(InTime, x, e)
    BY <1>1, <1>2, GoRightIs
  <2>4. /\ Sub(D, tr.left[x]) = Lower(InTime, D[x], x) /\ Sub(D, tr.right[x]) = Upper(InTime, D[x], x)
        /\ D[x] \subseteq S
    BY <1>1, <1>2 DEF Tidy
  <2>5. e \in Sub(D, c)
    BY <1>1, <1>2, <1>4, <2>3, <2>4 DEF Lower, Upper, Orders
  <2>6. c # Nil /\ e \in D[c]
    BY <2>5 DEF Sub
  <2>7. c \in S /\ D[c] \subseteq D[x] \ {x}
    BY <1>1, <2>6, RootIsNoChild
  <2>8. x \in D[x]
    BY <1>1, <1>2 DEF Tidy
  <2>9. u.p = x /\ u.x = c /\ u \in [p : S \cup {Nil}, x : S]
    BY <1>1, <2>7
  <2>10. CameTo(tr, S, e, x, c)
    BY <1>1 DEF CameTo
  <2> HIDE DEF u, x, c
  <2>11. u \in Seeking(tr, S, D, e)
    BY <2>6, <2>9, <2>10 DEF Seeking
  <2>12. Cardinality(D[c]) < Cardinality(D[x])
    <3>1. IsFiniteSet(D[x])
      BY <1>2, <2>4, FS_Subset
    <3>2. D[c] \subseteq D[x] /\ D[c] # D[x]
      BY <2>7, <2>8
    <3> QED
      BY <3>1, <3>2, SmallerSet
  <2>13. s \notin Found(tr, S, D, e)
    BY <1>4 DEF Found, x
  <2> QED
    BY <2>2, <2>9, <2>11, <2>12, <2>13 DEF x
<1> QED
  BY <1>3, <1>4

(* The search of cancel() finds the event.                                 *)
LEMMA SearchEnds ==
    ASSUME NEW tr, NEW S, NEW D, WellTree(tr, S, D), NEW e \in S
    PROVE  Splay!Search(tr, e).x = e /\ CameTo(tr, S, e, Splay!Search(tr, e).p, e)
<1> DEFINE Turn(s) == Seek(tr, e, s)
           W(s) == Cardinality(D[s.x])
           start == [p |-> Nil, x |-> tr.root]
           Start == Seeking(tr, S, D, e)
           End == Found(tr, S, D, e)
           x0 == start
           X == Start
           F == [s \in X |-> Turn(s)]
           w == [s \in X |-> W(s)]
           P(f) == f = [k \in 0..Cardinality(S) |-> IF k = 0 THEN x0 ELSE Turn(f[k - 1])]
           c == CHOOSE f : P(f)
<1>0. /\ S \subseteq Scheduled /\ IsFiniteSet(S) /\ Cardinality(S) \in Nat
      /\ start \in Start /\ DOMAIN tr.left = S
      /\ \A s \in Start : W(s) \in Nat /\ W(s) <= Cardinality(S)
      /\ \A s \in Start :
           /\ Turn(s) \in Start
           /\ s \notin End => W(Turn(s)) < W(s)
           /\ s \in End => Turn(s) = s
  <2>1. S \subseteq Scheduled /\ IsFiniteSet(S) /\ Cardinality(S) \in Nat /\ DOMAIN tr.left = S
    BY WellTreeIs, RootIs, FS_CardinalityType
  <2>2. start \in Start
    <3>1. tr.root \in S /\ D[tr.root] = S
      BY RootIsNoChild
    <3>2. CameTo(tr, S, e, Nil, tr.root)
      BY DEF CameTo
    <3> QED
      BY <3>1, <3>2 DEF Seeking
  <2>3. ASSUME NEW s \in Start PROVE W(s) \in Nat /\ W(s) <= Cardinality(S)
    <3>1. s.x \in S
      BY DEF Seeking
    <3>2. D[s.x] \subseteq S
      BY <3>1 DEF WellTree, Tidy
    <3> QED
      BY <2>1, <3>2, FS_Subset, FS_CardinalityType
  <2>4. ASSUME NEW s \in Start
        PROVE  /\ Turn(s) \in Start
               /\ s \notin End => W(Turn(s)) < W(s)
               /\ s \in End => Turn(s) = s
    BY SeekTurn
  <2> HIDE DEF W, Turn, start, Start, End
  <2> QED
    BY <2>1, <2>2, <2>3, <2>4
<1> HIDE DEF W, Turn, start, Start, End
<1>1. Cardinality(S) \in Nat /\ Loops(X, F, x0)
  BY <1>0 DEF Loops
<1>2. Nears(X, F, End, w) /\ w[x0] <= Cardinality(S)
  <2>1. \A s \in X : F[s] = Turn(s) /\ w[s] = W(s) /\ w[s] \in Nat
    BY <1>0
  <2>2. \A s \in X : F[s] \in X
    BY <2>1, <1>0
  <2>3. \A s \in X : s \in End => F[s] \in End
    BY <2>1, <1>0
  <2>4. \A s \in X : s \notin End => w[F[s]] < w[s]
    BY <2>1, <2>2, <1>0
  <2>5. w[x0] <= Cardinality(S)
    BY <1>0, <1>1, <2>1 DEF Loops
  <2> HIDE DEF w, F
  <2> QED
    BY <2>1, <2>3, <2>4, <2>5, <1>1 DEF Nears
<1>3. PICK g : /\ IsRun(X, F, x0, Cardinality(S), g) /\ g = [k \in 0..Cardinality(S) |-> g[k]]
               /\ \A k \in 0..Cardinality(S) : g[k] \in X
  <2> HIDE DEF F, x0, X
  <2> QED
    BY <1>1, LoopExists
<1>4. P(g)
  <2>1. \A k \in 1..Cardinality(S) : /\ k - 1 \in 0..Cardinality(S) /\ g[k - 1] \in X
                        /\ F[g[k - 1]] = Turn(g[k - 1])
    BY <1>1, <1>3
  <2> HIDE DEF F, X, x0
  <2>2. g[0] = x0 /\ \A k \in 1..Cardinality(S) : g[k] = Turn(g[k - 1])
    BY <2>1, <1>3 DEF IsRun
  <2>3. \A k \in 0..Cardinality(S) : g[k] = IF k = 0 THEN x0 ELSE Turn(g[k - 1])
    <3>1. \A k \in 0..Cardinality(S) : k # 0 => k \in 1..Cardinality(S)
      BY <1>1
    <3> QED
      BY <2>2, <3>1
  <2>4. g = [k \in 0..Cardinality(S) |-> g[k]]
    BY <1>3
  <2> QED
    BY ONLY <2>3, <2>4
<1>5. P(c)
  BY <1>4
<1>6. IsRun(X, F, x0, Cardinality(S), c)
  <2> HIDE DEF c, x0
  <2> QED
    BY <1>5, <1>1 DEF IsRun
<1>7. c[Cardinality(S)] \in End
  <2> HIDE DEF c, x0, F, w, X
  <2> QED
    BY <1>1, <1>2, <1>6, LoopEnds
<1>8. Splay!Search(tr, e) = c[Cardinality(S)]
  <2>1. Splay!Size(tr) = Cardinality(S)
    BY <1>0 DEF Splay!Size, Splay!Nodes, Splay!Cardinality, Cardinality
  <2> QED
    BY <2>1 DEF Splay!Search, Turn, Seek, start
<1> HIDE DEF c
<1> QED
  BY <1>7, <1>8 DEF End, Found, Seeking

-----------------------------------------------------------------------------
(* The successor of e                                                      *)
Succeeding(tr, S, D, e) ==
    {s \in [p : S, q : S] :
        /\ s.q \in D[tr.right[e]]
        /\ \/ s.p = e /\ s.q = tr.right[e]
           \/ s.p \in D[tr.right[e]] /\ s.q = tr.left[s.p]
        /\ \A z \in D[s.q] : \A y \in D[tr.right[e]] \ D[s.q] : Lt(InTime, z, y)}

Succeeded(tr, S, D, e) == {s \in Succeeding(tr, S, D, e) : tr.left[s.q] = Nil}

Succeed(tr, s) ==
    IF tr.left[s.q] = Nil THEN s
    ELSE [p |-> s.q, q |-> tr.left[s.q]]

(* A turn of the loop for the successor goes down to the left.             *)
LEMMA SucceedTurn ==
    ASSUME NEW tr, NEW S, NEW D, WellTree(tr, S, D), NEW e \in S, tr.right[e] # Nil,
           NEW s \in Succeeding(tr, S, D, e)
    PROVE  /\ Succeed(tr, s) \in Succeeding(tr, S, D, e)
           /\ s \notin Succeeded(tr, S, D, e) =>
                Cardinality(D[Succeed(tr, s).q]) < Cardinality(D[s.q])
           /\ s \in Succeeded(tr, S, D, e) => Succeed(tr, s) = s
<1> DEFINE q == s.q
           c == tr.left[q]
           u == [p |-> q, q |-> c]
           A == D[tr.right[e]]
<1>1. /\ q \in S /\ q \in A
      /\ \A z \in D[q] : \A y \in A \ D[q] : Lt(InTime, z, y)
  BY DEF Succeeding
<1>2. /\ Tidy(InTime, tr.left, tr.right, S, D) /\ S \subseteq Scheduled
      /\ Orders(InTime, S) /\ IsFiniteSet(S)
  BY DEF WellTree, Tidy
<1>3. CASE c = Nil
  BY <1>3 DEF Succeeded, Succeed
<1>4. CASE c # Nil
  <2>1. Succeed(tr, s) = u
    BY <1>4 DEF Succeed
  <2>2. c \in S /\ D[c] \subseteq D[q] \ {q} /\ c \in D[c]
    BY <1>1, <1>4, RootIsNoChild
  <2>3. D[c] = Lower(InTime, D[q], q) /\ q \in D[q] /\ D[q] \subseteq S
    BY <1>1, <1>2, <1>4 DEF Tidy, Sub
  <2>4. D[q] \subseteq A /\ A \subseteq S
    <3>1. tr.right[e] \in S
      BY RootIsNoChild
    <3>2. A \subseteq S
      BY <1>2, <3>1 DEF Tidy
    <3> QED
      BY <1>1, <1>2, <3>1, <3>2, BelowIsBelow
  <2>5. ASSUME NEW z \in D[c], NEW y \in A \ D[c] PROVE Lt(InTime, z, y)
    <3>1. CASE y \notin D[q]
      BY <1>1, <2>2, <3>1
    <3>2. CASE y \in D[q]
      <4>1. Lt(InTime, z, q) /\ ~Lt(InTime, y, q) /\ z \in S /\ y \in S
        BY <2>3, <3>2 DEF Lower
      <4> QED
        BY <1>1, <1>2, <4>1 DEF Orders
    <3> QED
      BY <3>1, <3>2
  <2>6. u.p = q /\ u.q = c /\ u \in [p : S, q : S]
    BY <1>1, <2>2
  <2>7. c \in A
    BY <2>2, <2>4
  <2>8. Cardinality(D[c]) < Cardinality(D[q])
    <3>1. IsFiniteSet(D[q])
      BY <1>2, <2>3, FS_Subset
    <3>2. D[c] \subseteq D[q] /\ D[c] # D[q]
      BY <2>2, <2>3
    <3> QED
      BY <3>1, <3>2, SmallerSet
  <2>9. s \notin Succeeded(tr, S, D, e)
    BY <1>4 DEF Succeeded
  <2> HIDE DEF u
  <2>10. u \in Succeeding(tr, S, D, e)
    BY <1>1, <2>5, <2>6, <2>7 DEF Succeeding
  <2> QED
    BY <2>1, <2>6, <2>8, <2>9, <2>10
<1> QED
  BY <1>3, <1>4

(* The loop for the successor ends with it.                                *)
LEMMA SuccessorEnds ==
    ASSUME NEW tr, NEW S, NEW D, WellTree(tr, S, D), NEW e \in S, tr.right[e] # Nil
    PROVE  Splay!Successor(tr, e) \in Succeeded(tr, S, D, e)
<1> DEFINE Turn(s) == Succeed(tr, s)
           W(s) == Cardinality(D[s.q])
           start == [p |-> e, q |-> tr.right[e]]
           Start == Succeeding(tr, S, D, e)
           End == Succeeded(tr, S, D, e)
           x0 == start
           X == Start
           F == [s \in X |-> Turn(s)]
           w == [s \in X |-> W(s)]
           P(f) == f = [k \in 0..Cardinality(S) |-> IF k = 0 THEN x0 ELSE Turn(f[k - 1])]
           c == CHOOSE f : P(f)
<1>0. /\ S \subseteq Scheduled /\ IsFiniteSet(S) /\ Cardinality(S) \in Nat
      /\ start \in Start /\ DOMAIN tr.left = S
      /\ \A s \in Start : W(s) \in Nat /\ W(s) <= Cardinality(S)
      /\ \A s \in Start :
           /\ Turn(s) \in Start
           /\ s \notin End => W(Turn(s)) < W(s)
           /\ s \in End => Turn(s) = s
  <2>1. S \subseteq Scheduled /\ IsFiniteSet(S) /\ Cardinality(S) \in Nat /\ DOMAIN tr.left = S
    BY WellTreeIs, RootIs, FS_CardinalityType
  <2>2. start \in Start
    <3>1. tr.right[e] \in S /\ tr.right[e] \in D[tr.right[e]]
      BY RootIsNoChild
    <3> QED
      BY <3>1 DEF Succeeding
  <2>3. ASSUME NEW s \in Start PROVE W(s) \in Nat /\ W(s) <= Cardinality(S)
    <3>1. s.q \in S
      BY DEF Succeeding
    <3>2. D[s.q] \subseteq S
      BY <3>1 DEF WellTree, Tidy
    <3> QED
      BY <2>1, <3>2, FS_Subset, FS_CardinalityType
  <2>4. ASSUME NEW s \in Start
        PROVE  /\ Turn(s) \in Start
               /\ s \notin End => W(Turn(s)) < W(s)
               /\ s \in End => Turn(s) = s
    BY SucceedTurn
  <2> HIDE DEF W, Turn, start, Start, End
  <2> QED
    BY <2>1, <2>2, <2>3, <2>4
<1> HIDE DEF W, Turn, start, Start, End
<1>1. Cardinality(S) \in Nat /\ Loops(X, F, x0)
  BY <1>0 DEF Loops
<1>2. Nears(X, F, End, w) /\ w[x0] <= Cardinality(S)
  <2>1. \A s \in X : F[s] = Turn(s) /\ w[s] = W(s) /\ w[s] \in Nat
    BY <1>0
  <2>2. \A s \in X : F[s] \in X
    BY <2>1, <1>0
  <2>3. \A s \in X : s \in End => F[s] \in End
    BY <2>1, <1>0
  <2>4. \A s \in X : s \notin End => w[F[s]] < w[s]
    BY <2>1, <2>2, <1>0
  <2>5. w[x0] <= Cardinality(S)
    BY <1>0, <1>1, <2>1 DEF Loops
  <2> HIDE DEF w, F
  <2> QED
    BY <2>1, <2>3, <2>4, <2>5, <1>1 DEF Nears
<1>3. PICK g : /\ IsRun(X, F, x0, Cardinality(S), g) /\ g = [k \in 0..Cardinality(S) |-> g[k]]
               /\ \A k \in 0..Cardinality(S) : g[k] \in X
  <2> HIDE DEF F, x0, X
  <2> QED
    BY <1>1, LoopExists
<1>4. P(g)
  <2>1. \A k \in 1..Cardinality(S) : /\ k - 1 \in 0..Cardinality(S) /\ g[k - 1] \in X
                        /\ F[g[k - 1]] = Turn(g[k - 1])
    BY <1>1, <1>3
  <2> HIDE DEF F, X, x0
  <2>2. g[0] = x0 /\ \A k \in 1..Cardinality(S) : g[k] = Turn(g[k - 1])
    BY <2>1, <1>3 DEF IsRun
  <2>3. \A k \in 0..Cardinality(S) : g[k] = IF k = 0 THEN x0 ELSE Turn(g[k - 1])
    <3>1. \A k \in 0..Cardinality(S) : k # 0 => k \in 1..Cardinality(S)
      BY <1>1
    <3> QED
      BY <2>2, <3>1
  <2>4. g = [k \in 0..Cardinality(S) |-> g[k]]
    BY <1>3
  <2> QED
    BY ONLY <2>3, <2>4
<1>5. P(c)
  BY <1>4
<1>6. IsRun(X, F, x0, Cardinality(S), c)
  <2> HIDE DEF c, x0
  <2> QED
    BY <1>5, <1>1 DEF IsRun
<1>7. c[Cardinality(S)] \in End
  <2> HIDE DEF c, x0, F, w, X
  <2> QED
    BY <1>1, <1>2, <1>6, LoopEnds
<1>8. Splay!Successor(tr, e) = c[Cardinality(S)]
  <2>1. Splay!Size(tr) = Cardinality(S)
    BY <1>0 DEF Splay!Size, Splay!Nodes, Splay!Cardinality, Cardinality
  <2> QED
    BY <2>1 DEF Splay!Successor, Turn, Succeed, start
<1> HIDE DEF c
<1> QED
  BY <1>7, <1>8 DEF End

(* Where e hangs: only p points to it, on the side of the search.          *)
LEMMA PlaceIs ==
    ASSUME NEW tr, NEW S, NEW D, WellTree(tr, S, D), NEW e \in S,
           NEW p, CameTo(tr, S, e, p, e)
    PROVE  /\ e # Nil /\ (p = Nil <=> tr.root = e)
           /\ p # Nil => p \in S /\ p \notin D[e] /\ p # e
           /\ \A y \in S : /\ tr.left[y] = e <=> p # Nil /\ y = p /\ ~Splay!GoRight(e, p)
                           /\ tr.right[y] = e <=> p # Nil /\ y = p /\ Splay!GoRight(e, p)
<1>1. Nil \notin S /\ \A y \in S : y \in D[y]
  BY NilIsNoNode DEF WellTree, Tidy
<1>2. \A y \in S : tr.left[y] # tr.root /\ tr.right[y] # tr.root
  BY RootIsNoChild
<1>3. CASE p = Nil /\ e = tr.root
  BY <1>1, <1>2, <1>3
<1>4. CASE p \in S /\ e = IF Splay!GoRight(e, p) THEN tr.right[p] ELSE tr.left[p]
  <2>1. e \in {tr.left[p], tr.right[p]} /\ e # Nil /\ p # Nil
    BY <1>1, <1>4
  <2>2. \A y \in S : e \in {tr.left[y], tr.right[y]} => y = p /\ tr.left[y] # tr.right[y]
    BY <1>4, <2>1, ParentIsOne
  <2>3. p \notin D[e]
    <3>1. \A c \in {tr.left[p], tr.right[p]} : c # Nil => D[c] \subseteq D[p] \ {p}
      BY <1>4, RootIsNoChild
    <3> QED
      BY <2>1, <3>1
  <2>4. tr.root # e
    BY <1>2, <1>4
  <2>5. p # e
    BY <1>1, <2>3
  <2> QED
    BY <1>4, <2>1, <2>2, <2>3, <2>4, <2>5
<1> QED
  BY <1>3, <1>4 DEF CameTo

(* cancel() of a node with one child at most takes it out.                 *)
LEMMA ReplacedTree ==
    ASSUME NEW tr, NEW S, NEW D, WellTree(tr, S, D), NEW e \in S,
           NEW p, CameTo(tr, S, e, p, e), NEW c, Follows(c, e, S, D)
    PROVE  TreeOf(Splay!Replaced(tr, p, e, c), S \ {e})
<1> DEFINE tr1 == Splay!Replaced(tr, p, e, c)
           l == IF p # Nil /\ ~Splay!GoRight(e, p) THEN Put(tr.left, p, c) ELSE tr.left
           r == IF p # Nil /\ Splay!GoRight(e, p) THEN Put(tr.right, p, c) ELSE tr.right
<1>1. /\ e # Nil /\ (p = Nil <=> tr.root = e)
      /\ p # Nil => p \in S /\ p \notin D[e] /\ p # e
      /\ \A y \in S : /\ tr.left[y] = e <=> p # Nil /\ y = p /\ ~Splay!GoRight(e, p)
                      /\ tr.right[y] = e <=> p # Nil /\ y = p /\ Splay!GoRight(e, p)
  BY PlaceIs
<1>2. /\ tr1.root = IF p = Nil THEN c ELSE tr.root
      /\ tr1.left = Splay!Without(l, e) /\ tr1.right = Splay!Without(r, e)
  BY DEF Splay!Replaced, Put
<1> HIDE DEF tr1
<1>3. /\ tr.left \in [S -> S \cup {Nil}] /\ tr.right \in [S -> S \cup {Nil}]
      /\ c \in S \cup {Nil}
  BY DEF WellTree, Follows
<1>4. /\ l \in [S -> S \cup {Nil}] /\ r \in [S -> S \cup {Nil}]
      /\ \A y \in S : /\ l[y] = IF tr.left[y] = e THEN c ELSE tr.left[y]
                      /\ r[y] = IF tr.right[y] = e THEN c ELSE tr.right[y]
  BY <1>1, <1>3 DEF Put
<1> HIDE DEF l, r
<1>5. \A k \in [S -> S \cup {Nil}] :
        /\ Splay!Without(k, e) \in [S \ {e} -> S \cup {Nil}]
        /\ \A x \in S \ {e} : Splay!Without(k, e)[x] = k[x]
  BY DEF Splay!Without
<1>6. GaveWay(tr, e, c, S, tr1)
  BY <1>1, <1>2, <1>4, <1>5 DEF GaveWay, Spliced
<1>7. \E D1 : WellTree(tr1, S \ {e}, D1)
  BY <1>6, SplicedTree
<1> QED
  BY <1>7, WellTreeIs DEF tr1

(* The node e with one child at most                                       *)
LEMMA OneChild ==
    ASSUME NEW tr, NEW S, NEW D, WellTree(tr, S, D), NEW e \in S
    PROVE  /\ tr.right[e] = Nil => Follows(tr.left[e], e, S, D)
           /\ tr.left[e] = Nil => Follows(tr.right[e], e, S, D)
<1>1. Tidy(InTime, tr.left, tr.right, S, D)
  BY DEF WellTree
<1>2. /\ D[e] = {e} \cup Sub(D, tr.left[e]) \cup Sub(D, tr.right[e])
      /\ Sub(D, tr.right[e]) \subseteq D[e] \ {e} /\ Sub(D, tr.left[e]) \subseteq D[e] \ {e}
  BY <1>1, ChildBelow
<1>3. tr.left[e] \in S \cup {Nil} /\ tr.right[e] \in S \cup {Nil}
  BY <1>1 DEF Tidy
<1>4. Sub(D, Nil) = {}
  BY DEF Sub
<1> QED
  BY <1>2, <1>3, <1>4 DEF Follows

IsTree(tr) == tr = [root |-> tr.root, left |-> tr.left, right |-> tr.right]

(* The successor q of e leaves its place and comes in that of e.           *)
LEMMA PromotedTree ==
    ASSUME NEW tr, NEW S, NEW D, WellTree(tr, S, D), IsTree(tr), NEW e \in S,
           NEW p, CameTo(tr, S, e, p, e), tr.right[e] # Nil,
           NEW s \in Succeeded(tr, S, D, e)
    PROVE  TreeOf(Splay!Replaced(Splay!Promoted(tr, e, s.p, s.q), p, e, s.q), S \ {e})
<1> DEFINE q == s.q
           a == s.p
           c == tr.right[q]
           f == tr.left
           g == tr.right
           T == S \ {q}
           f1 == [y \in T |-> IF f[y] = q THEN c ELSE f[y]]
           g1 == [y \in T |-> IF g[y] = q THEN c ELSE g[y]]
           tr1 == [root |-> tr.root, left |-> f1, right |-> g1]
           tr2 == Splay!Promoted(tr, e, a, q)
           tr3 == Splay!Replaced(tr2, p, e, q)
<1>1. /\ tr.root \in S \cup {Nil}
      /\ f \in [S -> S \cup {Nil}] /\ g \in [S -> S \cup {Nil}]
      /\ Tidy(InTime, f, g, S, D) /\ Sub(D, tr.root) = S
      /\ S \subseteq Scheduled /\ Orders(InTime, S) /\ IsFiniteSet(S)
      /\ \A y \in S : /\ y \in D[y] /\ D[y] \subseteq S
                      /\ Sub(D, f[y]) = Lower(InTime, D[y], y)
                      /\ Sub(D, g[y]) = Upper(InTime, D[y], y)
  BY DEF WellTree, Tidy
<1>2. /\ q \in S /\ a \in S /\ q \in D[g[e]] /\ f[q] = Nil
      /\ \/ a = e /\ q = g[e]
         \/ a \in D[g[e]] /\ q = f[a]
      /\ \A z \in D[q] : \A y \in D[g[e]] \ D[q] : Lt(InTime, z, y)
  BY DEF Succeeded, Succeeding
<1>3. /\ e # Nil /\ (p = Nil <=> tr.root = e)
      /\ p # Nil => p \in S /\ p \notin D[e] /\ p # e
      /\ \A y \in S : /\ f[y] = e <=> p # Nil /\ y = p /\ ~Splay!GoRight(e, p)
                      /\ g[y] = e <=> p # Nil /\ y = p /\ Splay!GoRight(e, p)
  BY PlaceIs
<1>4. /\ Nil \notin S /\ q # Nil /\ g[e] \in S
      /\ D[g[e]] = Upper(InTime, D[e], e) /\ D[g[e]] \subseteq D[e] \ {e}
      /\ q \in D[e] /\ q # e /\ Lt(InTime, e, q)
  <2>1. Nil \notin S
    BY <1>1, NilIsNoNode
  <2>2. g[e] \in S /\ D[g[e]] \subseteq D[e] \ {e}
    BY RootIsNoChild
  <2>3. D[g[e]] = Upper(InTime, D[e], e)
    BY <1>1 DEF Sub
  <2> QED
    BY <1>2, <2>1, <2>2, <2>3 DEF Upper
<1>5. ASSUME NEW y \in S, q \in {f[y], g[y]}
      PROVE  y = a /\ f[y] # g[y]
  <2>1. q \in {f[a], g[a]} /\ q \in {f[y], g[y]} /\ a \in S /\ q # Nil /\ y \in S
    BY <1>2, <1>4, <1>5
  <2> HIDE DEF q, a
  <2> QED
    BY ONLY WellTree(tr, S, D), <2>1, ParentIsOne
<1>6. tr.root # q /\ a # q /\ (a = e => q = g[e]) /\ (a # e => q = f[a] /\ a \in D[g[e]])
  <2>1. \A y \in S : f[y] # tr.root /\ g[y] # tr.root
    BY RootIsNoChild
  <2>2. a = e \/ a # e
    OBVIOUS
  <2>3. a # q
    <3>1. \A x \in {f[a], g[a]} : x # Nil => x \in D[x] /\ D[x] \subseteq D[a] \ {a}
      BY <1>2, RootIsNoChild
    <3> QED
      BY <1>2, <1>4, <3>1
  <2>4. a = e => q = g[e]
    <3>1. e \notin D[g[e]]
      BY <1>4
    <3> QED
      BY <1>2, <3>1
  <2> QED
    BY <1>2, <2>1, <2>3, <2>4
<1>7. e \notin D[q] /\ (p # Nil => p # q /\ p # a) /\ c # e /\ c # q /\ c \in S \cup {Nil}
  <2>1. D[q] \subseteq D[g[e]]
    BY <1>1, <1>2, <1>4, BelowIsBelow
  <2>2. e \notin D[q]
    BY <2>1, <1>4
  <2>3. c # Nil => c \in D[q] /\ c # q /\ c \in S
    BY <1>2, RootIsNoChild
  <2> QED
    BY <1>2, <1>3, <1>4, <1>6, <2>2, <2>3
<1>8. /\ tr1.root = tr.root /\ tr1.left = f1 /\ tr1.right = g1
      /\ f1 \in [S \ {q} -> S \cup {Nil}] /\ g1 \in [S \ {q} -> S \cup {Nil}]
      /\ \A y \in S \ {q} : /\ f1[y] = IF f[y] = q THEN c ELSE f[y]
                            /\ g1[y] = IF g[y] = q THEN c ELSE g[y]
  BY <1>1, <1>7
<1> HIDE DEF tr1, f1, g1
<1>9. GaveWay(tr, q, c, S, tr1)
  BY <1>6, <1>8 DEF GaveWay, Spliced
<1>10. Follows(c, q, S, D)
  BY <1>2, OneChild
<1>11. PICK D1 : /\ WellTree(tr1, S \ {q}, D1)
                 /\ \A y \in S \ {q} : D1[y] = D[y] \ {q}
  <2> HIDE DEF q, c
  <2> QED
    BY <1>2, <1>9, <1>10, SplicedTree
<1>12. Tidy(InTime, f1, g1, T, D1) /\ Sub(D1, tr.root) = T /\ Orders(InTime, T \cup {q})
  <2>1. T \cup {q} = S
    BY <1>2
  <2> QED
    BY <1>1, <1>8, <1>11, <2>1 DEF WellTree
<1>13. Stands(InTime, e, q, T, D1)
  <2> SUFFICES ASSUME NEW y \in T \ {e}, y \in D1[e] \/ e \in D1[y]
               PROVE  (Lt(InTime, y, e) <=> Lt(InTime, y, q)) /\ (Lt(InTime, e, y) <=> Lt(InTime, q, y))
    BY DEF Stands
  <2>1. D1[e] = D[e] \ {q} /\ D1[y] = D[y] \ {q} /\ y \in S /\ y # e /\ y # q
    BY <1>4, <1>11
  <2>2. \A u, v \in S : u # v => (Lt(InTime, u, v) <=> ~Lt(InTime, v, u))
    BY <1>1 DEF Orders
  <2>3. \A u, v, w \in S : Lt(InTime, u, v) /\ Lt(InTime, v, w) => Lt(InTime, u, w)
    BY <1>1 DEF Orders
  <2>4. CASE y \in D1[e]
    <3>1. Lt(InTime, y, e) => Lt(InTime, y, q)
      BY <1>2, <1>4, <2>1, <2>3
    <3>2. Lt(InTime, e, y) => Lt(InTime, q, y)
      <4>1. ASSUME Lt(InTime, e, y) PROVE Lt(InTime, q, y)
        <5>1. y \in D[g[e]]
          BY <1>4, <2>1, <2>4, <4>1 DEF Upper
        <5>2. CASE y \in D[q]
          <6>1. ~Lt(InTime, y, q)
            BY <1>1, <1>2, <5>2 DEF Lower, Sub
          <6> QED
            BY <1>2, <2>1, <2>2, <6>1
        <5>3. CASE y \notin D[q]
          BY <1>1, <1>2, <5>1, <5>3
        <5> QED
          BY <5>2, <5>3
      <4> QED
        BY <4>1
    <3> QED
      BY <1>2, <2>1, <2>2, <3>1, <3>2
  <2>5. CASE e \in D1[y]
    <3>1. e \in D[y]
      BY <2>1, <2>5
    <3>2. \A x \in S : e \in D[x] => q \in D[x]
      <4> SUFFICES ASSUME NEW x \in S, e \in D[x] PROVE q \in D[x]
        OBVIOUS
      <4>1. D[e] \subseteq D[x]
        BY <1>1, BelowIsBelow
      <4> QED
        BY <1>4, <4>1
    <3>3. \A x \in S \cup {Nil} : e \in Sub(D, x) => q \in Sub(D, x)
      BY <3>2 DEF Sub
    <3>4. f[y] \in S \cup {Nil} /\ g[y] \in S \cup {Nil}
      BY <1>1, <2>1
    <3>5. Lt(InTime, e, y) => Lt(InTime, q, y)
      BY <1>1, <2>1, <3>1, <3>3, <3>4 DEF Lower
    <3>6. Lt(InTime, y, e) => Lt(InTime, y, q)
      BY <1>1, <2>1, <3>1, <3>3, <3>4 DEF Upper
    <3> QED
      BY <1>2, <2>1, <2>2, <3>5, <3>6
  <2> QED
    BY <2>4, <2>5
<1> DEFINE L == [[f EXCEPT ![a] = IF a = e THEN f[a] ELSE c] EXCEPT ![q] = f[e]]
           R == [g EXCEPT ![q] = IF a = e THEN g[q] ELSE g[e]]
           l == IF p # Nil /\ ~Splay!GoRight(e, p) THEN Put(L, p, q) ELSE L
           r == IF p # Nil /\ Splay!GoRight(e, p) THEN Put(R, p, q) ELSE R
<1>14. tr2.root = tr.root /\ tr2.left = L /\ tr2.right = R
  <2>1. tr = [root |-> tr.root, left |-> f, right |-> g]
    BY DEF IsTree
  <2>2. tr2.root = tr.root
    BY <2>1 DEF Splay!Promoted
  <2>3. tr2.left = [f EXCEPT ![a] = IF a = e THEN f[a] ELSE g[q], ![q] = f[e]]
    <3> HIDE DEF a, q, f, g
    <3>1. Splay!Promoted(tr, e, a, q).left = [f EXCEPT ![a] = IF a = e THEN f[a] ELSE g[q], ![q] = f[e]]
      BY <2>1 DEF Splay!Promoted
    <3> QED
      BY <3>1
  <2>4. tr2.right = R
    <3> HIDE DEF a, q, f, g
    <3>1. Splay!Promoted(tr, e, a, q).right = [g EXCEPT ![q] = IF a = e THEN g[q] ELSE g[e]]
      BY <2>1 DEF Splay!Promoted
    <3> QED
      BY <3>1
  <2> QED
    BY <2>2, <2>3, <2>4
<1> HIDE DEF tr2
<1>15. /\ L \in [S -> S \cup {Nil}] /\ R \in [S -> S \cup {Nil}]
       /\ \A y \in S : /\ L[y] = IF y = q THEN f[e] ELSE IF y = a /\ a # e THEN c ELSE f[y]
                       /\ R[y] = IF y = q THEN IF a = e THEN g[q] ELSE g[e] ELSE g[y]
  BY <1>1, <1>2, <1>6, <1>7
<1> HIDE DEF L, R
<1>16. /\ tr3.root = IF p = Nil THEN q ELSE tr.root
       /\ tr3.left = Splay!Without(l, e) /\ tr3.right = Splay!Without(r, e)
  BY <1>14 DEF Splay!Replaced, Put
<1> HIDE DEF tr3
<1>17. /\ l \in [S -> S \cup {Nil}] /\ r \in [S -> S \cup {Nil}]
       /\ \A y \in S : /\ l[y] = IF p # Nil /\ y = p /\ ~Splay!GoRight(e, p) THEN q ELSE L[y]
                       /\ r[y] = IF p # Nil /\ y = p /\ Splay!GoRight(e, p) THEN q ELSE R[y]
  BY <1>2, <1>3, <1>15 DEF Put
<1> HIDE DEF l, r
<1>18. \A k \in [S -> S \cup {Nil}] :
         /\ Splay!Without(k, e) \in [S \ {e} -> S \cup {Nil}]
         /\ \A x \in S \ {e} : Splay!Without(k, e)[x] = k[x]
  BY DEF Splay!Without
<1> DEFINE f3 == tr3.left
           g3 == tr3.right
<1>19. /\ f3 \in [S \ {e} -> S \cup {Nil}] /\ g3 \in [S \ {e} -> S \cup {Nil}]
       /\ \A y \in S \ {e} : f3[y] = l[y] /\ g3[y] = r[y]
  BY <1>16, <1>17, <1>18
<1> HIDE DEF f3, g3, q, a, c, f, g
<1>20. f3[q] = f1[e] /\ g3[q] = g1[e]
  <2>1. f3[q] = f[e] /\ g3[q] = IF a = e THEN g[q] ELSE g[e]
    BY <1>2, <1>4, <1>7, <1>15, <1>17, <1>19
  <2>2. f[e] # q /\ (g[e] = q <=> a = e)
    BY <1>4, <1>5, <1>6
  <2>3. f1[e] = f[e] /\ g1[e] = IF g[e] = q THEN c ELSE g[e]
    BY <1>4, <1>8, <2>2
  <2> QED
    BY <2>1, <2>2, <2>3 DEF c, g
<1>21. ASSUME NEW y \in T \ {e}
       PROVE  /\ f3[y] = IF f1[y] = e THEN q ELSE f1[y]
              /\ g3[y] = IF g1[y] = e THEN q ELSE g1[y]
  <2>1. y \in S /\ y # e /\ y # q
    OBVIOUS
  <2>2. /\ f3[y] = IF p # Nil /\ y = p /\ ~Splay!GoRight(e, p) THEN q
                   ELSE IF y = a /\ a # e THEN c ELSE f[y]
        /\ g3[y] = IF p # Nil /\ y = p /\ Splay!GoRight(e, p) THEN q ELSE g[y]
    BY <1>15, <1>17, <1>19, <2>1
  <2>3. /\ f1[y] = IF f[y] = q THEN c ELSE f[y]
        /\ g1[y] = IF g[y] = q THEN c ELSE g[y]
    BY <1>8, <2>1
  <2>4. f[y] = q <=> y = a /\ a # e
    BY <1>5, <1>6, <2>1
  <2>5. g[y] # q
    BY <1>5, <1>6, <2>1
  <2>6. /\ f[y] = e <=> p # Nil /\ y = p /\ ~Splay!GoRight(e, p)
        /\ g[y] = e <=> p # Nil /\ y = p /\ Splay!GoRight(e, p)
    BY <1>3, <2>1
  <2> QED
    BY <1>4, <1>7, <2>2, <2>3, <2>4, <2>5, <2>6
<1>22. Renamed(e, q, f1, g1, T, f3, g3)
  BY <1>20, <1>21 DEF Renamed
<1>23. PICK D3 : /\ Tidy(InTime, f3, g3, (T \ {e}) \cup {q}, D3)
                 /\ D3[q] = (D1[e] \ {e}) \cup {q}
                 /\ \A y \in T \ {e} :
                      D3[y] = IF e \in D1[y] THEN (D1[y] \ {e}) \cup {q} ELSE D1[y]
  <2>1. e \in T /\ Newcomer(InTime, q, T)
    BY <1>1, <1>2, <1>4, <1>12 DEF Newcomer
  <2>2. Tidy(InTime, f1, g1, T, D1)
    BY <1>12
  <2>3. PICK D3 : Succeeds(InTime, e, q, T, D1, f3, g3, D3)
    <3> HIDE DEF T
    <3> QED
      BY ONLY <2>1, <2>2, <1>13, <1>22, RenameTidy
  <2> QED
    BY <2>3 DEF Succeeds
<1>24. (T \ {e}) \cup {q} = S \ {e}
  BY <1>2, <1>4
<1>25. tr3.root \in S \ {e} /\ Sub(D3, tr3.root) = S \ {e}
  <2>1. CASE p = Nil
    <3>1. tr3.root = q /\ tr.root = e
      BY <1>3, <1>16, <2>1
    <3>2. D1[e] = T
      BY <1>12, <3>1, <1>3 DEF Sub
    <3> QED
      BY <1>2, <1>4, <1>23, <1>24, <3>1, <3>2 DEF Sub
  <2>2. CASE p # Nil
    <3>1. tr3.root = tr.root /\ tr.root # e /\ tr.root # q
      BY <1>3, <1>6, <1>16, <2>2
    <3>2. tr.root \in S /\ tr.root # Nil
      BY <1>1 DEF Sub
    <3>3. D1[tr.root] = T /\ e \in T
      BY <1>4, <1>12, <3>2 DEF Sub
    <3> QED
      BY <1>23, <1>24, <3>1, <3>2, <3>3 DEF Sub
  <2> QED
    BY <2>1, <2>2
<1>26. \A y \in S \ {e} : f3[y] \in (S \ {e}) \cup {Nil} /\ g3[y] \in (S \ {e}) \cup {Nil}
  BY <1>23, <1>24 DEF Tidy
<1>27. WellTree(tr3, S \ {e}, D3)
  BY <1>19, <1>23, <1>24, <1>25, <1>26 DEF WellTree, f3, g3
<1>28. TreeOf(tr3, S \ {e})
  BY <1>27, WellTreeIs
<1> QED
  BY <1>28 DEF tr3, tr2, a, q

(* cancel() takes the event out, and no other.                             *)
LEMMA RemovedTree ==
    ASSUME NEW tr, NEW S, TreeOf(tr, S), IsTree(tr), NEW e \in S
    PROVE  TreeOf(Splay!Removed(tr, e), S \ {e})
<1> DEFINE p == Splay!Search(tr, e).p
           s == Splay!Successor(tr, e)
<1>1. PICK D : WellTree(tr, S, D)
  BY WellTreeIs
<1>2. CameTo(tr, S, e, p, e)
  BY <1>1, SearchEnds
<1>3. CASE tr.right[e] = Nil
  <2>1. Splay!Removed(tr, e) = Splay!Replaced(tr, p, e, tr.left[e])
    BY <1>3 DEF Splay!Removed
  <2>2. Follows(tr.left[e], e, S, D)
    BY <1>1, <1>3, OneChild
  <2> HIDE DEF p
  <2> QED
    BY <1>1, <1>2, <2>1, <2>2, ReplacedTree
<1>4. CASE tr.right[e] # Nil /\ tr.left[e] = Nil
  <2>1. Splay!Removed(tr, e) = Splay!Replaced(tr, p, e, tr.right[e])
    BY <1>4 DEF Splay!Removed
  <2>2. Follows(tr.right[e], e, S, D)
    BY <1>1, <1>4, OneChild
  <2> HIDE DEF p
  <2> QED
    BY <1>1, <1>2, <2>1, <2>2, ReplacedTree
<1>5. CASE tr.right[e] # Nil /\ tr.left[e] # Nil
  <2>1. Splay!Removed(tr, e) = Splay!Replaced(Splay!Promoted(tr, e, s.p, s.q), p, e, s.q)
    BY <1>5 DEF Splay!Removed
  <2>2. s \in Succeeded(tr, S, D, e)
    BY <1>1, <1>5, SuccessorEnds
  <2> HIDE DEF p, s
  <2> QED
    BY <1>1, <1>2, <1>5, <2>1, <2>2, PromotedTree
<1> QED
  BY <1>3, <1>4, <1>5

(* The nodes are a search tree, and have the numbers given so far.         *)
SplayInv ==
    /\ TreeOf(Splay!Tree, Splay!Pending)
    /\ clock \in Nat /\ uid \in Nat
    /\ \A e \in Splay!Pending : e.uid < uid

(* The variables of the scheduler are a tree.                              *)
LEMMA TreeIsTree == IsTree(Splay!Tree)
BY DEF IsTree, Splay!Tree

(* What is in a tree is scheduled, and is not the null pointer.            *)
LEMMA TreeMembers ==
    ASSUME NEW tr, NEW S, TreeOf(tr, S)
    PROVE  /\ tr.root \in S \cup {Nil} /\ (tr.root = Nil <=> S = {})
           /\ DOMAIN tr.left = S /\ S \subseteq Scheduled /\ Nil \notin S
<1>1. PICK D : Tidy(InTime, tr.left, tr.right, S, D) /\ Sub(D, tr.root) = S
  BY DEF TreeOf
<1>2. S \subseteq Scheduled /\ Nil \notin S /\ \A x \in S : x \in D[x]
  BY <1>1, NilIsNoNode DEF Tidy
<1>3. tr.root \in S \cup {Nil} /\ DOMAIN tr.left = S
  BY DEF TreeOf
<1> QED
  BY <1>1, <1>2, <1>3 DEF Sub

(* A step that leaves the tree tr leaves its events.                       *)
LEMMA SplayBecomes ==
    ASSUME NEW tr, NEW S, TreeOf(tr, S), Splay!Become(tr)
    PROVE  Splay!Pending' = S /\ TreeOf(Splay!Tree, Splay!Pending)'
<1>1. root' = tr.root /\ left' = tr.left /\ right' = tr.right
  BY DEF Splay!Become
<1>2. Splay!Pending' = S
  BY <1>1, TreeMembers DEF Splay!Pending, Splay!Nodes, Splay!Tree
<1>3. /\ Splay!Tree'.root = tr.root /\ Splay!Tree'.left = tr.left
      /\ Splay!Tree'.right = tr.right
  BY <1>1 DEF Splay!Tree
<1> QED
  BY <1>2, <1>3 DEF TreeOf

(* The tree is empty at the start.                                         *)
LEMMA SplayInit ==
    ASSUME Splay!Init
    PROVE  SplayInv /\ Splay!Pending = {}
<1>1. root = Nil /\ left = <<>> /\ right = <<>> /\ clock = 0 /\ uid = 1
  BY DEF Splay!Init
<1>2. Splay!Pending = {}
  BY <1>1 DEF Splay!Pending, Splay!Nodes, Splay!Tree
<1>3. left \in [{} -> {} \cup {Nil}] /\ right \in [{} -> {} \cup {Nil}]
  BY <1>1
<1>4. Tidy(InTime, left, right, {}, <<>>) /\ Sub(<<>>, root) = {}
  BY <1>1, FS_EmptySet DEF Tidy, Sub, Orders
<1>5. TreeOf(Splay!Tree, {})
  BY <1>1, <1>3, <1>4 DEF TreeOf, Splay!Tree
<1> QED
  BY <1>1, <1>2, <1>5 DEF SplayInv

(* SplayScheduler::insert() adds the event it is called with.              *)
LEMMA SplaySchedule ==
    ASSUME SplayInv, Splay!Schedule
    PROVE  SplayInv' /\ Adds(Splay!Pending, Splay!Pending')
<1> DEFINE S == Splay!Pending
           tr == Splay!Tree
<1>1. /\ TreeOf(tr, S) /\ clock \in Nat /\ uid \in Nat
      /\ \A e \in S : e.uid < uid
  BY DEF SplayInv
<1>2. PICK d \in Delays :
        Splay!Become(IF root = Nil
                     THEN [root |-> [time |-> clock + d, uid |-> uid],
                           left |-> Splay!With(left, [time |-> clock + d, uid |-> uid]),
                           right |-> Splay!With(right, [time |-> clock + d, uid |-> uid])]
                     ELSE Splay!Inserted(tr, [time |-> clock + d, uid |-> uid]))
  BY DEF Splay!Schedule
<1>3. /\ uid' = uid + 1 /\ clock' = clock /\ halted' = halted /\ uid <= MaxUid
  BY DEF Splay!Schedule
<1> DEFINE n == [time |-> clock + d, uid |-> uid]
<1>4. n \in Scheduled /\ n.uid = uid
  BY <1>1, DelaysAssumption DEF Scheduled
<1>5. /\ tr.root = root /\ tr.left = left /\ tr.right = right
  BY DEF Splay!Tree
<1>6. root = Nil <=> S = {}
  BY <1>1, <1>5, TreeMembers
<1> HIDE DEF n, S, tr
<1>7. \E t1 : TreeOf(t1, S \cup {n}) /\ Splay!Become(t1)
  <2>1. CASE root = Nil
    <3> DEFINE t1 == [root |-> n, left |-> Splay!With(left, n), right |-> Splay!With(right, n)]
    <3>1. Splay!Become(t1)
      BY <1>2, <2>1 DEF n
    <3>2. TreeOf([root |-> n, left |-> Splay!With(tr.left, n), right |-> Splay!With(tr.right, n)], S \cup {n})
      BY <1>1, <1>4, <1>6, <2>1, FirstTree
    <3>3. TreeOf(t1, S \cup {n})
      BY <1>5, <3>2
    <3> QED
      BY <3>1, <3>3
  <2>2. CASE root # Nil
    <3>1. Splay!Become(Splay!Inserted(tr, n))
      BY <1>2, <2>2 DEF n
    <3>2. Newest(n, S)
      BY <1>1, <1>4 DEF Newest
    <3>3. TreeOf(Splay!Inserted(tr, n), S \cup {n})
      BY <1>1, <3>2, InsertedTree
    <3> QED
      BY <3>1, <3>3
  <2> QED
    BY <2>1, <2>2
<1>8. Splay!Pending' = S \cup {n} /\ TreeOf(Splay!Tree, Splay!Pending)'
  BY <1>7, SplayBecomes
<1>9. \A e \in S \cup {n} : e.uid < uid'
  <2>1. \A e \in S : e.uid \in Nat
    BY <1>1, TreeMembers DEF Scheduled
  <2> QED
    BY <1>1, <1>3, <1>4, <2>1
<1>10. SplayInv'
  BY <1>1, <1>3, <1>8, <1>9 DEF SplayInv
<1>11. Adds(S, S \cup {n})
  BY <1>3 DEF Adds, n
<1> QED
  BY <1>8, <1>10, <1>11 DEF S

(* An event leaves the tree.                                               *)
LEMMA SplayLoses ==
    ASSUME SplayInv, NEW e \in Splay!Pending,
           NEW tr, TreeOf(tr, Splay!Pending \ {e}), Splay!Become(tr),
           uid' = uid, clock' \in Nat
    PROVE  SplayInv' /\ Splay!Pending' = Splay!Pending \ {e}
<1>1. Splay!Pending' = Splay!Pending \ {e} /\ TreeOf(Splay!Tree, Splay!Pending)'
  BY SplayBecomes
<1> QED
  BY <1>1 DEF SplayInv

(* SplayScheduler::deque() takes the first event of the queue.             *)
LEMMA SplayDispatch ==
    ASSUME SplayInv, Splay!Dispatch
    PROVE  SplayInv' /\ Runs(Splay!Pending, Splay!Pending')
<1> DEFINE S == Splay!Pending
           d == Splay!Dequeued(Splay!Tree)
           e == d.event
<1>1. /\ ~halted /\ root # Nil /\ clock' = e.time /\ Splay!Become(d.tree)
      /\ uid' = uid /\ halted' = halted
  BY DEF Splay!Dispatch
<1>2. TreeOf(Splay!Tree, S) /\ Splay!Tree.root = root
  BY DEF SplayInv, Splay!Tree
<1>3. S # {} /\ S \subseteq Scheduled
  BY <1>1, <1>2, TreeMembers
<1> HIDE DEF d, S
<1>4. /\ e \in S /\ TreeOf(d.tree, S \ {e})
      /\ \A y \in S \ {e} : Lt(InTime, e, y)
  BY <1>2, <1>3, DequeuedTree DEF d
<1>5. \A f \in S \ {e} : Queue!Earlier(e, f)
  BY <1>3, <1>4 DEF Lt, InTime
<1>6. clock' \in Nat
  BY <1>1, <1>3, <1>4 DEF Scheduled
<1>7. SplayInv' /\ Splay!Pending' = S \ {e}
  BY <1>1, <1>4, <1>6, SplayLoses DEF S
<1> HIDE DEF e
<1>8. Runs(S, S \ {e})
  BY <1>1, <1>4, <1>5 DEF Runs
<1> QED
  BY <1>7, <1>8 DEF S

(* cancel() finds what is in the tree.                                     *)
LEMMA TreeFinds ==
    ASSUME NEW tr, NEW S, TreeOf(tr, S), NEW e \in S
    PROVE  Splay!Finds(tr, e)
<1>1. PICK D : WellTree(tr, S, D)
  BY WellTreeIs
<1> QED
  BY <1>1, SearchEnds DEF Splay!Finds

(* The search of cancel() ends at the event, for every event in the tree.  *)
LEMMA SplayFinds ==
    ASSUME SplayInv
    PROVE  Splay!CancelFinds
BY TreeFinds DEF SplayInv, Splay!CancelFinds

(* SplayScheduler::cancel() takes out one event.                           *)
LEMMA SplayCancel ==
    ASSUME SplayInv, Splay!Cancel
    PROVE  SplayInv' /\ Drops(Splay!Pending, Splay!Pending')
<1>1. PICK e \in Splay!Pending : Splay!Become(Splay!Removed(Splay!Tree, e))
  BY DEF Splay!Cancel, Splay!Pending
<1>2. uid' = uid /\ halted' = halted /\ clock' = clock
  BY DEF Splay!Cancel
<1>3. TreeOf(Splay!Tree, Splay!Pending) /\ clock \in Nat
  BY DEF SplayInv
<1>4. TreeOf(Splay!Removed(Splay!Tree, e), Splay!Pending \ {e})
  BY <1>3, TreeIsTree, RemovedTree
<1>5. SplayInv' /\ Splay!Pending' = Splay!Pending \ {e}
  BY <1>1, <1>2, <1>3, <1>4, SplayLoses
<1> QED
  BY <1>2, <1>5 DEF Drops

(* Every step of the tree is one of the queue.                             *)
LEMMA SplayStep ==
    ASSUME SplayInv, Splay!Next \/ UNCHANGED <<root, left, right, clock, uid, halted>>
    PROVE  SplayInv' /\ Simulates(Splay!Pending, Splay!Pending')
<1>1. CASE Splay!Schedule
  BY <1>1, SplaySchedule DEF Simulates
<1>2. CASE Splay!Dispatch
  BY <1>2, SplayDispatch DEF Simulates
<1>3. CASE Splay!Cancel
  BY <1>3, SplayCancel DEF Simulates
<1>4. CASE \/ Splay!Halt \/ Splay!Resume
           \/ UNCHANGED <<root, left, right, clock, uid, halted>>
  <2>1. /\ UNCHANGED <<root, left, right, clock, uid>>
        /\ halted' \in {TRUE, FALSE, halted}
    BY <1>4 DEF Splay!Halt, Splay!Resume
  <2>2. Splay!Pending' = Splay!Pending /\ Splay!Tree' = Splay!Tree
    BY <2>1 DEF Splay!Pending, Splay!Nodes, Splay!Tree
  <2>3. SplayInv'
    BY <2>1, <2>2 DEF SplayInv
  <2> QED
    BY <2>1, <2>2, <2>3 DEF Simulates, Turns
<1> QED
  BY <1>1, <1>2, <1>3, <1>4 DEF Splay!Next

-----------------------------------------------------------------------------
(* The calendar.  Division with a remainder                                *)
LEMMA Division ==
    ASSUME NEW t \in Nat, NEW n \in Nat, n > 0
    PROVE  /\ t \div n \in Nat /\ t % n \in 0..n - 1
           /\ t = n * (t \div n) + (t % n)
<1>1. t \div n \in Nat /\ t % n \in 0..n - 1
  OBVIOUS
<1>2. t % n = t - n * (t \div n)
  OBVIOUS
<1>3. n * (t \div n) \in Int
  BY <1>1
<1> QED
  BY <1>1, <1>2, <1>3

(* What the provers need to know of the products of widths and days        *)
LEMMA Products ==
    ASSUME NEW w \in Nat, NEW a \in Int, NEW b \in Int
    PROVE  /\ w * a \in Int /\ w * (a + b) = w * a + w * b
           /\ a <= b => w * a <= w * b
OBVIOUS

(* A multiple of n                                                         *)
LEMMA Multiple ==
    ASSUME NEW n \in Nat, NEW j \in Int
    PROVE  /\ n * j \in Int
           /\ j >= 1 => n * j >= n
           /\ j <= -1 => n * j <= -n
           /\ j = 0 => n * j = 0
<1>1. /\ n * j \in Int /\ n * 1 = n /\ n * (-1) = -n
      /\ 1 <= j => n * 1 <= n * j
      /\ j <= -1 => n * j <= n * (-1)
  BY Products
<1> QED
  BY <1>1

(* The k-th bucket from the r-th, around the end of the year               *)
LEMMA Residue ==
    ASSUME NEW r \in Nat, NEW k \in Nat, NEW n \in Nat, n > 0, r < n, k < n
    PROVE  (r + k) % n = IF r + k < n THEN r + k ELSE r + k - n
OBVIOUS

(* The day d is k days on from the day a, or years after that.             *)
OnTheWay(a, d, k, n) == ((a % n) + k) % n = d % n

(* A day that has the bucket of a later day is that day, or a year or      *)
(* more after it.                                                          *)
LEMMA Laps ==
    ASSUME NEW a \in Nat, NEW d \in Nat, NEW n \in Nat, n > 0,
           NEW k \in 0..n - 1, d >= a, OnTheWay(a, d, k, n)
    PROVE  d = a + k \/ d >= a + k + n
<1> DEFINE p == a \div n
           q == d \div n
           r == a % n
           s == d % n
<1>1. /\ p \in Int /\ q \in Int /\ r \in 0..n - 1 /\ s \in 0..n - 1
      /\ a = n * p + r /\ d = n * q + s
  BY Division
<1>2. s = IF r + k < n THEN r + k ELSE r + k - n
  BY <1>1, Residue DEF OnTheWay
<1> HIDE DEF p, q, r, s
<1> DEFINE j == IF r + k < n THEN q - p ELSE q - p - 1
<1>3. j \in Int /\ n * j = IF r + k < n THEN n * q - n * p ELSE n * q - n * p - n
  <2>1. n * (q + (-p)) = n * q - n * p
    <3>1. n * (q + (-p)) = n * q + n * (-p)
      BY <1>1, Products
    <3>2. n * (p + (-p)) = n * p + n * (-p)
      BY <1>1, Products
    <3>3. p + (-p) = 0 /\ n * 0 = 0 /\ n * p \in Int /\ n * q \in Int /\ n * (-p) \in Int
      BY <1>1, Products
    <3> QED
      BY <3>1, <3>2, <3>3
  <2>2. n * ((q + (-p)) + (-1)) = n * (q + (-p)) + n * (-1)
    BY <1>1, Products
  <2>3. n * (-1) = -n
    OBVIOUS
  <2>4. n * p \in Int /\ n * q \in Int /\ q + (-p) = q - p /\ (q + (-p)) + (-1) = q - p - 1
    BY <1>1, Products
  <2> QED
    BY <1>1, <2>1, <2>2, <2>3, <2>4
<1>4. n * p \in Int /\ n * q \in Int
  BY <1>1, Products
<1> HIDE DEF j
<1>5. d = a + k + n * j /\ n * j \in Int
  BY <1>1, <1>2, <1>3, <1>4
<1>6. /\ j >= 1 => n * j >= n
      /\ j <= -1 => n * j <= -n
      /\ j = 0 => n * j = 0
  BY <1>3, Multiple
<1>7. j >= 1 \/ j = 0 \/ j <= -1
  BY <1>3
<1> QED
  BY <1>5, <1>6, <1>7

(* Each day of the year is less than n days on from r.                     *)
LEMMA WayTo ==
    ASSUME NEW n \in Nat, n > 0, NEW r \in 0..n - 1, NEW i \in 0..n - 1
    PROVE  \E k \in 0..n - 1 : (r + k) % n = i
<1> DEFINE k == IF i >= r THEN i - r ELSE i - r + n
<1>1. k \in 0..n - 1
  OBVIOUS
<1>2. (r + k) % n = i
  <2>1. (r + k) % n = IF r + k < n THEN r + k ELSE r + k - n
    BY <1>1, Residue
  <2> QED
    BY <2>1
<1> QED
  BY <1>1, <1>2

-----------------------------------------------------------------------------
(* The bucket of time t in a calendar of n days of width w                 *)
Slot(t, n, w) == (t \div w) % n

(* How far ahead of the clock an event k days on may be                    *)
Reach(k, n, w) ==
    CASE k = 0 -> (w * n) \div 2
      [] k = 1 -> (w * n) \div 2 + w
      [] OTHER -> w * n

(* Every time has a bucket.                                                *)
LEMMA SlotIn ==
    ASSUME NEW t \in Nat, NEW n \in Nat, n > 0, NEW w \in Nat, w > 0
    PROVE  Slot(t, n, w) \in 0..n - 1 /\ Slot(t, n, w) = (t \div w) % n
BY Division DEF Slot

(* A year has four days at least.                                          *)
LEMMA ReachIs ==
    ASSUME NEW n \in Nat, n >= 4, NEW w \in Nat, w > 0, NEW k \in 0..n - 1
    PROVE  /\ Reach(k, n, w) \in Nat
           /\ w * (k + 1) <= Reach(k, n, w)
           /\ Reach(k, n, w) <= w * n
           /\ k = 0 => Reach(k, n, w) <= w * (n - 1)
<1>1. w * n \in Int /\ w * n >= w * 4 /\ w * 4 = w + w + w + w
  BY Products
<1>2. w * n >= 0
  BY <1>1
<1>3. w * 1 = w /\ w * 2 = w + w
  OBVIOUS
<1>4. w * (n - 1) = w * n - w
  <2>1. w * (n + (-1)) = w * n + w * (-1)
    BY Products
  <2> QED
    BY <2>1, <1>1
<1> DEFINE W == w * n
<1>5. W \in Nat /\ W >= w + w + w + w
  BY <1>1, <1>2
<1>6. CASE k = 0
  <2>1. Reach(k, n, w) = W \div 2 /\ w * (k + 1) = w
    BY <1>3, <1>6 DEF Reach
  <2> HIDE DEF W
  <2>2. W \div 2 \in Nat /\ W \div 2 <= W - w /\ W \div 2 >= w
    BY <1>5
  <2> QED
    BY <1>4, <1>5, <1>6, <2>1, <2>2 DEF W
<1>7. CASE k = 1
  <2>1. Reach(k, n, w) = W \div 2 + w /\ w * (k + 1) = w + w
    BY <1>3, <1>7 DEF Reach
  <2> HIDE DEF W
  <2>2. W \div 2 + w \in Nat /\ W \div 2 + w <= W /\ W \div 2 + w >= w + w
    BY <1>5
  <2> QED
    BY <1>4, <1>5, <1>7, <2>1, <2>2 DEF W
<1>8. CASE k # 0 /\ k # 1
  <2>1. Reach(k, n, w) = W
    BY <1>8 DEF Reach
  <2>2. w * (k + 1) <= w * n
    BY Products
  <2> QED
    BY <1>5, <1>8, <2>1, <2>2
<1> QED
  BY <1>6, <1>7, <1>8

(* An event k days on that is within reach comes up in this year.          *)
LEMMA NearIsSoon ==
    ASSUME NEW n \in Nat, n >= 4, NEW w \in Nat, w > 0, NEW k \in 0..n - 1,
           NEW now \in Nat, NEW t \in Nat, t >= now,
           (Slot(now, n, w) + k) % n = Slot(t, n, w), t - now < Reach(k, n, w)
    PROVE  t \div w = now \div w + k
<1> DEFINE a == now \div w
           d == t \div w
<1>1. /\ a \in Nat /\ d \in Nat
      /\ now = w * a + (now % w) /\ t = w * d + (t % w)
      /\ now % w \in 0..w - 1 /\ t % w \in 0..w - 1
  BY Division
<1>2. OnTheWay(a, d, k, n)
  BY DEF Slot, OnTheWay
<1>3. Reach(k, n, w) \in Nat /\ Reach(k, n, w) <= w * n /\ (k = 0 => Reach(k, n, w) <= w * (n - 1))
  BY ReachIs
<1> HIDE DEF a, d
<1>4. d >= a
  <2>1. d <= a - 1 => w * d <= w * (a + (-1)) /\ w * (a + (-1)) = w * a + w * (-1)
    BY <1>1, Products
  <2>2. w * (-1) = -w /\ w * a \in Int /\ w * d \in Int
    BY <1>1, Products
  <2> QED
    BY <1>1, <2>1, <2>2
<1>5. ASSUME NEW m \in Nat, d >= a + m PROVE w * m < Reach(k, n, w) + w
  <2>1. w * (a + m) <= w * d /\ w * (a + m) = w * a + w * m
    BY <1>1, <1>5, Products
  <2>2. w * a \in Int /\ w * d \in Int /\ w * m \in Int
    BY <1>1, Products
  <2> QED
    BY <1>1, <1>3, <2>1, <2>2
<1>6. d < a + k + n
  <2> SUFFICES ASSUME d >= a + k + n PROVE FALSE
    BY <1>1
  <2>1. w * n \in Int /\ w * (n + (-1)) = w * n + w * (-1) /\ w * (-1) = -w
    BY Products
  <2>2. CASE k = 0
    <3>1. w * n < Reach(k, n, w) + w
      <4>1. n \in Nat /\ d >= a + n
        BY <1>1, <2>2
      <4> QED
        BY <4>1, <1>5
    <3> QED
      BY <1>3, <2>1, <2>2, <3>1
  <2>3. CASE k # 0
    <3>1. w * (k + n) < Reach(k, n, w) + w
      <4>1. k + n \in Nat /\ d >= a + (k + n)
        BY <1>1
      <4> QED
        BY <4>1, <1>5
    <3>2. w * (n + 1) <= w * (k + n) /\ w * (n + 1) = w * n + w * 1 /\ w * 1 = w /\ w * (k + n) \in Int
      BY <2>3, Products
    <3> QED
      BY <1>3, <2>1, <3>1, <3>2
  <2> QED
    BY <2>2, <2>3
<1>7. d = a + k \/ d >= a + k + n
  <2>1. n > 0
    OBVIOUS
  <2> QED
    BY <1>1, <1>2, <1>4, <2>1, Laps
<1> QED
  BY <1>1, <1>6, <1>7 DEF a, d

(* An event that comes up k days on is within reach.                       *)
LEMMA SoonIsNear ==
    ASSUME NEW n \in Nat, n >= 4, NEW w \in Nat, w > 0, NEW k \in 0..n - 1,
           NEW now \in Nat, NEW t \in Nat, t \div w = now \div w + k
    PROVE  t - now < Reach(k, n, w)
<1> DEFINE a == now \div w
<1>1. /\ a \in Nat
      /\ now = w * a + (now % w) /\ t = w * (a + k) + (t % w)
      /\ now % w \in 0..w - 1 /\ t % w \in 0..w - 1
  BY Division
<1>2. w * (k + 1) <= Reach(k, n, w) /\ Reach(k, n, w) \in Nat
  BY ReachIs
<1> HIDE DEF a
<1>3. /\ w * (a + k) = w * a + w * k /\ w * (k + 1) = w * k + w * 1 /\ w * 1 = w
      /\ w * a \in Int /\ w * k \in Int
  BY <1>1, Products
<1> QED
  BY <1>1, <1>2, <1>3

(* Of two times the one of the earlier day is earlier.                     *)
LEMMA EarlierDay ==
    ASSUME NEW w \in Nat, w > 0, NEW t \in Nat, NEW u \in Nat
    PROVE  /\ t \div w < u \div w => t < u
           /\ t <= u => t \div w <= u \div w
<1> DEFINE a == t \div w
           b == u \div w
<1>1. /\ a \in Nat /\ b \in Nat
      /\ t = w * a + (t % w) /\ u = w * b + (u % w)
      /\ t % w \in 0..w - 1 /\ u % w \in 0..w - 1
  BY Division
<1> HIDE DEF a, b
<1>2. a < b => t < u
  <2>1. a < b => w * (a + 1) <= w * b
    BY <1>1, Products
  <2>2. w * (a + 1) = w * a + w * 1 /\ w * 1 = w /\ w * a \in Int /\ w * b \in Int
    BY <1>1, Products
  <2> QED
    BY <1>1, <2>1, <2>2
<1>3. b < a => u < t
  <2>1. b < a => w * (b + 1) <= w * a
    BY <1>1, Products
  <2>2. w * (b + 1) = w * b + w * 1 /\ w * 1 = w /\ w * a \in Int /\ w * b \in Int
    BY <1>1, Products
  <2> QED
    BY <1>1, <2>1, <2>2
<1> QED
  BY <1>1, <1>2, <1>3 DEF a, b

-----------------------------------------------------------------------------
(* What a calendar holds                                                   *)

(* The list of a bucket, in the order of the queue                         *)
InOrder(b) ==
    /\ b \in Seq(Scheduled)
    /\ \A i, j \in 1..Len(b) : i < j => Queue!Earlier(b[i], b[j])

(* The events of the bucket i                                              *)
Day(S, i, n, w) == {e \in S : Slot(e.time, n, w) = i}

Cals(n) ==
    [buckets : [0..n - 1 -> Seq(Scheduled)], count : [0..n - 1 -> Int],
     width : Nat \ {0}, last : Int, stat : Int]

(* The calendar c of n days holds the events S.                            *)
Holds(c, S, n) ==
    /\ n \in Nat /\ n >= 4 /\ c \in Cals(n)
    /\ S \subseteq Scheduled /\ IsFiniteSet(S)
    /\ \A i \in 0..n - 1 : /\ InOrder(c.buckets[i])
                           /\ Elements(c.buckets[i]) = Day(S, i, n, c.width)

(* Its head is where the time now is, and nothing lies before it.          *)
Stays(c, S, n, now) ==
    /\ now \in Nat /\ c.last = Slot(now, n, c.width)
    /\ \A e \in S : e.time >= now

(* What nbuckets_ and the width of a calendar are                          *)
LEMMA SizeIs ==
    ASSUME NEW c, NEW S, NEW n, Holds(c, S, n)
    PROVE  /\ Calendar!NBuckets(c) = n /\ n \in Nat /\ n >= 4
           /\ c.width \in Nat /\ c.width > 0 /\ DOMAIN c.buckets = 0..n - 1
<1>1. n \in Nat /\ n >= 4 /\ c \in Cals(n)
  BY DEF Holds
<1>2. DOMAIN c.buckets = 0..n - 1 /\ c.width \in Nat /\ c.width > 0
  BY <1>1 DEF Cals
<1>3. Cardinality(0..n - 1) = n
  <2>1. 0 \in Int /\ n - 1 \in Int
    BY <1>1
  <2>2. Cardinality(0..n - 1) = IF 0 > n - 1 THEN 0 ELSE (n - 1) - 0 + 1
    BY <2>1, FS_Interval
  <2> QED
    BY <1>1, <2>2
<1>4. Calendar!NBuckets(c) = Cardinality(0..n - 1)
  BY <1>2 DEF Calendar!NBuckets, Calendar!Cardinality, Cardinality
<1> QED
  BY <1>1, <1>2, <1>3, <1>4

(* An event is the first of its bucket, or after the first.                *)
LEMMA HeadIs ==
    ASSUME NEW c, NEW S, NEW n, Holds(c, S, n), NEW i \in 0..n - 1
    PROVE  /\ c.buckets[i] = <<>> <=> Day(S, i, n, c.width) = {}
           /\ c.buckets[i] # <<>> =>
                /\ c.buckets[i][1] \in Day(S, i, n, c.width)
                /\ \A e \in Day(S, i, n, c.width) :
                     e = c.buckets[i][1] \/ Queue!Earlier(c.buckets[i][1], e)
<1> DEFINE b == c.buckets[i]
<1>1. InOrder(b) /\ Elements(b) = Day(S, i, n, c.width)
  BY DEF Holds
<1> HIDE DEF b
<1>2. b \in Seq(Scheduled) /\ Len(b) \in Nat
  BY <1>1 DEF InOrder
<1>3. b = <<>> <=> Elements(b) = {}
  <2>1. b # <<>> => 1 \in 1..Len(b)
    BY <1>2
  <2> QED
    BY <1>2, <2>1 DEF Elements
<1>4. ASSUME b # <<>>
      PROVE  /\ b[1] \in Elements(b)
             /\ \A e \in Elements(b) : e = b[1] \/ Queue!Earlier(b[1], e)
  <2>1. 1 \in 1..Len(b)
    BY <1>2, <1>4
  <2>2. ASSUME NEW j \in 1..Len(b) PROVE b[j] = b[1] \/ Queue!Earlier(b[1], b[j])
    <3>1. j = 1 \/ 1 < j
      OBVIOUS
    <3> QED
      BY <1>1, <2>1, <3>1 DEF InOrder
  <2> QED
    BY <2>1, <2>2 DEF Elements
<1> QED
  BY <1>1, <1>3, <1>4 DEF b

(* The head of the k-th bucket that is looked at is the earliest event.    *)
IsLeast(c, S, n, k) ==
    /\ k \in 0..n - 1 /\ Calendar!HeadOf(c, k) \in S
    /\ Calendar!Looked(c, k) = Slot(Calendar!HeadOf(c, k).time, n, c.width)
    /\ \A f \in S : f = Calendar!HeadOf(c, k) \/ Queue!Earlier(Calendar!HeadOf(c, k), f)

(* The first event of a bucket that is not empty is the earliest of the    *)
(* bucket, and every event is in one.                                      *)
LEMMA FilledIs ==
    ASSUME NEW c, NEW S, NEW n, NEW now, Holds(c, S, n), Stays(c, S, n, now)
    PROVE  /\ Calendar!Filled(c) \subseteq 0..n - 1
           /\ \A k \in 0..n - 1 : /\ Calendar!Looked(c, k) \in 0..n - 1
                                  /\ Calendar!Looked(c, k) = (c.last + k) % n
           /\ \A k \in Calendar!Filled(c) :
                LET e == Calendar!HeadOf(c, k) IN
                /\ e \in S /\ e \in Scheduled /\ e.time >= now
                /\ Calendar!Looked(c, k) = Slot(e.time, n, c.width)
                /\ \A f \in S : Calendar!Looked(c, k) = Slot(f.time, n, c.width)
                                  => f = e \/ Queue!Earlier(e, f)
           /\ \A f \in S : \E k \in Calendar!Filled(c) :
                Calendar!Looked(c, k) = Slot(f.time, n, c.width)
<1> DEFINE w == c.width
           L(k) == Calendar!Looked(c, k)
<1>1. /\ Calendar!NBuckets(c) = n /\ n \in Nat /\ n >= 4 /\ n > 0 /\ w \in Nat /\ w > 0
      /\ S \subseteq Scheduled /\ now \in Nat /\ c.last = Slot(now, n, w)
      /\ \A e \in S : e.time >= now
  BY SizeIs DEF Holds, Stays
<1>2. c.last \in 0..n - 1
  BY <1>1, SlotIn
<1>3. \A k \in 0..n - 1 : L(k) \in 0..n - 1 /\ L(k) = (c.last + k) % n
  <2> SUFFICES ASSUME NEW k \in 0..n - 1 PROVE L(k) \in 0..n - 1 /\ L(k) = (c.last + k) % n
    OBVIOUS
  <2>1. L(k) = (c.last + k) % n
    BY <1>1 DEF Calendar!Looked
  <2>2. c.last + k \in Nat /\ n > 0
    BY <1>1, <1>2
  <2> QED
    BY <1>1, <2>1, <2>2, Division
<1>4. Calendar!Filled(c) = {k \in 0..n - 1 : c.buckets[L(k)] # <<>>}
  BY <1>1 DEF Calendar!Filled
<1>5. \A f \in S : f.time \in Nat
  BY <1>1 DEF Scheduled
<1>6. ASSUME NEW k \in Calendar!Filled(c)
      PROVE  LET e == Calendar!HeadOf(c, k) IN
             /\ e \in S /\ e \in Scheduled /\ e.time >= now
             /\ L(k) = Slot(e.time, n, w)
             /\ \A f \in S : L(k) = Slot(f.time, n, w) => f = e \/ Queue!Earlier(e, f)
  <2> DEFINE i == L(k)
             e == Calendar!HeadOf(c, k)
  <2>1. i \in 0..n - 1 /\ c.buckets[i] # <<>>
    BY <1>3, <1>4
  <2>2. e = c.buckets[i][1]
    BY DEF Calendar!HeadOf
  <2> HIDE DEF i, e
  <2>3. e \in Day(S, i, n, w) /\ \A f \in Day(S, i, n, w) : f = e \/ Queue!Earlier(e, f)
    BY <2>1, <2>2, HeadIs
  <2>4. /\ e \in S /\ Slot(e.time, n, w) = i
        /\ \A f \in S : Slot(f.time, n, w) = i => f = e \/ Queue!Earlier(e, f)
    BY <2>3 DEF Day
  <2> QED
    BY <1>1, <2>4 DEF i, e
<1>7. ASSUME NEW f \in S
      PROVE  \E k \in Calendar!Filled(c) : L(k) = Slot(f.time, n, w)
  <2> DEFINE i == Slot(f.time, n, w)
  <2>1. i \in 0..n - 1
    BY <1>1, <1>5, SlotIn
  <2>2. PICK k \in 0..n - 1 : (c.last + k) % n = i
    <3> DEFINE r == c.last
    <3>1. n \in Nat /\ n > 0 /\ r \in 0..n - 1 /\ i \in 0..n - 1
      BY <1>1, <1>2, <2>1
    <3> HIDE DEF i, r
    <3>2. \E k \in 0..n - 1 : (r + k) % n = i
      BY ONLY <3>1, WayTo
    <3> QED
      BY <3>2 DEF r
  <2>3. f \in Day(S, i, n, w)
    BY DEF Day
  <2> HIDE DEF i
  <2>4. L(k) = i
    BY <1>3, <2>2
  <2>5. c.buckets[i] # <<>>
    BY <2>1, <2>3, HeadIs
  <2> QED
    BY <1>4, <2>4, <2>5 DEF i
<1> QED
  BY <1>3, <1>4, <1>6, <1>7

(* A head that no other precedes is the earliest event.                    *)
LEMMA FirstHead ==
    ASSUME NEW c, NEW S, NEW n, NEW now, Holds(c, S, n), Stays(c, S, n, now),
           NEW k \in Calendar!Filled(c),
           \A m \in Calendar!Filled(c) : Calendar!HeadOf(c, k).time <= Calendar!HeadOf(c, m).time
    PROVE  IsLeast(c, S, n, k)
<1> DEFINE F == Calendar!Filled(c)
           H(m) == Calendar!HeadOf(c, m)
           L(m) == Calendar!Looked(c, m)
           w == c.width
<1>1. /\ F \subseteq 0..n - 1
      /\ \A m \in F : /\ H(m) \in S /\ H(m) \in Scheduled /\ H(m).time >= now
                      /\ L(m) = Slot(H(m).time, n, w)
                      /\ \A f \in S : L(m) = Slot(f.time, n, w)
                                        => f = H(m) \/ Queue!Earlier(H(m), f)
      /\ \A f \in S : \E m \in F : L(m) = Slot(f.time, n, w)
  BY FilledIs
<1>2. S \subseteq Scheduled
  BY DEF Holds
<1>3. ASSUME NEW f \in S PROVE f = H(k) \/ Queue!Earlier(H(k), f)
  <2>1. PICK m \in F : L(m) = Slot(f.time, n, w)
    BY <1>1
  <2>2. f = H(m) \/ Queue!Earlier(H(m), f)
    BY <1>1, <2>1
  <2>3. /\ H(m).time \in Nat /\ H(k).time \in Nat /\ f.time \in Nat
        /\ H(k).time <= H(m).time
    BY <1>1, <1>2 DEF Scheduled
  <2>4. H(k).time <= f.time
    BY <2>2, <2>3 DEF Queue!Earlier
  <2>5. CASE H(k).time = f.time
    BY <1>1, <2>5
  <2>6. CASE H(k).time # f.time
    BY <2>3, <2>4, <2>6 DEF Queue!Earlier
  <2> QED
    BY <2>5, <2>6
<1> QED
  BY <1>1, <1>3 DEF IsLeast

(* head() finds the earliest event, if there is any.                       *)
LEMMA FoundIsLeast ==
    ASSUME NEW c, NEW S, NEW n, NEW now, Holds(c, S, n), Stays(c, S, n, now),
           Calendar!Filled(c) # {}
    PROVE  IsLeast(c, S, n, Calendar!Found(c, now))
<1> DEFINE F == Calendar!Filled(c)
           H(m) == Calendar!HeadOf(c, m)
           L(m) == Calendar!Looked(c, m)
           w == c.width
           k == Calendar!Found(c, now)
           near == {m \in F : m < n - 1 /\ H(m).time - now < Reach(m, n, w)}
<1>1. /\ F \subseteq 0..n - 1
      /\ \A m \in 0..n - 1 : L(m) \in 0..n - 1 /\ L(m) = (c.last + m) % n
      /\ \A m \in F : /\ H(m) \in S /\ H(m) \in Scheduled /\ H(m).time >= now
                      /\ L(m) = Slot(H(m).time, n, w)
                      /\ \A f \in S : L(m) = Slot(f.time, n, w)
                                        => f = H(m) \/ Queue!Earlier(H(m), f)
      /\ \A f \in S : \E m \in F : L(m) = Slot(f.time, n, w)
  BY FilledIs
<1>2. /\ Calendar!NBuckets(c) = n /\ n \in Nat /\ n >= 4 /\ w \in Nat /\ w > 0
      /\ now \in Nat /\ c.last = Slot(now, n, w)
  BY SizeIs DEF Stays
<1>3. \A m \in F : H(m).time \in Nat /\ m \in Nat
  BY <1>1, <1>2 DEF Scheduled
<1>4. k = IF near # {} THEN Calendar!Min(near)
          ELSE CHOOSE m \in F : \A j \in F : H(m).time <= H(j).time
  <2>1. \A m : Calendar!Horizon(c, m) = Reach(m, n, w)
    BY <1>2 DEF Calendar!Horizon, Reach
  <2> DEFINE near2 == {m \in F : /\ m < Calendar!NBuckets(c) - 1
                                 /\ H(m).time - now < Calendar!Horizon(c, m)}
             C == CHOOSE m \in F : \A j \in F : H(m).time <= H(j).time
  <2>2. near2 = near
    BY <1>2, <2>1
  <2>3. k = IF near2 # {} THEN Calendar!Min(near2) ELSE C
    BY DEF Calendar!Found
  <2> HIDE DEF near2, near, k, C
  <2>4. k = IF near # {} THEN Calendar!Min(near) ELSE C
    BY <2>2, <2>3
  <2> QED
    BY <2>4 DEF C
<1> HIDE DEF k, F
<1>5. CASE near = {}
  <2> DEFINE T == {H(m).time : m \in F}
  <2>1. T \subseteq Nat /\ T # {}
    BY <1>3 DEF F
  <2>2. PICK x \in T : \A y \in T : x <= y
    <3> HIDE DEF T
    <3> QED
      BY <2>1, LeastNumber
  <2>3. \E m \in F : \A j \in F : H(m).time <= H(j).time
    BY <2>2
  <2>4. k \in F /\ \A j \in F : H(k).time <= H(j).time
    BY <1>4, <1>5, <2>3
  <2> QED
    BY <2>4, FirstHead DEF F, k
<1>6. CASE near # {}
  <2>1. near \subseteq Nat
    BY <1>3
  <2>2. \E x \in near : \A y \in near : x <= y
    <3> HIDE DEF near
    <3> QED
      BY <1>6, <2>1, LeastNumber
  <2>3. k \in near /\ \A y \in near : k <= y
    <3> HIDE DEF near
    <3> QED
      BY <1>4, <1>6, <2>2 DEF Calendar!Min
  <2>4. k \in F /\ k < n - 1 /\ H(k).time - now < Reach(k, n, w)
    BY <2>3
  <2>5. k \in 0..n - 1 /\ H(k).time \in Nat /\ H(k).time >= now
        /\ (Slot(now, n, w) + k) % n = Slot(H(k).time, n, w)
    BY <1>1, <1>2, <1>3, <2>4
  <2>6. H(k).time \div w = now \div w + k
    <3> DEFINE t == H(k).time
    <3>1. t \in Nat /\ t >= now /\ t - now < Reach(k, n, w) /\ (Slot(now, n, w) + k) % n = Slot(t, n, w)
      BY <2>4, <2>5
    <3> HIDE DEF t
    <3>2. t \div w = now \div w + k
      BY <1>2, <2>5, <3>1, NearIsSoon
    <3> QED
      BY <3>2 DEF t
  <2>7. ASSUME NEW m \in F, H(m).time < H(k).time PROVE FALSE
    <3> DEFINE t == H(m).time
               a == now \div w
               d == t \div w
    <3>1. t \in Nat /\ t >= now /\ m \in 0..n - 1 /\ (Slot(now, n, w) + m) % n = Slot(t, n, w)
      BY <1>1, <1>2, <1>3
    <3>2. a \in Nat /\ d \in Nat
      BY <1>2, <3>1, Division
    <3>3. d >= a
      BY <1>2, <3>1, EarlierDay
    <3>4. d <= a + k
      <4>1. t <= H(k).time
        BY <2>5, <2>7, <3>1
      <4>2. d <= H(k).time \div w
        <5> DEFINE u == H(k).time
        <5>1. u \in Nat /\ t <= u
          BY <2>5, <4>1
        <5> HIDE DEF u, t
        <5>2. t \div w <= u \div w
          BY <1>2, <3>1, <5>1, EarlierDay
        <5> QED
          BY <5>2 DEF u, t
      <4> QED
        BY <2>6, <4>2
    <3>5. OnTheWay(a, d, m, n)
      BY <3>1 DEF Slot, OnTheWay
    <3> HIDE DEF a, d
    <3>6. d = a + m \/ d >= a + m + n
      <4>1. n > 0
        BY <1>2
      <4> QED
        BY <1>2, <3>1, <3>2, <3>3, <3>5, <4>1, Laps
    <3>7. d = a + m /\ m <= k
      BY <1>2, <2>4, <2>5, <3>1, <3>2, <3>4, <3>6
    <3>8. m # k
      BY <2>5, <2>7
    <3>9. t - now < Reach(m, n, w)
      <4> HIDE DEF t
      <4>1. t \div w = now \div w + m
        BY <3>7 DEF a, d
      <4> QED
        BY <1>2, <3>1, <4>1, SoonIsNear
    <3>10. m \in near
      BY <1>2, <2>4, <2>5, <3>1, <3>7, <3>9
    <3> QED
      BY <1>3, <2>3, <2>5, <3>1, <3>7, <3>8, <3>10
  <2>8. \A m \in F : H(k).time <= H(m).time
    BY <1>3, <2>5, <2>7
  <2> QED
    BY <2>4, <2>8, FirstHead DEF F, k
<1> QED
  BY <1>5, <1>6 DEF k

-----------------------------------------------------------------------------
(* The lists of the buckets                                                *)
LEMMA QueueOrders ==
    /\ \A x, y \in Scheduled : x # y => Queue!Earlier(x, y) \/ Queue!Earlier(y, x)
    /\ \A x, y \in Scheduled : Queue!Earlier(x, y) => x # y /\ ~Queue!Earlier(y, x) /\ x.time <= y.time
    /\ \A x, y, z \in Scheduled :
         Queue!Earlier(x, y) /\ Queue!Earlier(y, z) => Queue!Earlier(x, z)
<1>1. \A x \in Scheduled : x = [time |-> x.time, uid |-> x.uid] /\ x.time \in Nat /\ x.uid \in Nat
  BY DEF Scheduled
<1>2. \A x, y \in Scheduled : x # y => x.time # y.time \/ x.uid # y.uid
  BY <1>1
<1>3. \A x, y \in Scheduled : x # y => Queue!Earlier(x, y) \/ Queue!Earlier(y, x)
  BY <1>1, <1>2 DEF Queue!Earlier
<1>4. \A x, y \in Scheduled : Queue!Earlier(x, y) => x # y /\ ~Queue!Earlier(y, x) /\ x.time <= y.time
  BY <1>1 DEF Queue!Earlier
<1>5. \A x, y, z \in Scheduled :
         Queue!Earlier(x, y) /\ Queue!Earlier(y, z) => Queue!Earlier(x, z)
  BY <1>1 DEF Queue!Earlier
<1> QED
  BY <1>3, <1>4, <1>5

(* s is b with e after its first k events.                                 *)
PutIn(b, e, k, s) ==
    /\ s \in Seq(Scheduled) /\ Len(s) = Len(b) + 1
    /\ \A j \in 1..Len(s) :
         s[j] = IF j <= k THEN b[j] ELSE IF j = k + 1 THEN e ELSE b[j - 1]

(* s is b without its k-th event.                                          *)
TakenOut(b, k, s) ==
    /\ s \in Seq(Scheduled) /\ Len(s) = Len(b) - 1
    /\ \A j \in 1..Len(s) : s[j] = IF j < k THEN b[j] ELSE b[j + 1]

(* What an insertion into a list makes of it                               *)
LEMMA InsertAtIs ==
    ASSUME NEW b \in Seq(Scheduled), NEW e \in Scheduled, NEW k \in 0..Len(b)
    PROVE  PutIn(b, e, k, Calendar!InsertAt(b, k + 1, e))
<1> DEFINE n == Len(b)
           p == SubSeq(b, 1, k)
           q == SubSeq(b, k + 1, n)
           m == <<e>>
           s == (p \o m) \o q
<1>1. n \in Nat /\ \A j \in 1..n : b[j] \in Scheduled
  BY ElementOfSeq
<1>2. /\ p \in Seq(Scheduled) /\ Len(p) = k
      /\ \A j \in 1..k : p[j] = b[j]
  <2>1. \A j \in 1..k : b[j] \in Scheduled
    BY <1>1
  <2>2. /\ SubSeq(b, 1, k) \in Seq(Scheduled)
        /\ Len(SubSeq(b, 1, k)) = IF 1 <= k THEN k - 1 + 1 ELSE 0
        /\ \A j \in 1..k - 1 + 1 : SubSeq(b, 1, k)[j] = b[1 + j - 1]
    BY <2>1, SubSeqProperties
  <2> QED
    BY <2>2
<1>3. /\ q \in Seq(Scheduled) /\ Len(q) = n - k
      /\ \A j \in 1..n - k : q[j] = b[k + j]
  <2>1. \A j \in k + 1..n : b[j] \in Scheduled
    BY <1>1
  <2>2. k + 1 \in Int /\ n \in Int
    BY <1>1
  <2>3. /\ SubSeq(b, k + 1, n) \in Seq(Scheduled)
        /\ Len(SubSeq(b, k + 1, n)) = IF k + 1 <= n THEN n - (k + 1) + 1 ELSE 0
        /\ \A j \in 1..n - (k + 1) + 1 : SubSeq(b, k + 1, n)[j] = b[(k + 1) + j - 1]
    <3> HIDE DEF n
    <3> QED
      BY <2>1, <2>2, SubSeqProperties
  <2>4. k \in 0..n
    OBVIOUS
  <2> HIDE DEF n
  <2>5. n - (k + 1) + 1 = n - k /\ \A j \in 1..n - k : (k + 1) + j - 1 = k + j
    BY <2>2
  <2>6. (IF k + 1 <= n THEN n - k ELSE 0) = n - k
    BY <1>1, <2>4
  <2> QED
    BY <2>3, <2>5, <2>6
<1>4. m \in Seq(Scheduled) /\ Len(m) = 1 /\ m[1] = e
  OBVIOUS
<1> HIDE DEF n, p, q, m
<1>5. /\ p \o m \in Seq(Scheduled) /\ Len(p \o m) = k + 1
      /\ \A j \in 1..k + 1 : (p \o m)[j] = IF j <= k THEN p[j] ELSE m[j - k]
  <2>1. /\ p \o m \in Seq(Scheduled)
        /\ Len(p \o m) = Len(p) + Len(m)
        /\ \A j \in 1..Len(p) + Len(m) :
             (p \o m)[j] = IF j <= Len(p) THEN p[j] ELSE m[j - Len(p)]
    BY <1>2, <1>4, ConcatProperties
  <2> QED
    BY <1>2, <1>4, <2>1
<1>6. /\ s \in Seq(Scheduled) /\ Len(s) = n + 1
      /\ \A j \in 1..n + 1 : s[j] = IF j <= k + 1 THEN (p \o m)[j] ELSE q[j - (k + 1)]
  <2> DEFINE u == p \o m
  <2>1. u \in Seq(Scheduled) /\ Len(u) = k + 1
    BY <1>5
  <2> HIDE DEF u
  <2>2. /\ u \o q \in Seq(Scheduled) /\ Len(u \o q) = (k + 1) + (n - k)
        /\ \A j \in 1..(k + 1) + (n - k) : (u \o q)[j] = IF j <= k + 1 THEN u[j] ELSE q[j - (k + 1)]
    <3>1. /\ u \o q \in Seq(Scheduled)
          /\ Len(u \o q) = Len(u) + Len(q)
          /\ \A j \in 1..Len(u) + Len(q) :
               (u \o q)[j] = IF j <= Len(u) THEN u[j] ELSE q[j - Len(u)]
      BY <1>3, <2>1, ConcatProperties
    <3> QED
      BY <1>3, <2>1, <3>1
  <2>3. (k + 1) + (n - k) = n + 1
    BY <1>1
  <2> QED
    BY <2>2, <2>3 DEF u
<1>7. s = Calendar!InsertAt(b, k + 1, e)
  <2>1. (k + 1) - 1 = k
    OBVIOUS
  <2> QED
    BY <2>1 DEF Calendar!InsertAt, p, q, m, n
<1> HIDE DEF s
<1>8. ASSUME NEW j \in 1..n + 1
      PROVE  s[j] = IF j <= k THEN b[j] ELSE IF j = k + 1 THEN e ELSE b[j - 1]
  <2>1. CASE j <= k
    <3>1. j \in 1..k + 1 /\ j \in 1..k
      BY <2>1
    <3> QED
      BY <1>2, <1>5, <1>6, <2>1, <3>1
  <2>2. CASE j = k + 1
    <3>1. j \in 1..k + 1 /\ ~(j <= k) /\ j - k = 1 /\ j <= k + 1
      BY <2>2
    <3> QED
      BY <1>4, <1>5, <1>6, <2>2, <3>1
  <2>3. CASE j > k + 1
    <3>1. j - (k + 1) \in 1..n - k /\ k + (j - (k + 1)) = j - 1 /\ ~(j <= k + 1) /\ ~(j <= k) /\ j # k + 1
      BY <1>1, <2>3
    <3> QED
      BY <1>3, <1>6, <3>1
  <2> QED
    BY <1>1, <2>1, <2>2, <2>3
<1> QED
  BY <1>6, <1>7, <1>8 DEF PutIn, n

(* What a removal from a list makes of it                                  *)
LEMMA RemoveAtIs ==
    ASSUME NEW b \in Seq(Scheduled), NEW k \in 1..Len(b)
    PROVE  TakenOut(b, k, Calendar!RemoveAt(b, k))
<1> DEFINE n == Len(b)
           p == SubSeq(b, 1, k - 1)
           q == SubSeq(b, k + 1, n)
           s == p \o q
<1>1. n \in Nat /\ \A j \in 1..n : b[j] \in Scheduled
  BY ElementOfSeq
<1>2. /\ p \in Seq(Scheduled) /\ Len(p) = k - 1
      /\ \A j \in 1..k - 1 : p[j] = b[j]
  <2>1. \A j \in 1..k - 1 : b[j] \in Scheduled
    BY <1>1
  <2>2. /\ SubSeq(b, 1, k - 1) \in Seq(Scheduled)
        /\ Len(SubSeq(b, 1, k - 1)) = IF 1 <= k - 1 THEN (k - 1) - 1 + 1 ELSE 0
        /\ \A j \in 1..(k - 1) - 1 + 1 : SubSeq(b, 1, k - 1)[j] = b[1 + j - 1]
    BY <2>1, SubSeqProperties
  <2> QED
    BY <2>2
<1>3. /\ q \in Seq(Scheduled) /\ Len(q) = n - k
      /\ \A j \in 1..n - k : q[j] = b[k + j]
  <2>1. \A j \in k + 1..n : b[j] \in Scheduled
    BY <1>1
  <2>2. k + 1 \in Int /\ n \in Int
    BY <1>1
  <2>3. /\ SubSeq(b, k + 1, n) \in Seq(Scheduled)
        /\ Len(SubSeq(b, k + 1, n)) = IF k + 1 <= n THEN n - (k + 1) + 1 ELSE 0
        /\ \A j \in 1..n - (k + 1) + 1 : SubSeq(b, k + 1, n)[j] = b[(k + 1) + j - 1]
    <3> HIDE DEF n
    <3> QED
      BY <2>1, <2>2, SubSeqProperties
  <2>4. k \in 0..n
    OBVIOUS
  <2> HIDE DEF n
  <2>5. n - (k + 1) + 1 = n - k /\ \A j \in 1..n - k : (k + 1) + j - 1 = k + j
    BY <2>2
  <2>6. (IF k + 1 <= n THEN n - k ELSE 0) = n - k
    BY <1>1, <2>4
  <2> QED
    BY <2>3, <2>5, <2>6
<1> HIDE DEF n, p, q
<1>4. /\ s \in Seq(Scheduled) /\ Len(s) = n - 1
      /\ \A j \in 1..n - 1 : s[j] = IF j <= k - 1 THEN p[j] ELSE q[j - (k - 1)]
  <2>1. /\ p \o q \in Seq(Scheduled) /\ Len(p \o q) = (k - 1) + (n - k)
        /\ \A j \in 1..(k - 1) + (n - k) : (p \o q)[j] = IF j <= k - 1 THEN p[j] ELSE q[j - (k - 1)]
    BY <1>2, <1>3, ConcatProperties
  <2>2. (k - 1) + (n - k) = n - 1
    BY <1>1
  <2> QED
    BY <2>1, <2>2
<1>5. s = Calendar!RemoveAt(b, k)
  BY DEF Calendar!RemoveAt, p, q, n
<1> HIDE DEF s
<1>6. ASSUME NEW j \in 1..n - 1
      PROVE  s[j] = IF j < k THEN b[j] ELSE b[j + 1]
  <2>1. CASE j < k
    <3>1. j \in 1..k - 1 /\ j <= k - 1
      BY <2>1
    <3> QED
      BY <1>2, <1>4, <2>1, <3>1
  <2>2. CASE ~(j < k)
    <3>1. j - (k - 1) \in 1..n - k /\ k + (j - (k - 1)) = j + 1 /\ ~(j <= k - 1)
      BY <1>1, <2>2
    <3> QED
      BY <1>3, <1>4, <2>2, <3>1
  <2> QED
    BY <2>1, <2>2
<1> QED
  BY <1>4, <1>5, <1>6 DEF TakenOut, n

(* e belongs after the first k events of b.                                *)
Splits(b, e, k) ==
    /\ \A j \in 1..k : Queue!Earlier(b[j], e)
    /\ \A j \in k + 1..Len(b) : Queue!Earlier(e, b[j])

(* A list in order with an event where it belongs is in order.             *)
LEMMA PutInOrder ==
    ASSUME NEW b, InOrder(b), NEW e \in Scheduled, NEW k \in 0..Len(b), Splits(b, e, k),
           NEW s, PutIn(b, e, k, s)
    PROVE  InOrder(s) /\ Elements(s) = Elements(b) \cup {e}
<1>1. /\ b \in Seq(Scheduled) /\ s \in Seq(Scheduled) /\ Len(b) \in Nat /\ Len(s) = Len(b) + 1
      /\ \A j \in 1..Len(s) :
           s[j] = IF j <= k THEN b[j] ELSE IF j = k + 1 THEN e ELSE b[j - 1]
      /\ \A i, j \in 1..Len(b) : i < j => Queue!Earlier(b[i], b[j])
      /\ \A j \in 1..k : Queue!Earlier(b[j], e)
      /\ \A j \in k + 1..Len(b) : Queue!Earlier(e, b[j])
  BY DEF InOrder, PutIn, Splits
<1>2. ASSUME NEW i \in 1..Len(s), NEW j \in 1..Len(s), i < j PROVE Queue!Earlier(s[i], s[j])
  <2>1. CASE j <= k
    <3>1. i \in 1..Len(b) /\ j \in 1..Len(b) /\ i <= k
      BY <1>1, <1>2, <2>1
    <3> QED
      BY <1>1, <1>2, <2>1, <3>1
  <2>2. CASE j = k + 1
    <3>1. i \in 1..k /\ i <= k /\ ~(j <= k)
      BY <1>1, <1>2, <2>2
    <3> QED
      BY <1>1, <2>2, <3>1
  <2>3. CASE j > k + 1
    <3>1. j - 1 \in k + 1..Len(b) /\ j - 1 \in 1..Len(b) /\ s[j] = b[j - 1]
      BY <1>1, <2>3
    <3>2. CASE i <= k
      <4>1. i \in 1..Len(b) /\ i < j - 1 /\ s[i] = b[i]
        BY <1>1, <2>3, <3>2
      <4> QED
        BY <1>1, <3>1, <4>1
    <3>3. CASE i = k + 1
      <4>1. s[i] = e
        BY <1>1, <3>3
      <4> QED
        BY <1>1, <3>1, <4>1
    <3>4. CASE i > k + 1
      <4>1. i - 1 \in 1..Len(b) /\ i - 1 < j - 1 /\ s[i] = b[i - 1]
        BY <1>1, <1>2, <3>4
      <4> QED
        BY <1>1, <3>1, <4>1
    <3> QED
      BY <3>2, <3>3, <3>4
  <2> QED
    BY <1>1, <2>1, <2>2, <2>3
<1>3. ASSUME NEW x PROVE x \in Elements(s) <=> x \in Elements(b) \cup {e}
  <2>1. ASSUME NEW j \in 1..Len(s) PROVE s[j] \in Elements(b) \cup {e}
    <3>1. j <= k => j \in 1..Len(b)
      OBVIOUS
    <3>2. j > k + 1 => j - 1 \in 1..Len(b) /\ ~(j <= k) /\ j # k + 1
      BY <1>1
    <3> QED
      BY <1>1, <3>1, <3>2 DEF Elements
  <2>2. e \in Elements(s)
    <3>1. k + 1 \in 1..Len(s) /\ s[k + 1] = e
      BY <1>1
    <3> QED
      BY <3>1 DEF Elements
  <2>3. ASSUME NEW j \in 1..Len(b) PROVE b[j] \in Elements(s)
    <3>1. CASE j <= k
      <4>1. j \in 1..Len(s) /\ s[j] = b[j]
        BY <1>1, <3>1
      <4> QED
        BY <4>1 DEF Elements
    <3>2. CASE j > k
      <4>1. j + 1 \in 1..Len(s) /\ s[j + 1] = b[j]
        BY <1>1, <3>2
      <4> QED
        BY <4>1 DEF Elements
    <3> QED
      BY <3>1, <3>2
  <2> QED
    BY <2>1, <2>2, <2>3 DEF Elements
<1> QED
  BY <1>1, <1>2, <1>3 DEF InOrder

(* A list in order without an event is in order.                           *)
LEMMA TakenOutOrder ==
    ASSUME NEW b, InOrder(b), NEW k \in 1..Len(b), NEW s, TakenOut(b, k, s)
    PROVE  InOrder(s) /\ Elements(s) = Elements(b) \ {b[k]}
<1>1. /\ b \in Seq(Scheduled) /\ s \in Seq(Scheduled) /\ Len(b) \in Nat /\ Len(s) = Len(b) - 1
      /\ \A j \in 1..Len(s) : s[j] = IF j < k THEN b[j] ELSE b[j + 1]
      /\ \A i, j \in 1..Len(b) : i < j => Queue!Earlier(b[i], b[j])
      /\ \A j \in 1..Len(b) : b[j] \in Scheduled
  BY ElementOfSeq DEF InOrder, TakenOut
<1>2. ASSUME NEW i \in 1..Len(s), NEW j \in 1..Len(s), i < j PROVE Queue!Earlier(s[i], s[j])
  <2> DEFINE i1 == IF i < k THEN i ELSE i + 1
             j1 == IF j < k THEN j ELSE j + 1
  <2>1. i1 \in 1..Len(b) /\ j1 \in 1..Len(b) /\ i1 < j1
    BY <1>1, <1>2
  <2>2. s[i] = b[i1] /\ s[j] = b[j1]
    BY <1>1
  <2> QED
    BY <1>1, <2>1, <2>2
<1>3. \A i, j \in 1..Len(b) : i # j => b[i] # b[j]
  <2> SUFFICES ASSUME NEW i \in 1..Len(b), NEW j \in 1..Len(b), i # j PROVE b[i] # b[j]
    OBVIOUS
  <2>1. i < j \/ j < i
    OBVIOUS
  <2> QED
    BY <1>1, <2>1, QueueOrders
<1>4. ASSUME NEW x PROVE x \in Elements(s) <=> x \in Elements(b) \ {b[k]}
  <2>1. ASSUME NEW j \in 1..Len(s) PROVE s[j] \in Elements(b) \ {b[k]}
    <3> DEFINE j1 == IF j < k THEN j ELSE j + 1
    <3>1. j1 \in 1..Len(b) /\ j1 # k /\ s[j] = b[j1]
      BY <1>1
    <3> QED
      BY <1>3, <3>1 DEF Elements
  <2>2. ASSUME NEW j \in 1..Len(b), b[j] # b[k] PROVE b[j] \in Elements(s)
    <3> DEFINE j1 == IF j < k THEN j ELSE j - 1
    <3>1. j # k
      BY <2>2
    <3>2. j1 \in 1..Len(s) /\ s[j1] = b[j]
      BY <1>1, <3>1
    <3> QED
      BY <3>2 DEF Elements
  <2> QED
    BY <2>1, <2>2 DEF Elements
<1> QED
  BY <1>1, <1>2, <1>4 DEF InOrder

-----------------------------------------------------------------------------
(* The distinct times                                                      *)
TimesOf(A) == {e.time : e \in A}

Counted(c, S, n) ==
    /\ \A i \in 0..n - 1 : c.count[i] = Cardinality(TimesOf(Day(S, i, n, c.width)))
    /\ c.stat = Cardinality(TimesOf(S))

IsCal(c, S, n) == Holds(c, S, n) /\ Counted(c, S, n)

(* Finitely many events have finitely many times.                          *)
LEMMA TimesFinite ==
    ASSUME NEW A, IsFiniteSet(A)
    PROVE  IsFiniteSet(TimesOf(A)) /\ Cardinality(TimesOf(A)) \in Nat
<1> DEFINE f == [e \in A |-> e.time]
<1>1. f \in Surjection(A, TimesOf(A))
  BY DEF Surjection, TimesOf
<1>2. IsFiniteSet(TimesOf(A))
  BY <1>1, FS_Surjection
<1> QED
  BY <1>2, FS_CardinalityType

(* An event more is a time more unless one of the others has its time.     *)
LEMMA MoreTimes ==
    ASSUME NEW A, IsFiniteSet(A), NEW e
    PROVE  Cardinality(TimesOf(A \cup {e})) =
             IF e.time \in TimesOf(A) THEN Cardinality(TimesOf(A)) ELSE Cardinality(TimesOf(A)) + 1
<1>1. IsFiniteSet(TimesOf(A))
  BY TimesFinite
<1>2. TimesOf(A \cup {e}) = TimesOf(A) \cup {e.time}
  BY DEF TimesOf
<1> QED
  BY <1>1, <1>2, FS_AddElement

(* An event less is a time less unless one of the others has its time.     *)
LEMMA FewerTimes ==
    ASSUME NEW A, IsFiniteSet(A), NEW e \in A
    PROVE  Cardinality(TimesOf(A \ {e})) =
             IF \E f \in A \ {e} : f.time = e.time THEN Cardinality(TimesOf(A))
             ELSE Cardinality(TimesOf(A)) - 1
<1>1. IsFiniteSet(TimesOf(A)) /\ e.time \in TimesOf(A)
  BY TimesFinite DEF TimesOf
<1>2. CASE \E f \in A \ {e} : f.time = e.time
  <2>1. TimesOf(A \ {e}) = TimesOf(A)
    BY <1>2 DEF TimesOf
  <2> QED
    BY <1>2, <2>1
<1>3. CASE ~ \E f \in A \ {e} : f.time = e.time
  <2>1. TimesOf(A \ {e}) = TimesOf(A) \ {e.time}
    BY <1>3 DEF TimesOf
  <2> QED
    BY <1>1, <1>3, <2>1, FS_RemoveElement
<1> QED
  BY <1>2, <1>3

(* CALENDAR_HASH is the bucket of a time.                                  *)
LEMMA HashIs ==
    ASSUME NEW c, NEW S, NEW n, Holds(c, S, n), NEW t
    PROVE  Calendar!Hash(c, t) = Slot(t, n, c.width)
BY SizeIs DEF Calendar!Hash, Slot

(* u is c with b as the list of bucket i, and its counters one more or one *)
(* less.                                                                   *)
Relisted(c, n, i, b, one, u) ==
    /\ u \in Cals(n) /\ u.width = c.width /\ u.last = c.last /\ u.stat = c.stat + one
    /\ u.buckets[i] = b /\ u.count[i] = c.count[i] + one
    /\ \A j \in 0..n - 1 : j # i => u.buckets[j] = c.buckets[j] /\ u.count[j] = c.count[j]

(* What insert() and deque() assign in one bucket                          *)
LEMMA RelistedIs ==
    ASSUME NEW n \in Nat, NEW c \in Cals(n), NEW i \in 0..n - 1, NEW b \in Seq(Scheduled), NEW one \in Int,
           NEW u,
           u = [c EXCEPT !.buckets[i] = b, !.count[i] = c.count[i] + one, !.stat = c.stat + one]
    PROVE  Relisted(c, n, i, b, one, u)
<1>1. /\ c.buckets \in [0..n - 1 -> Seq(Scheduled)] /\ c.count \in [0..n - 1 -> Int]
      /\ c.width \in Nat \ {0} /\ c.last \in Int /\ c.stat \in Int
      /\ c = [buckets |-> c.buckets, count |-> c.count, width |-> c.width,
              last |-> c.last, stat |-> c.stat]
  BY DEF Cals
<1>2. /\ u.buckets = [c.buckets EXCEPT ![i] = b]
      /\ u.count = [c.count EXCEPT ![i] = c.count[i] + one]
      /\ u.stat = c.stat + one /\ u.width = c.width /\ u.last = c.last
      /\ u = [buckets |-> u.buckets, count |-> u.count, width |-> u.width,
              last |-> u.last, stat |-> u.stat]
  BY <1>1
<1>3. /\ u.buckets \in [0..n - 1 -> Seq(Scheduled)] /\ u.count \in [0..n - 1 -> Int]
      /\ u.buckets[i] = b /\ u.count[i] = c.count[i] + one
      /\ \A j \in 0..n - 1 : j # i => u.buckets[j] = c.buckets[j] /\ u.count[j] = c.count[j]
  <2> DEFINE B == c.buckets
             C == c.count
  <2>1. /\ B \in [0..n - 1 -> Seq(Scheduled)] /\ C \in [0..n - 1 -> Int]
        /\ u.buckets = [B EXCEPT ![i] = b] /\ u.count = [C EXCEPT ![i] = C[i] + one]
    BY <1>1, <1>2
  <2>2. C[i] + one \in Int
    BY <1>1
  <2> HIDE DEF B, C
  <2> DEFINE D == 0..n - 1
             x == u.buckets
             y == u.count
             v == C[i] + one
             T == Seq(Scheduled)
  <2>3. /\ B \in [D -> T] /\ C \in [D -> Int] /\ i \in D /\ b \in T /\ v \in Int
        /\ x = [B EXCEPT ![i] = b] /\ y = [C EXCEPT ![i] = v]
    BY <2>1, <2>2
  <2> HIDE DEF D, x, y, v, T
  <2>4. /\ x \in [D -> T] /\ y \in [D -> Int] /\ x[i] = b /\ y[i] = v
        /\ \A j \in D : j # i => x[j] = B[j] /\ y[j] = C[j]
    BY ONLY <2>3
  <2> QED
    BY <2>4 DEF B, C, D, T, v, x, y
<1>4. u.stat \in Int
  BY <1>1, <1>2
<1>5. u \in Cals(n)
  BY <1>1, <1>2, <1>3, <1>4 DEF Cals
<1> QED
  BY <1>2, <1>3, <1>5 DEF Relisted

(* The bucket gained e.                                                    *)
LEMMA ListGains ==
    ASSUME NEW c, NEW S, NEW n, IsCal(c, S, n), NEW e \in Scheduled, e \notin S,
           NEW b, InOrder(b),
           Elements(b) = Day(S, Slot(e.time, n, c.width), n, c.width) \cup {e},
           NEW one, one = IF e.time \in TimesOf(S) THEN 0 ELSE 1,
           NEW u, Relisted(c, n, Slot(e.time, n, c.width), b, one, u)
    PROVE  IsCal(u, S \cup {e}, n)
<1> DEFINE w == c.width
           i == Slot(e.time, n, w)
<1>1. /\ n \in Nat /\ n >= 4 /\ S \subseteq Scheduled /\ IsFiniteSet(S)
      /\ \A j \in 0..n - 1 : /\ InOrder(c.buckets[j])
                             /\ Elements(c.buckets[j]) = Day(S, j, n, w)
                             /\ c.count[j] = Cardinality(TimesOf(Day(S, j, n, w)))
      /\ c.stat = Cardinality(TimesOf(S))
  BY DEF IsCal, Holds, Counted
<1>2. /\ u \in Cals(n) /\ u.width = w /\ u.stat = c.stat + one
      /\ u.buckets[i] = b /\ u.count[i] = c.count[i] + one
      /\ \A j \in 0..n - 1 : j # i => u.buckets[j] = c.buckets[j] /\ u.count[j] = c.count[j]
  BY DEF Relisted
<1>3. Elements(b) = Day(S, i, n, w) \cup {e} /\ one = IF e.time \in TimesOf(S) THEN 0 ELSE 1
  OBVIOUS
<1> HIDE DEF w, i
<1>4. /\ \A j : Day(S \cup {e}, j, n, w) = IF j = i THEN Day(S, j, n, w) \cup {e} ELSE Day(S, j, n, w)
      /\ Day(S, i, n, w) \subseteq S
      /\ e.time \in TimesOf(S) <=> e.time \in TimesOf(Day(S, i, n, w))
  BY DEF Day, TimesOf, i
<1>5. S \cup {e} \subseteq Scheduled /\ IsFiniteSet(S \cup {e})
  BY <1>1, FS_AddElement
<1>6. \A j \in 0..n - 1 : InOrder(u.buckets[j]) /\ Elements(u.buckets[j]) = Day(S \cup {e}, j, n, w)
  BY <1>1, <1>2, <1>3, <1>4
<1>7. \A j \in 0..n - 1 : u.count[j] = Cardinality(TimesOf(Day(S \cup {e}, j, n, w)))
  <2> SUFFICES ASSUME NEW j \in 0..n - 1
               PROVE  u.count[j] = Cardinality(TimesOf(Day(S \cup {e}, j, n, w)))
    OBVIOUS
  <2>1. CASE j = i
    <3> DEFINE A == Day(S, i, n, w)
    <3>1. IsFiniteSet(A)
      BY <1>1, <1>4, FS_Subset
    <3>2. Cardinality(TimesOf(A)) \in Nat
      BY <3>1, TimesFinite
    <3>3. Cardinality(TimesOf(A \cup {e})) =
            IF e.time \in TimesOf(A) THEN Cardinality(TimesOf(A)) ELSE Cardinality(TimesOf(A)) + 1
      BY <3>1, MoreTimes
    <3>4. u.count[j] = Cardinality(TimesOf(A)) + one /\ Day(S \cup {e}, j, n, w) = A \cup {e}
      BY <1>1, <1>2, <1>4, <2>1
    <3> HIDE DEF A
    <3>5. e.time \in TimesOf(S) <=> e.time \in TimesOf(A)
      BY <1>4 DEF A
    <3>6. CASE e.time \in TimesOf(S)
      <4>1. one = 0
        BY <1>3, <3>6
      <4>2. Cardinality(TimesOf(A)) + one = Cardinality(TimesOf(A))
        BY <3>2, <4>1
      <4>3. Cardinality(TimesOf(A \cup {e})) = Cardinality(TimesOf(A))
        BY <3>3, <3>5, <3>6
      <4> QED
        BY <3>4, <4>2, <4>3
    <3>7. CASE e.time \notin TimesOf(S)
      <4>1. one = 1
        BY <1>3, <3>7
      <4> QED
        BY <3>2, <3>3, <3>4, <3>5, <3>7, <4>1
    <3> QED
      BY <3>6, <3>7
  <2>2. CASE j # i
    BY <1>1, <1>2, <1>4, <2>2
  <2> QED
    BY <2>1, <2>2
<1>8. u.stat = Cardinality(TimesOf(S \cup {e}))
  <2>1. Cardinality(TimesOf(S)) \in Nat
    BY <1>1, TimesFinite
  <2>2. Cardinality(TimesOf(S \cup {e})) =
          IF e.time \in TimesOf(S) THEN Cardinality(TimesOf(S)) ELSE Cardinality(TimesOf(S)) + 1
    BY <1>1, MoreTimes
  <2> QED
    BY <1>1, <1>2, <1>3, <2>1, <2>2
<1>9. Holds(u, S \cup {e}, n)
  BY <1>1, <1>2, <1>5, <1>6 DEF Holds
<1>10. Counted(u, S \cup {e}, n)
  BY <1>2, <1>7, <1>8 DEF Counted
<1> QED
  BY <1>9, <1>10 DEF IsCal

(* The bucket lost e.                                                      *)
LEMMA ListLoses ==
    ASSUME NEW c, NEW S, NEW n, IsCal(c, S, n), NEW e \in S,
           NEW b, InOrder(b),
           Elements(b) = Day(S, Slot(e.time, n, c.width), n, c.width) \ {e},
           NEW one, one = IF \E f \in S \ {e} : f.time = e.time THEN 0 ELSE -1,
           NEW u, Relisted(c, n, Slot(e.time, n, c.width), b, one, u)
    PROVE  IsCal(u, S \ {e}, n)
<1> DEFINE w == c.width
           i == Slot(e.time, n, w)
           twin == \E f \in S \ {e} : f.time = e.time
<1>1. /\ n \in Nat /\ n >= 4 /\ S \subseteq Scheduled /\ IsFiniteSet(S)
      /\ \A j \in 0..n - 1 : /\ InOrder(c.buckets[j])
                             /\ Elements(c.buckets[j]) = Day(S, j, n, w)
                             /\ c.count[j] = Cardinality(TimesOf(Day(S, j, n, w)))
      /\ c.stat = Cardinality(TimesOf(S))
  BY DEF IsCal, Holds, Counted
<1>2. /\ u \in Cals(n) /\ u.width = w /\ u.stat = c.stat + one
      /\ u.buckets[i] = b /\ u.count[i] = c.count[i] + one
      /\ \A j \in 0..n - 1 : j # i => u.buckets[j] = c.buckets[j] /\ u.count[j] = c.count[j]
  BY DEF Relisted
<1>3. Elements(b) = Day(S, i, n, w) \ {e} /\ one = IF twin THEN 0 ELSE -1
  OBVIOUS
<1>4. /\ \A j : Day(S \ {e}, j, n, w) = Day(S, j, n, w) \ {e}
      /\ Day(S, i, n, w) \subseteq S /\ e \in Day(S, i, n, w)
      /\ \A j : j # i => e \notin Day(S, j, n, w)
      /\ twin <=> \E f \in Day(S, i, n, w) \ {e} : f.time = e.time
  <2>1. e \in Day(S, i, n, w) /\ \A j : j # i => e \notin Day(S, j, n, w)
    BY DEF Day
  <2>2. /\ \A j : Day(S \ {e}, j, n, w) = Day(S, j, n, w) \ {e}
        /\ Day(S, i, n, w) \subseteq S
    BY DEF Day
  <2>3. twin <=> \E f \in Day(S, i, n, w) \ {e} : f.time = e.time
    BY DEF Day
  <2> QED
    BY <2>1, <2>2, <2>3
<1> HIDE DEF w, i, twin
<1>5. S \ {e} \subseteq Scheduled /\ IsFiniteSet(S \ {e})
  BY <1>1, FS_RemoveElement
<1>6. \A j \in 0..n - 1 : InOrder(u.buckets[j]) /\ Elements(u.buckets[j]) = Day(S \ {e}, j, n, w)
  <2> SUFFICES ASSUME NEW j \in 0..n - 1
               PROVE  InOrder(u.buckets[j]) /\ Elements(u.buckets[j]) = Day(S \ {e}, j, n, w)
    OBVIOUS
  <2>1. j # i => Day(S \ {e}, j, n, w) = Day(S, j, n, w)
    BY <1>4
  <2> QED
    BY <1>1, <1>2, <1>3, <1>4, <2>1
<1>7. \A j \in 0..n - 1 : u.count[j] = Cardinality(TimesOf(Day(S \ {e}, j, n, w)))
  <2> SUFFICES ASSUME NEW j \in 0..n - 1
               PROVE  u.count[j] = Cardinality(TimesOf(Day(S \ {e}, j, n, w)))
    OBVIOUS
  <2>1. CASE j = i
    <3> DEFINE A == Day(S, i, n, w)
    <3>1. IsFiniteSet(A) /\ e \in A
      BY <1>1, <1>4, FS_Subset
    <3>2. Cardinality(TimesOf(A)) \in Nat
      BY <3>1, TimesFinite
    <3>3. u.count[j] = Cardinality(TimesOf(A)) + one /\ Day(S \ {e}, j, n, w) = A \ {e}
      BY <1>1, <1>2, <1>4, <2>1
    <3>4. twin <=> \E f \in A \ {e} : f.time = e.time
      BY <1>4
    <3> HIDE DEF A
    <3>5. Cardinality(TimesOf(A \ {e})) =
            IF twin THEN Cardinality(TimesOf(A)) ELSE Cardinality(TimesOf(A)) - 1
      BY <3>1, <3>4, FewerTimes
    <3>6. CASE twin
      <4>1. one = 0
        BY <1>3, <3>6
      <4> QED
        BY <3>2, <3>3, <3>5, <3>6, <4>1
    <3>7. CASE ~twin
      <4>1. one = -1
        BY <1>3, <3>7
      <4> QED
        BY <3>2, <3>3, <3>5, <3>7, <4>1
    <3> QED
      BY <3>6, <3>7
  <2>2. CASE j # i
    <3>1. Day(S \ {e}, j, n, w) = Day(S, j, n, w)
      BY <1>4, <2>2
    <3> QED
      BY <1>1, <1>2, <2>2, <3>1
  <2> QED
    BY <2>1, <2>2
<1>8. u.stat = Cardinality(TimesOf(S \ {e}))
  <2>1. Cardinality(TimesOf(S)) \in Nat
    BY <1>1, TimesFinite
  <2>2. Cardinality(TimesOf(S \ {e})) =
          IF twin THEN Cardinality(TimesOf(S)) ELSE Cardinality(TimesOf(S)) - 1
    BY <1>1, FewerTimes DEF twin
  <2> QED
    BY <1>1, <1>2, <1>3, <2>1, <2>2
<1>9. Holds(u, S \ {e}, n)
  BY <1>1, <1>2, <1>5, <1>6 DEF Holds
<1>10. Counted(u, S \ {e}, n)
  BY <1>2, <1>7, <1>8 DEF Counted
<1> QED
  BY <1>9, <1>10 DEF IsCal

-----------------------------------------------------------------------------
(* insert(), insert2() and unlinking                                       *)
LEMMA Downward ==
    ASSUME NEW n \in Nat, NEW T, T \subseteq 1..n, \A j \in T : \A i \in 1..j : i \in T
    PROVE  Cardinality(T) \in 0..n /\ T = 1..Cardinality(T)
<1> DEFINE X == {j \in 1..n + 1 : j \notin T}
<1>1. X \subseteq Nat /\ n + 1 \in X
  OBVIOUS
<1>2. PICK m \in X : \A j \in X : m <= j
  <2> HIDE DEF X
  <2> QED
    BY <1>1, LeastNumber
<1>3. m \in 1..n + 1 /\ m \notin T
  BY <1>2
<1>4. T = 1..m - 1
  <2>1. ASSUME NEW j \in T PROVE j \in 1..m - 1
    <3>1. j \in 1..n /\ (m <= j => m \in 1..j)
      BY <1>3
    <3> QED
      BY <1>3, <3>1
  <2>2. ASSUME NEW j \in 1..m - 1 PROVE j \in T
    <3>1. j \in 1..n + 1 /\ ~(m <= j)
      BY <1>3
    <3> QED
      BY <1>2, <3>1
  <2> QED
    BY <2>1, <2>2
<1>5. Cardinality(1..m - 1) = m - 1
  <2>1. 1 \in Int /\ m - 1 \in Int
    BY <1>3
  <2>2. Cardinality(1..m - 1) = IF 1 > m - 1 THEN 0 ELSE (m - 1) - 1 + 1
    BY <2>1, FS_Interval
  <2> QED
    BY <1>3, <2>2
<1> QED
  BY <1>3, <1>4, <1>5

(* The calendar counts as the others do.                                   *)
LEMMA SameCardinality == \A X : Calendar!Cardinality(X) = Cardinality(X)
BY DEF Calendar!Cardinality, Cardinality

(* How many events of a list come before a time, or up to it               *)
LEMMA SplitAt ==
    ASSUME NEW b, InOrder(b), NEW t \in Nat
    PROVE  /\ LET k == Calendar!Cardinality({j \in DOMAIN b : b[j].time <= t}) IN
              /\ k \in 0..Len(b)
              /\ \A j \in 1..Len(b) : b[j].time <= t <=> j <= k
           /\ LET k == Calendar!Cardinality({j \in DOMAIN b : b[j].time < t}) IN
              /\ k \in 0..Len(b)
              /\ \A j \in 1..Len(b) : b[j].time < t <=> j <= k
<1>1. /\ DOMAIN b = 1..Len(b) /\ Len(b) \in Nat
      /\ \A j \in 1..Len(b) : b[j] \in Scheduled /\ b[j].time \in Nat
      /\ \A i, j \in 1..Len(b) : i < j => b[i].time <= b[j].time
  <2>1. b \in Seq(Scheduled) /\ \A i, j \in 1..Len(b) : i < j => Queue!Earlier(b[i], b[j])
    BY DEF InOrder
  <2>2. \A j \in 1..Len(b) : b[j] \in Scheduled
    BY <2>1, ElementOfSeq
  <2>3. \A i, j \in 1..Len(b) : i < j => b[i].time <= b[j].time
    BY <2>1, <2>2, QueueOrders
  <2> QED
    BY <2>1, <2>2, <2>3 DEF Scheduled
<1> DEFINE T == {j \in DOMAIN b : b[j].time <= t}
           U == {j \in DOMAIN b : b[j].time < t}
<1>2. T \subseteq 1..Len(b) /\ \A j \in T : \A i \in 1..j : i \in T
  <2> SUFFICES ASSUME NEW j \in T, NEW i \in 1..j PROVE i \in T
    BY <1>1
  <2>1. j \in 1..Len(b) /\ i \in 1..Len(b) /\ (i < j \/ i = j)
    BY <1>1
  <2> QED
    BY <1>1, <2>1
<1>3. U \subseteq 1..Len(b) /\ \A j \in U : \A i \in 1..j : i \in U
  <2> SUFFICES ASSUME NEW j \in U, NEW i \in 1..j PROVE i \in U
    BY <1>1
  <2>1. j \in 1..Len(b) /\ i \in 1..Len(b) /\ (i < j \/ i = j)
    BY <1>1
  <2> QED
    BY <1>1, <2>1
<1>4. /\ \A j \in 1..Len(b) : j \in T <=> b[j].time <= t
      /\ \A j \in 1..Len(b) : j \in U <=> b[j].time < t
  BY <1>1
<1> HIDE DEF T, U
<1>5. /\ Cardinality(T) \in 0..Len(b) /\ T = 1..Cardinality(T)
      /\ Cardinality(U) \in 0..Len(b) /\ U = 1..Cardinality(U)
  BY <1>1, <1>2, <1>3, Downward
<1>6. /\ \A j \in 1..Len(b) : j \in T <=> j <= Cardinality(T)
      /\ \A j \in 1..Len(b) : j \in U <=> j <= Cardinality(U)
  BY <1>1, <1>5
<1>7. Calendar!Cardinality(T) = Cardinality(T) /\ Calendar!Cardinality(U) = Cardinality(U)
  BY SameCardinality
<1>8. /\ Calendar!Cardinality(T) \in 0..Len(b)
      /\ \A j \in 1..Len(b) : b[j].time <= t <=> j <= Calendar!Cardinality(T)
      /\ Calendar!Cardinality(U) \in 0..Len(b)
      /\ \A j \in 1..Len(b) : b[j].time < t <=> j <= Calendar!Cardinality(U)
  BY <1>4, <1>5, <1>6, <1>7
<1> QED
  BY <1>8 DEF T, U

(* u holds e, too, and has the width and the head of c.                    *)
Grown(c, S, n, e, u) ==
    IsCal(u, S \cup {e}, n) /\ u.width = c.width /\ u.last = c.last

(* An event that goes where it belongs, and is counted if its time is new  *)
LEMMA PutAtIs ==
    ASSUME NEW c, NEW S, NEW n, IsCal(c, S, n), NEW e \in Scheduled, e \notin S,
           NEW k \in 0..Len(c.buckets[Slot(e.time, n, c.width)]),
           Splits(c.buckets[Slot(e.time, n, c.width)], e, k),
           NEW fresh \in BOOLEAN, fresh <=> e.time \notin TimesOf(S)
    PROVE  Grown(c, S, n, e, Calendar!PutAt(c, e, k, fresh))
<1> DEFINE i == Slot(e.time, n, c.width)
           b == c.buckets[i]
           one == IF fresh THEN 1 ELSE 0
           s == Calendar!InsertAt(b, k + 1, e)
           u == Calendar!PutAt(c, e, k, fresh)
<1>1. Holds(c, S, n) /\ c \in Cals(n) /\ n \in Nat /\ n > 0 /\ c.width \in Nat /\ c.width > 0
  BY SizeIs DEF IsCal, Holds
<1>2. i \in 0..n - 1 /\ Calendar!Hash(c, e.time) = i
  <2>1. e.time \in Nat
    BY DEF Scheduled
  <2> QED
    BY <1>1, <2>1, SlotIn, HashIs
<1>3. InOrder(b) /\ Elements(b) = Day(S, i, n, c.width) /\ b \in Seq(Scheduled)
  BY <1>1, <1>2 DEF Holds, InOrder
<1>4. k \in 0..Len(b) /\ Splits(b, e, k)
  OBVIOUS
<1>5. u = [c EXCEPT !.buckets[i] = s, !.count[i] = c.count[i] + one, !.stat = c.stat + one]
  <2>1. u = [c EXCEPT !.buckets[Calendar!Hash(c, e.time)] = Calendar!InsertAt(@, k + 1, e),
                      !.count[Calendar!Hash(c, e.time)] = @ + one, !.stat = @ + one]
    BY DEF Calendar!PutAt
  <2> HIDE DEF i, u, one
  <2> QED
    BY <1>2, <2>1
<1>6. one \in Int /\ one = IF e.time \in TimesOf(S) THEN 0 ELSE 1
  OBVIOUS
<1> HIDE DEF i, b, one, s, u
<1>7. PutIn(b, e, k, s)
  BY <1>3, <1>4, InsertAtIs DEF s
<1>8. InOrder(s) /\ Elements(s) = Day(S, i, n, c.width) \cup {e} /\ s \in Seq(Scheduled)
  BY <1>3, <1>4, <1>7, PutInOrder DEF InOrder
<1>9. Relisted(c, n, i, s, one, u)
  BY <1>1, <1>2, <1>5, <1>6, <1>8, RelistedIs
<1>10. IsCal(u, S \cup {e}, n)
  BY <1>6, <1>8, <1>9, ListGains DEF i
<1>11. u.width = c.width /\ u.last = c.last
  BY <1>9 DEF Relisted
<1> QED
  BY <1>10, <1>11 DEF Grown, u

(* insert(): e is newer than all there is.                                 *)
LEMMA PutIs ==
    ASSUME NEW c, NEW S, NEW n, IsCal(c, S, n), NEW e \in Scheduled,
           \A f \in S : f.uid < e.uid
    PROVE  Grown(c, S, n, e, Calendar!Put(c, e))
<1> DEFINE i == Slot(e.time, n, c.width)
           b == c.buckets[i]
           k == Calendar!Cardinality({j \in DOMAIN b : b[j].time <= e.time})
           fresh == k = 0 \/ b[k].time < e.time
<1>1. /\ Holds(c, S, n) /\ n \in Nat /\ n > 0 /\ c.width \in Nat /\ c.width > 0
      /\ S \subseteq Scheduled /\ e.time \in Nat /\ e.uid \in Nat
  BY SizeIs DEF IsCal, Holds, Scheduled
<1>2. i \in 0..n - 1 /\ Calendar!Hash(c, e.time) = i
  BY <1>1, SlotIn, HashIs
<1>3. InOrder(b) /\ Elements(b) = Day(S, i, n, c.width) /\ b \in Seq(Scheduled)
  BY <1>1, <1>2 DEF Holds, InOrder
<1>4. Calendar!Put(c, e) = Calendar!PutAt(c, e, k, fresh)
  BY <1>2 DEF Calendar!Put
<1>5. k \in 0..Len(b) /\ \A j \in 1..Len(b) : b[j].time <= e.time <=> j <= k
  BY <1>1, <1>3, SplitAt
<1>6. e \notin S /\ fresh \in BOOLEAN
  BY <1>1
<1>7. Len(b) \in Nat /\ \A j \in 1..Len(b) : b[j] \in S /\ b[j] \in Day(S, i, n, c.width) /\ b[j].time \in Nat /\ b[j].uid \in Nat
  <2>1. \A j \in 1..Len(b) : b[j] \in Day(S, i, n, c.width)
    BY <1>3 DEF Elements
  <2>2. \A x \in Day(S, i, n, c.width) : x \in S
    BY DEF Day
  <2>3. \A x \in S : x.time \in Nat /\ x.uid \in Nat
    BY <1>1 DEF Scheduled
  <2>4. Len(b) \in Nat
    BY <1>3
  <2> HIDE DEF b
  <2> QED
    BY <2>1, <2>2, <2>3, <2>4
<1>8. \A f \in S : f.time = e.time => \E j \in 1..Len(b) : b[j] = f
  <2>1. \A f \in S : f.time = e.time => f \in Day(S, i, n, c.width)
    BY DEF Day
  <2> HIDE DEF b
  <2> QED
    BY <1>3, <2>1 DEF Elements
<1> HIDE DEF k, b, i
<1>9. Splits(b, e, k)
  <2>1. ASSUME NEW j \in 1..k PROVE Queue!Earlier(b[j], e)
    <3>1. j \in 1..Len(b) /\ b[j].time <= e.time
      BY <1>5, <1>7
    <3> QED
      BY <1>1, <1>7, <3>1 DEF Queue!Earlier
  <2>2. ASSUME NEW j \in k + 1..Len(b) PROVE Queue!Earlier(e, b[j])
    <3>1. j \in 1..Len(b) /\ ~(b[j].time <= e.time)
      BY <1>5, <1>7
    <3> QED
      BY <1>1, <1>7, <3>1 DEF Queue!Earlier
  <2> QED
    BY <2>1, <2>2 DEF Splits
<1>10. fresh <=> e.time \notin TimesOf(S)
  <2>1. ASSUME fresh, NEW f \in S, f.time = e.time PROVE FALSE
    <3>1. PICK j \in 1..Len(b) : b[j] = f
      BY <1>8, <2>1
    <3>2. j <= k /\ k \in 1..Len(b)
      BY <1>1, <1>5, <1>7, <2>1, <3>1
    <3>3. b[j].time <= b[k].time
      <4>1. j = k \/ j < k
        BY <3>2
      <4>2. j < k => Queue!Earlier(b[j], b[k])
        BY <1>3, <3>1, <3>2 DEF InOrder
      <4> QED
        BY <1>7, <3>1, <3>2, <4>1, <4>2 DEF Queue!Earlier
    <3> QED
      BY <1>1, <1>7, <2>1, <3>1, <3>2, <3>3
  <2>2. ASSUME ~fresh PROVE \E f \in S : f.time = e.time
    <3>1. k \in 1..Len(b) /\ ~(b[k].time < e.time)
      BY <1>5, <1>7, <2>2
    <3>2. b[k] \in S /\ b[k].time <= e.time
      BY <1>5, <1>7, <3>1
    <3> QED
      BY <1>1, <1>7, <3>1, <3>2
  <2> QED
    BY <2>1, <2>2 DEF TimesOf
<1> HIDE DEF fresh
<1>11. Grown(c, S, n, e, Calendar!PutAt(c, e, k, fresh))
  BY <1>5, <1>6, <1>9, <1>10, PutAtIs DEF b, i
<1> QED
  BY <1>4, <1>11

(* insert2(): e is older than those of its time.                           *)
LEMMA PutBeforeIs ==
    ASSUME NEW c, NEW S, NEW n, IsCal(c, S, n), NEW e \in Scheduled,
           \A f \in S : f.time = e.time => e.uid < f.uid
    PROVE  Grown(c, S, n, e, Calendar!PutBefore(c, e))
<1> DEFINE i == Slot(e.time, n, c.width)
           b == c.buckets[i]
           k == Calendar!Cardinality({j \in DOMAIN b : b[j].time < e.time})
           fresh == k = Len(b) \/ b[k + 1].time # e.time
<1>1. /\ Holds(c, S, n) /\ n \in Nat /\ n > 0 /\ c.width \in Nat /\ c.width > 0
      /\ S \subseteq Scheduled /\ e.time \in Nat /\ e.uid \in Nat
  BY SizeIs DEF IsCal, Holds, Scheduled
<1>2. i \in 0..n - 1 /\ Calendar!Hash(c, e.time) = i
  BY <1>1, SlotIn, HashIs
<1>3. InOrder(b) /\ Elements(b) = Day(S, i, n, c.width) /\ b \in Seq(Scheduled)
  BY <1>1, <1>2 DEF Holds, InOrder
<1>4. Calendar!PutBefore(c, e) = Calendar!PutAt(c, e, k, fresh)
  <2>1. Calendar!PutBefore(c, e)
          = LET b1 == c.buckets[Calendar!Hash(c, e.time)]
                k1 == Calendar!Cardinality({j \in DOMAIN b1 : b1[j].time < e.time})
            IN Calendar!PutAt(c, e, k1, k1 = Len(b1) \/ b1[k1 + 1].time # e.time)
    BY DEF Calendar!PutBefore
  <2> QED
    BY <1>2, <2>1
<1>5. k \in 0..Len(b) /\ \A j \in 1..Len(b) : b[j].time < e.time <=> j <= k
  BY <1>1, <1>3, SplitAt
<1>6. e \notin S /\ fresh \in BOOLEAN
  BY <1>1
<1>7. Len(b) \in Nat /\ \A j \in 1..Len(b) : b[j] \in S /\ b[j].time \in Nat /\ b[j].uid \in Nat
  <2>1. \A j \in 1..Len(b) : b[j] \in Day(S, i, n, c.width)
    BY <1>3 DEF Elements
  <2>2. \A x \in Day(S, i, n, c.width) : x \in S
    BY DEF Day
  <2>3. \A x \in S : x.time \in Nat /\ x.uid \in Nat
    BY <1>1 DEF Scheduled
  <2>4. Len(b) \in Nat
    BY <1>3
  <2> HIDE DEF b
  <2> QED
    BY <2>1, <2>2, <2>3, <2>4
<1>8. \A f \in S : f.time = e.time => \E j \in 1..Len(b) : b[j] = f
  <2>1. \A f \in S : f.time = e.time => f \in Day(S, i, n, c.width)
    BY DEF Day
  <2> HIDE DEF b
  <2> QED
    BY <1>3, <2>1 DEF Elements
<1> HIDE DEF k, b, i
<1>9. Splits(b, e, k)
  <2>1. ASSUME NEW j \in 1..k PROVE Queue!Earlier(b[j], e)
    <3>1. j \in 1..Len(b) /\ b[j].time < e.time
      BY <1>5, <1>7
    <3> QED
      BY <3>1 DEF Queue!Earlier
  <2>2. ASSUME NEW j \in k + 1..Len(b) PROVE Queue!Earlier(e, b[j])
    <3>1. j \in 1..Len(b) /\ ~(b[j].time < e.time)
      BY <1>5, <1>7
    <3>2. b[j].time = e.time => e.uid < b[j].uid
      BY <1>7, <3>1
    <3> QED
      BY <1>1, <1>7, <3>1, <3>2 DEF Queue!Earlier
  <2> QED
    BY <2>1, <2>2 DEF Splits
<1>10. fresh <=> e.time \notin TimesOf(S)
  <2>1. ASSUME fresh, NEW f \in S, f.time = e.time PROVE FALSE
    <3>1. PICK j \in 1..Len(b) : b[j] = f
      BY <1>8, <2>1
    <3>2. j >= k + 1 /\ k + 1 \in 1..Len(b) /\ ~(b[k + 1].time < e.time)
      BY <1>1, <1>5, <1>7, <2>1, <3>1
    <3>3. b[k + 1].time <= b[j].time
      <4>1. j = k + 1 \/ k + 1 < j
        BY <1>5, <3>2
      <4>2. k + 1 < j => Queue!Earlier(b[k + 1], b[j])
        BY <1>3, <3>1, <3>2 DEF InOrder
      <4> QED
        BY <1>7, <3>1, <3>2, <4>1, <4>2 DEF Queue!Earlier
    <3>4. k # Len(b) /\ b[k + 1].time \in Nat
      BY <1>5, <1>7, <3>2
    <3> QED
      BY <1>1, <1>7, <2>1, <3>1, <3>2, <3>3, <3>4
  <2>2. ASSUME ~fresh PROVE \E f \in S : f.time = e.time
    <3>1. k + 1 \in 1..Len(b) /\ b[k + 1].time = e.time
      BY <1>5, <1>7, <2>2
    <3> QED
      BY <1>7, <3>1
  <2> QED
    BY <2>1, <2>2 DEF TimesOf
<1> HIDE DEF fresh
<1>11. Grown(c, S, n, e, Calendar!PutAt(c, e, k, fresh))
  BY <1>5, <1>6, <1>9, <1>10, PutAtIs DEF b, i
<1> QED
  BY <1>4, <1>11

(* The place after the last one of a list is the first.                    *)
LEMMA Around ==
    ASSUME NEW n \in Nat, NEW j \in 1..n
    PROVE  j % n = IF j = n THEN 0 ELSE j
<1>1. CASE j = n
  <2>1. n > 0 /\ 0 + n = n
    OBVIOUS
  <2>2. n % n = 0
    BY <2>1
  <2> QED
    BY <1>1, <2>2
<1>2. CASE j # n
  <2>1. j \in Nat /\ j < n /\ n > 0 /\ 0 \in Nat /\ 0 < n
    BY <1>2
  <2>2. (j + 0) % n = IF j + 0 < n THEN j + 0 ELSE j + 0 - n
    BY <2>1, Residue
  <2> QED
    BY <1>2, <2>1, <2>2
<1> QED
  BY <1>1, <1>2

(* In an ordered list one of the neighbours of an event has its time if    *)
(* any other event of the list has.                                        *)
LEMMA Neighbours ==
    ASSUME NEW b, InOrder(b), NEW j \in 1..Len(b)
    PROVE  (\E m \in 1..Len(b) : m # j /\ b[m].time = b[j].time)
             <=> /\ Len(b) # 1
                 /\ \/ b[(j % Len(b)) + 1].time = b[j].time
                    \/ b[IF j = 1 THEN Len(b) ELSE j - 1].time = b[j].time
<1> DEFINE n == Len(b)
           x == (j % n) + 1
           y == IF j = 1 THEN n ELSE j - 1
<1>1. /\ n \in Nat
      /\ \A i \in 1..n : b[i] \in Scheduled /\ b[i].time \in Nat
      /\ \A i, k \in 1..n : i < k => b[i].time <= b[k].time
  <2>1. b \in Seq(Scheduled) /\ \A i, k \in 1..Len(b) : i < k => Queue!Earlier(b[i], b[k])
    BY DEF InOrder
  <2>2. \A i \in 1..Len(b) : b[i] \in Scheduled
    BY <2>1, ElementOfSeq
  <2>3. \A i, k \in 1..Len(b) : i < k => b[i].time <= b[k].time
    BY <2>1, <2>2, QueueOrders
  <2> QED
    BY <2>1, <2>2, <2>3 DEF Scheduled
<1>2. x = (IF j = n THEN 1 ELSE j + 1) /\ x \in 1..n /\ y \in 1..n
  <2>1. j \in 1..n
    OBVIOUS
  <2> HIDE DEF n
  <2>2. j % n = IF j = n THEN 0 ELSE j
    BY <1>1, <2>1, Around
  <2> QED
    BY <1>1, <2>1, <2>2
<1>3. j \in 1..n
  OBVIOUS
<1> HIDE DEF n, x
<1>4. n # 1 => x # j /\ y # j
  BY <1>1, <1>2, <1>3
<1>5. ASSUME NEW m \in 1..n, m # j, b[m].time = b[j].time
      PROVE  n # 1 /\ (b[x].time = b[j].time \/ b[y].time = b[j].time)
  <2>1. n # 1
    BY <1>1, <1>3, <1>5
  <2>2. CASE j < m
    <3>1. x = j + 1 /\ j < x /\ (x = m \/ x < m)
      BY <1>1, <1>2, <1>3, <2>2
    <3>2. b[j].time <= b[x].time /\ b[x].time <= b[m].time
      BY <1>1, <1>2, <1>3, <3>1
    <3> QED
      BY <1>1, <1>2, <1>3, <1>5, <2>1, <3>2
  <2>3. CASE m < j
    <3>1. y = j - 1 /\ y < j /\ (y = m \/ m < y)
      BY <1>1, <1>2, <1>3, <2>3
    <3> HIDE DEF y
    <3>2. b[y].time <= b[j].time /\ b[m].time <= b[y].time
      BY <1>1, <1>2, <1>3, <3>1
    <3> QED
      BY <1>1, <1>2, <1>3, <1>5, <2>1, <3>2
  <2> QED
    BY <1>1, <1>3, <1>5, <2>2, <2>3
<1> HIDE DEF y
<1>6. (\E m \in 1..n : m # j /\ b[m].time = b[j].time)
        <=> n # 1 /\ (b[x].time = b[j].time \/ b[y].time = b[j].time)
  BY <1>2, <1>4, <1>5
<1> QED
  BY <1>6 DEF n, x, y

(* u does not hold e.                                                      *)
Shrunk(c, S, n, e, u) ==
    IsCal(u, S \ {e}, n) /\ u.width = c.width /\ u.last = c.last

(* deque() and cancel() take one event out of its list and count right.    *)
LEMMA UnlinkedIs ==
    ASSUME NEW c, NEW S, NEW n, IsCal(c, S, n), NEW i \in 0..n - 1,
           NEW j \in 1..Len(c.buckets[i])
    PROVE  /\ c.buckets[i][j] \in S
           /\ Shrunk(c, S, n, c.buckets[i][j], Calendar!Unlinked(c, i, j))
<1> DEFINE b == c.buckets[i]
           e == b[j]
           w == c.width
           only == \/ Len(b) = 1
                   \/ /\ b[(j % Len(b)) + 1].time # b[j].time
                      /\ b[IF j = 1 THEN Len(b) ELSE j - 1].time # b[j].time
           o == IF only THEN 1 ELSE 0
           one == IF only THEN -1 ELSE 0
           s == Calendar!RemoveAt(b, j)
           u == Calendar!Unlinked(c, i, j)
<1>1. /\ Holds(c, S, n) /\ c \in Cals(n) /\ n \in Nat /\ S \subseteq Scheduled
      /\ c.count \in [0..n - 1 -> Int] /\ c.stat \in Int
  BY SizeIs DEF IsCal, Holds, Cals
<1>2. InOrder(b) /\ Elements(b) = Day(S, i, n, w) /\ b \in Seq(Scheduled) /\ j \in 1..Len(b)
  BY <1>1 DEF Holds, InOrder
<1>3. u = [c EXCEPT !.buckets[i] = s, !.count[i] = c.count[i] - o, !.stat = c.stat - o]
  BY DEF Calendar!Unlinked
<1> HIDE DEF b, s, u, only
<1>4. /\ o \in Int /\ one \in Int /\ c.count[i] - o = c.count[i] + one /\ c.stat - o = c.stat + one
  <2>1. c.count[i] \in Int
    BY <1>1
  <2> QED
    BY <1>1, <2>1
<1>5. e \in Day(S, i, n, w) /\ e \in S /\ i = Slot(e.time, n, w)
  <2>1. e \in Day(S, i, n, w)
    BY <1>2 DEF Elements
  <2> QED
    BY <2>1 DEF Day
<1>6. TakenOut(b, j, s) /\ s \in Seq(Scheduled)
  BY <1>2, RemoveAtIs DEF s, TakenOut
<1>7. InOrder(s) /\ Elements(s) = Day(S, i, n, w) \ {e}
  BY <1>2, <1>6, TakenOutOrder
<1>8. only <=> ~ \E m \in 1..Len(b) : m # j /\ b[m].time = b[j].time
  BY <1>2, Neighbours DEF only
<1>9. only <=> ~ \E f \in S \ {e} : f.time = e.time
  <2>1. ASSUME NEW f \in S, f # e, f.time = e.time
        PROVE  \E m \in 1..Len(b) : m # j /\ b[m].time = b[j].time
    <3>1. f \in Day(S, i, n, w)
      BY <1>5, <2>1 DEF Day
    <3>2. PICK m \in 1..Len(b) : b[m] = f
      BY <1>2, <3>1 DEF Elements
    <3> QED
      BY <2>1, <3>2
  <2>2. ASSUME NEW m \in 1..Len(b), m # j, b[m].time = b[j].time
        PROVE  \E f \in S \ {e} : f.time = e.time
    <3>1. b[m] \in Day(S, i, n, w)
      BY <1>2 DEF Elements
    <3>2. b[m] \in S
      BY <3>1 DEF Day
    <3>3. b[m] # b[j]
      <4>1. \A k \in 1..Len(b) : b[k] \in Scheduled
        BY <1>2, ElementOfSeq
      <4>2. m < j \/ j < m
        BY <1>2, <2>2
      <4>3. Queue!Earlier(b[m], b[j]) \/ Queue!Earlier(b[j], b[m])
        BY <1>2, <4>2 DEF InOrder
      <4> QED
        BY <1>2, <4>1, <4>3, QueueOrders
    <3> QED
      BY <2>2, <3>2, <3>3
  <2> QED
    BY <1>8, <2>1, <2>2
<1>10. u = [c EXCEPT !.buckets[i] = s, !.count[i] = c.count[i] + one, !.stat = c.stat + one]
  <2> HIDE DEF o, one
  <2> QED
    BY <1>3, <1>4
<1>11. one = IF \E f \in S \ {e} : f.time = e.time THEN 0 ELSE -1
  <2> HIDE DEF e
  <2> QED
    BY <1>9
<1> HIDE DEF one, e, w
<1>12. Relisted(c, n, i, s, one, u)
  BY <1>1, <1>4, <1>6, <1>10, RelistedIs
<1>13. IsCal(u, S \ {e}, n)
  BY <1>5, <1>7, <1>11, <1>12, ListLoses DEF w
<1>14. u.width = c.width /\ u.last = c.last
  BY <1>12 DEF Relisted
<1> QED
  BY <1>5, <1>13, <1>14 DEF Shrunk, u, e, b

-----------------------------------------------------------------------------
(* A loop over the numbers 1..n: the k-th turn takes x to G[<<k, x>>], and *)
(* is in X[k] after it.                                                    *)
Stages(X, G, n, x0) ==
    x0 \in X[0] /\ \A k \in 1..n : \A x \in X[k - 1] : G[<<k, x>>] \in X[k]

StageRun(G, n, x0, g) ==
    DOMAIN g = 0..n /\ g[0] = x0 /\ \A k \in 1..n : g[k] = G[<<k, g[k - 1]>>]

(* The loop is a function, and every turn is in its stage.                 *)
LEMMA StagesExist ==
    ASSUME NEW X, NEW G, NEW n \in Nat, NEW x0, Stages(X, G, n, x0)
    PROVE  \E g : /\ StageRun(G, n, x0, g) /\ g = [k \in 0..n |-> g[k]]
                  /\ \A k \in 0..n : g[k] \in X[k]
<1> DEFINE U == UNION {X[k] : k \in 0..n}
           T == {m \in 0..n : \E g \in [0..m -> U] : /\ StageRun(G, m, x0, g)
                                                   /\ \A k \in 0..m : g[k] \in X[k]}
<1>1. 0 \in T
  <2> DEFINE g == [k \in 0..0 |-> x0]
  <2>1. x0 \in X[0] /\ 0 \in 0..n
    BY DEF Stages
  <2>2. x0 \in U
    BY <2>1
  <2>3. g \in [0..0 -> U] /\ StageRun(G, 0, x0, g) /\ \A k \in 0..0 : g[k] \in X[k]
    BY <2>1, <2>2 DEF StageRun
  <2> HIDE DEF g
  <2> QED
    BY <2>1, <2>3
<1>2. ASSUME NEW m \in 1..n, m - 1 \in T PROVE m \in T
  <2>1. PICK g \in [0..m - 1 -> U] : /\ StageRun(G, m - 1, x0, g)
                                     /\ \A k \in 0..m - 1 : g[k] \in X[k]
    BY <1>2
  <2> DEFINE v == G[<<m, g[m - 1]>>]
             f == [k \in 0..m |-> IF k = m THEN v ELSE g[k]]
  <2>2. v \in X[m] /\ v \in U
    <3>1. m - 1 \in 0..m - 1 /\ g[m - 1] \in X[m - 1]
      BY <2>1
    <3>2. \A x \in X[m - 1] : G[<<m, x>>] \in X[m]
      BY DEF Stages
    <3>3. v \in X[m]
      BY <3>1, <3>2
    <3>4. m \in 0..n
      OBVIOUS
    <3>5. X[m] \in {X[k] : k \in 0..n}
      BY <3>4
    <3>6. v \in U
      <4> HIDE DEF v
      <4> QED
        BY <3>3, <3>5
    <3> QED
      BY <3>3, <3>6
  <2> HIDE DEF v, U
  <2>3. \A k \in 0..m : f[k] \in U /\ f[k] \in X[k]
    <3>1. \A k \in 0..m : k # m => k \in 0..m - 1
      OBVIOUS
    <3> QED
      BY <2>1, <2>2, <3>1
  <2>4. StageRun(G, m, x0, f)
    <3>1. ASSUME NEW k \in 1..m PROVE f[k] = G[<<k, f[k - 1]>>]
      <4>1. k - 1 \in 0..m /\ k - 1 # m /\ f[k - 1] = g[k - 1] /\ k \in 0..m
        OBVIOUS
      <4>2. CASE k = m
        BY <4>1, <4>2 DEF v
      <4>3. CASE k # m
        <5>1. k \in 1..m - 1 /\ f[k] = g[k]
          BY <4>3
        <5> QED
          BY <2>1, <4>1, <5>1 DEF StageRun
      <4> QED
        BY <4>2, <4>3
    <3>2. f[0] = x0 /\ DOMAIN f = 0..m
      BY <2>1 DEF StageRun
    <3> QED
      BY <3>1, <3>2 DEF StageRun
  <2>5. f \in [0..m -> U]
    BY <2>3
  <2> HIDE DEF f
  <2> QED
    BY <2>3, <2>4, <2>5
<1>3. n \in T
  <2> HIDE DEF T
  <2>1. 0..n \subseteq T
    BY <1>1, <1>2, UpTo
  <2> QED
    BY <2>1
<1>4. PICK g \in [0..n -> U] : StageRun(G, n, x0, g) /\ \A k \in 0..n : g[k] \in X[k]
  BY <1>3
<1> HIDE DEF U
<1>5. g = [k \in 0..n |-> g[k]]
  OBVIOUS
<1> QED
  BY <1>4, <1>5

-----------------------------------------------------------------------------
(* resize()                                                                *)

(* u holds S, and has the width and the head of c.                         *)
Kept(c, n, S, u) == IsCal(u, S, n) /\ u.width = c.width /\ u.last = c.last

(* resize() copies a list from its tail: each event goes before the later  *)
(* ones of its time that are there.                                        *)
LEMMA CopiedBucketIs ==
    ASSUME NEW c, NEW A, NEW n, IsCal(c, A, n), NEW b, InOrder(b),
           \A x \in A : \A j \in 1..Len(b) : x.time # b[j].time
    PROVE  Kept(c, n, A \cup Elements(b), Calendar!CopiedBucket(c, b))
<1> DEFINE N == Len(b)
           Rest(k) == {b[j] : j \in N + 1 - k..N}
           X == [k \in 0..N |-> {u \in Cals(n) : Kept(c, n, A \cup Rest(k), u)}]
           G == [p \in (1..N) \X Cals(n) |-> Calendar!PutBefore(p[2], b[N + 1 - p[1]])]
           P(f) == f = [k \in 0..N |-> IF k = 0 THEN c ELSE Calendar!PutBefore(f[k - 1], b[N + 1 - k])]
           r == CHOOSE f : P(f)
<1>1. /\ N \in Nat /\ \A j \in 1..N : b[j] \in Scheduled
      /\ \A i, j \in 1..N : i < j => Queue!Earlier(b[i], b[j])
  BY ElementOfSeq DEF InOrder
<1>2. c \in X[0] /\ c \in Cals(n)
  <2>1. N + 1 - 0..N = {}
    BY <1>1
  <2>2. A \cup Rest(0) = A /\ c \in Cals(n)
    BY <2>1 DEF IsCal, Holds
  <2> HIDE DEF Rest
  <2>3. Kept(c, n, A \cup Rest(0), c)
    BY <2>2 DEF Kept
  <2> QED
    BY <1>1, <2>2, <2>3
<1>3. ASSUME NEW k \in 1..N, NEW x \in X[k - 1]
      PROVE  x \in Cals(n) /\ Calendar!PutBefore(x, b[N + 1 - k]) \in X[k]
  <2> DEFINE e == b[N + 1 - k]
             B == A \cup Rest(k - 1)
             u == Calendar!PutBefore(x, e)
  <2>1. x \in Cals(n) /\ Kept(c, n, B, x)
    <3>1. k - 1 \in 0..N
      BY <1>1
    <3>2. x \in {v \in Cals(n) : Kept(c, n, A \cup Rest(k - 1), v)}
      <4> HIDE DEF N, Rest
      <4> QED
        BY <3>1
    <3> HIDE DEF Rest
    <3> QED
      BY <3>2
  <2>2. N + 1 - k \in 1..N /\ e \in Scheduled
    BY <1>1
  <2>3. \A f \in B : f.time = e.time => e.uid < f.uid
    <3>1. \A f \in A : f.time # e.time
      BY <2>2
    <3>2. ASSUME NEW j \in N + 1 - (k - 1)..N, b[j].time = e.time PROVE e.uid < b[j].uid
      <4>1. j \in 1..N /\ N + 1 - k < j
        BY <1>1
      <4>2. Queue!Earlier(e, b[j]) /\ b[j] \in Scheduled
        BY <1>1, <2>2, <4>1
      <4> HIDE DEF e
      <4> QED
        BY <2>2, <3>2, <4>2 DEF Queue!Earlier, Scheduled
    <3> QED
      BY <3>1, <3>2
  <2>4. B \cup {e} = A \cup Rest(k)
    <3>1. N + 1 - k..N = (N + 1 - (k - 1)..N) \cup {N + 1 - k}
      BY <1>1
    <3>2. Rest(k) = Rest(k - 1) \cup {e}
      BY <3>1
    <3> QED
      BY <3>2
  <2> HIDE DEF e, B, u, Rest
  <2>5. Grown(x, B, n, e, u)
    BY <2>1, <2>2, <2>3, PutBeforeIs DEF Kept, u
  <2>6. Kept(c, n, A \cup Rest(k), u)
    BY <2>1, <2>4, <2>5 DEF Grown, Kept
  <2>7. u \in Cals(n)
    BY <2>6 DEF Kept, IsCal, Holds
  <2> QED
    BY <1>1, <2>1, <2>6, <2>7 DEF u, e
<1>4. \A k \in 1..N : \A x \in Cals(n) : G[<<k, x>>] = Calendar!PutBefore(x, b[N + 1 - k])
  OBVIOUS
<1>5. Stages(X, G, N, c)
  <2> HIDE DEF X, G
  <2> QED
    BY <1>2, <1>3, <1>4 DEF Stages
<1>6. PICK g : /\ StageRun(G, N, c, g) /\ g = [k \in 0..N |-> g[k]]
               /\ \A k \in 0..N : g[k] \in X[k]
  <2> HIDE DEF X, G, N
  <2> QED
    BY <1>1, <1>5, StagesExist
<1>7. \A k \in 1..N : g[k] = Calendar!PutBefore(g[k - 1], b[N + 1 - k])
  <2> SUFFICES ASSUME NEW k \in 1..N PROVE g[k] = Calendar!PutBefore(g[k - 1], b[N + 1 - k])
    OBVIOUS
  <2>0. k - 1 \in 0..N
    BY <1>1
  <2> HIDE DEF G, X, N
  <2>1. g[k - 1] \in X[k - 1] /\ g[k] = G[<<k, g[k - 1]>>]
    BY <1>6, <2>0 DEF StageRun
  <2>2. g[k - 1] \in Cals(n)
    BY <1>3, <2>1
  <2> QED
    BY <1>4, <2>1, <2>2
<1>8. P(g)
  <2>1. \A k \in 0..N : g[k] = IF k = 0 THEN c ELSE Calendar!PutBefore(g[k - 1], b[N + 1 - k])
    <3>1. g[0] = c /\ \A k \in 0..N : k # 0 => k \in 1..N
      BY <1>1, <1>6 DEF StageRun
    <3> QED
      BY <1>7, <3>1
  <2>2. g = [k \in 0..N |-> g[k]]
    BY <1>6
  <2> QED
    BY ONLY <2>1, <2>2
<1>9. P(r)
  BY <1>8
<1>10. r[N] \in X[N]
  <2> DEFINE T == {k \in Nat : r[k] \in X[k]}
  <2>1. r[0] = c /\ \A k \in 1..N : r[k] = Calendar!PutBefore(r[k - 1], b[N + 1 - k])
    <3>1. 0 \in 0..N /\ \A k \in 1..N : k \in 0..N /\ k # 0
      BY <1>1
    <3> HIDE DEF r, N
    <3>2. \A k \in 0..N : r[k] = IF k = 0 THEN c ELSE Calendar!PutBefore(r[k - 1], b[N + 1 - k])
      BY <1>9
    <3> QED
      BY <3>1, <3>2
  <2> HIDE DEF r, X
  <2>2. 0 \in T
    BY <1>2, <2>1
  <2>3. ASSUME NEW k \in 1..N, k - 1 \in T PROVE k \in T
    <3>1. r[k - 1] \in X[k - 1]
      BY <2>3
    <3>2. Calendar!PutBefore(r[k - 1], b[N + 1 - k]) \in X[k]
      BY <1>3, <3>1
    <3> QED
      BY <2>1, <3>2
  <2> HIDE DEF T
  <2>4. 0..N \subseteq T
    BY <1>1, <2>2, <2>3, UpTo
  <2>5. N \in T
    BY <1>1, <2>4
  <2> QED
    BY <2>5 DEF T
<1>11. Calendar!CopiedBucket(c, b) = r[N]
  BY DEF Calendar!CopiedBucket
<1>12. Kept(c, n, A \cup Rest(N), r[N])
  <2> HIDE DEF r, Rest
  <2> QED
    BY <1>1, <1>10
<1>13. Rest(N) = Elements(b)
  <2>1. N + 1 - N = 1
    BY <1>1
  <2> QED
    BY <2>1 DEF Elements
<1> HIDE DEF r, Rest
<1> QED
  BY <1>11, <1>12, <1>13

(* reinit() makes an empty calendar.                                       *)
LEMMA EmptyIs ==
    ASSUME NEW m \in Nat, m >= 4, NEW w \in Nat, w > 0, NEW start \in Nat
    PROVE  /\ IsCal(Calendar!Empty(m, w, start), {}, m)
           /\ Calendar!Empty(m, w, start).width = w
           /\ Calendar!Empty(m, w, start).last = Slot(start, m, w)
<1> DEFINE u == Calendar!Empty(m, w, start)
<1>1. /\ u = [buckets |-> [i \in 0..m - 1 |-> <<>>], count |-> [i \in 0..m - 1 |-> 0],
              width |-> w, last |-> Slot(start, m, w), stat |-> 0]
  BY DEF Calendar!Empty, Slot
<1>2. Slot(start, m, w) \in Int
  BY SlotIn
<1>3. /\ <<>> \in Seq(Scheduled) /\ Len(<<>>) = 0 /\ InOrder(<<>>) /\ Elements(<<>>) = {}
  BY DEF InOrder, Elements
<1> DEFINE bs == [i \in 0..m - 1 |-> <<>>]
           cs == [i \in 0..m - 1 |-> 0]
<1>4. /\ bs \in [0..m - 1 -> Seq(Scheduled)] /\ \A i \in 0..m - 1 : bs[i] = <<>>
      /\ cs \in [0..m - 1 -> Int] /\ \A i \in 0..m - 1 : cs[i] = 0
  BY <1>3
<1>5. /\ u = [buckets |-> bs, count |-> cs, width |-> w, last |-> Slot(start, m, w), stat |-> 0]
  BY <1>1
<1> HIDE DEF u, bs, cs
<1>6. /\ u.buckets = bs /\ u.count = cs /\ u.width = w /\ u.last = Slot(start, m, w) /\ u.stat = 0
  BY <1>5
<1>7. u \in Cals(m)
  BY <1>2, <1>4, <1>5 DEF Cals
<1>8. \A i : Day({}, i, m, w) = {}
  BY DEF Day
<1>9. TimesOf({}) = {} /\ IsFiniteSet({}) /\ Cardinality({}) = 0
  BY FS_EmptySet DEF TimesOf
<1>10. \A i \in 0..m - 1 : InOrder(u.buckets[i]) /\ Elements(u.buckets[i]) = Day({}, i, m, u.width)
  BY <1>3, <1>4, <1>6, <1>8
<1>11. Holds(u, {}, m)
  BY <1>7, <1>9, <1>10 DEF Holds
<1>12. Counted(u, {}, m)
  BY <1>4, <1>6, <1>8, <1>9 DEF Counted
<1> QED
  BY <1>6, <1>11, <1>12 DEF IsCal, u

(* resize() copies the lists of all buckets.                               *)
LEMMA CopiedIs ==
    ASSUME NEW c, NEW S, NEW n, IsCal(c, S, n), NEW z, NEW m, IsCal(z, {}, m)
    PROVE  Kept(z, m, S, Calendar!Copied(c, z))
<1> DEFINE Part(k) == {e \in S : Slot(e.time, n, c.width) < k}
           B(k) == c.buckets[k - 1]
           X == [k \in 0..n |-> {u \in Cals(m) : Kept(z, m, Part(k), u)}]
           G == [p \in (1..n) \X Cals(m) |-> Calendar!CopiedBucket(p[2], B(p[1]))]
           P(f) == f = [k \in 0..n |-> IF k = 0 THEN z ELSE Calendar!CopiedBucket(f[k - 1], B(k))]
           r == CHOOSE f : P(f)
<1>1. /\ Holds(c, S, n) /\ n \in Nat /\ n > 0 /\ Calendar!NBuckets(c) = n
      /\ c.width \in Nat /\ c.width > 0 /\ S \subseteq Scheduled
  BY SizeIs DEF IsCal, Holds
<1>2. \A e \in S : Slot(e.time, n, c.width) \in 0..n - 1
  BY <1>1, SlotIn DEF Scheduled
<1>3. z \in X[0] /\ z \in Cals(m)
  <2>1. Part(0) = {}
    BY <1>1, <1>2
  <2>2. z \in Cals(m)
    BY DEF IsCal, Holds
  <2> HIDE DEF Part
  <2>3. Kept(z, m, Part(0), z)
    BY <2>1 DEF Kept
  <2> QED
    BY <1>1, <2>2, <2>3
<1>4. ASSUME NEW k \in 1..n, NEW x \in X[k - 1]
      PROVE  x \in Cals(m) /\ Calendar!CopiedBucket(x, B(k)) \in X[k]
  <2> DEFINE b == B(k)
             u == Calendar!CopiedBucket(x, b)
  <2>1. x \in Cals(m) /\ Kept(z, m, Part(k - 1), x)
    BY <1>1
  <2>2. k - 1 \in 0..n - 1
    BY <1>1
  <2>3. InOrder(b) /\ Elements(b) = Day(S, k - 1, n, c.width)
    BY <1>1, <2>2 DEF Holds
  <2>4. \A y \in Part(k - 1) : \A j \in 1..Len(b) : y.time # b[j].time
    <3> SUFFICES ASSUME NEW y \in Part(k - 1), NEW j \in 1..Len(b) PROVE y.time # b[j].time
      OBVIOUS
    <3>1. b[j] \in Day(S, k - 1, n, c.width)
      BY <2>3 DEF Elements
    <3>2. Slot(b[j].time, n, c.width) = k - 1
      BY <3>1 DEF Day
    <3>3. Slot(y.time, n, c.width) < k - 1 /\ Slot(y.time, n, c.width) \in 0..n - 1
      BY <1>2
    <3> HIDE DEF b
    <3> QED
      BY <3>2, <3>3
  <2>5. Part(k - 1) \cup Elements(b) = Part(k)
    <3>1. \A y \in S : Slot(y.time, n, c.width) < k
                         <=> Slot(y.time, n, c.width) < k - 1 \/ Slot(y.time, n, c.width) = k - 1
      BY <1>2, <2>2
    <3> HIDE DEF b
    <3> QED
      BY <2>3, <3>1 DEF Day
  <2> HIDE DEF b, u, Part
  <2>6. Kept(x, m, Part(k - 1) \cup Elements(b), u)
    BY <2>1, <2>3, <2>4, CopiedBucketIs DEF Kept, u
  <2>7. Kept(z, m, Part(k), u)
    BY <2>1, <2>5, <2>6 DEF Kept
  <2>8. u \in Cals(m)
    BY <2>7 DEF Kept, IsCal, Holds
  <2> QED
    BY <1>1, <2>1, <2>7, <2>8 DEF u, b
<1>5. \A k \in 1..n : \A x \in Cals(m) : G[<<k, x>>] = Calendar!CopiedBucket(x, B(k))
  OBVIOUS
<1>6. Stages(X, G, n, z)
  <2> HIDE DEF X, G, B
  <2> QED
    BY <1>3, <1>4, <1>5 DEF Stages
<1>7. PICK g : /\ StageRun(G, n, z, g) /\ g = [k \in 0..n |-> g[k]]
               /\ \A k \in 0..n : g[k] \in X[k]
  <2> HIDE DEF X, G
  <2> QED
    BY <1>1, <1>6, StagesExist
<1>8. \A k \in 1..n : g[k] = Calendar!CopiedBucket(g[k - 1], B(k))
  <2> SUFFICES ASSUME NEW k \in 1..n PROVE g[k] = Calendar!CopiedBucket(g[k - 1], B(k))
    OBVIOUS
  <2>0. k - 1 \in 0..n
    BY <1>1
  <2> HIDE DEF G, X, B
  <2>1. g[k - 1] \in X[k - 1] /\ g[k] = G[<<k, g[k - 1]>>]
    BY <1>7, <2>0 DEF StageRun
  <2>2. g[k - 1] \in Cals(m)
    BY <1>4, <2>1
  <2> QED
    BY <1>5, <2>1, <2>2
<1>9. P(g)
  <2> HIDE DEF B
  <2>1. \A k \in 0..n : g[k] = IF k = 0 THEN z ELSE Calendar!CopiedBucket(g[k - 1], B(k))
    <3>1. g[0] = z /\ \A k \in 0..n : k # 0 => k \in 1..n
      BY <1>1, <1>7 DEF StageRun
    <3> QED
      BY <1>8, <3>1
  <2>2. g = [k \in 0..n |-> g[k]]
    BY <1>7
  <2> QED
    BY ONLY <2>1, <2>2
<1>10. P(r)
  <2> HIDE DEF B
  <2> QED
    BY <1>9
<1>11. r[n] \in X[n]
  <2> DEFINE T == {k \in Nat : r[k] \in X[k]}
  <2> HIDE DEF B
  <2>1. r[0] = z /\ \A k \in 1..n : r[k] = Calendar!CopiedBucket(r[k - 1], B(k))
    <3>1. 0 \in 0..n /\ \A k \in 1..n : k \in 0..n /\ k # 0
      BY <1>1
    <3> HIDE DEF r
    <3>2. \A k \in 0..n : r[k] = IF k = 0 THEN z ELSE Calendar!CopiedBucket(r[k - 1], B(k))
      BY <1>10
    <3> QED
      BY <3>1, <3>2
  <2> HIDE DEF r, X
  <2>2. 0 \in T
    BY <1>3, <2>1
  <2>3. ASSUME NEW k \in 1..n, k - 1 \in T PROVE k \in T
    <3>1. r[k - 1] \in X[k - 1]
      BY <2>3
    <3>2. Calendar!CopiedBucket(r[k - 1], B(k)) \in X[k]
      BY <1>4, <3>1
    <3> QED
      BY <2>1, <3>2
  <2> HIDE DEF T
  <2>4. 0..n \subseteq T
    BY <1>1, <2>2, <2>3, UpTo
  <2>5. n \in T
    BY <1>1, <2>4
  <2> QED
    BY <2>5 DEF T
<1>12. Calendar!Copied(c, z) = r[n]
  BY <1>1 DEF Calendar!Copied
<1>13. Kept(z, m, Part(n), r[n])
  <2> HIDE DEF r, Part
  <2> QED
    BY <1>1, <1>11
<1>14. Part(n) = S
  BY <1>1, <1>2
<1> HIDE DEF r, Part
<1> QED
  BY <1>12, <1>13, <1>14

(* resize() keeps the events and takes the new size, width and head.       *)
LEMMA ResizedIs ==
    ASSUME NEW c, NEW S, NEW n, IsCal(c, S, n), NEW k \in Nat, NEW w \in Nat, w > 0,
           NEW t \in Nat, NEW m, m = IF k < 4 THEN 4 ELSE k
    PROVE  /\ IsCal(Calendar!Resized(c, k, w, t), S, m)
           /\ Calendar!Resized(c, k, w, t).width = w
           /\ Calendar!Resized(c, k, w, t).last = Slot(t, m, w)
<1>1. m \in Nat /\ m >= 4
  OBVIOUS
<1> DEFINE z == Calendar!Empty(m, w, t)
<1>2. IsCal(z, {}, m) /\ z.width = w /\ z.last = Slot(t, m, w)
  BY <1>1, EmptyIs
<1>3. Calendar!Resized(c, k, w, t) = Calendar!Copied(c, z)
  BY DEF Calendar!Resized
<1> HIDE DEF z
<1>4. Kept(z, m, S, Calendar!Copied(c, z))
  BY <1>2, CopiedIs
<1> QED
  BY <1>2, <1>3, <1>4 DEF Kept

-----------------------------------------------------------------------------
(* The calendar is in order and its head is where the time of the last     *)
(* event is; the events have the numbers given so far.                     *)
CalInv ==
    /\ IsCal(Calendar!Cal, Calendar!Pending, Calendar!NBuckets(Calendar!Cal))
    /\ Stays(Calendar!Cal, Calendar!Pending, Calendar!NBuckets(Calendar!Cal), calClock)
    /\ clock \in Nat /\ uid \in Nat
    /\ \A e \in Calendar!Pending : e.uid < uid

(* The events of a calendar are those of its lists.                        *)
LEMMA PendingIs ==
    ASSUME NEW c, NEW S, NEW n, IsCal(c, S, n)
    PROVE  /\ UNION {Calendar!ToSet(c.buckets[i]) : i \in DOMAIN c.buckets} = S
           /\ \A i \in DOMAIN c.buckets :
                Calendar!Times(c.buckets[i]) = TimesOf(Day(S, i, n, c.width))
           /\ \A i \in DOMAIN c.buckets :
                Calendar!ToSet(c.buckets[i]) = Day(S, i, n, c.width)
<1>1. /\ DOMAIN c.buckets = 0..n - 1 /\ n \in Nat /\ n > 0 /\ c.width \in Nat /\ c.width > 0
      /\ S \subseteq Scheduled
      /\ \A i \in 0..n - 1 : /\ InOrder(c.buckets[i])
                             /\ Elements(c.buckets[i]) = Day(S, i, n, c.width)
  BY SizeIs DEF IsCal, Holds
<1>2. \A b : InOrder(b) => DOMAIN b = 1..Len(b)
  BY DEF InOrder
<1>3. \A b : InOrder(b) => /\ Calendar!ToSet(b) = Elements(b)
                           /\ Calendar!Times(b) = TimesOf(Elements(b))
  BY <1>2 DEF Calendar!ToSet, Calendar!Times, Elements, TimesOf
<1>4. \A i \in DOMAIN c.buckets :
        /\ Calendar!ToSet(c.buckets[i]) = Day(S, i, n, c.width)
        /\ Calendar!Times(c.buckets[i]) = TimesOf(Day(S, i, n, c.width))
  BY <1>1, <1>3
<1>5. \A e \in S : e \in Day(S, Slot(e.time, n, c.width), n, c.width)
                   /\ Slot(e.time, n, c.width) \in DOMAIN c.buckets
  BY <1>1, SlotIn DEF Day, Scheduled
<1>6. \A i : Day(S, i, n, c.width) \subseteq S
  BY DEF Day
<1>7. ASSUME NEW e
      PROVE  e \in UNION {Calendar!ToSet(c.buckets[i]) : i \in DOMAIN c.buckets} <=> e \in S
  <2>1. e \in UNION {Calendar!ToSet(c.buckets[i]) : i \in DOMAIN c.buckets}
          <=> \E i \in DOMAIN c.buckets : e \in Calendar!ToSet(c.buckets[i])
    OBVIOUS
  <2> QED
    BY <1>4, <1>5, <1>6, <2>1
<1> QED
  BY <1>4, <1>7

(* A calendar is a record of five fields.                                  *)
LEMMA CalIsRecord ==
    ASSUME NEW c, NEW n, c \in Cals(n)
    PROVE  c = [buckets |-> c.buckets, count |-> c.count, width |-> c.width,
                last |-> c.last, stat |-> c.stat]
BY DEF Cals

(* The calendar that is there after a step                                 *)
LEMMA CalBecomes ==
    ASSUME NEW c, NEW S, NEW n, IsCal(c, S, n), Calendar!Become(c)
    PROVE  /\ Calendar!Pending' = S
           /\ Calendar!Cal' = c /\ (Calendar!NBuckets(Calendar!Cal))' = n
<1>1. c \in Cals(n)
  BY DEF IsCal, Holds
<1>2. /\ buckets' = c.buckets /\ count' = c.count /\ width' = c.width
      /\ lastbucket' = c.last /\ statQsize' = c.stat
  BY DEF Calendar!Become
<1>3. Calendar!Cal' = c
  BY <1>1, <1>2, CalIsRecord DEF Calendar!Cal
<1>4. Calendar!NBuckets(Calendar!Cal)' = n
  <2>1. Calendar!NBuckets(c) = n
    BY SizeIs DEF IsCal
  <2> QED
    BY <1>3, <2>1 DEF Calendar!NBuckets
<1>5. UNION {Calendar!ToSet(c.buckets[i]) : i \in DOMAIN c.buckets} = S
  BY PendingIs
<1>6. Calendar!Pending' = UNION {Calendar!ToSet(c.buckets[i]) : i \in DOMAIN c.buckets}
  BY <1>2 DEF Calendar!Pending, Calendar!ToSet
<1> QED
  BY <1>3, <1>4, <1>5, <1>6

(* A step that leaves a calendar whose head is where the clock is keeps    *)
(* the invariant.                                                          *)
LEMMA CalSettles ==
    ASSUME NEW c, NEW S, NEW n, IsCal(c, S, n), Calendar!Become(c),
           Stays(c, S, n, calClock'), clock' \in Nat, uid' \in Nat,
           \A e \in S : e.uid < uid'
    PROVE  CalInv' /\ Calendar!Pending' = S
<1>1. /\ Calendar!Pending' = S
      /\ Calendar!Cal' = c /\ (Calendar!NBuckets(Calendar!Cal))' = n
  BY CalBecomes
<1>2. IsCal(Calendar!Cal, Calendar!Pending, Calendar!NBuckets(Calendar!Cal))'
  <2>1. IsCal(Calendar!Cal', Calendar!Pending', (Calendar!NBuckets(Calendar!Cal))')
    BY <1>1
  <2> QED
    BY <2>1
<1>3. Stays(Calendar!Cal, Calendar!Pending, Calendar!NBuckets(Calendar!Cal), calClock)'
  <2>1. Stays(Calendar!Cal', Calendar!Pending', (Calendar!NBuckets(Calendar!Cal))', calClock')
    BY <1>1
  <2> QED
    BY <2>1
<1> QED
  BY <1>1, <1>2, <1>3 DEF CalInv

-----------------------------------------------------------------------------
(* The steps of the calendar queue                                         *)

(* A resize at the end of a step                                           *)
LEMMA CalResettles ==
    ASSUME NEW c, NEW S, NEW n, IsCal(c, S, n), NEW k \in Nat, NEW w \in Widths,
           Calendar!Become(Calendar!Resized(c, k, w, calClock')), calClock' \in Nat,
           \A e \in S : e.time >= calClock',
           clock' \in Nat, uid' \in Nat, \A e \in S : e.uid < uid'
    PROVE  CalInv' /\ Calendar!Pending' = S
<1> DEFINE m == IF k < 4 THEN 4 ELSE k
           z == Calendar!Resized(c, k, w, calClock')
<1>1. w \in Nat /\ w > 0
  BY WidthsAssumption
<1>a. m = IF k < 4 THEN 4 ELSE k
  OBVIOUS
<1> DEFINE start == calClock'
<1>b. start \in Nat
  OBVIOUS
<1> HIDE DEF m
<1>2. IsCal(z, S, m) /\ z.width = w /\ z.last = Slot(calClock', m, w)
  <2>1. /\ IsCal(Calendar!Resized(c, k, w, start), S, m)
        /\ Calendar!Resized(c, k, w, start).width = w
        /\ Calendar!Resized(c, k, w, start).last = Slot(start, m, w)
    <3> HIDE DEF start
    <3> QED
      BY <1>1, <1>a, <1>b, ResizedIs
  <2> QED
    BY <2>1
<1>3. Stays(z, S, m, calClock')
  BY <1>2 DEF Stays
<1>4. Calendar!Become(z)
  OBVIOUS
<1> HIDE DEF z
<1> QED
  BY <1>2, <1>3, <1>4, CalSettles

(* head() and the rewind of insert() move the head, and nothing else.      *)
LEMMA HeadMoves ==
    ASSUME NEW c, NEW S, NEW n, IsCal(c, S, n), NEW l \in Int
    PROVE  LET z == [c EXCEPT !.last = l] IN
           IsCal(z, S, n) /\ z.width = c.width /\ z.last = l
<1> DEFINE z == [c EXCEPT !.last = l]
<1>1. c \in Cals(n)
  BY DEF IsCal, Holds
<1>2. /\ z \in Cals(n) /\ z.width = c.width /\ z.last = l
      /\ z.buckets = c.buckets /\ z.count = c.count /\ z.stat = c.stat
  BY <1>1 DEF Cals
<1> HIDE DEF z
<1>3. Holds(z, S, n)
  BY <1>2 DEF IsCal, Holds
<1>4. Counted(z, S, n)
  BY <1>2 DEF IsCal, Counted
<1> QED
  BY <1>2, <1>3, <1>4 DEF IsCal, z

(* CalendarScheduler::insert() adds the event it is called with; with the  *)
(* rewind the head is where the clock is, and resize() keeps it there.     *)
LEMMA CalSchedule ==
    ASSUME CalInv, Calendar!Schedule
    PROVE  CalInv' /\ Adds(Calendar!Pending, Calendar!Pending')
<1> DEFINE S == Calendar!Pending
           C == Calendar!Cal
           n == Calendar!NBuckets(C)
<1>1. /\ IsCal(C, S, n) /\ Stays(C, S, n, calClock) /\ clock \in Nat /\ uid \in Nat
      /\ \A e \in S : e.uid < uid
  BY DEF CalInv
<1>2. PICK d \in Delays, w \in Widths :
        LET t == clock + d
            c == Calendar!Put(Calendar!Rewound(C, t), [time |-> t, uid |-> uid])
            at == IF calClock > t THEN t ELSE calClock
        IN /\ calClock' = at
           /\ IF c.stat > Calendar!TopThreshold(c)
              THEN Calendar!Become(Calendar!Resized(c, 2 * Calendar!NBuckets(c), w, at))
              ELSE w = width /\ Calendar!Become(c)
  BY DEF Calendar!Schedule
<1> DEFINE t == clock + d
           e == [time |-> t, uid |-> uid]
           r == Calendar!Rewound(C, t)
           c == Calendar!Put(r, e)
           at == IF calClock > t THEN t ELSE calClock
<1>3. /\ uid <= MaxUid /\ uid' = uid + 1 /\ clock' = clock /\ halted' = halted
  BY DEF Calendar!Schedule
<1>4. /\ calClock' = at
      /\ \/ Calendar!Become(Calendar!Resized(c, 2 * Calendar!NBuckets(c), w, at))
         \/ Calendar!Become(c)
  BY <1>2
<1>5. /\ t \in Nat /\ e \in Scheduled /\ e.uid = uid /\ e.time = t
  BY <1>1, DelaysAssumption DEF Scheduled
<1> HIDE DEF S, C, n, t
<1>6. /\ calClock \in Nat /\ C.last = Slot(calClock, n, C.width)
      /\ \A f \in S : f.time >= calClock
  BY <1>1 DEF Stays
<1>7. /\ at \in Nat /\ at <= t /\ at <= calClock /\ S \subseteq Scheduled
  BY <1>1, <1>5, <1>6 DEF IsCal, Holds
<1>8. Calendar!Hash(C, t) = Slot(t, n, C.width) /\ Slot(t, n, C.width) \in Int
  <2>1. Holds(C, S, n)
    BY <1>1 DEF IsCal
  <2>2. n \in Nat /\ n > 0 /\ C.width \in Nat /\ C.width > 0
    BY <2>1, SizeIs
  <2>3. Slot(t, n, C.width) \in 0..n - 1
    BY <2>2, <1>5, SlotIn
  <2> QED
    BY <2>1, <2>2, <2>3, HashIs
<1>9. IsCal(r, S, n) /\ r.width = C.width /\ r.last = Slot(at, n, C.width)
  <2>1. CASE calClock > t
    <3>1. r = [C EXCEPT !.last = Calendar!Hash(C, t)]
      BY <2>1 DEF Calendar!Rewound
    <3> QED
      BY <1>1, <1>8, <2>1, <3>1, HeadMoves
  <2>2. CASE ~(calClock > t)
    <3>1. r = C
      BY <2>2 DEF Calendar!Rewound
    <3> QED
      BY <1>1, <1>6, <2>2, <3>1
  <2> QED
    BY <2>1, <2>2
<1> HIDE DEF r, at, e
<1>10. IsCal(c, S \cup {e}, n) /\ c.width = C.width /\ c.last = Slot(at, n, C.width)
  <2>1. \A f \in S : f.uid < e.uid
    BY <1>1, <1>5
  <2>2. Grown(r, S, n, e, c)
    BY <1>5, <1>9, <2>1, PutIs
  <2> QED
    BY <1>9, <2>2 DEF Grown
<1> HIDE DEF c
<1>11. /\ \A f \in S \cup {e} : f.uid < uid'
       /\ \A f \in S \cup {e} : f.time >= at
       /\ uid' \in Nat /\ clock' \in Nat
  BY <1>1, <1>3, <1>5, <1>6, <1>7 DEF Scheduled
<1>12. CalInv' /\ Calendar!Pending' = S \cup {e}
  <2>1. CASE Calendar!Become(Calendar!Resized(c, 2 * Calendar!NBuckets(c), w, at))
    <3>1. Calendar!NBuckets(c) = n /\ n \in Nat
      BY <1>10, SizeIs DEF IsCal
    <3>2. 2 * Calendar!NBuckets(c) \in Nat
      BY <3>1
    <3>3. Calendar!Become(Calendar!Resized(c, 2 * Calendar!NBuckets(c), w, calClock'))
      BY <1>4, <2>1
    <3>4. \A f \in S \cup {e} : f.time >= calClock'
      BY <1>4, <1>11
    <3>5. calClock' \in Nat
      BY <1>4, <1>7
    <3> HIDE DEF e
    <3> QED
      BY <1>10, <1>11, <3>2, <3>3, <3>4, <3>5, CalResettles
  <2>2. CASE Calendar!Become(c)
    <3>1. Stays(c, S \cup {e}, n, calClock')
      BY <1>4, <1>7, <1>10, <1>11 DEF Stays
    <3> QED
      BY <1>10, <1>11, <2>2, <3>1, CalSettles
  <2> QED
    BY <1>4, <2>1, <2>2
<1>13. Adds(S, Calendar!Pending')
  <2>1. Calendar!Pending' = S \cup {[time |-> clock + d, uid |-> uid]}
    BY <1>12 DEF e, t
  <2> QED
    BY <1>3, <2>1 DEF Adds
<1> QED
  BY <1>12, <1>13 DEF S

(* The calendar is empty at the start.                                     *)
LEMMA CalInit ==
    ASSUME Calendar!Init
    PROVE  CalInv /\ Calendar!Pending = {}
<1> DEFINE z == Calendar!Empty(4, width, 0)
           C == Calendar!Cal
<1>1. width \in Nat /\ width > 0
  BY WidthsAssumption DEF Calendar!Init
<1>2. IsCal(z, {}, 4) /\ z.width = width /\ z.last = Slot(0, 4, width)
  BY <1>1, EmptyIs
<1>3. Slot(0, 4, width) = 0
  <2>1. 0 \div width = 0 /\ 0 % 4 = 0
    BY <1>1
  <2> QED
    BY <2>1 DEF Slot
<1>4. C = z
  <2>1. (0 \div width) % 4 = 0
    BY <1>3 DEF Slot
  <2> QED
    BY <2>1 DEF Calendar!Init, Calendar!Cal, Calendar!Empty
<1>5. Calendar!Pending = {}
  BY DEF Calendar!Init, Calendar!Pending, Calendar!ToSet
<1>6. IsCal(C, {}, 4)
  BY <1>2, <1>4
<1>7. Calendar!NBuckets(C) = 4
  BY <1>6, SizeIs DEF IsCal
<1>8. /\ C.width = width /\ C.last = Slot(0, 4, width)
      /\ calClock = 0 /\ clock = 0 /\ uid = 1
  BY <1>2, <1>4 DEF Calendar!Init
<1> HIDE DEF C
<1>9. Stays(C, {}, 4, calClock)
  BY <1>8 DEF Stays
<1> QED
  BY <1>5, <1>6, <1>7, <1>8, <1>9 DEF CalInv, C

(* head() called by itself changes no event.                               *)
LEMMA CalPeek ==
    ASSUME CalInv, Calendar!Peek
    PROVE  CalInv' /\ Turns(Calendar!Pending, Calendar!Pending')
<1> DEFINE S == Calendar!Pending
           C == Calendar!Cal
           n == Calendar!NBuckets(C)
           k == Calendar!Found(C, calClock)
           e == Calendar!HeadOf(C, k)
           z == [C EXCEPT !.last = Calendar!Looked(C, k)]
<1>1. /\ IsCal(C, S, n) /\ Stays(C, S, n, calClock) /\ clock \in Nat /\ uid \in Nat
      /\ \A f \in S : f.uid < uid
  BY DEF CalInv
<1>2. /\ Calendar!Filled(C) # {}
      /\ calClock' = e.time /\ lastbucket' = Calendar!Looked(C, k)
      /\ UNCHANGED <<buckets, count, width, statQsize, clock, uid, halted>>
  BY DEF Calendar!Peek
<1>3. Calendar!Become(z)
  BY <1>2 DEF Calendar!Become, Calendar!Cal
<1> HIDE DEF S, C, n, k
<1>4. Holds(C, S, n)
  BY <1>1 DEF IsCal
<1>5. IsLeast(C, S, n, k)
  BY <1>1, <1>2, <1>4, FoundIsLeast DEF k
<1>6. /\ e \in S /\ Calendar!Looked(C, k) = Slot(e.time, n, C.width)
      /\ \A f \in S : f = e \/ Queue!Earlier(e, f)
  BY <1>5 DEF IsLeast
<1>7. S \subseteq Scheduled /\ n \in Nat /\ n > 0 /\ C.width \in Nat /\ C.width > 0
  BY <1>4, SizeIs DEF Holds
<1>8. e \in Scheduled /\ e.time \in Nat
  BY <1>6, <1>7 DEF Scheduled
<1> HIDE DEF e
<1>9. Calendar!Looked(C, k) \in Int
  <2>1. Slot(e.time, n, C.width) \in 0..n - 1
    BY <1>7, <1>8, SlotIn
  <2> QED
    BY <1>6, <2>1
<1>10. IsCal(z, S, n) /\ z.width = C.width /\ z.last = Calendar!Looked(C, k)
  BY <1>1, <1>9, HeadMoves
<1> HIDE DEF z
<1>11. \A f \in S : f.time >= e.time
  BY <1>6, <1>7, <1>8, QueueOrders DEF Scheduled
<1>12. Stays(z, S, n, calClock')
  BY <1>2, <1>6, <1>8, <1>10, <1>11 DEF Stays
<1>13. clock' \in Nat /\ uid' \in Nat /\ \A f \in S : f.uid < uid'
  BY <1>1, <1>2
<1>14. CalInv' /\ Calendar!Pending' = S
  BY <1>3, <1>10, <1>12, <1>13, CalSettles
<1> QED
  BY <1>2, <1>14 DEF Turns, S

(* CalendarScheduler::deque() takes the first event of the queue, even     *)
(* when the width changes between finding and unlinking it.                *)
LEMMA CalDispatch ==
    ASSUME CalInv, Calendar!Dispatch
    PROVE  CalInv' /\ Runs(Calendar!Pending, Calendar!Pending')
<1> DEFINE S == Calendar!Pending
           C == Calendar!Cal
           n == Calendar!NBuckets(C)
           k == Calendar!Found(C, calClock)
           e == Calendar!HeadOf(C, k)
           c0 == [C EXCEPT !.last = Calendar!Looked(C, k)]
<1>1. /\ IsCal(C, S, n) /\ Stays(C, S, n, calClock) /\ clock \in Nat /\ uid \in Nat
      /\ \A f \in S : f.uid < uid
  BY DEF CalInv
<1>2. PICK adjusted \in BOOLEAN, w1 \in Widths, w2 \in Widths :
        LET c1 == IF adjusted THEN Calendar!Resized(c0, Calendar!NBuckets(c0), w1, e.time) ELSE c0
            c2 == Calendar!Unlinked(c1, c1.last, 1)
        IN /\ adjusted \/ w1 = width
           /\ clock' = e.time
           /\ calClock' = e.time
           /\ IF c2.stat < Calendar!BotThreshold(c2)
              THEN Calendar!Become(Calendar!Resized(c2, Calendar!NBuckets(c2) \div 2, w2, e.time))
              ELSE w2 = width /\ Calendar!Become(c2)
  BY DEF Calendar!Dispatch
<1> DEFINE c1 == IF adjusted THEN Calendar!Resized(c0, Calendar!NBuckets(c0), w1, e.time) ELSE c0
           c2 == Calendar!Unlinked(c1, c1.last, 1)
<1>3. /\ ~halted /\ Calendar!Filled(C) # {} /\ uid' = uid /\ halted' = halted
  BY DEF Calendar!Dispatch
<1>4. /\ clock' = e.time /\ calClock' = e.time
      /\ \/ Calendar!Become(Calendar!Resized(c2, Calendar!NBuckets(c2) \div 2, w2, e.time))
         \/ Calendar!Become(c2)
  BY <1>2
<1> HIDE DEF S, C, n, k
<1>5. Holds(C, S, n)
  BY <1>1 DEF IsCal
<1>6. IsLeast(C, S, n, k)
  BY <1>1, <1>3, <1>5, FoundIsLeast DEF k
<1>7. /\ e \in S /\ Calendar!Looked(C, k) = Slot(e.time, n, C.width)
      /\ \A f \in S : f = e \/ Queue!Earlier(e, f)
  BY <1>6 DEF IsLeast
<1>8. S \subseteq Scheduled /\ n \in Nat /\ n >= 4 /\ n > 0 /\ C.width \in Nat /\ C.width > 0
  BY <1>5, SizeIs DEF Holds
<1>9. e \in Scheduled /\ e.time \in Nat
  BY <1>7, <1>8 DEF Scheduled
<1> HIDE DEF e
<1>10. Calendar!Looked(C, k) \in Int
  <2>1. Slot(e.time, n, C.width) \in 0..n - 1
    BY <1>8, <1>9, SlotIn
  <2> QED
    BY <1>7, <2>1
<1>11. IsCal(c0, S, n) /\ c0.width = C.width /\ c0.last = Slot(e.time, n, C.width)
  BY <1>1, <1>7, <1>10, HeadMoves
<1> HIDE DEF c0
<1>12. IsCal(c1, S, n) /\ c1.last = Slot(e.time, n, c1.width)
  <2>1. CASE adjusted
    <3>1. Calendar!NBuckets(c0) = n
      BY <1>11, SizeIs DEF IsCal
    <3>2. w1 \in Nat /\ w1 > 0
      BY WidthsAssumption
    <3>3. c1 = Calendar!Resized(c0, n, w1, e.time)
      BY <2>1, <3>1
    <3> DEFINE start == e.time
               m == n
    <3>4. m = IF n < 4 THEN 4 ELSE n
      BY <1>8
    <3>5. start \in Nat
      BY <1>9
    <3>6. /\ IsCal(Calendar!Resized(c0, n, w1, start), S, m)
          /\ Calendar!Resized(c0, n, w1, start).width = w1
          /\ Calendar!Resized(c0, n, w1, start).last = Slot(start, m, w1)
      <4>1. n \in Nat /\ IsCal(c0, S, n)
        BY <1>8, <1>11
      <4> HIDE DEF start, c1, m
      <4> QED
        BY ONLY <3>2, <3>4, <3>5, <4>1, ResizedIs
    <3> HIDE DEF c1
    <3> QED
      BY <3>3, <3>6
  <2>2. CASE ~adjusted
    BY <1>11, <2>2
  <2> QED
    BY <2>1, <2>2
<1> HIDE DEF c1
<1> DEFINE i == c1.last
           b == c1.buckets[i]
<1>13. i \in 0..n - 1 /\ InOrder(b) /\ Elements(b) = Day(S, i, n, c1.width)
  <2>1. Holds(c1, S, n)
    BY <1>12 DEF IsCal
  <2>2. c1.width \in Nat /\ c1.width > 0
    BY <2>1, SizeIs
  <2>3. Slot(e.time, n, c1.width) \in 0..n - 1
    BY <1>8, <1>9, <2>2, SlotIn
  <2> QED
    BY <1>12, <2>1, <2>3 DEF Holds
<1>14. 1 \in 1..Len(b) /\ b[1] = e
  <2>1. e \in Elements(b)
    BY <1>7, <1>12, <1>13 DEF Day
  <2> HIDE DEF b
  <2>2. PICK j \in 1..Len(b) : b[j] = e
    BY <2>1 DEF Elements
  <2>3. Len(b) \in Nat /\ 1 \in 1..Len(b) /\ b[1] \in Elements(b)
    BY <1>13, <2>2 DEF InOrder, Elements
  <2>4. b[1] \in S
    BY <1>13, <2>3 DEF Day
  <2>5. j # 1 => Queue!Earlier(b[1], e)
    BY <1>13, <2>2, <2>3 DEF InOrder
  <2> QED
    BY <1>7, <1>8, <1>9, <2>2, <2>3, <2>4, <2>5, QueueOrders
<1>15. Shrunk(c1, S, n, e, c2)
  <2>1. Shrunk(c1, S, n, c1.buckets[i][1], Calendar!Unlinked(c1, i, 1))
    BY <1>12, <1>13, <1>14, UnlinkedIs
  <2> QED
    BY <1>14, <2>1
<1> HIDE DEF c2, i, b
<1>16. IsCal(c2, S \ {e}, n) /\ c2.last = Slot(e.time, n, c2.width)
  BY <1>12, <1>15 DEF Shrunk
<1>17. /\ \A f \in S \ {e} : f.time >= e.time
       /\ \A f \in S \ {e} : Queue!Earlier(e, f)
       /\ \A f \in S \ {e} : f.uid < uid'
       /\ clock' \in Nat /\ uid' \in Nat /\ calClock' \in Nat
  BY <1>1, <1>3, <1>4, <1>7, <1>8, <1>9, QueueOrders DEF Scheduled
<1>18. CalInv' /\ Calendar!Pending' = S \ {e}
  <2>1. CASE Calendar!Become(Calendar!Resized(c2, Calendar!NBuckets(c2) \div 2, w2, e.time))
    <3>1. Calendar!NBuckets(c2) \div 2 \in Nat
      <4>1. Calendar!NBuckets(c2) = n
        BY <1>16, SizeIs DEF IsCal
      <4> QED
        BY <1>8, <4>1
    <3>2. Calendar!Become(Calendar!Resized(c2, Calendar!NBuckets(c2) \div 2, w2, calClock'))
      BY <1>4, <2>1
    <3>3. \A f \in S \ {e} : f.time >= calClock'
      BY <1>4, <1>17
    <3> QED
      BY <1>16, <1>17, <3>1, <3>2, <3>3, CalResettles
  <2>2. CASE Calendar!Become(c2)
    <3>1. Stays(c2, S \ {e}, n, calClock')
      BY <1>4, <1>16, <1>17 DEF Stays
    <3> QED
      BY <1>16, <1>17, <2>2, <3>1, CalSettles
  <2> QED
    BY <1>4, <2>1, <2>2
<1>19. Runs(S, Calendar!Pending')
  BY <1>3, <1>4, <1>7, <1>17, <1>18 DEF Runs
<1> QED
  BY <1>18, <1>19 DEF S

(* CalendarScheduler::cancel() takes out one event.                        *)
LEMMA CalCancel ==
    ASSUME CalInv, Calendar!Cancel
    PROVE  CalInv' /\ Drops(Calendar!Pending, Calendar!Pending')
<1> DEFINE S == Calendar!Pending
           C == Calendar!Cal
           n == Calendar!NBuckets(C)
<1>1. /\ IsCal(C, S, n) /\ Stays(C, S, n, calClock) /\ clock \in Nat /\ uid \in Nat
      /\ \A f \in S : f.uid < uid
  BY DEF CalInv
<1>2. PICK i \in DOMAIN buckets : \E j \in DOMAIN buckets[i] :
        Calendar!Become(Calendar!Unlinked(C, i, j))
  BY DEF Calendar!Cancel
<1>3. PICK j \in DOMAIN buckets[i] : Calendar!Become(Calendar!Unlinked(C, i, j))
  BY <1>2
<1>4. UNCHANGED <<calClock, clock, uid, halted>>
  BY DEF Calendar!Cancel
<1>5. C.buckets = buckets
  BY DEF Calendar!Cal
<1> HIDE DEF S, C, n
<1>6. i \in 0..n - 1 /\ InOrder(C.buckets[i])
  BY <1>1, <1>5, SizeIs DEF IsCal, Holds
<1>7. j \in 1..Len(C.buckets[i])
  BY <1>5, <1>6 DEF InOrder
<1> DEFINE e == C.buckets[i][j]
           c == Calendar!Unlinked(C, i, j)
<1>8. e \in S /\ Shrunk(C, S, n, e, c)
  BY <1>1, <1>6, <1>7, UnlinkedIs
<1>9. Calendar!Become(c)
  BY <1>3
<1> HIDE DEF e, c
<1>10. IsCal(c, S \ {e}, n) /\ c.width = C.width /\ c.last = C.last
  BY <1>8 DEF Shrunk
<1>11. Stays(c, S \ {e}, n, calClock')
  BY <1>1, <1>4, <1>10 DEF Stays
<1>12. CalInv' /\ Calendar!Pending' = S \ {e}
  <2>1. clock' \in Nat /\ uid' \in Nat /\ \A f \in S \ {e} : f.uid < uid'
    BY <1>1, <1>4
  <2> QED
    BY <1>9, <1>10, <1>11, <2>1, CalSettles
<1>13. Drops(S, Calendar!Pending')
  BY <1>4, <1>8, <1>12 DEF Drops
<1> QED
  BY <1>12, <1>13 DEF S

(* Every step of the calendar is one of the queue.                         *)
LEMMA CalStep ==
    ASSUME CalInv, \/ Calendar!Next
                   \/ UNCHANGED <<buckets, count, width, lastbucket, calClock, statQsize,
                                  clock, uid, halted>>
    PROVE  CalInv' /\ Simulates(Calendar!Pending, Calendar!Pending')
<1> DEFINE still == UNCHANGED <<buckets, count, width, lastbucket, calClock, statQsize, clock, uid>>
<1>1. CASE Calendar!Schedule
  BY <1>1, CalSchedule DEF Simulates
<1>2. CASE Calendar!Peek
  BY <1>2, CalPeek DEF Simulates
<1>3. CASE Calendar!Dispatch
  BY <1>3, CalDispatch DEF Simulates
<1>4. CASE Calendar!Cancel
  BY <1>4, CalCancel DEF Simulates
<1>5. CASE still /\ halted' \in {TRUE, FALSE, halted}
  <2> DEFINE S == Calendar!Pending
             C == Calendar!Cal
             n == Calendar!NBuckets(C)
  <2>1. /\ IsCal(C, S, n) /\ Stays(C, S, n, calClock) /\ clock \in Nat /\ uid \in Nat
        /\ \A f \in S : f.uid < uid
    BY DEF CalInv
  <2>2. Calendar!Become(C)
    BY <1>5 DEF Calendar!Become, Calendar!Cal
  <2> HIDE DEF S, C, n
  <2>3. Stays(C, S, n, calClock') /\ clock' \in Nat /\ uid' \in Nat /\ \A f \in S : f.uid < uid'
    BY <1>5, <2>1
  <2>4. CalInv' /\ Calendar!Pending' = S
    BY <2>1, <2>2, <2>3, CalSettles
  <2> QED
    BY <1>5, <2>4 DEF Simulates, Turns, S
<1>6. CASE Calendar!Halt
  BY <1>5, <1>6 DEF Calendar!Halt, Calendar!calendar
<1>7. CASE Calendar!Resume
  BY <1>5, <1>7 DEF Calendar!Resume, Calendar!calendar
<1>8. CASE UNCHANGED <<buckets, count, width, lastbucket, calClock, statQsize,
                       clock, uid, halted>>
  BY <1>5, <1>8
<1> QED
  BY <1>1, <1>2, <1>3, <1>4, <1>6, <1>7, <1>8 DEF Calendar!Next

(* The counters                                                            *)
LEMMA CalCounts ==
    ASSUME CalInv
    PROVE  Calendar!CountsDistinct
<1> DEFINE S == Calendar!Pending
           C == Calendar!Cal
           n == Calendar!NBuckets(C)
<1>1. IsCal(C, S, n)
  BY DEF CalInv
<1>2. /\ C.buckets = buckets /\ C.count = count /\ C.stat = statQsize
  BY DEF Calendar!Cal
<1> HIDE DEF S, C, n
<1>3. /\ DOMAIN buckets = 0..n - 1
      /\ \A i \in DOMAIN buckets : Calendar!Times(buckets[i]) = TimesOf(Day(S, i, n, C.width))
      /\ \A i \in DOMAIN buckets : Calendar!ToSet(buckets[i]) = Day(S, i, n, C.width)
      /\ UNION {Calendar!ToSet(buckets[i]) : i \in DOMAIN buckets} = S
  BY <1>1, <1>2, PendingIs, SizeIs DEF IsCal
<1>4. Counted(C, S, n)
  BY <1>1 DEF IsCal
<1>5. \A i \in DOMAIN buckets : count[i] = Calendar!Cardinality(Calendar!Times(buckets[i]))
  BY <1>2, <1>3, <1>4, SameCardinality DEF Counted
<1>6. Calendar!AllTimes = TimesOf(S)
  <2>1. ASSUME NEW t
        PROVE  t \in Calendar!AllTimes <=> \E i \in DOMAIN buckets : t \in TimesOf(Day(S, i, n, C.width))
    BY <1>3 DEF Calendar!AllTimes
  <2>2. ASSUME NEW x PROVE x \in S <=> \E i \in DOMAIN buckets : x \in Day(S, i, n, C.width)
    <3>1. x \in UNION {Calendar!ToSet(buckets[i]) : i \in DOMAIN buckets}
            <=> \E i \in DOMAIN buckets : x \in Calendar!ToSet(buckets[i])
      OBVIOUS
    <3> QED
      BY <1>3, <3>1
  <2>3. ASSUME NEW t
        PROVE  t \in TimesOf(S) <=> \E i \in DOMAIN buckets : t \in TimesOf(Day(S, i, n, C.width))
    BY <2>2 DEF TimesOf
  <2> QED
    BY <2>1, <2>3
<1> QED
  BY <1>2, <1>4, <1>5, <1>6, SameCardinality DEF Calendar!CountsDistinct, Counted

-----------------------------------------------------------------------------
(* The simulator with one of the schedulers.                               *)

(* The inductive invariant: the scheduler that is used is in order.        *)
SchedulersInv ==
    /\ type \in {"Heap", "Calendar", "Splay"}
    /\ type = "Heap" => HeapInv
    /\ type = "Calendar" => CalInv
    /\ type = "Splay" => SplayInv

(* What users see is what the scheduler that is used holds.                *)
LEMMA PendingOf ==
    /\ type = "Heap" => Pending = Heap!Pending
    /\ type = "Calendar" => Pending = Calendar!Pending
    /\ type = "Splay" => Pending = Splay!Pending
BY DEF Pending

(* The same of the next state                                              *)
LEMMA PendingOfNext ==
    /\ type' = "Heap" => Pending' = Heap!Pending'
    /\ type' = "Calendar" => Pending' = Calendar!Pending'
    /\ type' = "Splay" => Pending' = Splay!Pending'
BY DEF Pending

(* Whichever scheduler is chosen, it starts in order and with no event.    *)
LEMMA SchedulersInit == Init => SchedulersInv /\ Queue!Init
<1> SUFFICES ASSUME Init PROVE SchedulersInv /\ Queue!Init
  OBVIOUS
<1>1. /\ type \in {"Heap", "Calendar", "Splay"}
      /\ Heap!Init /\ Calendar!Init /\ Splay!Init
  BY DEF Init
<1>2. HeapInv /\ Heap!Pending = {}
  BY <1>1, HeapInit
<1>3. CalInv /\ Calendar!Pending = {}
  BY <1>1, CalInit
<1>4. SplayInv /\ Splay!Pending = {}
  BY <1>1, SplayInit
<1>5. SchedulersInv
  BY <1>1, <1>2, <1>3, <1>4 DEF SchedulersInv
<1>6. Pending = {}
  BY <1>1, <1>2, <1>3, <1>4, PendingOf
<1>7. clock = 0 /\ uid = 1 /\ halted = FALSE
  BY <1>1 DEF Heap!Init
<1> QED
  BY <1>5, <1>6, <1>7 DEF Queue!Init

(* What a scheduler does to its events is a step of the queue.             *)
LEMMA SimulatesIs ==
    ASSUME Simulates(Pending, Pending')
    PROVE  [Queue!Next]_Queue!vars
<1>1. CASE Adds(Pending, Pending')
  BY <1>1 DEF Adds, Queue!Next, Queue!Schedule
<1>2. CASE Runs(Pending, Pending')
  <2>1. PICK e \in Pending :
          /\ ~halted
          /\ \A f \in Pending \ {e} : Queue!Earlier(e, f)
          /\ Pending' = Pending \ {e}
          /\ clock' = e.time
          /\ UNCHANGED <<uid, halted>>
    BY <1>2 DEF Runs
  <2>2. Queue!DispatchOf(e)
    BY <2>1 DEF Queue!DispatchOf
  <2> QED
    BY <2>1, <2>2 DEF Queue!Next, Queue!Dispatch
<1>3. CASE Drops(Pending, Pending')
  BY <1>3 DEF Drops, Queue!Next, Queue!Cancel
<1>4. CASE Turns(Pending, Pending')
  <2>1. CASE halted' = TRUE
    BY <1>4, <2>1 DEF Turns, Queue!Next, Queue!Halt
  <2>2. CASE halted' = FALSE
    BY <1>4, <2>2 DEF Turns, Queue!Next, Queue!Resume
  <2>3. CASE halted' = halted
    BY <1>4, <2>3 DEF Turns, Queue!vars
  <2> QED
    BY <1>4, <2>1, <2>2, <2>3 DEF Turns
<1> QED
  BY <1>1, <1>2, <1>3, <1>4 DEF Simulates

(* A step of the scheduler that is used keeps it in order and is a step of *)
(* the queue; the others are not there.                                    *)
LEMMA SchedulersStep ==
    SchedulersInv /\ [Next]_vars => SchedulersInv' /\ [Queue!Next]_Queue!vars
<1> SUFFICES ASSUME SchedulersInv, [Next]_vars
             PROVE  SchedulersInv' /\ [Queue!Next]_Queue!vars
  OBVIOUS
<1>1. type' = type /\ type \in {"Heap", "Calendar", "Splay"}
  BY DEF Next, vars, SchedulersInv
<1>2. CASE type = "Heap"
  <2>1. HeapInv
    BY <1>2 DEF SchedulersInv
  <2>2. Heap!Next \/ UNCHANGED <<heap, skey, clock, uid, halted>>
    BY <1>2 DEF Next, vars
  <2>3. HeapInv' /\ Simulates(Heap!Pending, Heap!Pending')
    BY <2>1, <2>2, HeapStep
  <2>4. SchedulersInv'
    BY <1>1, <1>2, <2>3 DEF SchedulersInv
  <2>5. Pending = Heap!Pending /\ Pending' = Heap!Pending'
    BY <1>1, <1>2, PendingOf, PendingOfNext
  <2> QED
    BY <2>3, <2>4, <2>5, SimulatesIs
<1>3. CASE type = "Calendar"
  <2>1. CalInv
    BY <1>3 DEF SchedulersInv
  <2>2. \/ Calendar!Next
        \/ UNCHANGED <<buckets, count, width, lastbucket, calClock, statQsize,
                       clock, uid, halted>>
    BY <1>3 DEF Next, vars, calendar
  <2>3. CalInv' /\ Simulates(Calendar!Pending, Calendar!Pending')
    BY <2>1, <2>2, CalStep
  <2>4. SchedulersInv'
    BY <1>1, <1>3, <2>3 DEF SchedulersInv
  <2>5. Pending = Calendar!Pending /\ Pending' = Calendar!Pending'
    BY <1>1, <1>3, PendingOf, PendingOfNext
  <2> QED
    BY <2>3, <2>4, <2>5, SimulatesIs
<1>4. CASE type = "Splay"
  <2>1. SplayInv
    BY <1>4 DEF SchedulersInv
  <2>2. Splay!Next \/ UNCHANGED <<root, left, right, clock, uid, halted>>
    BY <1>4 DEF Next, vars, tree
  <2>3. SplayInv' /\ Simulates(Splay!Pending, Splay!Pending')
    BY <2>1, <2>2, SplayStep
  <2>4. SchedulersInv'
    BY <1>1, <1>4, <2>3 DEF SchedulersInv
  <2>5. Pending = Splay!Pending /\ Pending' = Splay!Pending'
    BY <1>1, <1>4, PendingOf, PendingOfNext
  <2> QED
    BY <2>3, <2>4, <2>5, SimulatesIs
<1> QED
  BY <1>1, <1>2, <1>3, <1>4

(* The heap of heap.h is in order, the lists of the calendar are ordered   *)
(* and counted, its head is where its clock is, and the tree of the splay  *)
(* scheduler is a search tree without shared or lost nodes, after any      *)
(* number of schedule(), cancel() and deque() of any delays.               *)
THEOREM SchedulersInvariant == Spec => []SchedulersInv
<1>1. SchedulersInv /\ [Next]_vars => SchedulersInv'
  BY SchedulersStep
<1> QED
  BY <1>1, SchedulersInit, PTL DEF Spec

(* The heap, the calendar and the splay tree are the queue of EventQueue:  *)
(* deque() of each returns the earliest event and, of those of the same    *)
(* time, the one that was scheduled first; insert() adds one event and     *)
(* cancel() takes one; resize(), head() and the rotations are not seen.    *)
THEOREM SchedulersImplementEventQueue == Spec => ImplementsEventQueue
<1>1. Init => Queue!Init
  BY SchedulersInit
<1>2. SchedulersInv /\ [Next]_vars => [Queue!Next]_Queue!vars
  BY SchedulersStep
<1> QED
  BY <1>1, <1>2, SchedulersInvariant, PTL DEF Spec, ImplementsEventQueue, Queue!Spec

(* cancel() of the splay scheduler never fails to find a pending event:    *)
(* rotations leave events of the same time on both sides of one another,   *)
(* but in the order of their uid, by which the search goes.                *)
THEOREM SplayCancelFinds == Spec => []CancelFinds
<1>1. SchedulersInv => CancelFinds
  BY SplayFinds DEF SchedulersInv, CancelFinds
<1> QED
  BY <1>1, SchedulersInvariant, PTL

(* stat_qsize_ and the counts of the buckets are the numbers of distinct   *)
(* times: insert() and insert2() see from one neighbour whether a time is  *)
(* new, deque() and cancel() from both whether it was the last.            *)
THEOREM CalendarCountsDistinct == Spec => []CountsDistinct
<1>1. SchedulersInv => CountsDistinct
  BY CalCounts DEF SchedulersInv, CountsDistinct
<1> QED
  BY <1>1, SchedulersInvariant, PTL
=============================================================================
