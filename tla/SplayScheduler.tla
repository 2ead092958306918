--------------------------- MODULE SplayScheduler ---------------------------
(***************************************************************************)
(* The scheduler that keeps its events in a search tree and splays it as   *)
(* it goes (common/splay-scheduler.cc).  The events are the nodes: next_   *)
(* and prev_ are their right and left pointers.  cancel() finds an event   *)
(* again by its time and, among equals, its uid, after any number of       *)
(* rotations.                                                              *)
(*                                                                         *)
(* A loop is a function of the turns taken; a turn that finds it ended     *)
(* changes nothing, and no loop takes more turns than there are nodes.     *)
(***************************************************************************)
EXTENDS Integers, FiniteSets

CONSTANTS Delays, MaxUid, Nil

VARIABLES
    root,           \* root_
    left, right,    \* LEFT and RIGHT of the events in the tree
    clock, uid, halted

vars == <<root, left, right, clock, uid, halted>>

Init ==
    /\ root = Nil
    /\ left = <<>>
    /\ right = <<>>
    /\ clock = 0
    /\ uid = 1
    /\ halted = FALSE

Tree == [root |-> root, left |-> left, right |-> right]

Become(s) ==
    /\ root' = s.root
    /\ left' = s.left
    /\ right' = s.right

Nodes(s) == DOMAIN s.left
Size(s) == Cardinality(Nodes(s))

With(f, n) == [x \in DOMAIN f \cup {n} |-> IF x = n THEN Nil ELSE f[x]]
Without(f, n) == [x \in DOMAIN f \ {n} |-> f[x]]

-----------------------------------------------------------------------------
(* Mutant: an event goes before those of its time. *)
Before_Lifo(n, t) == n.time <= t.time

(* On which side of t the event n belongs *)
Before(n, t) == n.time < t.time

(* ROTATE_RIGHT, ROTATE_LEFT *)
RotateRight(s) ==
    LET x == s.left[s.t]
    IN [s EXCEPT !.left[s.t] = s.right[x], !.right[x] = s.t, !.t = x]
RotateLeft(s) ==
    LET x == s.right[s.t]
    IN [s EXCEPT !.right[s.t] = s.left[x], !.left[x] = s.t, !.t = x]

(* LINK_RIGHT, LINK_LEFT *)
LinkRight(s) == [s EXCEPT !.left[s.r] = s.t, !.r = s.t, !.t = s.left[s.t]]
LinkLeft(s) == [s EXCEPT !.right[s.l] = s.t, !.l = s.t, !.t = s.right[s.t]]

(* A turn of the loop of insert(): what is not after n goes into the left  *)
(* tree, the rest into the right tree.  A step in a direction that is      *)
(* repeated rotates first.                                                 *)
Splayed(s, n) ==
    IF s.t = Nil THEN s
    ELSE IF Before(n, s.t)
    THEN LinkRight(IF s.left[s.t] # Nil /\ Before(n, s.left[s.t])
                   THEN RotateRight(s) ELSE s)
    ELSE LinkLeft(IF s.right[s.t] # Nil /\ ~Before(n, s.right[s.t])
                  THEN RotateLeft(s) ELSE s)

(* The loop: n holds the right tree at its left and the left tree at its   *)
(* right, and r and l are where the next pieces of them go.                *)
Split(tree, n) ==
    LET start == [t |-> tree.root, l |-> n, r |-> n,
                  left |-> With(tree.left, n), right |-> With(tree.right, n)]
        run[k \in 0..Size(tree)] == IF k = 0 THEN start ELSE Splayed(run[k - 1], n)
    IN run[Size(tree)]

(* insert(): the trees are closed, and the children of n change sides. *)
Inserted(tree, n) ==
    LET s == Split(tree, n)
        lft == [s.left EXCEPT ![s.r] = Nil]
        rgt == [s.right EXCEPT ![s.l] = Nil]
    IN [root |-> n, left |-> [lft EXCEPT ![n] = rgt[n]],
                    right |-> [rgt EXCEPT ![n] = lft[n]]]

-----------------------------------------------------------------------------
(* A turn of the loop of deque(): l, the left child of t, is rotated with  *)
(* its own left child ll unless one of the two is the first event.         *)
Folded(s) ==
    LET ll == s.left[s.l] IN
    IF ll # Nil /\ s.left[ll] # Nil
    THEN [s EXCEPT !.left[s.t] = ll, !.left[s.l] = s.right[ll], !.right[ll] = s.l,
                   !.t = ll, !.l = s.left[ll]]
    ELSE s

Spine(tree) ==
    LET start == [t |-> tree.root, l |-> tree.left[tree.root],
                  left |-> tree.left, right |-> tree.right]
        run[k \in 0..Size(tree)] == IF k = 0 THEN start ELSE Folded(run[k - 1])
    IN run[Size(tree)]

(* deque(): p gives its left child e up. *)
Taken(s, r, p, e) ==
    [event |-> e,
     tree |-> [root |-> r, left |-> Without([s.left EXCEPT ![p] = s.right[e]], e),
               right |-> Without(s.right, e)]]

Dequeued(tree) ==
    IF tree.left[tree.root] = Nil
    THEN [event |-> tree.root,
          tree |-> [root |-> tree.right[tree.root],
                    left |-> Without(tree.left, tree.root),
                    right |-> Without(tree.right, tree.root)]]
    ELSE LET s == Spine(tree) IN
         IF s.left[s.l] = Nil THEN Taken(s, tree.root, s.t, s.l)
         ELSE Taken(s, tree.root, s.l, s.left[s.l])

-----------------------------------------------------------------------------
(* Mutant: the search goes by time alone. *)
GoRight_TimeOnly(e, t) == e.time > t.time

(* Where the search of cancel() goes on *)
GoRight(e, t) == e.time > t.time \/ (e.time = t.time /\ e.uid > t.uid)

(* The search: x is the node it has come to, p the one before. *)
Search(tree, e) ==
    LET run[k \in 0..Size(tree)] ==
            IF k = 0 THEN [p |-> Nil, x |-> tree.root]
            ELSE LET s == run[k - 1] IN
                 IF s.x \in {Nil, e} THEN s
                 ELSE [p |-> s.x, x |-> IF GoRight(e, s.x) THEN tree.right[s.x]
                                        ELSE tree.left[s.x]]
    IN run[Size(tree)]

Finds(tree, e) == Search(tree, e).x = e

(* The loop for the successor q of e, p its parent *)
Successor(tree, e) ==
    LET run[k \in 0..Size(tree)] ==
            IF k = 0 THEN [p |-> e, q |-> tree.right[e]]
            ELSE LET s == run[k - 1] IN
                 IF tree.left[s.q] = Nil THEN s
                 ELSE [p |-> s.q, q |-> tree.left[s.q]]
    IN run[Size(tree)]

(* The pointer to e becomes x: *t of cancel(), with p the parent of e. *)
Replaced(tree, p, e, x) ==
    LET l == IF p # Nil /\ ~GoRight(e, p) THEN [tree.left EXCEPT ![p] = x] ELSE tree.left
        r == IF p # Nil /\ GoRight(e, p) THEN [tree.right EXCEPT ![p] = x] ELSE tree.right
    IN [root |-> IF p = Nil THEN x ELSE tree.root,
        left |-> Without(l, e), right |-> Without(r, e)]

(* The successor of e leaves its place and takes the children of e. *)
Promoted(tree, e, p, q) ==
    [tree EXCEPT
        !.left[p] = IF p = e THEN @ ELSE tree.right[q],
        !.left[q] = tree.left[e],
        !.right[q] = IF p = e THEN @ ELSE tree.right[e]]

(* cancel() *)
Removed(tree, e) ==
    LET p == Search(tree, e).p IN
    IF tree.right[e] = Nil THEN Replaced(tree, p, e, tree.left[e])
    ELSE IF tree.left[e] = Nil THEN Replaced(tree, p, e, tree.right[e])
    ELSE LET s == Successor(tree, e)
         IN Replaced(Promoted(tree, e, s.p, s.q), p, e, s.q)

-----------------------------------------------------------------------------
(* Scheduler::schedule(), insert() *)
Schedule ==
    /\ uid <= MaxUid
    /\ \E d \in Delays :
         LET n == [time |-> clock + d, uid |-> uid] IN
         Become(IF root = Nil
                THEN [root |-> n, left |-> With(left, n), right |-> With(right, n)]
                ELSE Inserted(Tree, n))
    /\ uid' = uid + 1
    /\ UNCHANGED <<clock, halted>>

(* A round of run(), deque() *)
Dispatch ==
    /\ ~halted /\ root # Nil
    /\ LET d == Dequeued(Tree) IN
         /\ clock' = d.event.time
         /\ Become(d.tree)
    /\ UNCHANGED <<uid, halted>>

(* cancel() of a pending event *)
Cancel ==
    /\ \E e \in Nodes(Tree) : Finds(Tree, e) /\ Become(Removed(Tree, e))
    /\ UNCHANGED <<clock, uid, halted>>

Halt == halted' = TRUE /\ UNCHANGED <<root, left, right, clock, uid>>
Resume == halted' = FALSE /\ UNCHANGED <<root, left, right, clock, uid>>

Next == Schedule \/ Dispatch \/ Cancel \/ Halt \/ Resume

Spec == Init /\ [][Next]_vars

-----------------------------------------------------------------------------
(* The events that are scheduled *)
Pending == Nodes(Tree)

(* cancel() finds every pending event, wherever the rotations put those of *)
(* the same time ("did not find it", abort()).                             *)
CancelFinds == \A e \in Pending : Finds(Tree, e)
=============================================================================
