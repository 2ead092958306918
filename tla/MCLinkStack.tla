---------------------------- MODULE MCLinkStack ----------------------------
(* Small instances of LinkStack for TLC. *)
EXTENDS LinkStack

CONSTANTS a, b, p1, p2, p3, p4, p5, p6

(* A burst of p2, p3 and p4 from a to b.  From b come the broadcasts p5    *)
(* and p6 and then p1 to a, whose request may cross a's.  The three may    *)
(* fill b's queue before its reply to a gets there.                        *)
MCOrigin == [p \in Packet |-> IF p \in {p1, p5, p6} THEN b ELSE a]
MCNextHop == [p \in Packet |-> CASE p = p1 -> a
                               [] p \in {p5, p6} -> Everyone
                               [] OTHER -> b]
MCEarlier == [p \in Packet |-> CASE p = p3 -> {p2} [] p = p4 -> {p3}
                               [] p = p6 -> {p5} [] p = p1 -> {p6}
                               [] OTHER -> {}]
=============================================================================
