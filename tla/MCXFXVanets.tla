---------------------------- MODULE MCXFXVanets -----------------------------
(* Small instances of XFXVanets for TLC. *)
EXTENDS XFXVanets

CONSTANTS c1, c2, s1, s2, m1, m2, A, B, C

MCPlace == [s \in Node \ Car |-> IF s = s1 THEN A ELSE B]

(* c1 only starts at the first static node; c2 passes it on its way to the *)
(* second one, which c1 never comes to.                                    *)
MCRoute == [c \in Car |-> IF c = c1 THEN <<A, C>> ELSE <<C, A, B>>]

MCSrc == [m \in Msg |-> IF m = m1 THEN c2 ELSE c1]
MCDst == [m \in Msg |-> IF m = m1 THEN s1 ELSE s2]
=============================================================================
