------------------------------- MODULE MCAodv -------------------------------
(* Small networks and traffic for TLC. *)
EXTENDS Aodv

CONSTANTS n1, n2, n3, n4, d1, d2

MCSource == [x \in Data |-> IF x = d1 THEN n3 ELSE n1]
MCTarget == [x \in Data |-> n4]

(* n3 - n2 - n1 - n4 *)
Line == {{n3, n2}, {n2, n1}, {n1, n4}}
(* The same, and a way round n1 *)
Kite == Line \cup {{n2, n4}}
=============================================================================
