------------------------------ MODULE MCTimers ------------------------------
(* Two timers for TLC. *)
EXTENDS Timers

CONSTANTS t1, t2
=============================================================================
