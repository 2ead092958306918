---------------------------- MODULE MCMac80211 -----------------------------
(* Small instances of Mac80211 for TLC. *)
EXTENDS Mac80211

CONSTANTS n1, n2, n3, p1, p2, p3, p4

Mesh == [n \in Node |-> Node \ {n}]
(* n1 and n3 are hidden from each other. *)
Chain == [n \in Node |-> IF n = n2 THEN {n1, n3} ELSE {n2}]
MCNetworks == {Mesh, Chain}

(* Two packets from n1 to n2, one with an RTS and one without; n2 sends    *)
(* one with an RTS to n1, and n3 a broadcast.                              *)
MCOrigin == [p \in Packet |-> CASE p = p3 -> n3 [] p = p4 -> n2 [] OTHER -> n1]
MCNextHop == [p \in Packet |-> CASE p = p3 -> Everyone [] p = p4 -> n1
                               [] OTHER -> n2]
MCSize == [p \in Packet |-> IF p \in {p1, p4} THEN 100 ELSE 60]

(* With 408 for p4 and 358 for p3, n2 gets its packet while a CTS of its   *)
(* own is due, and in the chain the broadcast arrives before that is sent. *)
MCTraffic ==
    {t \in [Packet -> {0, 358, 400, 408}] :
        /\ t[p1] \in {0, 400} /\ t[p2] \in {0, 400}
        /\ t[p3] # 408 /\ t[p4] \in {0, 408}}
=============================================================================
