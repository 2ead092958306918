------------------------------- MODULE MCWfrp -------------------------------
(* Small instances of Wfrp for TLC. *)
EXTENDS Wfrp, Sequences

CONSTANTS n1, n2, n3, n4, p1

(* Everybody may hear everybody: with Lossy, every movement and collision. *)
MCMesh == [n \in Node |-> Node \ {n}]

(* A chain with the sink n1 at its end. *)
Chain == <<n1, n2, n3, n4>>
MCChain ==
    [n \in Node |->
        {Chain[j] : j \in {i \in 1..Len(Chain) :
            \E k \in 1..Len(Chain) : Chain[k] = n /\ (k = i + 1 \/ k = i - 1)}}
        \cap Node]

MCPktSrc == [p \in Pkt |-> n3]
MCPktDst == [p \in Pkt |-> n1]

MCSinkStart == {0, 1}
MCSinkStart0 == {0}

=============================================================================
