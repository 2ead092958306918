---------------------------- MODULE UnicastLink ----------------------------
(***************************************************************************)
(* What the agents of this simulator may rely on when they hand a unicast  *)
(* packet to their link layer: it arrives only after it was handed down,   *)
(* never after the sender's stack has done with it, and once.  The only    *)
(* packets that may arrive again are those whose frames bear no number a   *)
(* receiver could know them by.  Nothing is promised about order, and      *)
(* nothing says that a packet arrives.                                     *)
(***************************************************************************)
CONSTANT Packet

VARIABLES
    sent,       \* handed to the link layer
    arrivals,   \* the times a packet was passed up, each with its packet
    settled,    \* freed or dropped by the sender's stack
    unnumbered  \* arrived in a frame no duplicate can be told by

vars == <<sent, arrivals, settled, unnumbered>>

Init == sent = {} /\ arrivals = {} /\ settled = {} /\ unnumbered = {}

(* An arrival is an event of its own: a second one of the same packet is   *)
(* another member of arrivals, not a step that changes nothing.            *)
Once ==
    \A x, y \in arrivals :
        x.packet = y.packet => x = y \/ x.packet \in unnumbered

(* One step may do several of these: ARP drops the packet it holds while   *)
(* it is handed another one.                                               *)
Next ==
    /\ sent \subseteq sent' /\ sent' \subseteq Packet
    /\ settled \subseteq settled' /\ settled' \subseteq sent'
    /\ unnumbered \subseteq unnumbered'
    /\ arrivals \subseteq arrivals'
    /\ \A x \in arrivals' \ arrivals : x.packet \in sent' \ settled
    /\ Once'

Spec == Init /\ [][Next]_vars
=============================================================================
