------------------------------ MODULE BootGate -----------------------------
(***************************************************************************)
(* What the secondary boot promises the guest: CPUs arrive, early or late; *)
(* one decision is taken, once, and only the arrival of all of them lets   *)
(* it be positive; the guest runs only after a positive decision, and a    *)
(* stopped boot never runs it again.                                       *)
(***************************************************************************)
CONSTANT Members

VARIABLES arrived, decision, guest

gate == <<arrived, decision, guest>>

Init == arrived = {} /\ decision = "open" /\ guest = "waiting"

Arrive(c) ==
    /\ c \notin arrived
    /\ arrived' = arrived \cup {c}
    /\ UNCHANGED <<decision, guest>>

Accept ==
    /\ decision = "open" /\ arrived = Members
    /\ decision' = "ready"
    /\ UNCHANGED <<arrived, guest>>

Refuse ==
    /\ decision = "open"
    /\ decision' = "failed" /\ guest' = "stopped"
    /\ UNCHANGED arrived

Enter ==
    /\ decision = "ready" /\ guest = "waiting"
    /\ guest' = "running"
    /\ UNCHANGED <<arrived, decision>>

Stop ==
    /\ decision = "ready"
    /\ guest' = "stopped"
    /\ UNCHANGED <<arrived, decision>>

Next == (\E c \in Members : Arrive(c)) \/ Accept \/ Refuse \/ Enter \/ Stop

Spec == Init /\ [][Next]_gate

=============================================================================
