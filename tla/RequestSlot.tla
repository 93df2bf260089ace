---------------------------- MODULE RequestSlot ----------------------------
(***************************************************************************)
(* What a management channel promises its two users, without the atomics   *)
(* that implement it: a slot that holds one numbered request at a time,    *)
(* keeps it unchanged until it was taken and answered, keeps the answer    *)
(* until it was collected, and is free again only then.                    *)
(***************************************************************************)
EXTENDS Naturals

CONSTANTS Jobs, Replies, MaxSequence, Nothing

VARIABLES number, state, job, reply

slot == <<number, state, job, reply>>

Init == number = 0 /\ state = "free" /\ job = Nothing /\ reply = Nothing

Post(j) ==
    /\ state = "free" /\ number < MaxSequence
    /\ state' = "posted" /\ number' = number + 1 /\ job' = j
    /\ UNCHANGED reply

Take ==
    /\ state = "posted"
    /\ state' = "taken"
    /\ UNCHANGED <<number, job, reply>>

Answer(r) ==
    /\ state = "taken"
    /\ state' = "answered" /\ reply' = r
    /\ UNCHANGED <<number, job>>

Collect ==
    /\ state = "answered"
    /\ state' = "free" /\ job' = Nothing /\ reply' = Nothing
    /\ UNCHANGED number

Next ==
    \/ \E j \in Jobs : Post(j)
    \/ Take
    \/ \E r \in Replies : Answer(r)
    \/ Collect

Spec == Init /\ [][Next]_slot

=============================================================================
