------------------------ MODULE ChannelRefinement --------------------------
(***************************************************************************)
(* The atomics of struct Channel implement RequestSlot.  The slot's state  *)
(* is read off the four counters; the request words count while a request  *)
(* is unretired and the reply words while it is also acknowledged.         *)
(***************************************************************************)
EXTENDS Channel

SlotState ==
    IF sequence = retired THEN "free"
    ELSE IF taken # sequence THEN "posted"
    ELSE IF acknowledged # sequence THEN "taken"
    ELSE "answered"

Slot == INSTANCE RequestSlot WITH
    Nothing <- None,
    number  <- sequence,
    state   <- SlotState,
    job     <- IF sequence = retired THEN None ELSE <<operation, argument>>,
    reply   <- IF sequence # retired /\ acknowledged = sequence
               THEN <<result, failed>> ELSE None

\* Every step of the channel's two users is a step of the abstract slot or
\* invisible to it: request and reply words are stable while they are owned,
\* and nothing is taken, answered or collected twice (submit, take,
\* acknowledge, try_result).
ImplementsRequestSlot == Slot!Spec

=============================================================================
