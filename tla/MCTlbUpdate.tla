---------------------------- MODULE MCTlbUpdate ----------------------------
(***************************************************************************)
(* An instance of the mapping update for TLC.                              *)
(***************************************************************************)
EXTENDS TlbUpdate

CONSTANTS w1, w2

MCWorkers == {w1, w2}
AllDeadlines == {"coordinator", "worker"}

\* The timeout build with a worker that sleeps past the deadline; the test build
\* when any wait may expire; and when none does.
MCBuilds ==
    {[late |-> {w2}, deadlines |-> AllDeadlines], [late |-> {}, deadlines |-> AllDeadlines],
     [late |-> {}, deadlines |-> {}]}

=============================================================================
