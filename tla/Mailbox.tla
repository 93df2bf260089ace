------------------------------ MODULE Mailbox ------------------------------
(***************************************************************************)
(* tvisor_util/secondary_mailbox.rs: the publication token, the lifecycle  *)
(* and the entry claim of each secondary CPU's slot.  The operations are   *)
(* the compare_exchange steps on one mailbox; Startup says who calls them. *)
(***************************************************************************)
EXTENDS Naturals

CONSTANTS
    Secondaries,   \* the logical ids of the secondary CPUs
    Generation     \* the boot's publication generation

ASSUME GenerationAssumption == Generation \in Nat \ {0}

VARIABLES
    ready,     \* per CPU: the published generation, 0 before
    state,     \* per CPU: CpuState
    claimed    \* per CPU: entry_claimed

mailbox == <<ready, state, claimed>>

CpuStates == {"Offline", "Prepared", "Starting", "Parked", "Online", "Failed"}

MailboxInit ==
    /\ ready = [c \in Secondaries |-> 0]
    /\ state = [c \in Secondaries |-> "Offline"]
    /\ claimed = [c \in Secondaries |-> FALSE]

MailboxTypeOK ==
    /\ ready \in [Secondaries -> {0, Generation}]
    /\ state \in [Secondaries -> CpuStates]
    /\ claimed \in [Secondaries -> BOOLEAN]

observe_ready(c) == ready[c] = Generation

PublishGeneration(c) ==
    /\ state[c] = "Prepared" /\ ready[c] = 0
    /\ ready' = [ready EXCEPT ![c] = Generation]
    /\ UNCHANGED <<state, claimed>>

\* transition: the token, then compare_exchange on the lifecycle.
Transition(c, from, to) ==
    /\ observe_ready(c)
    /\ state[c] = from
    /\ state' = [state EXCEPT ![c] = to]
    /\ UNCHANGED <<ready, claimed>>

\* Only one entrant may publish Parked or Failed.
ClaimEntry(c) ==
    /\ observe_ready(c) /\ state[c] = "Starting" /\ ~claimed[c]
    /\ claimed' = [claimed EXCEPT ![c] = TRUE]
    /\ UNCHANGED <<ready, state>>

=============================================================================
