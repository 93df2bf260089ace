---------------------------- MODULE UpdateState ----------------------------
(***************************************************************************)
(* tvisor_util/tlb_update.rs: struct UpdateState, the gate, the epoch and  *)
(* the acknowledgements of one mapping update.  The operations are state   *)
(* predicates and assignments here; TlbUpdate gives each access its place  *)
(* in the coordinator and the workers that make it.                        *)
(***************************************************************************)
EXTENDS Integers

CONSTANTS
    Boot,       \* CPU0, the coordinator
    Workers,    \* the other required CPUs
    MaxEpoch    \* u64::MAX: the last epoch

ASSUME MembersAssumption == Boot \notin Workers /\ Workers # {}
ASSUME MaxEpochAssumption == MaxEpoch \in Nat

VARIABLES gate, epoch, members, phase, requested, quiet, synced

updates == <<gate, epoch, members, phase, requested, quiet, synced>>

CPUs == {Boot} \cup Workers
Epochs == 0 .. MaxEpoch
Phases == {"Idle", "Quiescing", "Replacing", "Synchronizing", "Complete", "Failed"}

UpdateInit ==
    /\ gate = 0 /\ epoch = 0 /\ members = {} /\ phase = "Idle"
    /\ requested = [c \in CPUs |-> 0]
    /\ quiet = [c \in CPUs |-> 0]
    /\ synced = [c \in CPUs |-> 0]

UpdateTypeOK ==
    /\ gate \in 0 .. 2 /\ epoch \in Epochs /\ members \subseteq CPUs /\ phase \in Phases
    /\ requested \in [CPUs -> Epochs]
    /\ quiet \in [CPUs -> Epochs]
    /\ synced \in [CPUs -> Epochs]

\* check, first half: not failed, a member, and this epoch.
Identified(id, e) == phase # "Failed" /\ id \in members /\ e # 0 /\ epoch = e

\* check, second half: the phase is still the expected one and an update owns
\* the gate.
Confirmed(p) == phase = p /\ gate = 1

\* Mutant: only the coordinator's own acknowledgement is awaited.
AllButWorkers(acks) == acks[Boot] = epoch

All(acks) == \A c \in members : acks[c] = epoch

pending(id) ==
    /\ phase = "Quiescing"
    /\ requested[id] = epoch
    /\ quiet[id] # epoch

all_quiet == phase = "Quiescing" /\ All(quiet)

may_write(e) == Identified(Boot, e) /\ Confirmed("Replacing") /\ All(quiet)

all_synced == phase = "Synchronizing" /\ All(synced)

reusable(e) == e # 0 /\ epoch = e /\ phase = "Complete" /\ All(synced)

\* Mutant: the phase is stored although it may have become Failed meanwhile.
StorePhase(from, to) == phase' = to

\* compare_exchange(from, to) on the phase; a step that may not advance errors.
AdvancePhase(from, to) == phase = from /\ phase' = to

\* Sticky failure: nothing leaves Failed.
Fail == phase' = "Failed"

=============================================================================
