------------------------------ MODULE Startup ------------------------------
(***************************************************************************)
(* The start of the secondary CPUs and the way to the guest: CPU0's one    *)
(* boot procedure (secondary.rs start_all with secondary_boot.rs and       *)
(* startup_publication.rs, management.rs activate_secondary, tlb.rs        *)
(* park_workers, boot.rs), the stackless entry and secondary_main, and the *)
(* management worker of each secondary.                                    *)
(*                                                                         *)
(* CPU0 writes through its cache; a CPU that has not enabled its MMU reads *)
(* memory.  cell and ready are the coherent values, cellRam and recordRam  *)
(* what memory holds.  A management request is one slot per worker;        *)
(* Channel shows that the real channel is such a slot.                     *)
(***************************************************************************)
EXTENDS Mailbox, Sequences

CONSTANTS
    N,         \* CPUs 1 .. N are the required secondaries
    FaultSets  \* what may go wrong together: sets of FaultKinds

ASSUME NAssumption == N \in Nat \ {0} /\ Secondaries = 1 .. N

FaultKinds == {"prepare",    \* a preparation or publication check fails
               "cell",       \* firmware writes a release cell itself
               "entry",      \* a CPU arrives in an unsupported state
               "validate",   \* its local validation fails
               "init",       \* its GIC interface is rejected
               "trap",       \* an unexpected exception
               "timeout"}    \* a deadline passes

VARIABLES
    status,       \* BOOT_STATE
    bpc,          \* where CPU0 is
    target,       \* the secondary CPU0 is working on
    todo,         \* the rest of its script for that secondary
    outcome,      \* the result start_all finalizes
    attempted,    \* RELEASE_ATTEMPTED
    cell, cellRam,    \* per CPU: its release cell
    recordRam,    \* per CPU: the published token in memory
    pc,           \* per CPU: where a secondary is
    failures,     \* per CPU: its checkpoint found a failure
    activate,     \* per CPU: ACTIVATE
    managed,      \* per CPU: CPUS[id].ready, the GIC target is known
    stopped,      \* per CPU: CPUS[id].stopped
    handling,     \* per CPU: its IRQ handler has replied and not returned
    slot,         \* per CPU: the management request of CPU0 to it
    ping,         \* per CPU: its own ping to CPU0
    doorbell,     \* per CPU, CPU0 included: a management SGI is pending
    fatal,        \* FATAL.fatal
    faults        \* what may go wrong in this boot

boot == <<status, bpc, target, todo, outcome>>
memory == <<attempted, cell, cellRam, recordRam>>
management == <<activate, managed, stopped, handling, slot, ping>>
vars == <<mailbox, boot, memory, pc, failures, management, doorbell, fatal, faults>>

CPUs == 0 .. N
Statuses == {"Idle", "Preparing", "Releasing", "Ready", "PreparationFailed", "ReleaseFailed",
             "WaitFailed"}
Terminal == {"Ready", "PreparationFailed", "ReleaseFailed", "WaitFailed"}
Operations == {"Ping", "WorkerTest", "Oversized", "Park"}
FreeSlot == [state |-> "free", operation |-> "none"]

\* What CPU0 does with one worker in activate_secondary and in park_workers.
ActivationScript == <<"Online", "Ping", "WorkerTest", "Oversized", "Echo">>
ParkScript == <<"Park", "Ping">>

EntrySteps == {"entry", "claim"}
RustSteps == {"checkpoint", "park", "activate", "initialize", "online", "ping", "pinging", "hold",
              "wfi", "open"}
UnmaskedSteps == {"ping", "pinging", "open"}
StartSteps == {"slots", "idle", "prepare", "freeze", "publish", "begin", "release", "start",
               "reread", "attempt", "store", "clean", "wait", "checkpoint", "readback", "verify",
               "finalize"}
IrqSteps == {"activate", "activating", "parking", "snapshot", "guest"}

Init ==
    /\ MailboxInit
    /\ status = "Idle" /\ bpc = "slots" /\ target = 1 /\ todo = <<>> /\ outcome = "none"
    /\ attempted = {}
    /\ cell = [c \in Secondaries |-> "zero"] /\ cellRam = cell
    /\ recordRam = [c \in Secondaries |-> 0]
    /\ pc = [c \in Secondaries |-> "firmware"]
    /\ failures = [c \in Secondaries |-> FALSE]
    /\ activate = [c \in Secondaries |-> FALSE]
    /\ managed = [c \in Secondaries |-> FALSE]
    /\ stopped = [c \in Secondaries |-> FALSE]
    /\ handling = [c \in Secondaries |-> FALSE]
    /\ slot = [c \in Secondaries |-> FreeSlot]
    /\ ping = [c \in Secondaries |-> "none"]
    /\ doorbell = [c \in CPUs |-> FALSE]
    /\ fatal = FALSE
    /\ faults \in FaultSets

(***************************************************************************)
(* Memory and firmware                                                     *)
(***************************************************************************)

\* A dirty line may be written back at any time.
WriteBack(c) ==
    /\ \/ cellRam' = [cellRam EXCEPT ![c] = cell[c]] /\ UNCHANGED recordRam
       \/ recordRam' = [recordRam EXCEPT ![c] = ready[c]] /\ UNCHANGED cellRam
    /\ UNCHANGED <<mailbox, boot, attempted, cell, pc, failures, management, doorbell, fatal>>

\* A cell the firmware wrote by itself does not hold tvisor's entry.
FirmwareWrites(c) ==
    /\ "cell" \in faults
    /\ cell[c] = "zero"
    /\ cell' = [cell EXCEPT ![c] = "foreign"]
    /\ cellRam' = [cellRam EXCEPT ![c] = "foreign"]
    /\ UNCHANGED <<mailbox, boot, attempted, recordRam, pc, failures, management, doorbell, fatal>>

\* The spin table leaves its wfe loop once memory holds an address.
FirmwareEnters(c) ==
    /\ pc[c] = "firmware"
    /\ cellRam[c] = "entry"
    /\ pc' = [pc EXCEPT ![c] = "entry"]
    /\ UNCHANGED <<mailbox, boot, memory, failures, management, doorbell, fatal>>

(***************************************************************************)
(* CPU0: preparation and publication                                       *)
(***************************************************************************)

BootStep(from, to) == bpc = from /\ bpc' = to

\* prepare_secondary_cpus: every slot's context, then its lifecycle.
PrepareSlots ==
    /\ BootStep("slots", "idle")
    /\ state' = [c \in Secondaries |-> "Prepared"]
    /\ UNCHANGED <<ready, claimed, status, target, todo, outcome, memory, pc, failures, management,
                   doorbell, fatal>>

BeginBootOnce ==
    /\ BootStep("idle", "prepare")
    /\ status = "Idle"
    /\ status' = "Preparing"
    /\ UNCHANGED <<mailbox, target, todo, outcome, memory, pc, failures, management, doorbell, fatal>>

\* One iteration of prepare_all_cpus, up to publish_startup.
PrepareCpu ==
    /\ bpc = "prepare"
    /\ PublishGeneration(target)
    /\ IF target = N THEN bpc' = "freeze" /\ target' = 1
                     ELSE target' = target + 1 /\ UNCHANGED bpc
    /\ UNCHANGED <<status, todo, outcome, memory, pc, failures, management, doorbell, fatal>>

\* validate_and_freeze seals the tables; no later step changes a mapping.
Freeze ==
    /\ BootStep("freeze", "publish")
    /\ UNCHANGED <<mailbox, status, target, todo, outcome, memory, pc, failures, management,
                   doorbell, fatal>>

\* Mutant: only the first CPU's record is cleaned.
PublishFirst ==
    /\ BootStep("publish", "begin")
    /\ recordRam' = [recordRam EXCEPT ![target] = ready[target]]
    /\ UNCHANGED <<mailbox, status, target, todo, outcome, attempted, cell, cellRam, pc, failures,
                   management, doorbell, fatal>>

\* publish_all_startups: clean every record, stack and table, then the barrier.
PublishAll ==
    /\ BootStep("publish", "begin")
    /\ recordRam' = ready
    /\ UNCHANGED <<mailbox, status, target, todo, outcome, attempted, cell, cellRam, pc, failures,
                   management, doorbell, fatal>>

BeginRelease ==
    /\ BootStep("begin", "release")
    /\ status = "Preparing"
    /\ status' = "Releasing"
    /\ UNCHANGED <<mailbox, target, todo, outcome, memory, pc, failures, management, doorbell, fatal>>

(***************************************************************************)
(* CPU0: release_and_wait and finalize_boot                                *)
(***************************************************************************)

Give(result) == outcome' = result /\ bpc' = "finalize"

\* release_secondary, up to the first read of the cell.
CheckRelease ==
    /\ BootStep("release", "start")
    /\ ~fatal
    /\ state[target] = "Prepared" /\ observe_ready(target) /\ target \notin attempted
    /\ cell[target] = "zero"
    /\ UNCHANGED <<mailbox, status, target, todo, outcome, memory, pc, failures, management,
                   doorbell, fatal>>

BeginStart ==
    /\ BootStep("start", "reread")
    /\ Transition(target, "Prepared", "Starting")
    /\ UNCHANGED <<status, target, todo, outcome, memory, pc, failures, management, doorbell, fatal>>

RereadCell ==
    /\ BootStep("reread", "attempt")
    /\ cell[target] = "zero"
    /\ UNCHANGED <<mailbox, status, target, todo, outcome, memory, pc, failures, management,
                   doorbell, fatal>>

MarkAttempted ==
    /\ BootStep("attempt", "store")
    /\ attempted' = attempted \cup {target}
    /\ UNCHANGED <<mailbox, status, target, todo, outcome, cell, cellRam, recordRam, pc, failures,
                   management, doorbell, fatal>>

StoreCell ==
    /\ BootStep("store", "clean")
    /\ cell' = [cell EXCEPT ![target] = "entry"]
    /\ UNCHANGED <<mailbox, status, target, todo, outcome, attempted, cellRam, recordRam, pc,
                   failures, management, doorbell, fatal>>

\* Mutant: the next CPU is released without waiting for this one.
CleanCellWithoutWait ==
    /\ BootStep("clean", "readback")
    /\ cellRam' = [cellRam EXCEPT ![target] = cell[target]]
    /\ UNCHANGED <<mailbox, status, target, todo, outcome, attempted, cell, recordRam, pc, failures,
                   management, doorbell, fatal>>

\* The clean, the barrier and sev.
CleanCell ==
    /\ BootStep("clean", "wait")
    /\ cellRam' = [cellRam EXCEPT ![target] = cell[target]]
    /\ UNCHANGED <<mailbox, status, target, todo, outcome, attempted, cell, recordRam, pc, failures,
                   management, doorbell, fatal>>

\* wait_until_parked saw Parked within the deadline.
SeeParked ==
    /\ BootStep("wait", "checkpoint")
    /\ ~fatal /\ state[target] = "Parked"
    /\ UNCHANGED <<mailbox, status, target, todo, outcome, memory, pc, failures, management,
                   doorbell, fatal>>

\* The look at the fatal record after the wait, and verify_checkpoint.
VerifyCheckpoint ==
    /\ BootStep("checkpoint", "readback")
    /\ ~fatal /\ state[target] = "Parked" /\ ~failures[target]
    /\ UNCHANGED <<mailbox, status, target, todo, outcome, memory, pc, failures, management,
                   doorbell, fatal>>

CellsAsReleased == \A c \in Secondaries : cell[c] = IF c \in attempted THEN "entry" ELSE "zero"

\* verify_release_set, then the next secondary.
Readback ==
    /\ bpc = "readback"
    /\ CellsAsReleased
    /\ IF target = N THEN bpc' = "verify" /\ target' = 1
                     ELSE bpc' = "release" /\ target' = target + 1
    /\ UNCHANGED <<mailbox, status, todo, outcome, memory, pc, failures, management, doorbell, fatal>>

AllParked == \A c \in Secondaries : state[c] = "Parked" /\ ~failures[c]

VerifyAllParked ==
    /\ bpc = "verify"
    /\ attempted = Secondaries /\ ~fatal /\ AllParked
    /\ Give("ok")
    /\ UNCHANGED <<mailbox, status, target, todo, memory, pc, failures, management, doorbell, fatal>>

\* The early returns of start_all, by the step at which they are taken.
StartFails ==
    /\ \/ /\ bpc \in {"prepare", "freeze", "publish"} /\ "prepare" \in faults
          /\ Give("preparation")
       \/ bpc \in {"release", "wait", "checkpoint", "verify"} /\ fatal /\ Give("fatal")
       \/ bpc \in {"release", "reread"} /\ cell[target] # "zero" /\ Give("release")
       \/ /\ bpc = "wait"
          /\ state[target] = "Failed" \/ "timeout" \in faults
          /\ Give("wait")
       \/ bpc = "readback" /\ ~CellsAsReleased /\ Give("readback")
    /\ UNCHANGED <<mailbox, status, target, todo, memory, pc, failures, management, doorbell, fatal>>

\* Mutant: a failed wait is not an error.
FinalStatusIgnoresWait ==
    CASE status = "Preparing" -> "PreparationFailed"
      [] status = "Releasing" /\ outcome \in {"ok", "wait"} -> "Ready"
      [] status = "Releasing" /\ outcome \in {"fatal", "readback"} -> "WaitFailed"
      [] OTHER -> "ReleaseFailed"

FinalStatus ==
    CASE status = "Preparing" -> "PreparationFailed"
      [] status = "Releasing" /\ outcome = "ok" -> "Ready"
      [] status = "Releasing" /\ outcome \in {"wait", "fatal", "readback"} -> "WaitFailed"
      [] OTHER -> "ReleaseFailed"

FinalizeBoot ==
    /\ bpc = "finalize"
    /\ status \in {"Preparing", "Releasing"}
    /\ status' = FinalStatus
    /\ bpc' = IF FinalStatus = "Ready" THEN "activate" ELSE "halted"
    /\ target' = 1
    /\ UNCHANGED <<mailbox, todo, outcome, memory, pc, failures, management, doorbell, fatal>>

(***************************************************************************)
(* CPU0: activate_secondary, park_workers and the guest                    *)
(***************************************************************************)

Activate ==
    /\ BootStep("activate", "activating")
    /\ ~activate[target]
    /\ activate' = [activate EXCEPT ![target] = TRUE]
    /\ todo' = ActivationScript
    /\ UNCHANGED <<mailbox, status, target, outcome, memory, pc, failures, managed, stopped,
                   handling, slot, ping, doorbell, fatal>>

\* One line of a script is done; after the last one the next secondary follows,
\* and after the last secondary the next procedure.
ScriptAdvances ==
    IF Tail(todo) # <<>> THEN todo' = Tail(todo) /\ UNCHANGED <<bpc, target>>
    ELSE /\ target' = IF target = N THEN 1 ELSE target + 1
         /\ bpc' = IF bpc = "activating" THEN (IF target = N THEN "parking" ELSE "activate")
                                         ELSE (IF target = N THEN "snapshot" ELSE "parking")
         /\ todo' = IF bpc' = "parking" THEN ParkScript ELSE <<>>

WaitOnline ==
    /\ bpc = "activating" /\ Head(todo) = "Online"
    /\ ~fatal /\ managed[target] /\ state[target] = "Online"
    /\ ScriptAdvances
    /\ UNCHANGED <<mailbox, status, outcome, memory, pc, failures, management, doorbell, fatal>>

\* completed_count of the worker's own channel.
WaitEcho ==
    /\ bpc = "activating" /\ Head(todo) = "Echo"
    /\ ping[target] = "answered"
    /\ ScriptAdvances
    /\ UNCHANGED <<mailbox, status, outcome, memory, pc, failures, management, doorbell, fatal>>

Asking == bpc \in {"activating", "parking"} /\ Head(todo) \in Operations

Request ==
    /\ Asking /\ slot[target].state = "free"
    /\ managed[target] /\ ~stopped[target]
    /\ slot' = [slot EXCEPT ![target] = [state |-> "posted", operation |-> Head(todo)]]
    /\ doorbell' = [doorbell EXCEPT ![target] = TRUE]
    /\ UNCHANGED <<mailbox, boot, memory, pc, failures, activate, managed, stopped, handling, ping,
                   fatal>>

Expected(c) ==
    /\ slot[c].state = IF slot[c].operation = "Oversized" THEN "rejected" ELSE "accepted"
    /\ slot[c].operation = "Park" => state[c] = "Parked"

Collect ==
    /\ Asking /\ Expected(target)
    /\ slot' = [slot EXCEPT ![target] = FreeSlot]
    /\ ScriptAdvances
    /\ UNCHANGED <<mailbox, status, outcome, memory, pc, failures, activate, managed, stopped,
                   handling, ping, doorbell, fatal>>

\* A wait ran out, the target cannot be asked, or the answer is not expected.
ScriptErrs ==
    \/ Head(todo) = "Online" /\ (fatal \/ "timeout" \in faults)
    \/ Head(todo) = "Echo" /\ "timeout" \in faults
    \/ /\ Asking
       /\ \/ slot[target].state = "free" /\ stopped[target]
          \/ slot[target].state = "posted" /\ "timeout" \in faults
          \/ slot[target].state \in {"accepted", "rejected"} /\ ~Expected(target)

\* boot.rs prints the error and stays in its wfe loop.
ActivationFails ==
    /\ BootStep("activating", "halted")
    /\ ScriptErrs
    /\ UNCHANGED <<mailbox, status, target, todo, outcome, memory, pc, failures, management,
                   doorbell, fatal>>

\* The snapshot of physical_smp_masks.
AllResponsive == \A c \in Secondaries : managed[c] /\ ~stopped[c] /\ state[c] = "Parked"

Snapshot ==
    /\ BootStep("snapshot", "authorize")
    /\ AllResponsive /\ ~fatal
    /\ UNCHANGED <<mailbox, status, target, todo, outcome, memory, pc, failures, management,
                   doorbell, fatal>>

\* Mutant: the record is made, but nobody is told.
NotifyNobody(source) == UNCHANGED doorbell

\* notify_fatal: a doorbell to every other CPU whose target is known.
Notify(source) ==
    doorbell' = [c \in CPUs |-> doorbell[c] \/ (c # source /\ (c = 0 \/ managed[c]))]

\* park_workers().expect(...): the panic handler records and notifies.
ParkFails ==
    /\ \/ bpc = "parking" /\ ScriptErrs
       \/ bpc = "snapshot" /\ (~AllResponsive \/ fatal)
    /\ bpc' = "halted"
    /\ fatal' = TRUE
    /\ Notify(0)
    /\ UNCHANGED <<mailbox, status, target, todo, outcome, memory, pc, failures, management>>

\* Mutant: the fatal record is not consulted.
AuthorizeReady ==
    /\ bpc = "authorize"
    /\ bpc' = IF status = "Ready" THEN "guest" ELSE "halted"
    /\ UNCHANGED <<mailbox, status, target, todo, outcome, memory, pc, failures, management,
                   doorbell, fatal>>

\* ensure_guest_authorized, then run_guest or the wfe loop.
Authorize ==
    /\ bpc = "authorize"
    /\ bpc' = IF ~fatal /\ status = "Ready" THEN "guest" ELSE "halted"
    /\ UNCHANGED <<mailbox, status, target, todo, outcome, memory, pc, failures, management,
                   doorbell, fatal>>

\* CPU0's management IRQ: a worker's ping is answered, then stop_if_requested.
BootIrq ==
    /\ bpc \in IrqSteps /\ doorbell[0]
    /\ doorbell' = [doorbell EXCEPT ![0] = FALSE]
    /\ ping' = [c \in Secondaries |-> IF ping[c] = "posted" THEN "answered" ELSE ping[c]]
    /\ bpc' = IF fatal THEN "halted" ELSE bpc
    /\ UNCHANGED <<mailbox, status, target, todo, outcome, memory, pc, failures, activate, managed,
                   stopped, handling, slot, fatal>>

(***************************************************************************)
(* A secondary: __secondary_entry and secondary_main                       *)
(***************************************************************************)

Step(c, from, to) ==
    /\ pc[c] = from /\ ~handling[c]
    /\ pc' = [pc EXCEPT ![c] = to]

\* With the MMU off the record is read from memory, then acquired coherently.
Enter(c) ==
    /\ recordRam[c] = Generation /\ observe_ready(c)
    /\ Step(c, "entry", "claim")
    /\ UNCHANGED <<mailbox, boot, memory, failures, management, doorbell, fatal>>

Reject(c) ==
    /\ recordRam[c] = 0 \/ "entry" \in faults
    /\ Step(c, "entry", "rejected")
    /\ UNCHANGED <<mailbox, boot, memory, failures, management, doorbell, fatal>>

Claim(c) ==
    /\ ClaimEntry(c)
    /\ Step(c, "claim", "checkpoint")
    /\ UNCHANGED <<boot, memory, failures, management, doorbell, fatal>>

PublishCheckpoint(c) ==
    /\ Step(c, "checkpoint", "park")
    /\ \E failed \in {FALSE} \cup {"validate" \in faults} :
        failures' = [failures EXCEPT ![c] = failed]
    /\ UNCHANGED <<mailbox, boot, memory, management, doorbell, fatal>>

ParkOrFail(c) ==
    /\ IF failures[c] THEN Step(c, "park", "halted") /\ Transition(c, "Starting", "Failed")
                      ELSE Step(c, "park", "activate") /\ Transition(c, "Starting", "Parked")
    /\ UNCHANGED <<boot, memory, failures, management, doorbell, fatal>>

(***************************************************************************)
(* A secondary: the management worker                                      *)
(***************************************************************************)

SeeActivate(c) ==
    /\ activate[c]
    /\ Step(c, "activate", "initialize")
    /\ UNCHANGED <<mailbox, boot, memory, failures, management, doorbell, fatal>>

InitializeLocal(c) ==
    /\ Step(c, "initialize", "online")
    /\ managed' = [managed EXCEPT ![c] = TRUE]
    /\ UNCHANGED <<mailbox, boot, memory, failures, activate, stopped, handling, slot, ping,
                   doorbell, fatal>>

\* management_failed and record_fatal; notify_fatal follows.
InitializeFails(c) ==
    /\ "init" \in faults
    /\ Step(c, "initialize", "notify")
    /\ Transition(c, "Parked", "Failed")
    /\ fatal' = TRUE
    /\ UNCHANGED <<boot, memory, failures, management, doorbell>>

GoOnline(c) ==
    /\ Step(c, "online", "ping")
    /\ Transition(c, "Parked", "Online")
    /\ UNCHANGED <<boot, memory, failures, management, doorbell, fatal>>

PingBoot(c) ==
    /\ Step(c, "ping", "pinging")
    /\ ping' = [ping EXCEPT ![c] = "posted"]
    /\ doorbell' = [doorbell EXCEPT ![0] = TRUE]
    /\ UNCHANGED <<mailbox, boot, memory, failures, activate, managed, stopped, handling, slot,
                   fatal>>

PingAnswered(c) ==
    /\ Step(c, "pinging", "hold")
    /\ ping[c] = "answered"
    /\ UNCHANGED <<mailbox, boot, memory, failures, management, doorbell, fatal>>

PingTimesOut(c) ==
    /\ "timeout" \in faults
    /\ Step(c, "pinging", "hold")
    /\ stopped' = [stopped EXCEPT ![c] = TRUE]
    /\ UNCHANGED <<mailbox, boot, memory, failures, activate, managed, handling, slot, ping,
                   doorbell, fatal>>

\* stop_if_requested: park if Online, and halt.
Stop(c) ==
    /\ stopped[c] \/ fatal
    /\ pc' = [pc EXCEPT ![c] = "halted"]
    /\ state' = [state EXCEPT ![c] = IF state[c] = "Online" THEN "Parked" ELSE state[c]]

HoldStops(c) ==
    /\ pc[c] = "hold" /\ ~handling[c]
    /\ Stop(c)
    /\ UNCHANGED <<ready, claimed, boot, memory, failures, management, doorbell, fatal>>

HoldSleeps(c) ==
    /\ Step(c, "hold", "wfi")
    /\ ~stopped[c] /\ ~fatal
    /\ UNCHANGED <<mailbox, boot, memory, failures, management, doorbell, fatal>>

\* wfi ends on a pending interrupt, which the isb after daifclr lets in.
WakeUp(c) ==
    /\ Step(c, "wfi", "open")
    /\ doorbell[c]
    /\ UNCHANGED <<mailbox, boot, memory, failures, management, doorbell, fatal>>

MaskAgain(c) ==
    /\ Step(c, "open", "hold")
    /\ ~doorbell[c]
    /\ UNCHANGED <<mailbox, boot, memory, failures, management, doorbell, fatal>>

\* dispatch: Park is accepted Online or Parked, an oversized test never.
Dispatch(c) ==
    /\ pc[c] \in UnmaskedSteps /\ ~handling[c] /\ doorbell[c]
    /\ doorbell' = [doorbell EXCEPT ![c] = FALSE]
    /\ handling' = [handling EXCEPT ![c] = TRUE]
    /\ LET posted == slot[c].state = "posted"
           operation == slot[c].operation IN
       /\ slot' = IF posted
                  THEN [slot EXCEPT ![c].state = IF operation = "Oversized" THEN "rejected"
                                                 ELSE "accepted"]
                  ELSE slot
       /\ state' = IF posted /\ operation = "Park" /\ state[c] = "Online"
                   THEN [state EXCEPT ![c] = "Parked"] ELSE state
    /\ UNCHANGED <<ready, claimed, boot, memory, pc, failures, activate, managed, stopped, ping,
                   fatal>>

IrqReturns(c) ==
    /\ handling[c]
    /\ handling' = [handling EXCEPT ![c] = FALSE]
    /\ Stop(c) \/ (~stopped[c] /\ ~fatal /\ UNCHANGED <<pc, state>>)
    /\ UNCHANGED <<ready, claimed, boot, memory, failures, activate, managed, stopped, slot, ping,
                   doorbell, fatal>>

\* el2_exception_handler: record_fatal; notify_fatal follows.
Trap(c) ==
    /\ "trap" \in faults
    /\ pc[c] \in RustSteps
    /\ pc' = [pc EXCEPT ![c] = "notify"]
    /\ handling' = [handling EXCEPT ![c] = FALSE]
    /\ fatal' = TRUE
    /\ UNCHANGED <<mailbox, boot, memory, failures, activate, managed, stopped, slot, ping, doorbell>>

NotifyFatal(c) ==
    /\ Step(c, "notify", "halted")
    /\ Notify(c)
    /\ UNCHANGED <<mailbox, boot, memory, failures, management, fatal>>

BootNext ==
    /\ UNCHANGED faults
    /\ \/ PrepareSlots \/ BeginBootOnce \/ PrepareCpu \/ Freeze \/ PublishAll \/ BeginRelease
       \/ CheckRelease \/ BeginStart \/ RereadCell \/ MarkAttempted \/ StoreCell \/ CleanCell
       \/ SeeParked \/ VerifyCheckpoint \/ Readback \/ VerifyAllParked \/ StartFails \/ FinalizeBoot
       \/ Activate \/ WaitOnline \/ WaitEcho \/ Request \/ Collect \/ ActivationFails
       \/ Snapshot \/ ParkFails \/ Authorize \/ BootIrq

SecondaryNext(c) ==
    /\ UNCHANGED faults
    /\ \/ FirmwareEnters(c) \/ Enter(c) \/ Reject(c) \/ Claim(c) \/ PublishCheckpoint(c)
       \/ ParkOrFail(c) \/ SeeActivate(c) \/ InitializeLocal(c) \/ InitializeFails(c) \/ GoOnline(c)
       \/ PingBoot(c) \/ PingAnswered(c) \/ PingTimesOut(c)
       \/ HoldStops(c) \/ HoldSleeps(c) \/ WakeUp(c) \/ MaskAgain(c)
       \/ Dispatch(c) \/ IrqReturns(c) \/ NotifyFatal(c)

Environment(c) == UNCHANGED faults /\ (WriteBack(c) \/ FirmwareWrites(c) \/ Trap(c))

Next == BootNext \/ \E c \in Secondaries : SecondaryNext(c) \/ Environment(c)

Spec == Init /\ [][Next]_vars

\* The machine keeps executing: some CPU that can take a step takes one.  Every
\* wait of CPU0 and of a worker is bounded by its deadline, which is the "timeout"
\* alternative of the same wait, so no CPU can keep the others from their turn.
Fairness == WF_vars(BootNext \/ \E c \in Secondaries : SecondaryNext(c))

FairSpec == Spec /\ Fairness

(***************************************************************************)
(* Properties                                                              *)
(***************************************************************************)

\* The types of the boot state, the memory, the slots and the workers.
TypeOK ==
    /\ MailboxTypeOK
    /\ status \in Statuses /\ target \in Secondaries
    /\ bpc \in StartSteps \cup IrqSteps \cup {"authorize", "halted"}
    /\ todo \in Seq(Operations \cup {"Online", "Echo"}) /\ Len(todo) <= 5
    /\ outcome \in {"none", "ok", "preparation", "release", "wait", "fatal", "readback"}
    /\ attempted \subseteq Secondaries
    /\ cell \in [Secondaries -> {"zero", "entry", "foreign"}]
    /\ cellRam \in [Secondaries -> {"zero", "entry", "foreign"}]
    /\ recordRam \in [Secondaries -> {0, Generation}]
    /\ pc \in [Secondaries -> EntrySteps \cup RustSteps \cup {"firmware", "rejected", "notify",
                                                            "halted"}]
    /\ failures \in [Secondaries -> BOOLEAN]
    /\ activate \in [Secondaries -> BOOLEAN] /\ managed \in [Secondaries -> BOOLEAN]
    /\ stopped \in [Secondaries -> BOOLEAN] /\ handling \in [Secondaries -> BOOLEAN]
    /\ slot \in [Secondaries -> [state : {"free", "posted", "accepted", "rejected"},
                                 operation : Operations \cup {"none"}]]
    /\ ping \in [Secondaries -> {"none", "posted", "answered"}]
    /\ doorbell \in [CPUs -> BOOLEAN] /\ fatal \in BOOLEAN /\ faults \in FaultSets

\* Whoever has left the firmware was released by CPU0: RELEASE_ATTEMPTED is set
\* before the store ("A bit means potentially released, not successful arrival"),
\* whenever the line reaches memory, and its lifecycle has left Prepared.  It
\* always finds its record in memory, although it reads it with caches off ("No
\* release occurs before every slot's ... cache publication has completed").
EntryFindsItsRecord ==
    /\ TypeOK
    /\ \A c \in Secondaries :
        /\ pc[c] # "firmware" => c \in attempted /\ state[c] \notin {"Offline", "Prepared"}
        /\ pc[c] = "entry" => recordRam[c] = Generation /\ observe_ready(c)

\* CPUs are released one after the other: the next attempt waits for a validated
\* arrival of the one before, and a failed wait ends the sequence.
ReleaseIsSequential ==
    \A c, d \in Secondaries : c < d /\ d \in attempted =>
        /\ claimed[c] /\ ~failures[c]
        /\ state[c] \in {"Parked", "Online", "Failed"}
        /\ state[c] = "Failed" => fatal

\* The guest is entered only when every required CPU arrived, validated itself,
\* was activated and parked again, and no fatal record exists.
GuestNeedsEveryCpu ==
    [][bpc # "guest" /\ bpc' = "guest" =>
        /\ ~fatal /\ attempted = Secondaries
        /\ \A c \in Secondaries :
            state[c] = "Parked" /\ claimed[c] /\ ~failures[c] /\ managed[c]]_vars

\* The boot implements the abstract gate.  A CPU has arrived once it published
\* Parked; a worker that fails later has arrived all the same.
Arrived == {c \in Secondaries : state[c] \in {"Parked", "Online", "Failed"} /\ ~failures[c]}
Decision == IF status = "Ready" THEN "ready" ELSE IF status \in Terminal THEN "failed" ELSE "open"
Guest == IF bpc = "guest" THEN "running" ELSE IF bpc = "halted" THEN "stopped" ELSE "waiting"

Gate == INSTANCE BootGate WITH
    Members  <- Secondaries,
    arrived  <- Arrived,
    decision <- Decision,
    guest    <- Guest

\* One decision, taken once, positive only after all arrivals, and the guest only
\* after a positive decision (start_all, finalize_boot, guest_authorized).
ImplementsBootGate == Gate!Spec

\* Whatever happens to the other CPUs, CPU0 does not hang in its boot: it takes
\* its decision and then enters the guest or stops (bounded waits), and without
\* faults it reaches the guest.  A fatal record stops the machine: CPU0 and every
\* worker that takes part in management halt ("shared fatal records are the
\* authority"), also when the record is made while a CPU checks for it, sleeps or
\* comes up.
BootEnds ==
    <>[](/\ status \in Terminal /\ bpc \in {"guest", "halted"}
         /\ faults = {} => bpc = "guest"
         /\ fatal => /\ bpc = "halted"
                     /\ \A c \in Secondaries :
                         pc[c] \in {"firmware", "rejected", "activate", "halted"})

=============================================================================
