----------------------------- MODULE TlbUpdate -----------------------------
(***************************************************************************)
(* The cross-CPU replacement of the EL2 scratch mapping: the coordinator   *)
(* of src/tlb_test.rs (remap) and src/tlb.rs (park_workers) on CPU0, the   *)
(* worker (tlb_test.rs) that runs from the masked holding loop of          *)
(* src/management.rs, the management dispatcher that admits an epoch in    *)
(* the IRQ, and the descriptor, TLBs and memory they work on (mm.rs,       *)
(* el2_stage1_translation.rs, tlb_sync.S).                                 *)
(*                                                                         *)
(* A management request is one slot per worker here; Channel shows that    *)
(* the real channel is such a slot.                                        *)
(***************************************************************************)
EXTENDS UpdateState, FiniteSets

CONSTANTS
    PageA, PageB,   \* the two reserved backing pages
    Builds,         \* builds and machines: records [late, deadlines]
    None            \* no translation, no value

ASSUME PagesAssumption == PageA # PageB /\ None \notin {PageA, PageB}

VARIABLES
    pte,            \* the scratch leaf descriptor
    tlb,            \* per CPU: the cached translation of the scratch page
    memory,         \* per page: its first word
    current, oldValue, newValue,   \* CURRENT, OLD_VALUE, NEW_VALUE
    cpc,            \* where the coordinator is
    asked,          \* the workers it has sent the current request to
    slot,           \* per worker: the management request of the coordinator
    doorbell,       \* per worker: a management SGI is pending
    wpc, wepoch,    \* per worker: where its main context is, its epoch
    ipc,            \* per worker: where its IRQ dispatcher is
    lifecycle,      \* per worker: Online or Parked
    fatal,          \* a fatal record exists
    lateRejected,   \* LATE_REJECTED
    build           \* what runs: chosen at the start

tables == <<pte, tlb, memory>>
scratch == <<current, oldValue, newValue>>
coordinator == <<cpc, asked>>
worker == <<wpc, wepoch>>
irq == <<doorbell, ipc>>
cpus == <<lifecycle, fatal, lateRejected>>
vars == <<updates, tables, scratch, coordinator, slot, worker, irq, cpus, build>>

\* The workers of the timeout build that sleep past the deadline, and whose waits
\* may time out: "coordinator", "worker".
LateWorkers == build.late
Deadlines == build.deadlines

Pages == {PageA, PageB}
other == IF current = PageA THEN PageB ELSE PageA

\* The signature of epoch e is INITIAL + e; a reused page holds its complement.
Signatures == Epochs
Poison(value) == -value - 1

FreeSlot == [state |-> "free", operation |-> "none", argument |-> 0]

\* The steps at which a worker's main context runs with IRQ enabled.
QuiesceSteps == {"warm", "identify", "confirm", "store"}
SynchronizeSteps == {"reread", "identify2", "confirm2", "store2"}
UnmaskedSteps == {"open", "enter", "early", "await", "failing", "failed"}
                     \cup QuiesceSteps \cup SynchronizeSteps
MaskedSteps == {"top", "pending", "wfi", "halted"}

\* The coordinator's steps under the table lock, which masks its IRQs.
LockedSteps == {"break", "invalidate", "make", "invalidate2"}
RemapSteps == {"members", "epoch", "phase", "prepare", "warm", "quiesce", "ask", "asking", "start",
               "replacing", "authority", "publish", "publishing", "reread", "sync", "syncing",
               "drain", "finish", "finishing", "gate", "reuse", "poison", "failing"} \cup LockedSteps
ParkSteps == {"park", "parking"}

Init ==
    /\ UpdateInit
    /\ pte = PageA /\ tlb = [c \in CPUs |-> None]
    /\ memory = [p \in Pages |-> IF p = PageA THEN 0 ELSE None]
    /\ current = PageA /\ oldValue = 0 /\ newValue = None
    /\ cpc = "idle" /\ asked = {}
    /\ slot = [w \in Workers |-> FreeSlot]
    /\ doorbell = [w \in Workers |-> FALSE]
    /\ wpc = [w \in Workers |-> "top"] /\ wepoch = [w \in Workers |-> 0]
    /\ ipc = [w \in Workers |-> "none"]
    /\ lifecycle = [w \in Workers |-> "Online"]
    /\ fatal = FALSE /\ lateRejected = FALSE
    /\ build \in Builds

(***************************************************************************)
(* Hardware: translation caching, the scratch read and the management SGI  *)
(***************************************************************************)

\* A CPU may walk and cache a valid descriptor, or evict it, at any time.
TlbWalk(c) ==
    /\ \E entry \in {None, pte} : tlb' = [tlb EXCEPT ![c] = entry]
    /\ UNCHANGED <<updates, pte, memory, scratch, coordinator, slot, worker, irq, cpus>>

translation(c) == IF tlb[c] # None THEN tlb[c] ELSE pte

\* read() on CPU c; None is a translation fault.
Read(c) == IF translation(c) = None THEN None ELSE memory[translation(c)]
Cache(c) == tlb' = [tlb EXCEPT ![c] = translation(c)]

\* tlbi alle2is; dsb ish
InvalidateAll == tlb' = [c \in CPUs |-> None]

RingAll == doorbell' = [w \in Workers |-> TRUE]

(***************************************************************************)
(* remap, on CPU0                                                          *)
(***************************************************************************)

CoordinatorStep(from, to) == cpc = from /\ cpc' = to

\* The timeout build runs a single remap.
BeginGate ==
    /\ CoordinatorStep("idle", "members")
    /\ LateWorkers = {} \/ epoch = 0
    /\ phase # "Failed" /\ gate = 0
    /\ gate' = 1
    /\ UNCHANGED <<epoch, members, phase, requested, quiet, synced, tables, scratch, asked, slot,
                   worker, irq, cpus>>

BeginMembers ==
    /\ CoordinatorStep("members", "epoch")
    /\ phase \in {"Idle", "Complete"} /\ epoch < MaxEpoch
    /\ members' = CPUs
    /\ UNCHANGED <<gate, epoch, phase, requested, quiet, synced, tables, scratch, asked, slot,
                   worker, irq, cpus>>

\* checked_add(1) found the last epoch, or the phase is not one to start from:
\* begin fails the protocol, remap returns an error and before_guest panics.
BeginFails ==
    /\ CoordinatorStep("members", "failing")
    /\ phase \notin {"Idle", "Complete"} \/ epoch = MaxEpoch
    /\ Fail
    /\ UNCHANGED <<gate, epoch, members, requested, quiet, synced, tables, scratch, asked, slot,
                   worker, irq, cpus>>

BeginEpoch ==
    /\ CoordinatorStep("epoch", "phase")
    /\ epoch' = epoch + 1
    /\ UNCHANGED <<gate, members, phase, requested, quiet, synced, tables, scratch, asked, slot,
                   worker, irq, cpus>>

BeginQuiescing ==
    /\ CoordinatorStep("phase", "prepare")
    /\ \E previous \in {"Idle", "Complete"} : AdvancePhase(previous, "Quiescing")
    /\ UNCHANGED <<gate, epoch, members, requested, quiet, synced, tables, scratch, asked, slot,
                   worker, irq, cpus>>

\* The page given up in the preceding epoch receives the new signature.
PrepareNew ==
    /\ CoordinatorStep("prepare", "warm")
    /\ memory' = [memory EXCEPT ![other] = epoch]
    /\ newValue' = epoch
    /\ UNCHANGED <<updates, pte, tlb, current, oldValue, asked, slot, worker, irq, cpus>>

CoordinatorWarm ==
    /\ CoordinatorStep("warm", "quiesce")
    /\ Read(Boot) = oldValue
    /\ Cache(Boot)
    /\ UNCHANGED <<updates, pte, memory, scratch, asked, slot, worker, irq, cpus>>

QuiesceSelf ==
    /\ CoordinatorStep("quiesce", "ask")
    /\ Identified(Boot, epoch) /\ Confirmed("Quiescing")
    /\ quiet' = [quiet EXCEPT ![Boot] = epoch]
    /\ asked' = {}
    /\ UNCHANGED <<gate, epoch, members, phase, requested, synced, tables, scratch, slot, worker,
                   irq, cpus>>

\* management::request: the slot is posted, then the doorbell rung.
Post(w, operation, argument) ==
    /\ slot' = [slot EXCEPT ![w] = [state |-> "posted", operation |-> operation,
                                    argument |-> argument]]
    /\ doorbell' = [doorbell EXCEPT ![w] = TRUE]
    /\ asked' = asked \cup {w}

Collect(w) ==
    /\ slot[w].state = "accepted"
    /\ slot' = [slot EXCEPT ![w] = FreeSlot]

AskWorker(w) ==
    /\ CoordinatorStep("ask", "asking")
    /\ w \notin asked
    /\ Post(w, "TlbQuiesce", epoch)
    /\ UNCHANGED <<updates, tables, scratch, worker, ipc, cpus>>

WorkerAdmitted(w) ==
    /\ CoordinatorStep("asking", "ask")
    /\ Collect(w)
    /\ UNCHANGED <<updates, tables, scratch, asked, worker, irq, cpus>>

WaitQuiet ==
    /\ CoordinatorStep("ask", "start")
    /\ asked = Workers /\ ~fatal /\ all_quiet
    /\ UNCHANGED <<updates, tables, scratch, asked, slot, worker, irq, cpus>>

\* start_replace, publish and finish check the state before they exchange the
\* phase; a worker may fail the protocol in between.
CheckReplace ==
    /\ CoordinatorStep("start", "replacing")
    /\ Identified(Boot, epoch) /\ Confirmed("Quiescing") /\ All(quiet)
    /\ UNCHANGED <<updates, tables, scratch, asked, slot, worker, irq, cpus>>

StartReplace ==
    /\ CoordinatorStep("replacing", "authority")
    /\ AdvancePhase("Quiescing", "Replacing")
    /\ UNCHANGED <<gate, epoch, members, requested, quiet, synced, tables, scratch, asked, slot,
                   worker, irq, cpus>>

CheckAuthority ==
    /\ CoordinatorStep("authority", "break")
    /\ may_write(epoch)
    /\ UNCHANGED <<updates, tables, scratch, asked, slot, worker, irq, cpus>>

BreakEntry ==
    /\ CoordinatorStep("break", "invalidate")
    /\ pte' = None
    /\ UNCHANGED <<updates, tlb, memory, scratch, asked, slot, worker, irq, cpus>>

\* Mutant: the broken entry is not synchronized before the new one is written.
InvalidateOldSkipped ==
    /\ CoordinatorStep("invalidate", "make")
    /\ UNCHANGED <<updates, tables, scratch, asked, slot, worker, irq, cpus>>

InvalidateOld ==
    /\ CoordinatorStep("invalidate", "make")
    /\ InvalidateAll
    /\ UNCHANGED <<updates, pte, memory, scratch, asked, slot, worker, irq, cpus>>

MakeEntry ==
    /\ CoordinatorStep("make", "invalidate2")
    /\ pte' = other
    /\ UNCHANGED <<updates, tlb, memory, scratch, asked, slot, worker, irq, cpus>>

InvalidateNew ==
    /\ CoordinatorStep("invalidate2", "publish")
    /\ InvalidateAll
    /\ UNCHANGED <<updates, pte, memory, scratch, asked, slot, worker, irq, cpus>>

CheckPublish ==
    /\ CoordinatorStep("publish", "publishing")
    /\ Identified(Boot, epoch) /\ Confirmed("Replacing")
    /\ UNCHANGED <<updates, tables, scratch, asked, slot, worker, irq, cpus>>

Publish ==
    /\ CoordinatorStep("publishing", "reread")
    /\ AdvancePhase("Replacing", "Synchronizing")
    /\ UNCHANGED <<gate, epoch, members, requested, quiet, synced, tables, scratch, asked, slot,
                   worker, irq, cpus>>

CoordinatorReread ==
    /\ CoordinatorStep("reread", "sync")
    /\ Read(Boot) = newValue
    /\ Cache(Boot)
    /\ UNCHANGED <<updates, pte, memory, scratch, asked, slot, worker, irq, cpus>>

CheckSynchronizing ==
    /\ CoordinatorStep("sync", "syncing")
    /\ Identified(Boot, epoch) /\ Confirmed("Synchronizing")
    /\ UNCHANGED <<updates, tables, scratch, asked, slot, worker, irq, cpus>>

SynchronizeSelf ==
    /\ CoordinatorStep("syncing", "drain")
    /\ synced' = [synced EXCEPT ![Boot] = epoch]
    /\ UNCHANGED <<gate, epoch, members, phase, requested, quiet, tables, scratch, asked, slot,
                   worker, irq, cpus>>

WaitSynced ==
    /\ CoordinatorStep("drain", "finish")
    /\ ~fatal /\ all_synced
    /\ UNCHANGED <<updates, tables, scratch, asked, slot, worker, irq, cpus>>

CheckFinish ==
    /\ CoordinatorStep("finish", "finishing")
    /\ Identified(Boot, epoch) /\ Confirmed("Synchronizing") /\ All(synced)
    /\ UNCHANGED <<updates, tables, scratch, asked, slot, worker, irq, cpus>>

FinishPhase ==
    /\ CoordinatorStep("finishing", "gate")
    /\ AdvancePhase("Synchronizing", "Complete")
    /\ UNCHANGED <<gate, epoch, members, requested, quiet, synced, tables, scratch, asked, slot,
                   worker, irq, cpus>>

FinishGate ==
    /\ CoordinatorStep("gate", "reuse")
    /\ gate' = 0
    /\ UNCHANGED <<epoch, members, phase, requested, quiet, synced, tables, scratch, asked, slot,
                   worker, irq, cpus>>

Reuse ==
    /\ CoordinatorStep("reuse", "poison")
    /\ reusable(epoch)
    /\ current' = other
    /\ oldValue' = newValue
    /\ UNCHANGED <<updates, tables, newValue, asked, slot, worker, irq, cpus>>

\* The page that was current before this epoch is now given another content.
PoisonOld ==
    /\ CoordinatorStep("poison", "idle")
    /\ memory' = [memory EXCEPT ![other] = Poison(newValue)]
    /\ UNCHANGED <<updates, pte, tlb, scratch, asked, slot, worker, irq, cpus>>

\* The checks of remap that can fail, by the step at which they are made.
CoordinatorErrs ==
    \/ cpc = "warm" /\ Read(Boot) # oldValue
    \/ cpc = "reread" /\ Read(Boot) # newValue
    \/ cpc = "quiesce" /\ ~(Identified(Boot, epoch) /\ Confirmed("Quiescing"))
    \/ cpc = "asking" /\ \/ "coordinator" \in Deadlines
                         \/ \E w \in Workers : slot[w].state = "rejected"
    \/ cpc = "ask" /\ asked = Workers /\ (phase = "Failed" \/ fatal \/ "coordinator" \in Deadlines)
    \/ cpc = "start" /\ ~(Identified(Boot, epoch) /\ Confirmed("Quiescing") /\ All(quiet))
    \/ cpc = "replacing" /\ phase # "Quiescing"
    \/ cpc = "authority" /\ ~may_write(epoch)
    \/ cpc = "publish" /\ ~(Identified(Boot, epoch) /\ Confirmed("Replacing"))
    \/ cpc = "publishing" /\ phase # "Replacing"
    \/ cpc = "sync" /\ ~(Identified(Boot, epoch) /\ Confirmed("Synchronizing"))
    \/ cpc = "drain" /\ (phase = "Failed" \/ fatal \/ "coordinator" \in Deadlines)
    \/ cpc = "finish" /\ ~(Identified(Boot, epoch) /\ Confirmed("Synchronizing") /\ All(synced))
    \/ cpc = "finishing" /\ phase # "Synchronizing"
    \/ cpc = "reuse" /\ ~reusable(epoch)

\* remap fails: the timeout build returns the error to timeout_acceptance, which
\* goes on only after a rendezvous timeout; every other build is fatal.
RemapFails ==
    /\ CoordinatorErrs
    /\ Fail
    /\ IF LateWorkers # {}
       THEN cpc' = IF cpc = "ask" /\ phase # "Failed" /\ ~fatal THEN "observe" ELSE "stopped"
       ELSE cpc' = "failing"
    /\ UNCHANGED <<gate, epoch, members, requested, quiet, synced, tables, scratch, asked, slot,
                   worker, irq, cpus>>

\* The rest of fatal, or of the panic: record, notify, halt.
RemapHalts ==
    /\ CoordinatorStep("failing", "halted")
    /\ fatal' = TRUE
    /\ RingAll
    /\ UNCHANGED <<updates, tables, scratch, asked, slot, worker, ipc, lifecycle, lateRejected>>

\* timeout_acceptance, after waiting for the late worker or its own deadline.
ObserveLate ==
    /\ CoordinatorStep("observe", "halted")
    /\ lateRejected \/ "coordinator" \in Deadlines
    /\ fatal' = TRUE
    /\ RingAll
    /\ UNCHANGED <<updates, tables, scratch, asked, slot, worker, ipc, lifecycle, lateRejected>>

\* The doorbell of another CPU's notify_fatal stops CPU0 wherever IRQs are on.
CoordinatorStops ==
    /\ fatal
    /\ cpc \in (RemapSteps \cup ParkSteps) \ LockedSteps
    /\ cpc' = "halted"
    /\ UNCHANGED <<updates, tables, scratch, asked, slot, worker, irq, cpus>>

(***************************************************************************)
(* park_workers, on CPU0                                                   *)
(***************************************************************************)

StartPark ==
    /\ CoordinatorStep("idle", "park")
    /\ LateWorkers = {}
    /\ \E w \in Workers : lifecycle[w] = "Online"
    /\ asked' = {}
    /\ UNCHANGED <<updates, tables, scratch, slot, worker, irq, cpus>>

ParkWorker(w) ==
    /\ CoordinatorStep("park", "parking")
    /\ w \notin asked
    /\ Post(w, "Park", 0)
    /\ UNCHANGED <<updates, tables, scratch, worker, ipc, cpus>>

WorkerParked(w) ==
    /\ CoordinatorStep("parking", "park")
    /\ Collect(w)
    /\ lifecycle[w] = "Parked"
    /\ UNCHANGED <<updates, tables, scratch, asked, worker, irq, cpus>>

\* The snapshot under gate 2 changes nothing and is taken at once.
ParkSnapshot ==
    /\ CoordinatorStep("park", "idle")
    /\ asked = Workers
    /\ phase # "Failed" /\ gate = 0 /\ ~fatal
    /\ \A w \in Workers : lifecycle[w] = "Parked"
    /\ UNCHANGED <<updates, tables, scratch, asked, slot, worker, irq, cpus>>

\* park_workers returns an error, and its caller panics.
ParkFails ==
    /\ \/ /\ cpc = "parking"
          /\ "coordinator" \in Deadlines \/ \E w \in Workers : slot[w].state = "rejected"
       \/ cpc = "park" /\ asked = Workers /\ (phase = "Failed" \/ gate # 0 \/ fatal)
    /\ cpc' = "halted"
    /\ fatal' = TRUE
    /\ RingAll
    /\ UNCHANGED <<updates, tables, scratch, asked, slot, worker, ipc, lifecycle, lateRejected>>

(***************************************************************************)
(* The management IRQ of a worker: dispatch, then stop_if_requested        *)
(***************************************************************************)

IrqStep(w, from, to) ==
    /\ ipc[w] = from
    /\ ipc' = [ipc EXCEPT ![w] = to]

Reply(w, outcome) == slot' = [slot EXCEPT ![w].state = outcome]

\* Mutant: the holding loop sleeps and polls with IRQ enabled.
TakeIrqUnmasked(w) ==
    /\ ipc[w] = "none" /\ wpc[w] \in UnmaskedSteps \cup {"pending", "wfi"}
    /\ doorbell[w]
    /\ doorbell' = [doorbell EXCEPT ![w] = FALSE]
    /\ ipc' = [ipc EXCEPT ![w] = IF slot[w].state # "posted" THEN "return"
                                 ELSE IF slot[w].operation = "Park" THEN "park" ELSE "identify"]
    /\ UNCHANGED <<updates, tables, scratch, coordinator, slot, worker, cpus>>

TakeIrq(w) ==
    /\ ipc[w] = "none" /\ wpc[w] \in UnmaskedSteps
    /\ doorbell[w]
    /\ doorbell' = [doorbell EXCEPT ![w] = FALSE]
    /\ ipc' = [ipc EXCEPT ![w] = IF slot[w].state # "posted" THEN "return"
                                 ELSE IF slot[w].operation = "Park" THEN "park" ELSE "identify"]
    /\ UNCHANGED <<updates, tables, scratch, coordinator, slot, worker, cpus>>

AdmitIdentify(w) ==
    /\ \/ Identified(w, slot[w].argument) /\ IrqStep(w, "identify", "confirm") /\ UNCHANGED slot
       \/ ~Identified(w, slot[w].argument) /\ IrqStep(w, "identify", "return") /\ Reply(w, "rejected")
    /\ UNCHANGED <<updates, tables, scratch, coordinator, doorbell, worker, cpus>>

AdmitConfirm(w) ==
    /\ IF Confirmed("Quiescing") /\ requested[w] < slot[w].argument
       THEN IrqStep(w, "confirm", "store") /\ UNCHANGED slot
       ELSE IrqStep(w, "confirm", "return") /\ Reply(w, "rejected")
    /\ UNCHANGED <<updates, tables, scratch, coordinator, doorbell, worker, cpus>>

AdmitStore(w) ==
    /\ IrqStep(w, "store", "return")
    /\ requested' = [requested EXCEPT ![w] = slot[w].argument]
    /\ Reply(w, "accepted")
    /\ UNCHANGED <<gate, epoch, members, phase, quiet, synced, tables, scratch, coordinator,
                   doorbell, worker, cpus>>

\* try_membership_change, up to its compare_exchange on the gate.
ParkClaim(w) ==
    /\ IF phase # "Failed" /\ gate = 0
       THEN IrqStep(w, "park", "parking") /\ gate' = 2 /\ UNCHANGED slot
       ELSE IrqStep(w, "park", "return") /\ Reply(w, "rejected") /\ UNCHANGED gate
    /\ UNCHANGED <<epoch, members, phase, requested, quiet, synced, tables, scratch, coordinator,
                   doorbell, worker, cpus>>

\* Its second look at the phase, management_park and finish_membership_change.
ParkFinish(w) ==
    /\ IrqStep(w, "parking", "return")
    /\ IF phase # "Failed"
       THEN lifecycle' = [lifecycle EXCEPT ![w] = "Parked"] /\ gate' = 0 /\ Reply(w, "accepted")
       ELSE Reply(w, "rejected") /\ UNCHANGED <<gate, lifecycle>>
    /\ UNCHANGED <<epoch, members, phase, requested, quiet, synced, tables, scratch, coordinator,
                   doorbell, worker, fatal, lateRejected>>

\* stop_if_requested: a worker that sees a fatal record parks and never returns.
Stop(w) ==
    /\ fatal
    /\ wpc' = [wpc EXCEPT ![w] = "halted"]
    /\ lifecycle' = [lifecycle EXCEPT ![w] = "Parked"]

IrqReturn(w) ==
    /\ IrqStep(w, "return", "none")
    /\ Stop(w) \/ (~fatal /\ UNCHANGED <<wpc, lifecycle>>)
    /\ UNCHANGED <<updates, tables, scratch, coordinator, slot, wepoch, doorbell, fatal,
                   lateRejected>>

IrqNext(w) ==
    \/ TakeIrq(w) \/ AdmitIdentify(w) \/ AdmitConfirm(w) \/ AdmitStore(w)
    \/ ParkClaim(w) \/ ParkFinish(w) \/ IrqReturn(w)

(***************************************************************************)
(* The holding loop (management.rs, worker) and the update (tlb_test.rs,   *)
(* worker) on a worker CPU                                                 *)
(***************************************************************************)

\* The main context runs while no handler does.
WorkerStep(w, from, to) ==
    /\ ipc[w] = "none"
    /\ wpc[w] = from
    /\ wpc' = [wpc EXCEPT ![w] = to]

HoldingStop(w) ==
    /\ ipc[w] = "none" /\ wpc[w] = "top"
    /\ Stop(w)
    /\ UNCHANGED <<updates, tables, scratch, coordinator, slot, wepoch, irq, fatal, lateRejected>>

HoldingContinue(w) ==
    /\ WorkerStep(w, "top", "pending")
    /\ ~fatal
    /\ UNCHANGED <<updates, tables, scratch, coordinator, slot, wepoch, irq, cpus>>

HoldingPending(w) ==
    /\ WorkerStep(w, "pending", IF pending(w) THEN "enter" ELSE "wfi")
    /\ UNCHANGED <<updates, tables, scratch, coordinator, slot, wepoch, irq, cpus>>

\* wfi ends when an interrupt is pending, masked or not.
WakeUp(w) ==
    /\ WorkerStep(w, "wfi", "open")
    /\ doorbell[w]
    /\ UNCHANGED <<updates, tables, scratch, coordinator, slot, wepoch, irq, cpus>>

\* The isb after daifclr takes a pending interrupt before the loop masks again.
MaskAgain(w) ==
    /\ WorkerStep(w, "open", "top")
    /\ ~doorbell[w]
    /\ UNCHANGED <<updates, tables, scratch, coordinator, slot, wepoch, irq, cpus>>

\* A late worker of the timeout build sleeps and goes straight to quiesce.
EnterUpdate(w) ==
    /\ WorkerStep(w, "enter", IF w \in LateWorkers THEN "identify" ELSE "warm")
    /\ wepoch' = [wepoch EXCEPT ![w] = epoch]
    /\ UNCHANGED <<updates, tables, scratch, coordinator, slot, irq, cpus>>

WarmOld(w) ==
    /\ Read(w) = oldValue
    /\ Cache(w)
    /\ WorkerStep(w, "warm", "identify")
    /\ UNCHANGED <<updates, pte, memory, scratch, coordinator, slot, wepoch, irq, cpus>>

QuiesceIdentify(w) ==
    /\ Identified(w, wepoch[w])
    /\ WorkerStep(w, "identify", "confirm")
    /\ UNCHANGED <<updates, tables, scratch, coordinator, slot, wepoch, irq, cpus>>

QuiesceConfirm(w) ==
    /\ Confirmed("Quiescing") /\ requested[w] = wepoch[w]
    /\ WorkerStep(w, "confirm", "store")
    /\ UNCHANGED <<updates, tables, scratch, coordinator, slot, wepoch, irq, cpus>>

QuiesceStore(w) ==
    /\ WorkerStep(w, "store", IF w \in LateWorkers THEN "early" ELSE "await")
    /\ quiet' = [quiet EXCEPT ![w] = wepoch[w]]
    /\ UNCHANGED <<gate, epoch, members, phase, requested, synced, tables, scratch, coordinator,
                   slot, wepoch, irq, cpus>>

AwaitSynchronizing(w) ==
    /\ WorkerStep(w, "await", "reread")
    /\ phase = "Synchronizing" /\ ~fatal
    /\ UNCHANGED <<updates, tables, scratch, coordinator, slot, wepoch, irq, cpus>>

RereadNew(w) ==
    /\ Read(w) = newValue
    /\ Cache(w)
    /\ WorkerStep(w, "reread", "identify2")
    /\ UNCHANGED <<updates, pte, memory, scratch, coordinator, slot, wepoch, irq, cpus>>

SynchronizeIdentify(w) ==
    /\ Identified(w, wepoch[w])
    /\ WorkerStep(w, "identify2", "confirm2")
    /\ UNCHANGED <<updates, tables, scratch, coordinator, slot, wepoch, irq, cpus>>

SynchronizeConfirm(w) ==
    /\ Confirmed("Synchronizing")
    /\ WorkerStep(w, "confirm2", "store2")
    /\ UNCHANGED <<updates, tables, scratch, coordinator, slot, wepoch, irq, cpus>>

SynchronizeStore(w) ==
    /\ WorkerStep(w, "store2", "top")
    /\ synced' = [synced EXCEPT ![w] = wepoch[w]]
    /\ UNCHANGED <<gate, epoch, members, phase, requested, quiet, tables, scratch, coordinator,
                   slot, wepoch, irq, cpus>>

\* A late arrival that the failed protocol refuses, and in the timeout build a
\* worker whose wait saw the failure, return to the holding loop.
WorkerReturns(w) ==
    /\ \/ /\ w \in LateWorkers
          /\ \/ ~Identified(w, wepoch[w]) /\ WorkerStep(w, "identify", "top")
             \/ /\ ~(Confirmed("Quiescing") /\ requested[w] = wepoch[w])
                /\ WorkerStep(w, "confirm", "top")
          /\ lateRejected' = TRUE
       \/ /\ LateWorkers # {}
          /\ phase = "Failed"
          /\ WorkerStep(w, "await", "top")
          /\ UNCHANGED lateRejected
    /\ UNCHANGED <<updates, tables, scratch, coordinator, slot, wepoch, irq, lifecycle, fatal>>

\* The checks of a worker that can fail, by the step at which they are made.
WorkerErrs(w) ==
    \/ wpc[w] = "early"
    \/ wpc[w] = "warm" /\ Read(w) # oldValue
    \/ wpc[w] = "reread" /\ Read(w) # newValue
    \/ /\ w \notin LateWorkers
       /\ \/ wpc[w] = "identify" /\ ~Identified(w, wepoch[w])
          \/ wpc[w] = "confirm" /\ ~(Confirmed("Quiescing") /\ requested[w] = wepoch[w])
    \/ /\ wpc[w] = "await"
       /\ \/ LateWorkers = {} /\ phase = "Failed"
          \/ phase # "Failed" /\ (fatal \/ "worker" \in Deadlines)
    \/ wpc[w] = "identify2" /\ ~Identified(w, wepoch[w])
    \/ wpc[w] = "confirm2" /\ ~Confirmed("Synchronizing")

\* fatal: fail the protocol, then record, notify every other CPU and halt.
WorkerFails(w) ==
    /\ ipc[w] = "none"
    /\ WorkerErrs(w)
    /\ wpc' = [wpc EXCEPT ![w] = "failing"]
    /\ Fail
    /\ UNCHANGED <<gate, epoch, members, requested, quiet, synced, tables, scratch, coordinator,
                   slot, wepoch, irq, cpus>>

WorkerRecords(w) ==
    /\ WorkerStep(w, "failing", "failed")
    /\ fatal' = TRUE
    /\ doorbell' = [x \in Workers |-> x # w \/ doorbell[x]]
    /\ UNCHANGED <<updates, tables, scratch, coordinator, slot, wepoch, ipc, lifecycle,
                   lateRejected>>

CoordinatorNext ==
    \/ BeginGate \/ BeginMembers \/ BeginFails \/ BeginEpoch \/ BeginQuiescing
    \/ PrepareNew \/ CoordinatorWarm \/ QuiesceSelf
    \/ \E w \in Workers : AskWorker(w) \/ WorkerAdmitted(w)
    \/ WaitQuiet \/ CheckReplace \/ StartReplace \/ CheckAuthority
    \/ BreakEntry \/ InvalidateOld \/ MakeEntry \/ InvalidateNew
    \/ CheckPublish \/ Publish \/ CoordinatorReread \/ CheckSynchronizing \/ SynchronizeSelf
    \/ WaitSynced \/ CheckFinish \/ FinishPhase \/ FinishGate \/ Reuse \/ PoisonOld
    \/ RemapFails \/ RemapHalts \/ ObserveLate \/ CoordinatorStops
    \/ StartPark \/ (\E w \in Workers : ParkWorker(w) \/ WorkerParked(w))
    \/ ParkSnapshot \/ ParkFails

WorkerNext(w) ==
    \/ HoldingStop(w) \/ HoldingContinue(w) \/ HoldingPending(w) \/ WakeUp(w) \/ MaskAgain(w)
    \/ EnterUpdate(w) \/ WarmOld(w) \/ QuiesceIdentify(w) \/ QuiesceConfirm(w) \/ QuiesceStore(w)
    \/ AwaitSynchronizing(w) \/ RereadNew(w)
    \/ SynchronizeIdentify(w) \/ SynchronizeConfirm(w) \/ SynchronizeStore(w)
    \/ WorkerReturns(w) \/ WorkerFails(w) \/ WorkerRecords(w)

Next ==
    /\ UNCHANGED build
    /\ \/ CoordinatorNext
       \/ \E w \in Workers : WorkerNext(w) \/ IrqNext(w)
       \/ \E c \in CPUs : TlbWalk(c)

Spec == Init /\ [][Next]_vars

\* CPU0 and each worker keep executing, and an enabled interrupt is taken.
\* Translations may be cached or evicted at will.  Progress is claimed, and
\* fairness assumed, only where no wait expires.
Untimed == LateWorkers = {} /\ Deadlines = {}

Fairness ==
    /\ WF_vars(Untimed /\ UNCHANGED build /\ CoordinatorNext)
    /\ \A w \in Workers : WF_vars(Untimed /\ UNCHANGED build /\ (WorkerNext(w) \/ IrqNext(w)))

FairSpec == Spec /\ Fairness

(***************************************************************************)
(* Properties                                                              *)
(***************************************************************************)

\* The types of the protocol state, the tables, the coordinator and the workers.
TypeOK ==
    /\ UpdateTypeOK
    /\ pte \in Pages \cup {None} /\ tlb \in [CPUs -> Pages \cup {None}]
    /\ memory \in [Pages -> -MaxEpoch - 1 .. MaxEpoch \cup {None}]
    /\ current \in Pages /\ oldValue \in Signatures /\ newValue \in Signatures \cup {None}
    /\ cpc \in {"idle", "halted", "stopped", "observe"} \cup RemapSteps \cup ParkSteps
    /\ asked \subseteq Workers
    /\ slot \in [Workers -> [state : {"free", "posted", "accepted", "rejected"},
                             operation : {"none", "TlbQuiesce", "Park"}, argument : Epochs]]
    /\ doorbell \in [Workers -> BOOLEAN]
    /\ wpc \in [Workers -> UnmaskedSteps \cup MaskedSteps]
    /\ wepoch \in [Workers -> Epochs]
    /\ ipc \in [Workers -> {"none", "identify", "confirm", "store", "park", "parking", "return"}]
    /\ lifecycle \in [Workers -> {"Online", "Parked"}]
    /\ fatal \in BOOLEAN /\ lateRejected \in BOOLEAN

\* Break-before-make: the descriptor and all TLBs together never hold two
\* different backing pages (replace_data_page, __el2_scratch_sync), and a page is
\* written only while no CPU can reach it through the scratch mapping: the new
\* signature goes to a page nobody maps, and the old page is repurposed after
\* every translation of it is gone (remap: "Deliberately repurpose the old page
\* only after hardware *and* software completion").
BreakBeforeMake ==
    /\ Cardinality(({pte} \cup {tlb[c] : c \in CPUs}) \ {None}) <= 1
    /\ cpc \in {"prepare", "poison"} => \A c \in CPUs : pte # other /\ tlb[c] # other

\* Every scratch read of an update sees exactly the expected signature: no
\* stale translation, no fault on the broken entry, no poisoned page.
ScratchReadsAreExact ==
    /\ \A w \in Workers :
        /\ wpc[w] = "warm" => Read(w) = oldValue
        /\ wpc[w] = "reread" => Read(w) = newValue
    /\ cpc = "warm" => Read(Boot) = oldValue
    /\ cpc = "reread" => Read(Boot) = newValue

\* "Sticky failure: do not unlock, retry, reclaim, or accept late completion":
\* after a failure the phase stays, no page is repurposed, the gate stays owned
\* and only a replacement already under the table lock is completed.
FailureIsSticky ==
    [][phase = "Failed" =>
        /\ phase' = "Failed"
        /\ UNCHANGED <<memory, current, epoch>>
        /\ gate = 1 => gate' = 1
        /\ pte' # pte => cpc \in LockedSteps]_vars

\* A late worker of the timeout build that was refused left the old mapping and
\* backing in place (timeout_acceptance: "old_mapping_retained=true").
LateArrivalIsRefused ==
    lateRejected => /\ phase = "Failed" /\ pte = current
                    /\ memory[current] = oldValue
                    /\ ~reusable(epoch)

\* Without expired deadlines every update that began completes, with workers
\* that sleep in wfi between updates and whether or not they are Parked;
\* park_workers completes too, and its workers still take part in later updates;
\* the only failure is the exhausted epoch, after all updates completed.
UpdatesComplete ==
    /\ (Untimed /\ cpc \in {"prepare", "park"}) ~> (cpc = "idle")
    /\ [](/\ TypeOK
         /\ Untimed /\ phase = "Failed" =>
                epoch = MaxEpoch /\ All(synced) /\ pte = current)

=============================================================================
