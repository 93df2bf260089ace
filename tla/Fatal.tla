------------------------------- MODULE Fatal -------------------------------
(***************************************************************************)
(* What a CPU does when it panics or traps, whatever it was doing: the     *)
(* first failure of a CPU is recorded (tvisor_util/failure.rs), the CPUs   *)
(* whose interrupt interface is ready get a doorbell, a message is printed *)
(* if the console can be had without waiting, and the CPU halts            *)
(* (exception.rs, main.rs panic, management.rs notify_fatal).              *)
(*                                                                         *)
(* The boot CPU runs masked from its first instruction, but for the time   *)
(* it activates and parks the workers, and takes doorbells as guest exits  *)
(* (boot.rs, guest.rs).  A worker waits masked for its activation, sets up *)
(* its interface, and then sleeps with a look at the shared flag before    *)
(* (management.rs worker).  CPUs print under the IRQ-save lock of sync.rs  *)
(* and allocate under the heap's plain lock, which handlers never take.  A *)
(* trap masks interrupts and a panic does not; neither is masked itself,   *)
(* so both can happen inside a critical section and inside another         *)
(* failure.  Bounds: each CPU prints and allocates a few times, and the    *)
(* failures are counted.                                                   *)
(***************************************************************************)
EXTENDS Integers, FiniteSets

CONSTANTS
    CPUs,
    Boot,           \* CPU0; the others are workers
    SharedSlot,     \* the record of a CPU whose TPIDR_EL2 is not set
    None,
    MaxUses,        \* bound: critical sections entered by a CPU
    MaxFaults       \* bound: failures in all

ASSUME NoneAssumption == None \notin CPUs

ASSUME BootAssumption == Boot \in CPUs /\ SharedSlot \notin CPUs

VARIABLES
    phase,                  \* how far the boot CPU is
    active, ready,          \* ACTIVATE, and CpuRuntime.ready
    uart, heap,             \* the owners of UART_TX and of the heap's state
    masked,                 \* PSTATE.I of each CPU
    saved,                  \* the state in a CPU's guard
    context,                \* what a CPU runs: main, irq, fatal, halted
    below,                  \* what the interrupt interrupted
    pc,                     \* where main is
    fpc, fault,             \* where the failure path is, and its failure
    uses, faults,
    pending,                \* a management doorbell is pending at the CPU
    fatal,                  \* FatalState.fatal
    slot,                   \* the record a CPU uses
    state, words,           \* FailureRecord
    first,                  \* the failure that claimed a record
    blocks, live            \* blocks of the heap, live_allocations

managed == <<phase, active, ready>>
locks == <<uart, heap, masked, saved>>
records == <<fatal, slot, state, words, first>>
arena == <<blocks, live>>
vars == <<managed, locks, context, below, pc, fpc, fault, uses, faults, pending, records, arena>>

Workers == CPUs \ {Boot}
Slots == CPUs \cup {SharedSlot}
\* Two of the four words, kind and address, stand for all.
Fields == {"kind", "address"}

\* main masks interrupts before anything else; the workers are in the firmware.
Init ==
    /\ phase = "early" /\ active = {} /\ ready = {}
    /\ uart = None /\ heap = None
    /\ masked = [c \in CPUs |-> TRUE] /\ saved = masked
    /\ context = [c \in CPUs |-> "main"] /\ below = context
    /\ pc = [c \in CPUs |-> IF c = Boot THEN "idle" ELSE "off"] /\ fpc = [c \in CPUs |-> "idle"]
    /\ fault = [c \in CPUs |-> 0] /\ uses = fault /\ faults = 0
    /\ pending = [c \in CPUs |-> FALSE]
    /\ slot = [c \in CPUs |-> IF c = Boot THEN SharedSlot ELSE c]
    /\ fatal = FALSE /\ state = [s \in Slots |-> 0]
    /\ words = [s \in Slots |-> [f \in Fields |-> 0]] /\ first = [s \in Slots |-> 0]
    /\ blocks = 0 /\ live = 0

At(c, from, to) == context[c] = "main" /\ pc[c] = from /\ pc' = [pc EXCEPT ![c] = to]
Rest == <<managed, context, below, fpc, fault, faults, pending, records>>
Quiet == <<below, fpc, fault, uses, faults, records, arena>>

-----------------------------------------------------------------------------
(* The boot CPU. *)

Proceed(c, from, to) == c = Boot /\ phase = from /\ phase' = to

\* __enter_private_el2 sets TPIDR_EL2.
TakeOver(c) ==
    /\ Proceed(c, "early", "private") /\ At(c, "idle", "idle")
    /\ slot' = [slot EXCEPT ![c] = c]
    /\ UNCHANGED <<active, ready, locks, context, below, fpc, fault, uses, faults, pending,
                   fatal, state, words, first, arena>>

\* initialize_boot.
InitializeBoot(c) ==
    /\ Proceed(c, "private", "managed") /\ At(c, "idle", "idle")
    /\ ready' = ready \cup {c}
    /\ UNCHANGED <<active, locks, context, pending, Quiet>>

\* start_all releases one worker after the other.
StartWorker(c) ==
    /\ c = Boot /\ phase = "managed" /\ context[c] = "main" /\ pc[c] = "idle"
    /\ \E w \in Workers : At(w, "off", "parked")
    /\ UNCHANGED <<managed, locks, context, pending, Quiet>>

\* activate_secondary runs unmasked, once every worker is up, and so does park_workers, the
\* next call.  The first ...
Open(c) ==
    /\ \A w \in Workers : pc[w] # "off"
    /\ Proceed(c, "managed", "open") /\ At(c, "idle", "idle")
    /\ masked' = [masked EXCEPT ![c] = FALSE]
    /\ UNCHANGED <<active, ready, uart, heap, saved, context, pending, Quiet>>

\* ... activates one worker, when the one before is ready, ...
Activate(c) ==
    /\ c = Boot /\ phase = "open" /\ At(c, "idle", "idle")
    /\ active \subseteq ready
    /\ \E w \in Workers \ active : active' = active \cup {w}
    /\ UNCHANGED <<phase, ready, locks, context, pending, Quiet>>

\* ... and both restore the mask on every way out.  A boot whose activation fails is over; a
\* park_workers that fails panics.
Close(c) ==
    /\ \/ Workers \subseteq ready /\ Proceed(c, "open", "guest") /\ At(c, "idle", "idle")
       \/ Proceed(c, "open", "failed") /\ At(c, "idle", "ended")
    /\ masked' = [masked EXCEPT ![c] = TRUE]
    /\ UNCHANGED <<active, ready, uart, heap, saved, context, pending, Quiet>>

\* A boot that failed, or whose guest is over, ends in a loop of its own, masked.
GiveUp(c) ==
    /\ c = Boot /\ phase # "open" /\ At(c, "idle", "ended")
    /\ UNCHANGED <<managed, locks, context, pending, Quiet>>

\* run_vcpu_with_mmio: the guest runs until it traps ...
EnterGuest(c) ==
    /\ c = Boot /\ phase = "guest" /\ ~pending[c] /\ At(c, "idle", "guest")
    /\ UNCHANGED <<managed, locks, context, pending, Quiet>>

TrapExit(c) ==
    /\ At(c, "guest", "idle")
    /\ UNCHANGED <<managed, locks, context, pending, Quiet>>

\* stop_if_requested: a CPU may also have been told to stop, or not have been answered.
StopIfRequested(c, next) ==
    \E stopped \in BOOLEAN :
        context' = [context EXCEPT ![c] = IF stopped \/ fatal THEN "halted" ELSE next]

\* ... or a doorbell arrives: handle_irq.  One that is pending when the guest is entered is
\* taken before the guest's first instruction.
IrqExit(c) ==
    /\ c = Boot /\ phase = "guest" /\ pending[c]
    /\ At(c, "guest", "idle") \/ At(c, "idle", "idle")
    /\ pending' = [pending EXCEPT ![c] = FALSE]
    /\ StopIfRequested(c, "main")
    /\ UNCHANGED <<managed, locks, Quiet>>

-----------------------------------------------------------------------------
(* A worker. *)

\* initialize_local, with ready at its end.
Join(c) ==
    /\ c \in active /\ At(c, "parked", "online")
    /\ ready' = ready \cup {c}
    /\ UNCHANGED <<phase, active, locks, context, pending, Quiet>>

Unmask(c, from, to) ==
    /\ At(c, from, to)
    /\ masked' = [masked EXCEPT ![c] = FALSE]
    /\ UNCHANGED <<managed, uart, heap, saved, context, pending, Quiet>>

\* management_online, then daifclr; without the first the worker halts.
Online(c) ==
    \/ Unmask(c, "online", "idle")
    \/ /\ At(c, "online", "online")
       /\ context' = [context EXCEPT ![c] = "halted"]
       /\ UNCHANGED <<managed, locks, pending, Quiet>>


\* The worker's loop: interrupts are masked before the look at the shared flag.
Poll(c) ==
    /\ c # Boot /\ At(c, "idle", "asleep")
    /\ masked' = [masked EXCEPT ![c] = TRUE]
    /\ StopIfRequested(c, "main")
    /\ UNCHANGED <<managed, uart, heap, saved, pending, Quiet>>

\* wfi ends for a pending doorbell, masked or not.
Wake(c) == pending[c] /\ Unmask(c, "asleep", "idle")

\* Or there is work to do instead of sleeping, which prints and allocates, unmasked.
Work(c) == c # Boot /\ Unmask(c, "asleep", "work")

EndWork(c) ==
    /\ At(c, "work", "idle")
    /\ UNCHANGED <<managed, locks, context, pending, Quiet>>

\* Where a CPU is before and after it prints or allocates.
Base(c) == IF c = Boot THEN "idle" ELSE "work"

-----------------------------------------------------------------------------
(* The console: IrqSpinLock. *)

\* Mutant: interrupts are masked once the lock is held.
LockLate(c) ==
    /\ uses[c] < MaxUses /\ At(c, Base(c), "spin")
    /\ uses' = [uses EXCEPT ![c] = @ + 1]
    /\ saved' = [saved EXCEPT ![c] = masked[c]]
    /\ UNCHANGED <<Rest, uart, heap, masked, arena>>

\* lock: save and mask, then spin.
Lock(c) ==
    /\ uses[c] < MaxUses /\ At(c, Base(c), "spin")
    /\ uses' = [uses EXCEPT ![c] = @ + 1]
    /\ saved' = [saved EXCEPT ![c] = masked[c]]
    /\ masked' = [masked EXCEPT ![c] = TRUE]
    /\ UNCHANGED <<Rest, uart, heap, arena>>

Acquire(c) ==
    /\ uart = None /\ At(c, "spin", "write")
    /\ uart' = c
    /\ UNCHANGED <<Rest, heap, masked, saved, uses, arena>>

\* Drop: the lock is released before interrupts are restored.
Release(c) ==
    /\ At(c, "write", "restore")
    /\ uart' = None
    /\ UNCHANGED <<Rest, heap, masked, saved, uses, arena>>

Restore(c) ==
    /\ At(c, "restore", Base(c))
    /\ masked' = [masked EXCEPT ![c] = saved[c]]
    /\ saved' = [saved EXCEPT ![c] = TRUE]
    /\ UNCHANGED <<Rest, uart, heap, uses, arena>>

-----------------------------------------------------------------------------
(* The heap: a plain lock, interrupts stay as they are. *)

HeapSpin(c) ==
    /\ uses[c] < MaxUses /\ At(c, Base(c), "heap")
    /\ uses' = [uses EXCEPT ![c] = @ + 1]
    /\ UNCHANGED <<Rest, locks, arena>>

HeapLock(c) ==
    /\ heap = None
    /\ \E call \in {"alloc", "dealloc"} :
          /\ call = "dealloc" => blocks > 0
          /\ At(c, "heap", call)
    /\ heap' = c
    /\ UNCHANGED <<Rest, uart, masked, saved, uses, arena>>

\* alloc and dealloc change the arena, then the counter, under the lock; an
\* allocation that does not fit changes neither.
Alloc(c) ==
    \/ /\ At(c, "alloc", "count up")
       /\ blocks' = blocks + 1
       /\ UNCHANGED <<Rest, locks, uses, live>>
    \/ /\ At(c, "alloc", Base(c))
       /\ heap' = None
       /\ UNCHANGED <<Rest, uart, masked, saved, uses, arena>>

Dealloc(c) ==
    /\ At(c, "dealloc", "count down")
    /\ blocks' = blocks - 1
    /\ UNCHANGED <<Rest, locks, uses, live>>

Count(c) ==
    /\ \E up \in BOOLEAN :
          /\ At(c, IF up THEN "count up" ELSE "count down", Base(c))
          /\ live' = IF up THEN live + 1 ELSE live - 1
    /\ heap' = None
    /\ UNCHANGED <<Rest, uart, masked, saved, uses, blocks>>

-----------------------------------------------------------------------------
(* Interrupts and failures. *)

\* The doorbell is taken wherever interrupts are enabled.
TakeIrq(c) ==
    /\ pending[c] /\ ~masked[c] /\ context[c] \in {"main", "fatal"}
    /\ context' = [context EXCEPT ![c] = "irq"]
    /\ below' = [below EXCEPT ![c] = context[c]]
    /\ masked' = [masked EXCEPT ![c] = TRUE]
    /\ pending' = [pending EXCEPT ![c] = FALSE]
    /\ UNCHANGED <<managed, uart, heap, saved, pc, fpc, fault, uses, faults, records, arena>>

\* current_irq: stop_if_requested, and the mask of the interrupted code otherwise.
Handle(c) ==
    /\ context[c] = "irq"
    /\ StopIfRequested(c, below[c])
    /\ below' = [below EXCEPT ![c] = "main"]
    /\ masked' = [masked EXCEPT ![c] = context'[c] = "halted"]
    /\ UNCHANGED <<managed, uart, heap, saved, pc, fpc, fault, uses, faults, pending, records, arena>>

\* A trap or a panic, anywhere a CPU runs; the failure path never returns.
Fail(c) ==
    /\ faults < MaxFaults /\ context[c] # "halted" /\ pc[c] \notin {"off", "ended"}
    /\ faults' = faults + 1
    /\ fault' = [fault EXCEPT ![c] = faults + 1]
    /\ context' = [context EXCEPT ![c] = "fatal"]
    /\ fpc' = [fpc EXCEPT ![c] = "flag"]
    /\ \E trap \in BOOLEAN : masked' = [masked EXCEPT ![c] = @ \/ trap]
    /\ UNCHANGED <<managed, uart, heap, saved, below, pc, uses, pending, records, arena>>

In(c, from, to) == context[c] = "fatal" /\ fpc[c] = from /\ fpc' = [fpc EXCEPT ![c] = to]
Others == <<managed, context, below, pc, fault, uses, faults, arena>>

\* FatalState::record: the flag is up before the record is touched.
RaiseFlag(c) ==
    /\ In(c, "flag", "claim")
    /\ fatal' = TRUE
    /\ UNCHANGED <<Others, locks, pending, slot, state, words, first>>

\* Mutant: the state is tested, not exchanged.
ClaimAny(c) ==
    LET s == slot[c]
    IN /\ In(c, "claim", IF state[s] < 2 THEN "kind" ELSE "notify")
       /\ state' = [state EXCEPT ![s] = IF @ = 0 THEN 1 ELSE @]
       /\ first' = [first EXCEPT ![s] = IF @ = 0 THEN fault[c] ELSE @]
       /\ UNCHANGED <<Others, locks, pending, fatal, slot, words>>

\* FailureRecord::record: only the first failure gets the record.
Claim(c) ==
    LET s == slot[c]
    IN /\ In(c, "claim", IF state[s] = 0 THEN "kind" ELSE "notify")
       /\ state' = [state EXCEPT ![s] = IF @ = 0 THEN 1 ELSE @]
       /\ first' = [first EXCEPT ![s] = IF @ = 0 THEN fault[c] ELSE @]
       /\ UNCHANGED <<Others, locks, pending, fatal, slot, words>>

\* The relaxed stores and the release of the state.
Store(c) ==
    /\ \E step \in {<<"kind", "address">>, <<"address", "ready">>} :
          /\ In(c, step[1], step[2])
          /\ words' = [words EXCEPT ![slot[c]][step[1]] = fault[c]]
    /\ UNCHANGED <<Others, locks, pending, fatal, slot, state, first>>

Publish(c) ==
    /\ In(c, "ready", "notify")
    /\ state' = [state EXCEPT ![slot[c]] = 2]
    /\ UNCHANGED <<Others, locks, pending, fatal, slot, words, first>>

\* notify_fatal: a doorbell for everyone else who is ready.  A worker that could not set up its
\* interface halts without a message.
Notify(c) ==
    /\ \E next \in {"try", "halt"} :
          /\ next = "halt" => c \in active /\ pc[c] = "parked"
          /\ In(c, "notify", next)
    /\ pending' = [d \in CPUs |-> pending[d] \/ (d # c /\ d \in ready)]
    /\ UNCHANGED <<Others, locks, records>>

\* emergency_print: one attempt; a failed one restores the mask at once.
TryLock(c) ==
    \/ /\ uart = None /\ In(c, "try", "emit")
       /\ uart' = c
       /\ saved' = [saved EXCEPT ![c] = masked[c]]
       /\ masked' = [masked EXCEPT ![c] = TRUE]
       /\ UNCHANGED <<Others, heap, pending, records>>
    \/ /\ uart # None /\ In(c, "try", "halt")
       /\ UNCHANGED <<Others, locks, pending, records>>

\* A bounded message, then the guard is dropped.
Emit(c) ==
    /\ In(c, "emit", "halt")
    /\ uart' = None
    /\ masked' = [masked EXCEPT ![c] = saved[c]]
    /\ UNCHANGED <<Others, heap, saved, pending, records>>

Halt(c) ==
    /\ context[c] = "fatal" /\ fpc[c] = "halt"
    /\ context' = [context EXCEPT ![c] = "halted"]
    /\ UNCHANGED <<managed, locks, pc, pending, Quiet>>

BootStep(c) ==
    \/ TakeOver(c) \/ InitializeBoot(c) \/ StartWorker(c) \/ Open(c) \/ Activate(c) \/ Close(c)
    \/ GiveUp(c) \/ EnterGuest(c) \/ TrapExit(c) \/ IrqExit(c)

Step(c) ==
    \/ BootStep(c)
    \/ Join(c) \/ Online(c) \/ Poll(c) \/ Wake(c) \/ Work(c) \/ EndWork(c)
    \/ Lock(c) \/ Acquire(c) \/ Release(c) \/ Restore(c)
    \/ HeapSpin(c) \/ HeapLock(c) \/ Alloc(c) \/ Dealloc(c) \/ Count(c)
    \/ TakeIrq(c) \/ Handle(c)
    \/ RaiseFlag(c) \/ Claim(c) \/ Store(c) \/ Publish(c) \/ Notify(c) \/ TryLock(c) \/ Emit(c)
    \/ Halt(c)

Next ==
    \E c \in CPUs : Step(c) \/ Fail(c)

Spec == Init /\ [][Next]_vars

\* A CPU that can run does; nothing makes it fail.
FairSpec == Spec /\ \A c \in CPUs : WF_vars(Step(c))

-----------------------------------------------------------------------------

\* snapshot: the words of a record that is ready.
snapshot(s) == IF state[s] = 2 THEN words[s] ELSE [f \in {} |-> 0]

\* A snapshot is the first failure of its record, every word of it, and stays
\* so while it is read, wherever in the stores of one failure the next failure
\* of the CPU comes, and whether or not the boot CPU has a record of its own.
SnapshotIsFirstFailure ==
    [][\A s \in Slots :
         /\ \A f \in DOMAIN snapshot(s)' : words'[s][f] = first'[s]
         /\ state[s] = 2 => snapshot(s)' = snapshot(s)]_vars

Printing(c) ==
    \/ context[c] = "main" /\ pc[c] = "write"
    \/ context[c] = "fatal" /\ fpc[c] = "emit"

\* One CPU at a time writes to the console, with interrupts masked; a CPU out
\* of its critical sections has the interrupt mask it had before them: a worker
\* none, the boot CPU one outside activate_secondary and park_workers; and the
\* heap's counter is the number of its blocks whenever the lock is free.
LocksAreSound ==
    /\ \A c \in CPUs : Printing(c) => uart = c /\ masked[c]
    /\ \A c \in CPUs : (context[c] = "main" /\ pc[c] \in {"idle", "work"}) =>
          (masked[c] <=> c = Boot /\ phase # "open") /\ uart # c /\ heap # c
    /\ heap = None => live = blocks

\* A CPU has stopped for good: halted, or in the boot CPU's last loop.
Stopped(c) == context[c] = "halted" \/ pc[c] = "ended"

\* A CPU that owns a lock and is gone never releases it; a message in progress ends.
Gone(c) == context[c] = "halted" \/ (context[c] = "fatal" /\ fpc[c] # "emit")

\* A CPU waits with interrupts masked for a lock whose owner is gone.
Stuck(c) ==
    /\ context[c] = "main" /\ masked[c]
    /\ \/ pc[c] = "spin" /\ uart \in CPUs /\ Gone(uart)
       \/ pc[c] = "heap" /\ heap \in CPUs /\ Gone(heap)


=============================================================================
