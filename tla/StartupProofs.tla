---------------------------- MODULE StartupProofs --------------------------
(***************************************************************************)
(* Proofs about the start of the secondary CPUs, for any number of them    *)
(* and any set of faults.                                                  *)
(*                                                                         *)
(* The argument: a token is published for every CPU before the first cell  *)
(* is touched (PublicationInv), a CPU leaves the firmware only through its *)
(* cell (Released), and its program counter fixes its lifecycle            *)
(* (Lifecycle).  A CPU that published Parked without a failure stays here  *)
(* (Here), so the release sequence leaves only such CPUs behind it         *)
(* (SequenceInv); one that CPU0 saw online never leaves management again   *)
(* (Joined), so the snapshot is still true when the guest is authorized    *)
(* (WorkerInv).                                                            *)
(***************************************************************************)
EXTENDS Startup, TLAPS

ReleaseSteps == {"release", "start", "reread", "attempt", "store", "clean", "wait", "checkpoint",
                 "readback", "verify"}
ReadySteps == {"activate", "activating", "parking", "snapshot", "authorize", "guest"}
UnclaimedSteps == {"firmware", "entry", "claim", "rejected"}
JoinSteps == {"activate", "initialize", "online"}
WorkerSteps == {"ping", "pinging", "hold", "wfi", "open"}
Unpublished == {"Idle", "Preparing", "PreparationFailed"}

BootTypes ==
    /\ status \in Statuses /\ target \in Secondaries
    /\ bpc \in StartSteps \cup IrqSteps \cup {"authorize", "halted"}
    /\ outcome \in {"none", "ok", "preparation", "release", "wait", "fatal", "readback"}

ScriptTypes == todo \in Seq(Operations \cup {"Online", "Echo"}) /\ Len(todo) <= 5

MemoryTypes ==
    /\ MailboxTypeOK
    /\ attempted \subseteq Secondaries
    /\ cell \in [Secondaries -> {"zero", "entry", "foreign"}]
    /\ cellRam \in [Secondaries -> {"zero", "entry", "foreign"}]
    /\ recordRam \in [Secondaries -> {0, Generation}]

CpuTypes ==
    /\ pc \in [Secondaries -> EntrySteps \cup RustSteps \cup {"firmware", "rejected", "notify",
                                                            "halted"}]
    /\ failures \in [Secondaries -> BOOLEAN]

ManagementTypes ==
    /\ activate \in [Secondaries -> BOOLEAN] /\ managed \in [Secondaries -> BOOLEAN]
    /\ stopped \in [Secondaries -> BOOLEAN] /\ handling \in [Secondaries -> BOOLEAN]
    /\ ping \in [Secondaries -> {"none", "posted", "answered"}]
    /\ doorbell \in [CPUs -> BOOLEAN] /\ fatal \in BOOLEAN

SlotTypes ==
    slot \in [Secondaries -> [state : {"free", "posted", "accepted", "rejected"},
                              operation : Operations \cup {"none"}]]

\* A CPU leaves the firmware through its cell, which CPU0 stores after the attempt.
Released(c) ==
    /\ pc[c] # "firmware" => cellRam[c] = "entry"
    /\ cellRam[c] = "entry" => cell[c] = "entry"
    /\ cell[c] = "entry" => c \in attempted
    /\ c \in attempted => state[c] \notin {"Offline", "Prepared"}

\* Where a CPU is fixes its lifecycle.
Lifecycle(c) ==
    /\ pc[c] \notin UnclaimedSteps => claimed[c]
    /\ pc[c] \in UnclaimedSteps => state[c] \in {"Offline", "Prepared", "Starting"}
    /\ pc[c] \in {"checkpoint", "park"} => state[c] = "Starting"
    /\ pc[c] \in JoinSteps => state[c] = "Parked"
    /\ pc[c] \in WorkerSteps => state[c] \in {"Parked", "Online"}
    /\ handling[c] => pc[c] \in UnmaskedSteps
    /\ state[c] \in {"Parked", "Online"} => ~failures[c]
    /\ state[c] = "Failed" /\ ~failures[c] => fatal

CpuInv == \A c \in Secondaries : Released(c) /\ Lifecycle(c)

AllReady == \A c \in Secondaries : observe_ready(c)
Published == AllReady /\ \A c \in Secondaries : recordRam[c] = Generation

\* A CPU that arrived, and one that joined the management workers.
Here(c) == state[c] \in {"Parked", "Online", "Failed"} /\ ~failures[c]
Joined(c) ==
    /\ managed[c] /\ state[c] \in {"Parked", "Online"}
    /\ pc[c] \notin UnclaimedSteps \cup {"checkpoint", "park"} \cup JoinSteps

\* BOOT_STATE at each step of CPU0.
StatusInv ==
    /\ bpc \in {"slots", "idle"} => status = "Idle"
    /\ bpc \in {"prepare", "freeze", "publish", "begin"} => status = "Preparing"
    /\ bpc \in ReleaseSteps => status = "Releasing"
    /\ bpc = "finalize" => status \in {"Preparing", "Releasing"}
    /\ bpc = "finalize" /\ outcome = "ok" => status = "Releasing"
    /\ bpc \in ReadySteps => status = "Ready"
    /\ bpc = "halted" => status \in Terminal

\* Every token is in memory before the first attempt.
PublicationInv ==
    /\ status \in Unpublished => attempted = {}
    /\ status \notin Unpublished \/ bpc = "begin" => Published
    /\ bpc = "prepare" => \A c \in Secondaries : c < target => observe_ready(c)
    /\ bpc \in {"freeze", "publish"} => AllReady
    /\ bpc \in {"slots", "idle", "freeze", "publish", "begin"} => target = 1
    /\ bpc \in {"store", "clean", "wait", "checkpoint", "readback"} => target \in attempted

\* A CPU is started before it is released.
StartedInv == bpc \in {"reread", "attempt"} => state[target] \notin {"Offline", "Prepared"}

\* The release sequence leaves only arrived CPUs behind it.
SequenceInv ==
    /\ bpc \in ReleaseSteps => \A c \in Secondaries : c < target => Here(c)
    /\ bpc = "readback" => Here(target)
    /\ \A c, d \in Secondaries : c < d /\ d \in attempted => Here(c)
    /\ status = "Ready" \/ (bpc = "finalize" /\ outcome = "ok") =>
           attempted = Secondaries /\ \A c \in Secondaries : Here(c)

\* The activation leaves only joined workers behind it.
WorkerInv ==
    /\ bpc \in {"activate", "activating"} => \A c \in Secondaries : c < target => Joined(c)
    /\ bpc = "activating" => Joined(target) \/ Head(todo) = "Online"
    /\ bpc \in {"parking", "snapshot", "authorize", "guest"} => \A c \in Secondaries : Joined(c)
    /\ bpc = "authorize" => \A c \in Secondaries : state[c] = "Parked"
    /\ bpc \in {"activating", "parking"} => todo # <<>>

IInv == TypeOK /\ CpuInv /\ StatusInv /\ PublicationInv /\ StartedInv /\ SequenceInv /\ WorkerInv

\* The parts of the type invariant.
LEMMA TypeParts ==
    TypeOK <=> /\ BootTypes /\ ScriptTypes /\ MemoryTypes /\ CpuTypes /\ ManagementTypes /\ SlotTypes
               /\ faults \in FaultSets
  BY DEF TypeOK, BootTypes, ScriptTypes, MemoryTypes, CpuTypes, ManagementTypes, SlotTypes

\* What is left of a script after its first line.
LEMMA TailTypes ==
    ASSUME NEW T, NEW s \in Seq(T), s # <<>>
    PROVE  Tail(s) \in Seq(T) /\ Len(Tail(s)) = Len(s) - 1
  OBVIOUS

\* A script that advances is still a script.
LEMMA AdvanceTypes ==
    ASSUME ScriptTypes, todo # <<>>, ScriptAdvances
    PROVE  ScriptTypes'
<1>1. todo' \in {Tail(todo), <<>>, ParkScript}
    BY DEF ScriptAdvances
<1>2. CASE todo' = Tail(todo)
    BY <1>2, TailTypes DEF ScriptTypes
<1>3. CASE todo' = <<>>
    BY <1>3 DEF ScriptTypes
<1>4. CASE todo' = ParkScript
    BY <1>4 DEF ScriptTypes, ParkScript, Operations
<1>5. QED
    BY <1>1, <1>2, <1>3, <1>4

\* The outcome of a local validation is a Boolean.
LEMMA FailureTypes ==
    ASSUME NEW failed \in {FALSE} \cup {"validate" \in faults}
    PROVE  failed \in BOOLEAN
<1>1. CASE "validate" \in faults
  <2>1. ("validate" \in faults) = TRUE
      BY <1>1
  <2>2. QED
      BY <2>1, Zenon
<1>2. CASE "validate" \notin faults
  <2>1. ("validate" \in faults) = FALSE
      BY <1>2
  <2>2. QED
      BY <2>1, Zenon
<1>3. QED
    BY <1>1, <1>2

\* The initial state satisfies the invariant.
LEMMA InitIInv == Init => IInv
<1> SUFFICES ASSUME Init PROVE IInv
    OBVIOUS
<1> USE NAssumption, GenerationAssumption DEF Init, MailboxInit
<1>1. BootTypes /\ ScriptTypes
    BY DEF BootTypes, ScriptTypes, Statuses, StartSteps
<1>2. MemoryTypes /\ CpuTypes
    BY DEF MemoryTypes, CpuTypes, MailboxTypeOK, CpuStates
<1>3. ManagementTypes /\ SlotTypes
    BY Zenon DEF ManagementTypes, SlotTypes, CPUs, FreeSlot
<1>4. CpuInv
    BY DEF CpuInv, Released, Lifecycle, UnclaimedSteps, JoinSteps, WorkerSteps
<1>5. StatusInv /\ PublicationInv /\ StartedInv
    BY DEF StatusInv, PublicationInv, StartedInv, ReleaseSteps, ReadySteps, Unpublished
<1>6. SequenceInv /\ WorkerInv
    BY DEF SequenceInv, WorkerInv, ReleaseSteps
<1>7. QED
    BY <1>1, <1>2, <1>3, <1>4, <1>5, <1>6, TypeParts DEF IInv

\* The types of CPU0's own state.
LEMMA BootTypesStep == BootTypes /\ [Next]_vars => BootTypes'
<1> SUFFICES ASSUME BootTypes, [Next]_vars PROVE BootTypes'
    OBVIOUS
<1>a. BootTypes
    OBVIOUS
<1>b. NAssumption
    BY NAssumption
<1> USE <1>a, <1>b DEF BootTypes, Statuses, StartSteps, IrqSteps
<1>1. CASE PrepareSlots
    BY <1>1 DEF PrepareSlots, BootStep
<1>2. CASE BeginBootOnce
    BY <1>2 DEF BeginBootOnce, BootStep
<1>3. CASE PrepareCpu
    BY <1>3 DEF PrepareCpu
<1>4. CASE Freeze
    BY <1>4 DEF Freeze, BootStep
<1>5. CASE PublishAll
    BY <1>5 DEF PublishAll, BootStep
<1>6. CASE BeginRelease
    BY <1>6 DEF BeginRelease, BootStep
<1>7. CASE CheckRelease
    BY <1>7 DEF CheckRelease, BootStep
<1>8. CASE BeginStart
    BY <1>8 DEF BeginStart, BootStep
<1>9. CASE RereadCell
    BY <1>9 DEF RereadCell, BootStep
<1>10. CASE MarkAttempted
    BY <1>10 DEF MarkAttempted, BootStep
<1>11. CASE StoreCell
    BY <1>11 DEF StoreCell, BootStep
<1>12. CASE CleanCell
    BY <1>12 DEF CleanCell, BootStep
<1>13. CASE SeeParked
    BY <1>13 DEF SeeParked, BootStep
<1>14. CASE VerifyCheckpoint
    BY <1>14 DEF VerifyCheckpoint, BootStep
<1>15. CASE Readback
    BY <1>15 DEF Readback
<1>16. CASE VerifyAllParked
    BY <1>16 DEF VerifyAllParked, Give
<1>17. CASE StartFails
    BY <1>17 DEF StartFails, Give
<1>18. CASE FinalizeBoot
    BY <1>18 DEF FinalizeBoot, FinalStatus
<1>19. CASE Activate
    BY <1>19 DEF Activate, BootStep
<1>20. CASE WaitOnline
    BY <1>20 DEF WaitOnline, ScriptAdvances
<1>21. CASE WaitEcho
    BY <1>21 DEF WaitEcho, ScriptAdvances
<1>22. CASE Collect
    BY <1>22 DEF Collect, ScriptAdvances
<1>23. CASE ActivationFails
    BY <1>23 DEF ActivationFails, BootStep
<1>24. CASE Snapshot
    BY <1>24 DEF Snapshot, BootStep
<1>25. CASE ParkFails
    BY <1>25 DEF ParkFails
<1>26. CASE Authorize
    BY <1>26 DEF Authorize
<1>27. CASE BootIrq
    BY <1>27 DEF BootIrq
<1>28. ASSUME UNCHANGED <<status, bpc, target, outcome>> PROVE BootTypes'
    BY <1>28
<1> HIDE <1>a, <1>b DEF BootTypes, Statuses, StartSteps, IrqSteps
<1>29. CASE BootNext
    BY <1>29, <1>28, <1>1, <1>2, <1>3, <1>4, <1>5, <1>6, <1>7, <1>8, <1>9, <1>10, <1>11, <1>12,
       <1>13, <1>14, <1>15, <1>16, <1>17, <1>18, <1>19, <1>20, <1>21, <1>22, <1>23, <1>24, <1>25,
       <1>26, <1>27 DEF BootNext, Request, boot
<1>30. ASSUME NEW c \in Secondaries, SecondaryNext(c) PROVE BootTypes'
    BY <1>30, <1>28, Zenon DEF SecondaryNext, FirmwareEnters, boot, Enter, Reject, Claim,
       PublishCheckpoint, ParkOrFail, SeeActivate, InitializeLocal, InitializeFails, GoOnline,
       PingBoot, PingAnswered, PingTimesOut, HoldStops, HoldSleeps, WakeUp, MaskAgain, Dispatch,
       IrqReturns, NotifyFatal
<1>31. ASSUME NEW c \in Secondaries, Environment(c) PROVE BootTypes'
    BY <1>31, <1>28 DEF Environment, WriteBack, boot, FirmwareWrites, Trap
<1>32. CASE UNCHANGED vars
    BY <1>32, <1>28 DEF vars, boot
<1>33. QED
    BY <1>29, <1>30, <1>31, <1>32 DEF Next

\* The scripts are never longer than five lines.
LEMMA ScriptTypesStep == IInv /\ [Next]_vars => ScriptTypes'
<1> SUFFICES ASSUME IInv, [Next]_vars PROVE ScriptTypes'
    OBVIOUS
<1>a. ScriptTypes /\ (bpc \in {"activating", "parking"} => todo # <<>>)
    BY TypeParts DEF IInv, WorkerInv
<1> USE <1>a DEF ScriptTypes
<1>1. CASE Activate
    BY <1>1 DEF Activate, ActivationScript, Operations
<1>2. CASE WaitOnline
  <2>1. todo # <<>> /\ ScriptAdvances
      BY <1>2 DEF WaitOnline
  <2>2. QED
      BY <2>1, AdvanceTypes
<1>3. CASE WaitEcho
  <2>1. todo # <<>> /\ ScriptAdvances
      BY <1>3 DEF WaitEcho
  <2>2. QED
      BY <2>1, AdvanceTypes
<1>4. CASE Collect
  <2>1. todo # <<>> /\ ScriptAdvances
      BY <1>4 DEF Collect, Asking
  <2>2. QED
      BY <2>1, AdvanceTypes
<1>5. ASSUME UNCHANGED <<todo>> PROVE ScriptTypes'
    BY <1>5
<1> HIDE <1>a DEF ScriptTypes
<1>6. CASE BootNext
    BY <1>6, <1>5, <1>1, <1>2, <1>3, <1>4, Zenon DEF BootNext, PrepareSlots, BeginBootOnce, PrepareCpu,
       Freeze, PublishAll, BeginRelease, CheckRelease, BeginStart, RereadCell, MarkAttempted,
       StoreCell, CleanCell, SeeParked, VerifyCheckpoint, Readback, VerifyAllParked, StartFails,
       FinalizeBoot, Request, boot, ActivationFails, Snapshot, ParkFails, Authorize, BootIrq
<1>7. ASSUME NEW c \in Secondaries, SecondaryNext(c) PROVE ScriptTypes'
    BY <1>7, <1>5, Zenon DEF SecondaryNext, FirmwareEnters, boot, Enter, Reject, Claim,
       PublishCheckpoint, ParkOrFail, SeeActivate, InitializeLocal, InitializeFails, GoOnline,
       PingBoot, PingAnswered, PingTimesOut, HoldStops, HoldSleeps, WakeUp, MaskAgain, Dispatch,
       IrqReturns, NotifyFatal
<1>8. ASSUME NEW c \in Secondaries, Environment(c) PROVE ScriptTypes'
    BY <1>8, <1>5 DEF Environment, WriteBack, boot, FirmwareWrites, Trap
<1>9. CASE UNCHANGED vars
    BY <1>9, <1>5 DEF vars, boot
<1>10. QED
    BY <1>6, <1>7, <1>8, <1>9 DEF Next

\* The types of the mailboxes and of the memory.
LEMMA MemoryTypesStep == BootTypes /\ MemoryTypes /\ [Next]_vars => MemoryTypes'
<1> SUFFICES ASSUME BootTypes, MemoryTypes, [Next]_vars PROVE MemoryTypes'
    OBVIOUS
<1>a. MemoryTypes /\ target \in Secondaries
    BY DEF BootTypes
<1> USE <1>a DEF MemoryTypes, MailboxTypeOK, CpuStates
<1>1. CASE PrepareSlots
    BY <1>1 DEF PrepareSlots, memory
<1>2. CASE PrepareCpu
    BY <1>2 DEF PrepareCpu, PublishGeneration, memory
<1>3. CASE PublishAll
    BY <1>3 DEF PublishAll, mailbox
<1>4. CASE BeginStart
    BY <1>4 DEF BeginStart, Transition, memory
<1>5. CASE MarkAttempted
    BY <1>5 DEF MarkAttempted, mailbox
<1>6. CASE StoreCell
    BY <1>6 DEF StoreCell, mailbox
<1>7. CASE CleanCell
    BY <1>7 DEF CleanCell, mailbox
<1>8. ASSUME NEW c \in Secondaries, Claim(c) PROVE MemoryTypes'
    BY <1>8 DEF Claim, ClaimEntry, memory
<1>9. ASSUME NEW c \in Secondaries, ParkOrFail(c) PROVE MemoryTypes'
    BY <1>9 DEF ParkOrFail, Transition, memory
<1>10. ASSUME NEW c \in Secondaries, InitializeFails(c) PROVE MemoryTypes'
    BY <1>10 DEF InitializeFails, Transition, memory
<1>11. ASSUME NEW c \in Secondaries, GoOnline(c) PROVE MemoryTypes'
    BY <1>11 DEF GoOnline, Transition, memory
<1>12. ASSUME NEW c \in Secondaries, HoldStops(c) PROVE MemoryTypes'
    BY <1>12 DEF HoldStops, Stop, memory
<1>13. ASSUME NEW c \in Secondaries, Dispatch(c) PROVE MemoryTypes'
    BY <1>13 DEF Dispatch, memory
<1>14. ASSUME NEW c \in Secondaries, IrqReturns(c) PROVE MemoryTypes'
    BY <1>14 DEF IrqReturns, Stop, memory
<1>15. ASSUME NEW c \in Secondaries, WriteBack(c) PROVE MemoryTypes'
    BY <1>15 DEF WriteBack, mailbox
<1>16. ASSUME NEW c \in Secondaries, FirmwareWrites(c) PROVE MemoryTypes'
    BY <1>16 DEF FirmwareWrites, mailbox
<1>17. ASSUME UNCHANGED <<ready, state, claimed, attempted, cell, cellRam, recordRam>> PROVE
   MemoryTypes'
    BY <1>17
<1> HIDE <1>a DEF MemoryTypes, MailboxTypeOK, CpuStates
<1>18. CASE BootNext
    BY <1>18, <1>17, <1>1, <1>2, <1>3, <1>4, <1>5, <1>6, <1>7, Zenon DEF BootNext, BeginBootOnce,
       mailbox, memory, Freeze, BeginRelease, CheckRelease, RereadCell, SeeParked,
       VerifyCheckpoint, Readback, VerifyAllParked, StartFails, FinalizeBoot, Activate,
       WaitOnline, WaitEcho, Request, Collect, ActivationFails, Snapshot, ParkFails, Authorize,
       BootIrq
<1>19. ASSUME NEW c \in Secondaries, SecondaryNext(c) PROVE MemoryTypes'
    BY <1>19, <1>17, <1>8, <1>9, <1>10, <1>11, <1>12, <1>13, <1>14, Zenon DEF SecondaryNext,
       FirmwareEnters, mailbox, memory, Enter, Reject, PublishCheckpoint, SeeActivate,
       InitializeLocal, PingBoot, PingAnswered, PingTimesOut, HoldSleeps, WakeUp, MaskAgain,
       NotifyFatal
<1>20. ASSUME NEW c \in Secondaries, Environment(c) PROVE MemoryTypes'
    BY <1>20, <1>17, <1>15, <1>16 DEF Environment, Trap, mailbox, memory
<1>21. CASE UNCHANGED vars
    BY <1>21, <1>17 DEF vars, mailbox, memory
<1>22. QED
    BY <1>18, <1>19, <1>20, <1>21 DEF Next

\* The types of the secondaries.
LEMMA CpuTypesStep == CpuTypes /\ [Next]_vars => CpuTypes'
<1> SUFFICES ASSUME CpuTypes, [Next]_vars PROVE CpuTypes'
    OBVIOUS
<1>a. CpuTypes
    OBVIOUS
<1> USE <1>a DEF CpuTypes, EntrySteps, RustSteps
<1>1. ASSUME NEW c \in Secondaries, FirmwareEnters(c) PROVE CpuTypes'
    BY <1>1 DEF FirmwareEnters
<1>2. ASSUME NEW c \in Secondaries, Enter(c) PROVE CpuTypes'
    BY <1>2 DEF Enter, Step
<1>3. ASSUME NEW c \in Secondaries, Reject(c) PROVE CpuTypes'
    BY <1>3 DEF Reject, Step
<1>4. ASSUME NEW c \in Secondaries, Claim(c) PROVE CpuTypes'
    BY <1>4 DEF Claim, Step
<1>5. ASSUME NEW c \in Secondaries, PublishCheckpoint(c) PROVE CpuTypes'
  <2>1. pc' = [pc EXCEPT ![c] = "park"]
      BY <1>5 DEF PublishCheckpoint, Step
  <2>2. PICK failed \in {FALSE} \cup {"validate" \in faults} :
            failures' = [failures EXCEPT ![c] = failed]
      BY <1>5, Zenon DEF PublishCheckpoint
  <2>3. failed \in BOOLEAN
      BY <2>2, FailureTypes, Zenon
  <2>4. QED
      BY <2>1, <2>2, <2>3
<1>6. ASSUME NEW c \in Secondaries, ParkOrFail(c) PROVE CpuTypes'
    BY <1>6 DEF ParkOrFail, Step
<1>7. ASSUME NEW c \in Secondaries, SeeActivate(c) PROVE CpuTypes'
    BY <1>7 DEF SeeActivate, Step
<1>8. ASSUME NEW c \in Secondaries, InitializeLocal(c) PROVE CpuTypes'
    BY <1>8 DEF InitializeLocal, Step
<1>9. ASSUME NEW c \in Secondaries, InitializeFails(c) PROVE CpuTypes'
    BY <1>9 DEF InitializeFails, Step
<1>10. ASSUME NEW c \in Secondaries, GoOnline(c) PROVE CpuTypes'
    BY <1>10 DEF GoOnline, Step
<1>11. ASSUME NEW c \in Secondaries, PingBoot(c) PROVE CpuTypes'
    BY <1>11 DEF PingBoot, Step
<1>12. ASSUME NEW c \in Secondaries, PingAnswered(c) PROVE CpuTypes'
    BY <1>12 DEF PingAnswered, Step
<1>13. ASSUME NEW c \in Secondaries, PingTimesOut(c) PROVE CpuTypes'
    BY <1>13 DEF PingTimesOut, Step
<1>14. ASSUME NEW c \in Secondaries, HoldStops(c) PROVE CpuTypes'
    BY <1>14 DEF HoldStops, Stop
<1>15. ASSUME NEW c \in Secondaries, HoldSleeps(c) PROVE CpuTypes'
    BY <1>15 DEF HoldSleeps, Step
<1>16. ASSUME NEW c \in Secondaries, WakeUp(c) PROVE CpuTypes'
    BY <1>16 DEF WakeUp, Step
<1>17. ASSUME NEW c \in Secondaries, MaskAgain(c) PROVE CpuTypes'
    BY <1>17 DEF MaskAgain, Step
<1>18. ASSUME NEW c \in Secondaries, IrqReturns(c) PROVE CpuTypes'
    BY <1>18 DEF IrqReturns, Stop
<1>19. ASSUME NEW c \in Secondaries, NotifyFatal(c) PROVE CpuTypes'
    BY <1>19 DEF NotifyFatal, Step
<1>20. ASSUME NEW c \in Secondaries, Trap(c) PROVE CpuTypes'
    BY <1>20 DEF Trap
<1>21. ASSUME UNCHANGED <<pc, failures>> PROVE CpuTypes'
    BY <1>21
<1> HIDE <1>a DEF CpuTypes, EntrySteps, RustSteps
<1>22. CASE BootNext
    BY <1>22, <1>21, Zenon DEF BootNext, PrepareSlots, BeginBootOnce, PrepareCpu, Freeze, PublishAll,
       BeginRelease, CheckRelease, BeginStart, RereadCell, MarkAttempted, StoreCell, CleanCell,
       SeeParked, VerifyCheckpoint, Readback, VerifyAllParked, StartFails, FinalizeBoot, Activate,
       WaitOnline, WaitEcho, Request, Collect, ActivationFails, Snapshot, ParkFails, Authorize,
       BootIrq
<1>23. ASSUME NEW c \in Secondaries, SecondaryNext(c) PROVE CpuTypes'
    BY <1>23, <1>21, <1>1, <1>2, <1>3, <1>4, <1>5, <1>6, <1>7, <1>8, <1>9, <1>10, <1>11, <1>12,
       <1>13, <1>14, <1>15, <1>16, <1>17, <1>18, <1>19 DEF SecondaryNext, Dispatch
<1>24. ASSUME NEW c \in Secondaries, Environment(c) PROVE CpuTypes'
    BY <1>24, <1>21, <1>20 DEF Environment, WriteBack, FirmwareWrites
<1>25. CASE UNCHANGED vars
    BY <1>25, <1>21 DEF vars
<1>26. QED
    BY <1>22, <1>23, <1>24, <1>25 DEF Next

\* The types of the management state.
LEMMA ManagementTypesStep == BootTypes /\ ManagementTypes /\ [Next]_vars => ManagementTypes'
<1> SUFFICES ASSUME BootTypes, ManagementTypes, [Next]_vars PROVE ManagementTypes'
    OBVIOUS
<1>a. ManagementTypes /\ target \in Secondaries
    BY DEF BootTypes
<1>b. NAssumption
    BY NAssumption
<1> USE <1>a, <1>b DEF ManagementTypes, CPUs
<1>1. CASE Activate
    BY <1>1 DEF Activate
<1>2. CASE Request
    BY <1>2 DEF Request
<1>3. CASE ParkFails
    BY <1>3 DEF ParkFails, Notify, management
<1>4. CASE BootIrq
    BY <1>4 DEF BootIrq
<1>5. ASSUME NEW c \in Secondaries, InitializeLocal(c) PROVE ManagementTypes'
    BY <1>5 DEF InitializeLocal
<1>6. ASSUME NEW c \in Secondaries, InitializeFails(c) PROVE ManagementTypes'
    BY <1>6 DEF InitializeFails, management
<1>7. ASSUME NEW c \in Secondaries, PingBoot(c) PROVE ManagementTypes'
    BY <1>7 DEF PingBoot
<1>8. ASSUME NEW c \in Secondaries, PingTimesOut(c) PROVE ManagementTypes'
    BY <1>8 DEF PingTimesOut
<1>9. ASSUME NEW c \in Secondaries, Dispatch(c) PROVE ManagementTypes'
    BY <1>9 DEF Dispatch
<1>10. ASSUME NEW c \in Secondaries, IrqReturns(c) PROVE ManagementTypes'
    BY <1>10 DEF IrqReturns
<1>11. ASSUME NEW c \in Secondaries, NotifyFatal(c) PROVE ManagementTypes'
    BY <1>11 DEF NotifyFatal, Notify, management
<1>12. ASSUME NEW c \in Secondaries, Trap(c) PROVE ManagementTypes'
    BY <1>12 DEF Trap
<1>13. ASSUME UNCHANGED <<activate, managed, stopped, handling, ping, doorbell, fatal>> PROVE
   ManagementTypes'
    BY <1>13
<1> HIDE <1>a, <1>b DEF ManagementTypes, CPUs
<1>14. CASE BootNext
    BY <1>14, <1>13, <1>1, <1>2, <1>3, <1>4, Zenon DEF BootNext, PrepareSlots, management, BeginBootOnce,
       PrepareCpu, Freeze, PublishAll, BeginRelease, CheckRelease, BeginStart, RereadCell,
       MarkAttempted, StoreCell, CleanCell, SeeParked, VerifyCheckpoint, Readback,
       VerifyAllParked, StartFails, FinalizeBoot, WaitOnline, WaitEcho, Collect, ActivationFails,
       Snapshot, Authorize
<1>15. ASSUME NEW c \in Secondaries, SecondaryNext(c) PROVE ManagementTypes'
    BY <1>15, <1>13, <1>5, <1>6, <1>7, <1>8, <1>9, <1>10, <1>11, Zenon DEF SecondaryNext, FirmwareEnters,
       management, Enter, Reject, Claim, PublishCheckpoint, ParkOrFail, SeeActivate, GoOnline,
       PingAnswered, HoldStops, HoldSleeps, WakeUp, MaskAgain
<1>16. ASSUME NEW c \in Secondaries, Environment(c) PROVE ManagementTypes'
    BY <1>16, <1>13, <1>12 DEF Environment, WriteBack, management, FirmwareWrites
<1>17. CASE UNCHANGED vars
    BY <1>17, <1>13 DEF vars, management
<1>18. QED
    BY <1>14, <1>15, <1>16, <1>17 DEF Next

\* The types of the requests.
LEMMA SlotTypesStep == BootTypes /\ SlotTypes /\ [Next]_vars => SlotTypes'
<1> SUFFICES ASSUME BootTypes, SlotTypes, [Next]_vars PROVE SlotTypes'
    OBVIOUS
<1>a. SlotTypes /\ target \in Secondaries
    BY DEF BootTypes
<1> USE <1>a DEF SlotTypes, FreeSlot, Operations
<1>1. CASE Request
    BY <1>1 DEF Request, Asking
<1>2. CASE Collect
    BY <1>2 DEF Collect, Asking
<1>3. ASSUME NEW c \in Secondaries, Dispatch(c) PROVE SlotTypes'
    BY <1>3 DEF Dispatch
<1>4. ASSUME UNCHANGED <<slot>> PROVE SlotTypes'
    BY <1>4
<1> HIDE <1>a DEF SlotTypes, FreeSlot, Operations
<1>5. CASE BootNext
    BY <1>5, <1>4, <1>1, <1>2, Zenon DEF BootNext, PrepareSlots, management, BeginBootOnce, PrepareCpu,
       Freeze, PublishAll, BeginRelease, CheckRelease, BeginStart, RereadCell, MarkAttempted,
       StoreCell, CleanCell, SeeParked, VerifyCheckpoint, Readback, VerifyAllParked, StartFails,
       FinalizeBoot, Activate, WaitOnline, WaitEcho, ActivationFails, Snapshot, ParkFails,
       Authorize, BootIrq
<1>6. ASSUME NEW c \in Secondaries, SecondaryNext(c) PROVE SlotTypes'
    BY <1>6, <1>4, <1>3, Zenon DEF SecondaryNext, FirmwareEnters, management, Enter, Reject, Claim,
       PublishCheckpoint, ParkOrFail, SeeActivate, InitializeLocal, InitializeFails, GoOnline,
       PingBoot, PingAnswered, PingTimesOut, HoldStops, HoldSleeps, WakeUp, MaskAgain, IrqReturns,
       NotifyFatal
<1>7. ASSUME NEW c \in Secondaries, Environment(c) PROVE SlotTypes'
    BY <1>7, <1>4 DEF Environment, WriteBack, management, FirmwareWrites, Trap
<1>8. CASE UNCHANGED vars
    BY <1>8, <1>4 DEF vars, management
<1>9. QED
    BY <1>5, <1>6, <1>7, <1>8 DEF Next

\* A CPU leaves the firmware only after its release.
LEMMA ReleasedStep == IInv /\ [Next]_vars => (\A v \in Secondaries : Released(v)')
<1> SUFFICES ASSUME IInv, [Next]_vars, NEW v \in Secondaries PROVE Released(v)'
    OBVIOUS
<1>a. Released(v)
    BY DEF IInv, CpuInv
<1>b. /\ DOMAIN pc = Secondaries /\ DOMAIN state = Secondaries /\ DOMAIN cell = Secondaries
      /\ DOMAIN cellRam = Secondaries /\ target \in Secondaries
    BY TypeParts DEF IInv, BootTypes, MemoryTypes, MailboxTypeOK, CpuTypes
<1>c. /\ bpc = "slots" => attempted = {}
      /\ bpc = "attempt" => state[target] \notin {"Offline", "Prepared"}
      /\ bpc = "store" => target \in attempted
    BY DEF IInv, StatusInv, PublicationInv, StartedInv, Unpublished
<1>d. handling[v] => pc[v] # "firmware"
    BY DEF IInv, CpuInv, Lifecycle, UnmaskedSteps
<1> USE <1>a, <1>b, <1>c, <1>d DEF Released
<1>1. CASE PrepareSlots
    BY <1>1 DEF PrepareSlots, BootStep, memory
<1>2. CASE BeginStart
    BY <1>2 DEF BeginStart, BootStep, Transition, memory
<1>3. CASE MarkAttempted
    BY <1>3 DEF MarkAttempted, BootStep, mailbox
<1>4. CASE StoreCell
    BY <1>4 DEF StoreCell, BootStep, mailbox
<1>5. CASE CleanCell
    BY <1>5 DEF CleanCell, BootStep, mailbox
<1>6. ASSUME NEW c \in Secondaries, FirmwareEnters(c) PROVE Released(v)'
    BY <1>6 DEF FirmwareEnters, mailbox, memory
<1>7. ASSUME NEW c \in Secondaries, Enter(c) PROVE Released(v)'
    BY <1>7 DEF Enter, Step, mailbox, memory
<1>8. ASSUME NEW c \in Secondaries, Reject(c) PROVE Released(v)'
    BY <1>8 DEF Reject, Step, mailbox, memory
<1>9. ASSUME NEW c \in Secondaries, Claim(c) PROVE Released(v)'
    BY <1>9 DEF Claim, Step, ClaimEntry, memory
<1>10. ASSUME NEW c \in Secondaries, PublishCheckpoint(c) PROVE Released(v)'
    BY <1>10 DEF PublishCheckpoint, Step, mailbox, memory
<1>11. ASSUME NEW c \in Secondaries, ParkOrFail(c) PROVE Released(v)'
    BY <1>11 DEF ParkOrFail, Step, Transition, memory
<1>12. ASSUME NEW c \in Secondaries, SeeActivate(c) PROVE Released(v)'
    BY <1>12 DEF SeeActivate, Step, mailbox, memory
<1>13. ASSUME NEW c \in Secondaries, InitializeLocal(c) PROVE Released(v)'
    BY <1>13 DEF InitializeLocal, Step, mailbox, memory
<1>14. ASSUME NEW c \in Secondaries, InitializeFails(c) PROVE Released(v)'
    BY <1>14 DEF InitializeFails, Step, Transition, memory
<1>15. ASSUME NEW c \in Secondaries, GoOnline(c) PROVE Released(v)'
    BY <1>15 DEF GoOnline, Step, Transition, memory
<1>16. ASSUME NEW c \in Secondaries, PingBoot(c) PROVE Released(v)'
    BY <1>16 DEF PingBoot, Step, mailbox, memory
<1>17. ASSUME NEW c \in Secondaries, PingAnswered(c) PROVE Released(v)'
    BY <1>17 DEF PingAnswered, Step, mailbox, memory
<1>18. ASSUME NEW c \in Secondaries, PingTimesOut(c) PROVE Released(v)'
    BY <1>18 DEF PingTimesOut, Step, mailbox, memory
<1>19. ASSUME NEW c \in Secondaries, HoldStops(c) PROVE Released(v)'
    BY <1>19 DEF HoldStops, Stop, memory
<1>20. ASSUME NEW c \in Secondaries, HoldSleeps(c) PROVE Released(v)'
    BY <1>20 DEF HoldSleeps, Step, mailbox, memory
<1>21. ASSUME NEW c \in Secondaries, WakeUp(c) PROVE Released(v)'
    BY <1>21 DEF WakeUp, Step, mailbox, memory
<1>22. ASSUME NEW c \in Secondaries, MaskAgain(c) PROVE Released(v)'
    BY <1>22 DEF MaskAgain, Step, mailbox, memory
<1>23. ASSUME NEW c \in Secondaries, Dispatch(c) PROVE Released(v)'
    BY <1>23 DEF Dispatch, memory
<1>24. ASSUME NEW c \in Secondaries, IrqReturns(c) PROVE Released(v)'
    BY <1>24 DEF IrqReturns, Stop, memory
<1>25. ASSUME NEW c \in Secondaries, NotifyFatal(c) PROVE Released(v)'
    BY <1>25 DEF NotifyFatal, Step, mailbox, memory
<1>26. ASSUME NEW c \in Secondaries, WriteBack(c) PROVE Released(v)'
    BY <1>26 DEF WriteBack, mailbox
<1>27. ASSUME NEW c \in Secondaries, FirmwareWrites(c) PROVE Released(v)'
    BY <1>27 DEF FirmwareWrites, mailbox
<1>28. ASSUME NEW c \in Secondaries, Trap(c) PROVE Released(v)'
    BY <1>28 DEF Trap, mailbox, memory, RustSteps
<1>29. ASSUME UNCHANGED <<state, attempted, cell, cellRam, pc>> PROVE Released(v)'
    BY <1>29
<1> HIDE <1>a, <1>b, <1>c, <1>d DEF Released
<1>30. CASE BootNext
    BY <1>30, <1>29, <1>1, <1>2, <1>3, <1>4, <1>5, Zenon DEF BootNext, BeginBootOnce, mailbox, memory,
       PrepareCpu, PublishGeneration, Freeze, PublishAll, BeginRelease, CheckRelease, RereadCell,
       SeeParked, VerifyCheckpoint, Readback, VerifyAllParked, StartFails, FinalizeBoot, Activate,
       WaitOnline, WaitEcho, Request, Collect, ActivationFails, Snapshot, ParkFails, Authorize,
       BootIrq
<1>31. ASSUME NEW c \in Secondaries, SecondaryNext(c) PROVE Released(v)'
    BY <1>31, <1>29, <1>6, <1>7, <1>8, <1>9, <1>10, <1>11, <1>12, <1>13, <1>14, <1>15, <1>16,
       <1>17, <1>18, <1>19, <1>20, <1>21, <1>22, <1>23, <1>24, <1>25 DEF SecondaryNext
<1>32. ASSUME NEW c \in Secondaries, Environment(c) PROVE Released(v)'
    BY <1>32, <1>29, <1>26, <1>27, <1>28 DEF Environment
<1>33. CASE UNCHANGED vars
    BY <1>33, <1>29 DEF vars, mailbox, memory
<1>34. QED
    BY <1>30, <1>31, <1>32, <1>33 DEF Next

\* A step of a CPU keeps its lifecycle and its program counter together.
LEMMA LifecycleStep == IInv /\ [Next]_vars => (\A v \in Secondaries : Lifecycle(v)')
<1> SUFFICES ASSUME IInv, [Next]_vars, NEW v \in Secondaries PROVE Lifecycle(v)'
    OBVIOUS
<1>a. Lifecycle(v)
    BY DEF IInv, CpuInv
<1>b. /\ DOMAIN pc = Secondaries /\ DOMAIN state = Secondaries /\ DOMAIN claimed = Secondaries
      /\ DOMAIN failures = Secondaries /\ DOMAIN handling = Secondaries /\ target \in Secondaries
    BY TypeParts DEF IInv, BootTypes, MemoryTypes, MailboxTypeOK, CpuTypes, ManagementTypes
<1>c. bpc = "slots" => pc[v] = "firmware"
    BY DEF IInv, StatusInv, PublicationInv, Unpublished, CpuInv, Released
<1> USE <1>a, <1>b, <1>c DEF Lifecycle, UnclaimedSteps, JoinSteps, WorkerSteps, UnmaskedSteps,
   RustSteps
<1>1. CASE PrepareSlots
    BY <1>1 DEF PrepareSlots, BootStep, management
<1>2. CASE BeginStart
    BY <1>2, Zenon DEF BeginStart, BootStep, Transition, management
<1>3. CASE ParkFails
    BY <1>3, Zenon DEF ParkFails, mailbox, management
<1>4. ASSUME NEW c \in Secondaries, FirmwareEnters(c) PROVE Lifecycle(v)'
    BY <1>4 DEF FirmwareEnters, mailbox, management
<1>5. ASSUME NEW c \in Secondaries, Enter(c) PROVE Lifecycle(v)'
    BY <1>5 DEF Enter, Step, mailbox, management
<1>6. ASSUME NEW c \in Secondaries, Reject(c) PROVE Lifecycle(v)'
    BY <1>6, Zenon DEF Reject, Step, mailbox, management
<1>7. ASSUME NEW c \in Secondaries, Claim(c) PROVE Lifecycle(v)'
    BY <1>7, Zenon DEF Claim, Step, ClaimEntry, management
<1>8. ASSUME NEW c \in Secondaries, PublishCheckpoint(c) PROVE Lifecycle(v)'
    BY <1>8 DEF PublishCheckpoint, Step, mailbox, management
<1>9. ASSUME NEW c \in Secondaries, ParkOrFail(c) PROVE Lifecycle(v)'
  <2>1. /\ pc' = [pc EXCEPT ![c] = IF failures[c] THEN "halted" ELSE "activate"]
        /\ state' = [state EXCEPT ![c] = IF failures[c] THEN "Failed" ELSE "Parked"]
        /\ pc[c] = "park" /\ ~handling[c] /\ UNCHANGED <<claimed, failures, handling, fatal>>
      BY <1>9, Zenon DEF ParkOrFail, Step, Transition, management
  <2>2. /\ v # c => pc'[v] = pc[v] /\ state'[v] = state[v]
        /\ failures[c] => pc'[c] = "halted" /\ state'[c] = "Failed"
        /\ ~failures[c] => pc'[c] = "activate" /\ state'[c] = "Parked"
      BY <2>1
  <2>3. pc[c] = "park" /\ ~handling[c] /\ UNCHANGED <<claimed, failures, handling, fatal>>
      BY <2>1
  <2>4. CASE v # c
      BY <2>2, <2>3, <2>4
  <2>5. CASE v = c /\ failures[c]
      BY <2>2, <2>3, <2>5
  <2>6. CASE v = c /\ ~failures[c]
      BY <2>2, <2>3, <2>6, Zenon
  <2>7. QED
      BY <2>4, <2>5, <2>6, Zenon
<1>10. ASSUME NEW c \in Secondaries, SeeActivate(c) PROVE Lifecycle(v)'
    BY <1>10, Zenon DEF SeeActivate, Step, mailbox, management
<1>11. ASSUME NEW c \in Secondaries, InitializeLocal(c) PROVE Lifecycle(v)'
    BY <1>11, Zenon DEF InitializeLocal, Step, mailbox
<1>12. ASSUME NEW c \in Secondaries, InitializeFails(c) PROVE Lifecycle(v)'
    BY <1>12, Zenon DEF InitializeFails, Step, Transition, management
<1>13. ASSUME NEW c \in Secondaries, GoOnline(c) PROVE Lifecycle(v)'
    BY <1>13, Zenon DEF GoOnline, Step, Transition, management
<1>14. ASSUME NEW c \in Secondaries, PingBoot(c) PROVE Lifecycle(v)'
    BY <1>14, Zenon DEF PingBoot, Step, mailbox
<1>15. ASSUME NEW c \in Secondaries, PingAnswered(c) PROVE Lifecycle(v)'
    BY <1>15, Zenon DEF PingAnswered, Step, mailbox, management
<1>16. ASSUME NEW c \in Secondaries, PingTimesOut(c) PROVE Lifecycle(v)'
    BY <1>16, Zenon DEF PingTimesOut, Step, mailbox
<1>17. ASSUME NEW c \in Secondaries, HoldStops(c) PROVE Lifecycle(v)'
    BY <1>17, Zenon DEF HoldStops, Stop, management
<1>18. ASSUME NEW c \in Secondaries, HoldSleeps(c) PROVE Lifecycle(v)'
    BY <1>18, Zenon DEF HoldSleeps, Step, mailbox, management
<1>19. ASSUME NEW c \in Secondaries, WakeUp(c) PROVE Lifecycle(v)'
    BY <1>19, Zenon DEF WakeUp, Step, mailbox, management
<1>20. ASSUME NEW c \in Secondaries, MaskAgain(c) PROVE Lifecycle(v)'
    BY <1>20, Zenon DEF MaskAgain, Step, mailbox, management
<1>21. ASSUME NEW c \in Secondaries, Dispatch(c) PROVE Lifecycle(v)'
    BY <1>21 DEF Dispatch
<1>22. ASSUME NEW c \in Secondaries, IrqReturns(c) PROVE Lifecycle(v)'
  <2>1. CASE Stop(c)
      BY <1>22, <2>1, Zenon DEF IrqReturns, Stop
  <2>2. CASE UNCHANGED <<pc, state>>
      BY <1>22, <2>2, Zenon DEF IrqReturns
  <2>3. QED
      BY <1>22, <2>1, <2>2, Zenon DEF IrqReturns
<1>23. ASSUME NEW c \in Secondaries, NotifyFatal(c) PROVE Lifecycle(v)'
    BY <1>23, Zenon DEF NotifyFatal, Step, mailbox, management
<1>24. ASSUME NEW c \in Secondaries, Trap(c) PROVE Lifecycle(v)'
    BY <1>24, Zenon DEF Trap, mailbox
<1>25. ASSUME UNCHANGED <<state, claimed, handling, pc, failures, fatal>> PROVE Lifecycle(v)'
    BY <1>25, Zenon
<1> HIDE <1>a, <1>b, <1>c DEF Lifecycle, UnclaimedSteps, JoinSteps, WorkerSteps, UnmaskedSteps,
   RustSteps
<1>26. CASE BootNext
    BY <1>26, <1>25, <1>1, <1>2, <1>3, Zenon DEF BootNext, BeginBootOnce, mailbox, management,
       PrepareCpu, PublishGeneration, Freeze, PublishAll, BeginRelease, CheckRelease, RereadCell,
       MarkAttempted, StoreCell, CleanCell, SeeParked, VerifyCheckpoint, Readback,
       VerifyAllParked, StartFails, FinalizeBoot, Activate, WaitOnline, WaitEcho, Request,
       Collect, ActivationFails, Snapshot, Authorize, BootIrq
<1>27. ASSUME NEW c \in Secondaries, SecondaryNext(c) PROVE Lifecycle(v)'
    BY <1>27, <1>25, <1>4, <1>5, <1>6, <1>7, <1>8, <1>9, <1>10, <1>11, <1>12, <1>13, <1>14, <1>15,
       <1>16, <1>17, <1>18, <1>19, <1>20, <1>21, <1>22, <1>23 DEF SecondaryNext
<1>28. ASSUME NEW c \in Secondaries, Environment(c) PROVE Lifecycle(v)'
    BY <1>28, <1>25, <1>24 DEF Environment, WriteBack, mailbox, management, FirmwareWrites
<1>29. CASE UNCHANGED vars
    BY <1>29, <1>25 DEF vars, mailbox, management
<1>30. QED
    BY <1>26, <1>27, <1>28, <1>29 DEF Next

\* BOOT_STATE follows the steps of CPU0.
LEMMA StatusStep == StatusInv /\ [Next]_vars => StatusInv'
<1> SUFFICES ASSUME StatusInv, [Next]_vars PROVE StatusInv'
    OBVIOUS
<1>a. StatusInv
    OBVIOUS
<1> USE <1>a DEF StatusInv, ReleaseSteps, ReadySteps, Terminal
<1>1. CASE PrepareSlots
    BY <1>1 DEF PrepareSlots, BootStep
<1>2. CASE BeginBootOnce
    BY <1>2 DEF BeginBootOnce, BootStep
<1>3. CASE PrepareCpu
    BY <1>3 DEF PrepareCpu
<1>4. CASE Freeze
    BY <1>4 DEF Freeze, BootStep
<1>5. CASE PublishAll
    BY <1>5 DEF PublishAll, BootStep
<1>6. CASE BeginRelease
    BY <1>6 DEF BeginRelease, BootStep
<1>7. CASE CheckRelease
    BY <1>7 DEF CheckRelease, BootStep
<1>8. CASE BeginStart
    BY <1>8 DEF BeginStart, BootStep
<1>9. CASE RereadCell
    BY <1>9 DEF RereadCell, BootStep
<1>10. CASE MarkAttempted
    BY <1>10 DEF MarkAttempted, BootStep
<1>11. CASE StoreCell
    BY <1>11 DEF StoreCell, BootStep
<1>12. CASE CleanCell
    BY <1>12 DEF CleanCell, BootStep
<1>13. CASE SeeParked
    BY <1>13 DEF SeeParked, BootStep
<1>14. CASE VerifyCheckpoint
    BY <1>14 DEF VerifyCheckpoint, BootStep
<1>15. CASE Readback
    BY <1>15 DEF Readback
<1>16. CASE VerifyAllParked
    BY <1>16 DEF VerifyAllParked, Give
<1>17. CASE StartFails
    BY <1>17, Zenon DEF StartFails, Give
<1>18. CASE FinalizeBoot
    BY <1>18 DEF FinalizeBoot, FinalStatus
<1>19. CASE Activate
    BY <1>19 DEF Activate, BootStep
<1>20. CASE WaitOnline
    BY <1>20 DEF WaitOnline, ScriptAdvances
<1>21. CASE WaitEcho
    BY <1>21 DEF WaitEcho, ScriptAdvances
<1>22. CASE Collect
    BY <1>22 DEF Collect, ScriptAdvances, Asking
<1>23. CASE ActivationFails
    BY <1>23 DEF ActivationFails, BootStep
<1>24. CASE Snapshot
    BY <1>24 DEF Snapshot, BootStep
<1>25. CASE ParkFails
    BY <1>25 DEF ParkFails
<1>26. CASE Authorize
    BY <1>26 DEF Authorize
<1>27. CASE BootIrq
    BY <1>27 DEF BootIrq, IrqSteps
<1>28. ASSUME UNCHANGED <<status, bpc, outcome>> PROVE StatusInv'
    BY <1>28
<1> HIDE <1>a DEF StatusInv, ReleaseSteps, ReadySteps, Terminal
<1>29. CASE BootNext
    BY <1>29, <1>28, <1>1, <1>2, <1>3, <1>4, <1>5, <1>6, <1>7, <1>8, <1>9, <1>10, <1>11, <1>12,
       <1>13, <1>14, <1>15, <1>16, <1>17, <1>18, <1>19, <1>20, <1>21, <1>22, <1>23, <1>24, <1>25,
       <1>26, <1>27, Zenon DEF BootNext, Request, boot
<1>30. ASSUME NEW c \in Secondaries, SecondaryNext(c) PROVE StatusInv'
    BY <1>30, <1>28, Zenon DEF SecondaryNext, FirmwareEnters, boot, Enter, Reject, Claim,
       PublishCheckpoint, ParkOrFail, SeeActivate, InitializeLocal, InitializeFails, GoOnline,
       PingBoot, PingAnswered, PingTimesOut, HoldStops, HoldSleeps, WakeUp, MaskAgain, Dispatch,
       IrqReturns, NotifyFatal
<1>31. ASSUME NEW c \in Secondaries, Environment(c) PROVE StatusInv'
    BY <1>31, <1>28, Zenon DEF Environment, WriteBack, boot, FirmwareWrites, Trap
<1>32. CASE UNCHANGED vars
    BY <1>32, <1>28 DEF vars, boot
<1>33. QED
    BY <1>29, <1>30, <1>31, <1>32 DEF Next

\* Every token is published before the first attempt.
LEMMA PublicationStep == IInv /\ [Next]_vars => PublicationInv'
<1> SUFFICES ASSUME IInv, [Next]_vars PROVE PublicationInv'
    OBVIOUS
<1>a. PublicationInv /\ StatusInv
    BY DEF IInv
<1>b. /\ target \in 1 .. N /\ Secondaries = 1 .. N /\ N \in Nat
      /\ DOMAIN ready = Secondaries /\ DOMAIN recordRam = Secondaries
    BY NAssumption, TypeParts DEF IInv, BootTypes, MemoryTypes, MailboxTypeOK
<1> USE <1>a, <1>b DEF PublicationInv, StatusInv, Published, AllReady, Unpublished, ReleaseSteps,
   ReadySteps, observe_ready
<1>1. CASE PrepareSlots
    BY <1>1 DEF PrepareSlots, BootStep, memory
<1>2. CASE BeginBootOnce
  <2>1. /\ bpc' = "prepare" /\ status' = "Preparing" /\ target' = 1 /\ attempted' = {}
      BY <1>2 DEF BeginBootOnce, BootStep, memory
  <2>2. \A c \in Secondaries : ~(c < target')
    <3> HIDE <1>a
    <3> QED
        BY <2>1
  <2>3. QED
    <3> HIDE <1>b
    <3> QED
        BY <2>1, <2>2
<1>3. CASE PrepareCpu
  <2>1. /\ bpc = "prepare" /\ status = "Preparing" /\ status' = "Preparing" /\ attempted' = {}
        /\ ready' = [ready EXCEPT ![target] = Generation]
      BY <1>3 DEF PrepareCpu, PublishGeneration, memory
  <2>2. \A c \in Secondaries : c <= target => ready'[c] = Generation
    <3>1. \A c \in Secondaries : c < target => ready[c] = Generation
        BY <2>1
    <3>2. QED
      <4> HIDE <1>a DEF PublicationInv, StatusInv
      <4> QED
          BY <2>1, <3>1
  <2>3. CASE target = N
    <3>1. bpc' = "freeze" /\ target' = 1 /\ AllReady'
      <4>1. bpc' = "freeze" /\ target' = 1
          BY <1>3, <2>3 DEF PrepareCpu
      <4>2. AllReady'
        <5> HIDE <1>a DEF PublicationInv, StatusInv
        <5> QED
            BY <2>2, <2>3
      <4>3. QED
          BY <4>1, <4>2, Zenon
    <3>2. QED
        BY <2>1, <3>1
  <2>4. CASE target # N
    <3>1. bpc' = "prepare" /\ \A c \in Secondaries : c < target' => ready'[c] = Generation
      <4>1. bpc' = bpc /\ target' = target + 1
          BY <1>3, <2>4, Zenon DEF PrepareCpu
      <4>2. \A c \in Secondaries : c < target + 1 => c <= target
        <5> HIDE <1>a DEF PublicationInv, StatusInv
        <5> QED
            OBVIOUS
      <4>3. QED
        <5> HIDE <1>a DEF PublicationInv, StatusInv
        <5> QED
            BY <2>1, <2>2, <4>1, <4>2
    <3>2. QED
        BY <2>1, <3>1, Zenon
  <2>5. QED
      BY <2>3, <2>4, Zenon
<1>4. CASE Freeze
    BY <1>4, Zenon DEF Freeze, BootStep, mailbox, memory
<1>5. CASE PublishAll
    BY <1>5, Zenon DEF PublishAll, BootStep, mailbox
<1>6. CASE BeginRelease
    BY <1>6, Zenon DEF BeginRelease, BootStep, mailbox, memory
<1>7. CASE CheckRelease
    BY <1>7, Zenon DEF CheckRelease, BootStep, mailbox, memory
<1>8. CASE BeginStart
    BY <1>8 DEF BeginStart, BootStep, Transition, memory
<1>9. CASE RereadCell
    BY <1>9, Zenon DEF RereadCell, BootStep, mailbox, memory
<1>10. CASE MarkAttempted
    BY <1>10 DEF MarkAttempted, BootStep, mailbox
<1>11. CASE StoreCell
    BY <1>11 DEF StoreCell, BootStep, mailbox
<1>12. CASE CleanCell
    BY <1>12, Zenon DEF CleanCell, BootStep, mailbox
<1>13. CASE SeeParked
    BY <1>13, Zenon DEF SeeParked, BootStep, mailbox, memory
<1>14. CASE VerifyCheckpoint
    BY <1>14, Zenon DEF VerifyCheckpoint, BootStep, mailbox, memory
<1>15. CASE Readback
    BY <1>15, Zenon DEF Readback, mailbox, memory
<1>16. CASE VerifyAllParked
    BY <1>16, Zenon DEF VerifyAllParked, Give, mailbox, memory
<1>17. CASE StartFails
    BY <1>17, Zenon DEF StartFails, Give, mailbox, memory
<1>18. CASE FinalizeBoot
    BY <1>18 DEF FinalizeBoot, FinalStatus, mailbox, memory
<1>19. CASE Activate
    BY <1>19, Zenon DEF Activate, BootStep, mailbox, memory
<1>20. CASE WaitOnline
    BY <1>20 DEF WaitOnline, ScriptAdvances, mailbox, memory
<1>21. CASE WaitEcho
    BY <1>21 DEF WaitEcho, ScriptAdvances, mailbox, memory
<1>22. CASE Collect
    BY <1>22, Zenon DEF Collect, ScriptAdvances, Asking, mailbox, memory
<1>23. CASE ActivationFails
    BY <1>23, Zenon DEF ActivationFails, BootStep, mailbox, memory
<1>24. CASE Snapshot
    BY <1>24, Zenon DEF Snapshot, BootStep, mailbox, memory
<1>25. CASE ParkFails
    BY <1>25, Zenon DEF ParkFails, mailbox, memory
<1>26. CASE Authorize
    BY <1>26, Zenon DEF Authorize, mailbox, memory
<1>27. CASE BootIrq
    BY <1>27, Zenon DEF BootIrq, mailbox, memory, IrqSteps
<1>28. ASSUME NEW c \in Secondaries, WriteBack(c) PROVE PublicationInv'
    BY <1>28, Zenon DEF WriteBack, mailbox, boot
<1>29. ASSUME UNCHANGED <<ready, status, bpc, target, attempted, recordRam>> PROVE PublicationInv'
    BY <1>29, Zenon
<1> HIDE <1>a, <1>b DEF PublicationInv, StatusInv, Published, AllReady, Unpublished, ReleaseSteps,
   ReadySteps, observe_ready
<1>30. CASE BootNext
    BY <1>30, <1>29, <1>1, <1>2, <1>3, <1>4, <1>5, <1>6, <1>7, <1>8, <1>9, <1>10, <1>11, <1>12,
       <1>13, <1>14, <1>15, <1>16, <1>17, <1>18, <1>19, <1>20, <1>21, <1>22, <1>23, <1>24, <1>25,
       <1>26, <1>27, Zenon DEF BootNext, Request, mailbox, boot, memory
<1>31. ASSUME NEW c \in Secondaries, SecondaryNext(c) PROVE PublicationInv'
    BY <1>31, <1>29, Zenon DEF SecondaryNext, FirmwareEnters, mailbox, boot, memory, Enter, Reject,
       Claim, ClaimEntry, PublishCheckpoint, ParkOrFail, Transition, SeeActivate, InitializeLocal,
       InitializeFails, GoOnline, PingBoot, PingAnswered, PingTimesOut, HoldStops, HoldSleeps,
       WakeUp, MaskAgain, Dispatch, IrqReturns, NotifyFatal
<1>32. ASSUME NEW c \in Secondaries, Environment(c) PROVE PublicationInv'
    BY <1>32, <1>29, <1>28 DEF Environment, FirmwareWrites, mailbox, boot, Trap, memory
<1>33. CASE UNCHANGED vars
    BY <1>33, <1>29 DEF vars, mailbox, boot, memory
<1>34. QED
    BY <1>30, <1>31, <1>32, <1>33 DEF Next

\* A started CPU is never prepared again.
LEMMA StartedStep == IInv /\ [Next]_vars => StartedInv'
<1> SUFFICES ASSUME IInv, [Next]_vars PROVE StartedInv'
    OBVIOUS
<1>a. StartedInv
    BY DEF IInv
<1>b. target \in Secondaries /\ DOMAIN state = Secondaries
    BY TypeParts DEF IInv, BootTypes, MemoryTypes, MailboxTypeOK
<1> USE <1>a, <1>b DEF StartedInv
<1>1. CASE PrepareSlots
    BY <1>1 DEF PrepareSlots, BootStep
<1>2. CASE BeginBootOnce
    BY <1>2 DEF BeginBootOnce, BootStep, mailbox
<1>3. CASE PrepareCpu
    BY <1>3 DEF PrepareCpu, PublishGeneration
<1>4. CASE Freeze
    BY <1>4 DEF Freeze, BootStep, mailbox
<1>5. CASE PublishAll
    BY <1>5 DEF PublishAll, BootStep, mailbox
<1>6. CASE BeginRelease
    BY <1>6 DEF BeginRelease, BootStep, mailbox
<1>7. CASE CheckRelease
    BY <1>7 DEF CheckRelease, BootStep, mailbox
<1>8. CASE BeginStart
    BY <1>8 DEF BeginStart, BootStep, Transition
<1>9. CASE RereadCell
    BY <1>9 DEF RereadCell, BootStep, mailbox
<1>10. CASE MarkAttempted
    BY <1>10 DEF MarkAttempted, BootStep, mailbox
<1>11. CASE StoreCell
    BY <1>11 DEF StoreCell, BootStep, mailbox
<1>12. CASE CleanCell
    BY <1>12 DEF CleanCell, BootStep, mailbox
<1>13. CASE SeeParked
    BY <1>13 DEF SeeParked, BootStep, mailbox
<1>14. CASE VerifyCheckpoint
    BY <1>14 DEF VerifyCheckpoint, BootStep, mailbox
<1>15. CASE Readback
    BY <1>15 DEF Readback, mailbox
<1>16. CASE VerifyAllParked
    BY <1>16 DEF VerifyAllParked, Give, mailbox
<1>17. CASE StartFails
    BY <1>17 DEF StartFails, Give, mailbox
<1>18. CASE FinalizeBoot
    BY <1>18 DEF FinalizeBoot, mailbox
<1>19. CASE Activate
    BY <1>19 DEF Activate, BootStep, mailbox
<1>20. CASE WaitOnline
    BY <1>20 DEF WaitOnline, ScriptAdvances, mailbox
<1>21. CASE WaitEcho
    BY <1>21 DEF WaitEcho, ScriptAdvances, mailbox
<1>22. CASE Collect
    BY <1>22 DEF Collect, ScriptAdvances, Asking, mailbox
<1>23. CASE ActivationFails
    BY <1>23 DEF ActivationFails, BootStep, mailbox
<1>24. CASE Snapshot
    BY <1>24 DEF Snapshot, BootStep, mailbox
<1>25. CASE ParkFails
    BY <1>25 DEF ParkFails, mailbox
<1>26. CASE Authorize
    BY <1>26 DEF Authorize, mailbox
<1>27. CASE BootIrq
    BY <1>27 DEF BootIrq, mailbox
<1>28. ASSUME NEW c \in Secondaries, ParkOrFail(c) PROVE StartedInv'
    BY <1>28 DEF ParkOrFail, Transition, boot
<1>29. ASSUME NEW c \in Secondaries, InitializeFails(c) PROVE StartedInv'
    BY <1>29 DEF InitializeFails, Transition, boot
<1>30. ASSUME NEW c \in Secondaries, GoOnline(c) PROVE StartedInv'
    BY <1>30 DEF GoOnline, Transition, boot
<1>31. ASSUME NEW c \in Secondaries, HoldStops(c) PROVE StartedInv'
    BY <1>31 DEF HoldStops, Stop, boot
<1>32. ASSUME NEW c \in Secondaries, Dispatch(c) PROVE StartedInv'
    BY <1>32 DEF Dispatch, boot
<1>33. ASSUME NEW c \in Secondaries, IrqReturns(c) PROVE StartedInv'
    BY <1>33 DEF IrqReturns, Stop, boot
<1>34. ASSUME UNCHANGED <<state, bpc, target>> PROVE StartedInv'
    BY <1>34
<1> HIDE <1>a, <1>b DEF StartedInv
<1>35. CASE BootNext
    BY <1>35, <1>34, <1>1, <1>2, <1>3, <1>4, <1>5, <1>6, <1>7, <1>8, <1>9, <1>10, <1>11, <1>12,
       <1>13, <1>14, <1>15, <1>16, <1>17, <1>18, <1>19, <1>20, <1>21, <1>22, <1>23, <1>24, <1>25,
       <1>26, <1>27, Zenon DEF BootNext, Request, mailbox, boot
<1>36. ASSUME NEW c \in Secondaries, SecondaryNext(c) PROVE StartedInv'
    BY <1>36, <1>34, <1>28, <1>29, <1>30, <1>31, <1>32, <1>33, Zenon DEF SecondaryNext, FirmwareEnters,
       mailbox, boot, Enter, Reject, Claim, ClaimEntry, PublishCheckpoint, SeeActivate,
       InitializeLocal, PingBoot, PingAnswered, PingTimesOut, HoldSleeps, WakeUp, MaskAgain,
       NotifyFatal
<1>37. ASSUME NEW c \in Secondaries, Environment(c) PROVE StartedInv'
    BY <1>37, <1>34, Zenon DEF Environment, WriteBack, mailbox, boot, FirmwareWrites, Trap
<1>38. CASE UNCHANGED vars
    BY <1>38, <1>34 DEF vars, mailbox, boot
<1>39. QED
    BY <1>35, <1>36, <1>37, <1>38 DEF Next

\* A CPU that arrived stays here.
LEMMA HereStep == IInv /\ [Next]_vars => (\A v \in Secondaries : Here(v) => Here(v)')
<1> SUFFICES ASSUME IInv, [Next]_vars, NEW v \in Secondaries PROVE (Here(v) => Here(v)')
    OBVIOUS
<1>a. Lifecycle(v)
    BY DEF IInv, CpuInv
<1>b. /\ DOMAIN pc = Secondaries /\ DOMAIN state = Secondaries /\ DOMAIN failures = Secondaries
      /\ target \in Secondaries
    BY TypeParts DEF IInv, BootTypes, MemoryTypes, MailboxTypeOK, CpuTypes
<1>c. bpc = "slots" => pc[v] = "firmware"
    BY DEF IInv, StatusInv, PublicationInv, Unpublished, CpuInv, Released
<1> USE <1>a, <1>b, <1>c DEF Lifecycle, Here, UnclaimedSteps, JoinSteps, WorkerSteps
<1>1. CASE PrepareSlots
    BY <1>1, Zenon DEF PrepareSlots, BootStep
<1>2. CASE BeginStart
    BY <1>2, Zenon DEF BeginStart, BootStep, Transition
<1>3. ASSUME NEW c \in Secondaries, PublishCheckpoint(c) PROVE (Here(v) => Here(v)')
    BY <1>3, Zenon DEF PublishCheckpoint, Step, mailbox
<1>4. ASSUME NEW c \in Secondaries, ParkOrFail(c) PROVE (Here(v) => Here(v)')
    BY <1>4, Zenon DEF ParkOrFail, Step, Transition
<1>5. ASSUME NEW c \in Secondaries, InitializeFails(c) PROVE (Here(v) => Here(v)')
    BY <1>5, Zenon DEF InitializeFails, Step, Transition
<1>6. ASSUME NEW c \in Secondaries, GoOnline(c) PROVE (Here(v) => Here(v)')
    BY <1>6, Zenon DEF GoOnline, Step, Transition
<1>7. ASSUME NEW c \in Secondaries, HoldStops(c) PROVE (Here(v) => Here(v)')
    BY <1>7, Zenon DEF HoldStops, Stop
<1>8. ASSUME NEW c \in Secondaries, Dispatch(c) PROVE (Here(v) => Here(v)')
    BY <1>8 DEF Dispatch
<1>9. ASSUME NEW c \in Secondaries, IrqReturns(c) PROVE (Here(v) => Here(v)')
    BY <1>9, Zenon DEF IrqReturns, Stop
<1>10. ASSUME UNCHANGED <<state, failures>> PROVE (Here(v) => Here(v)')
    BY <1>10
<1> HIDE <1>a, <1>b, <1>c DEF Lifecycle, Here, UnclaimedSteps, JoinSteps, WorkerSteps
<1>11. CASE BootNext
    BY <1>11, <1>10, <1>1, <1>2, Zenon DEF BootNext, BeginBootOnce, mailbox, PrepareCpu,
       PublishGeneration, Freeze, PublishAll, BeginRelease, CheckRelease, RereadCell,
       MarkAttempted, StoreCell, CleanCell, SeeParked, VerifyCheckpoint, Readback,
       VerifyAllParked, StartFails, FinalizeBoot, Activate, WaitOnline, WaitEcho, Request,
       Collect, ActivationFails, Snapshot, ParkFails, Authorize, BootIrq
<1>12. ASSUME NEW c \in Secondaries, SecondaryNext(c) PROVE (Here(v) => Here(v)')
    BY <1>12, <1>10, <1>3, <1>4, <1>5, <1>6, <1>7, <1>8, <1>9, Zenon DEF SecondaryNext, FirmwareEnters,
       mailbox, Enter, Reject, Claim, ClaimEntry, SeeActivate, InitializeLocal, PingBoot,
       PingAnswered, PingTimesOut, HoldSleeps, WakeUp, MaskAgain, NotifyFatal
<1>13. ASSUME NEW c \in Secondaries, Environment(c) PROVE (Here(v) => Here(v)')
    BY <1>13, <1>10, Zenon DEF Environment, WriteBack, mailbox, FirmwareWrites, Trap
<1>14. CASE UNCHANGED vars
    BY <1>14, <1>10 DEF vars, mailbox
<1>15. QED
    BY <1>11, <1>12, <1>13, <1>14 DEF Next

\* A worker that joined stays in management, and one that parked again stays parked.
LEMMA JoinedStep ==
    IInv /\ [Next]_vars =>
        \A v \in Secondaries : Joined(v) => Joined(v)' /\ (state[v] = "Parked" => state'[v] = "Parked")
<1> SUFFICES ASSUME IInv, [Next]_vars, NEW v \in Secondaries
      PROVE  Joined(v) => Joined(v)' /\ (state[v] = "Parked" => state'[v] = "Parked")
    BY Zenon
<1>a. Lifecycle(v)
    BY DEF IInv, CpuInv
<1>b. /\ DOMAIN pc = Secondaries /\ DOMAIN state = Secondaries /\ DOMAIN managed = Secondaries
      /\ target \in Secondaries
    BY TypeParts DEF IInv, BootTypes, MemoryTypes, MailboxTypeOK, CpuTypes, ManagementTypes
<1>c. bpc = "slots" => pc[v] = "firmware"
    BY DEF IInv, StatusInv, PublicationInv, Unpublished, CpuInv, Released
<1> USE <1>a, <1>b, <1>c DEF Lifecycle, Joined, UnclaimedSteps, JoinSteps, WorkerSteps
<1>1. CASE PrepareSlots
    BY <1>1, Zenon DEF PrepareSlots, BootStep, management
<1>2. CASE BeginStart
    BY <1>2, Zenon DEF BeginStart, BootStep, Transition, management
<1>3. ASSUME NEW c \in Secondaries, FirmwareEnters(c)
      PROVE  Joined(v) => Joined(v)' /\ (state[v] = "Parked" => state'[v] = "Parked")
    BY <1>3, Zenon DEF FirmwareEnters, mailbox, management
<1>4. ASSUME NEW c \in Secondaries, Enter(c)
      PROVE  Joined(v) => Joined(v)' /\ (state[v] = "Parked" => state'[v] = "Parked")
    BY <1>4, Zenon DEF Enter, Step, mailbox, management
<1>5. ASSUME NEW c \in Secondaries, Reject(c)
      PROVE  Joined(v) => Joined(v)' /\ (state[v] = "Parked" => state'[v] = "Parked")
    BY <1>5, Zenon DEF Reject, Step, mailbox, management
<1>6. ASSUME NEW c \in Secondaries, Claim(c)
      PROVE  Joined(v) => Joined(v)' /\ (state[v] = "Parked" => state'[v] = "Parked")
    BY <1>6, Zenon DEF Claim, Step, ClaimEntry, management
<1>7. ASSUME NEW c \in Secondaries, PublishCheckpoint(c)
      PROVE  Joined(v) => Joined(v)' /\ (state[v] = "Parked" => state'[v] = "Parked")
    BY <1>7, Zenon DEF PublishCheckpoint, Step, mailbox, management
<1>8. ASSUME NEW c \in Secondaries, ParkOrFail(c)
      PROVE  Joined(v) => Joined(v)' /\ (state[v] = "Parked" => state'[v] = "Parked")
    BY <1>8, Zenon DEF ParkOrFail, Step, Transition, management
<1>9. ASSUME NEW c \in Secondaries, SeeActivate(c)
      PROVE  Joined(v) => Joined(v)' /\ (state[v] = "Parked" => state'[v] = "Parked")
    BY <1>9, Zenon DEF SeeActivate, Step, mailbox, management
<1>10. ASSUME NEW c \in Secondaries, InitializeLocal(c)
      PROVE  Joined(v) => Joined(v)' /\ (state[v] = "Parked" => state'[v] = "Parked")
    BY <1>10, Zenon DEF InitializeLocal, Step, mailbox
<1>11. ASSUME NEW c \in Secondaries, InitializeFails(c)
      PROVE  Joined(v) => Joined(v)' /\ (state[v] = "Parked" => state'[v] = "Parked")
    BY <1>11, Zenon DEF InitializeFails, Step, Transition, management
<1>12. ASSUME NEW c \in Secondaries, GoOnline(c)
      PROVE  Joined(v) => Joined(v)' /\ (state[v] = "Parked" => state'[v] = "Parked")
    BY <1>12, Zenon DEF GoOnline, Step, Transition, management
<1>13. ASSUME NEW c \in Secondaries, PingBoot(c)
      PROVE  Joined(v) => Joined(v)' /\ (state[v] = "Parked" => state'[v] = "Parked")
    BY <1>13, Zenon DEF PingBoot, Step, mailbox
<1>14. ASSUME NEW c \in Secondaries, PingAnswered(c)
      PROVE  Joined(v) => Joined(v)' /\ (state[v] = "Parked" => state'[v] = "Parked")
    BY <1>14, Zenon DEF PingAnswered, Step, mailbox, management
<1>15. ASSUME NEW c \in Secondaries, PingTimesOut(c)
      PROVE  Joined(v) => Joined(v)' /\ (state[v] = "Parked" => state'[v] = "Parked")
    BY <1>15, Zenon DEF PingTimesOut, Step, mailbox
<1>16. ASSUME NEW c \in Secondaries, HoldStops(c)
      PROVE  Joined(v) => Joined(v)' /\ (state[v] = "Parked" => state'[v] = "Parked")
    BY <1>16, Zenon DEF HoldStops, Stop, management
<1>17. ASSUME NEW c \in Secondaries, HoldSleeps(c)
      PROVE  Joined(v) => Joined(v)' /\ (state[v] = "Parked" => state'[v] = "Parked")
    BY <1>17, Zenon DEF HoldSleeps, Step, mailbox, management
<1>18. ASSUME NEW c \in Secondaries, WakeUp(c)
      PROVE  Joined(v) => Joined(v)' /\ (state[v] = "Parked" => state'[v] = "Parked")
    BY <1>18, Zenon DEF WakeUp, Step, mailbox, management
<1>19. ASSUME NEW c \in Secondaries, MaskAgain(c)
      PROVE  Joined(v) => Joined(v)' /\ (state[v] = "Parked" => state'[v] = "Parked")
    BY <1>19, Zenon DEF MaskAgain, Step, mailbox, management
<1>20. ASSUME NEW c \in Secondaries, Dispatch(c)
      PROVE  Joined(v) => Joined(v)' /\ (state[v] = "Parked" => state'[v] = "Parked")
    BY <1>20 DEF Dispatch
<1>21. ASSUME NEW c \in Secondaries, IrqReturns(c)
      PROVE  Joined(v) => Joined(v)' /\ (state[v] = "Parked" => state'[v] = "Parked")
    BY <1>21, Zenon DEF IrqReturns, Stop
<1>22. ASSUME NEW c \in Secondaries, NotifyFatal(c)
      PROVE  Joined(v) => Joined(v)' /\ (state[v] = "Parked" => state'[v] = "Parked")
    BY <1>22, Zenon DEF NotifyFatal, Step, mailbox, management
<1>23. ASSUME NEW c \in Secondaries, Trap(c)
      PROVE  Joined(v) => Joined(v)' /\ (state[v] = "Parked" => state'[v] = "Parked")
    BY <1>23, Zenon DEF Trap, mailbox
<1>24. ASSUME UNCHANGED <<state, managed, pc>> PROVE (Joined(v) => Joined(v)' /\ (state[v] =
   "Parked" => state'[v] = "Parked"))
    BY <1>24, Zenon
<1> HIDE <1>a, <1>b, <1>c DEF Lifecycle, Joined, UnclaimedSteps, JoinSteps, WorkerSteps
<1>25. CASE BootNext
    BY <1>25, <1>24, <1>1, <1>2, Zenon DEF BootNext, BeginBootOnce, mailbox, management, PrepareCpu,
       PublishGeneration, Freeze, PublishAll, BeginRelease, CheckRelease, RereadCell,
       MarkAttempted, StoreCell, CleanCell, SeeParked, VerifyCheckpoint, Readback,
       VerifyAllParked, StartFails, FinalizeBoot, Activate, WaitOnline, WaitEcho, Request,
       Collect, ActivationFails, Snapshot, ParkFails, Authorize, BootIrq
<1>26. ASSUME NEW c \in Secondaries, SecondaryNext(c)
      PROVE  Joined(v) => Joined(v)' /\ (state[v] = "Parked" => state'[v] = "Parked")
    BY <1>26, <1>24, <1>3, <1>4, <1>5, <1>6, <1>7, <1>8, <1>9, <1>10, <1>11, <1>12, <1>13, <1>14,
       <1>15, <1>16, <1>17, <1>18, <1>19, <1>20, <1>21, <1>22, Zenon DEF SecondaryNext
<1>27. ASSUME NEW c \in Secondaries, Environment(c)
      PROVE  Joined(v) => Joined(v)' /\ (state[v] = "Parked" => state'[v] = "Parked")
    BY <1>27, <1>24, <1>23, Zenon DEF Environment, WriteBack, mailbox, management, FirmwareWrites
<1>28. CASE UNCHANGED vars
    BY <1>28, <1>24 DEF vars, mailbox, management
<1>29. QED
    BY <1>25, <1>26, <1>27, <1>28, Zenon DEF Next

\* A script that advances leaves a joined worker behind.
LEMMA AdvanceJoined ==
    ASSUME IInv, ScriptAdvances, bpc \in {"activating", "parking"}, Joined(target),
           \A c \in Secondaries : Joined(c) => Joined(c)'
    PROVE  WorkerInv'
<1>1. target \in 1 .. N /\ Secondaries = 1 .. N /\ N \in Nat
    BY NAssumption, TypeParts DEF IInv, BootTypes
<1>2. WorkerInv
    BY DEF IInv
<1>3. CASE Tail(todo) # <<>>
    BY <1>1, <1>2, <1>3 DEF ScriptAdvances, WorkerInv
<1>4. CASE Tail(todo) = <<>> /\ target = N
  <2>1. bpc' \in {"parking", "snapshot"} /\ todo' = IF bpc' = "parking" THEN ParkScript ELSE <<>>
      BY <1>4 DEF ScriptAdvances
  <2>2. \A c \in Secondaries : Joined(c)
      BY <1>1, <1>2, <1>4 DEF WorkerInv
  <2>3. QED
      BY <2>1, <2>2 DEF WorkerInv, ParkScript
<1>5. CASE Tail(todo) = <<>> /\ target # N
  <2>1. /\ target' = target + 1
        /\ bpc = "activating" => bpc' = "activate"
        /\ bpc = "parking" => bpc' = "parking" /\ todo' = ParkScript
      BY <1>5 DEF ScriptAdvances
  <2>2. CASE bpc = "activating"
    <3>1. \A c \in Secondaries : c < target' => Joined(c)
        BY <1>1, <1>2, <2>1, <2>2 DEF WorkerInv
    <3>2. QED
        BY <2>1, <2>2, <3>1 DEF WorkerInv
  <2>3. CASE bpc = "parking"
      BY <1>2, <2>1, <2>3 DEF WorkerInv, ParkScript
  <2>4. QED
      BY <2>2, <2>3
<1>6. QED
    BY <1>3, <1>4, <1>5

\* The release sequence leaves only arrived CPUs behind it.
LEMMA SequenceStep == IInv /\ [Next]_vars => SequenceInv'
<1> SUFFICES ASSUME IInv, [Next]_vars PROVE SequenceInv'
    OBVIOUS
<1>a. SequenceInv /\ StatusInv
    BY DEF IInv
<1>b. \A c \in Secondaries : Here(c) => Here(c)'
    BY HereStep
<1>c. target \in 1 .. N /\ Secondaries = 1 .. N /\ N \in Nat
    BY NAssumption, TypeParts DEF IInv, BootTypes
<1>d. status = "Preparing" => attempted = {}
    BY DEF IInv, PublicationInv, Unpublished
<1>e. bpc = "begin" => target = 1
    BY DEF IInv, PublicationInv
<1> USE <1>a, <1>b, <1>c, <1>d, <1>e DEF SequenceInv, StatusInv, ReleaseSteps, ReadySteps,
   Terminal
<1>1. CASE PrepareSlots
    BY <1>1, Zenon DEF PrepareSlots, BootStep, memory
<1>2. CASE BeginBootOnce
    BY <1>2, Zenon DEF BeginBootOnce, BootStep, memory
<1>3. CASE PrepareCpu
    BY <1>3, Zenon DEF PrepareCpu, memory
<1>4. CASE Freeze
    BY <1>4, Zenon DEF Freeze, BootStep, memory
<1>5. CASE PublishAll
    BY <1>5, Zenon DEF PublishAll, BootStep
<1>6. CASE BeginRelease
  <2>1. bpc' = "release" /\ status' = "Releasing" /\ target' = 1 /\ attempted' = {}
      BY <1>6, Zenon DEF BeginRelease, BootStep, memory
  <2>2. \A c \in Secondaries : ~(c < target')
    <3> HIDE <1>a, <1>b DEF SequenceInv, StatusInv
    <3> QED
        BY <2>1
  <2>3. QED
    <3> HIDE <1>c
    <3> QED
        BY <2>1, <2>2, Zenon
<1>7. CASE CheckRelease
    BY <1>7, Zenon DEF CheckRelease, BootStep, memory
<1>8. CASE BeginStart
    BY <1>8, Zenon DEF BeginStart, BootStep, memory
<1>9. CASE RereadCell
    BY <1>9 DEF RereadCell, BootStep, memory
<1>10. CASE MarkAttempted
    BY <1>10 DEF MarkAttempted, BootStep
<1>11. CASE StoreCell
    BY <1>11 DEF StoreCell, BootStep
<1>12. CASE CleanCell
    BY <1>12, Zenon DEF CleanCell, BootStep
<1>13. CASE SeeParked
    BY <1>13 DEF SeeParked, BootStep, memory
<1>14. CASE VerifyCheckpoint
    BY <1>14, Zenon DEF VerifyCheckpoint, BootStep, memory, Here
<1>15. CASE Readback
  <2>1. /\ bpc = "readback" /\ status = "Releasing" /\ UNCHANGED <<status, attempted>>
        /\ bpc' = (IF target = N THEN "verify" ELSE "release")
        /\ target' = (IF target = N THEN 1 ELSE target + 1)
      BY <1>15, Zenon DEF Readback, memory
  <2>2. \A c \in Secondaries : c < target' => Here(c)'
    <3>1. Here(target) /\ \A c \in Secondaries : c < target => Here(c)
        BY <2>1
    <3>2. \A c \in Secondaries : c < target' => c < target \/ c = target
      <4> HIDE <1>a, <1>b DEF SequenceInv, StatusInv
      <4> QED
          BY <2>1
    <3>3. QED
      <4> HIDE <1>a, <1>c DEF SequenceInv, StatusInv
      <4> QED
          BY <3>1, <3>2
  <2>3. \A c, d \in Secondaries : c < d /\ d \in attempted' => Here(c)'
    <3>1. \A c, d \in Secondaries : c < d /\ d \in attempted => Here(c)
        BY DEF SequenceInv
    <3>2. QED
      <4> HIDE <1>a, <1>c DEF SequenceInv, StatusInv
      <4> QED
          BY <2>1, <3>1
  <2>4. QED
      BY <2>1, <2>2, <2>3
<1>16. CASE VerifyAllParked
    BY <1>16, Zenon DEF VerifyAllParked, Give, memory, Here, AllParked
<1>17. CASE StartFails
    BY <1>17, Zenon DEF StartFails, Give, memory
<1>18. CASE FinalizeBoot
    BY <1>18 DEF FinalizeBoot, FinalStatus, memory
<1>19. CASE Activate
    BY <1>19, Zenon DEF Activate, BootStep, memory
<1>20. CASE WaitOnline
    BY <1>20, Zenon DEF WaitOnline, ScriptAdvances, memory
<1>21. CASE WaitEcho
    BY <1>21, Zenon DEF WaitEcho, ScriptAdvances, memory
<1>22. CASE Collect
    BY <1>22, Zenon DEF Collect, ScriptAdvances, Asking, memory
<1>23. CASE ActivationFails
    BY <1>23, Zenon DEF ActivationFails, BootStep, memory
<1>24. CASE Snapshot
    BY <1>24, Zenon DEF Snapshot, BootStep, memory
<1>25. CASE ParkFails
    BY <1>25, Zenon DEF ParkFails, memory
<1>26. CASE Authorize
    BY <1>26, Zenon DEF Authorize, memory
<1>27. CASE BootIrq
    BY <1>27, Zenon DEF BootIrq, memory, IrqSteps
<1>28. ASSUME UNCHANGED <<status, bpc, target, outcome, attempted>> PROVE SequenceInv'
    BY <1>28
<1> HIDE <1>a, <1>b, <1>c, <1>d, <1>e DEF SequenceInv, StatusInv, ReleaseSteps, ReadySteps,
   Terminal
<1>29. CASE BootNext
    BY <1>29, <1>28, <1>1, <1>2, <1>3, <1>4, <1>5, <1>6, <1>7, <1>8, <1>9, <1>10, <1>11, <1>12,
       <1>13, <1>14, <1>15, <1>16, <1>17, <1>18, <1>19, <1>20, <1>21, <1>22, <1>23, <1>24, <1>25,
       <1>26, <1>27, Zenon DEF BootNext, Request, boot, memory
<1>30. ASSUME NEW c \in Secondaries, SecondaryNext(c) PROVE SequenceInv'
    BY <1>30, <1>28, Zenon DEF SecondaryNext, FirmwareEnters, boot, memory, Enter, Reject, Claim,
       PublishCheckpoint, ParkOrFail, SeeActivate, InitializeLocal, InitializeFails, GoOnline,
       PingBoot, PingAnswered, PingTimesOut, HoldStops, HoldSleeps, WakeUp, MaskAgain, Dispatch,
       IrqReturns, NotifyFatal
<1>31. ASSUME NEW c \in Secondaries, Environment(c) PROVE SequenceInv'
    BY <1>31, <1>28, Zenon DEF Environment, WriteBack, boot, FirmwareWrites, Trap, memory
<1>32. CASE UNCHANGED vars
    BY <1>32, <1>28 DEF vars, boot, memory
<1>33. QED
    BY <1>29, <1>30, <1>31, <1>32 DEF Next

\* The activation leaves only joined workers behind it.
LEMMA WorkerStep == IInv /\ [Next]_vars => WorkerInv'
<1> SUFFICES ASSUME IInv, [Next]_vars PROVE WorkerInv'
    OBVIOUS
<1>a. WorkerInv
    BY DEF IInv
<1>b. \A c \in Secondaries : Joined(c) => Joined(c)' /\ (state[c] = "Parked" => state'[c] = "Parked")
    BY JoinedStep, Zenon
<1>c. target \in 1 .. N /\ Secondaries = 1 .. N /\ N \in Nat
    BY NAssumption, TypeParts DEF IInv, BootTypes
<1>d. Lifecycle(target)
    BY NAssumption, TypeParts DEF IInv, CpuInv, BootTypes
<1> USE <1>a, <1>b, <1>c, <1>d DEF WorkerInv
<1>1. CASE PrepareSlots
    BY <1>1 DEF PrepareSlots, BootStep
<1>2. CASE BeginBootOnce
    BY <1>2 DEF BeginBootOnce, BootStep
<1>3. CASE PrepareCpu
    BY <1>3, Zenon DEF PrepareCpu
<1>4. CASE Freeze
    BY <1>4 DEF Freeze, BootStep
<1>5. CASE PublishAll
    BY <1>5 DEF PublishAll, BootStep
<1>6. CASE BeginRelease
    BY <1>6 DEF BeginRelease, BootStep
<1>7. CASE CheckRelease
    BY <1>7 DEF CheckRelease, BootStep
<1>8. CASE BeginStart
    BY <1>8 DEF BeginStart, BootStep
<1>9. CASE RereadCell
    BY <1>9 DEF RereadCell, BootStep
<1>10. CASE MarkAttempted
    BY <1>10, Zenon DEF MarkAttempted, BootStep
<1>11. CASE StoreCell
    BY <1>11, Zenon DEF StoreCell, BootStep
<1>12. CASE CleanCell
    BY <1>12, Zenon DEF CleanCell, BootStep
<1>13. CASE SeeParked
    BY <1>13, Zenon DEF SeeParked, BootStep
<1>14. CASE VerifyCheckpoint
    BY <1>14, Zenon DEF VerifyCheckpoint, BootStep
<1>15. CASE Readback
    BY <1>15, Zenon DEF Readback
<1>16. CASE VerifyAllParked
    BY <1>16, Zenon DEF VerifyAllParked, Give
<1>17. CASE StartFails
    BY <1>17, Zenon DEF StartFails, Give
<1>18. CASE FinalizeBoot
  <2>1. bpc' \in {"activate", "halted"} /\ target' = 1
      BY <1>18, Zenon DEF FinalizeBoot
  <2>2. QED
      BY <2>1
<1>19. CASE Activate
  <2>1. bpc = "activate" /\ bpc' = "activating" /\ target' = target /\ todo' = ActivationScript
      BY <1>19, Zenon DEF Activate, BootStep
  <2>2. Head(todo') = "Online" /\ todo' # <<>>
      BY <2>1 DEF ActivationScript
  <2>3. QED
      BY <2>1, <2>2
<1>20. CASE WaitOnline
  <2>1. ScriptAdvances /\ bpc \in {"activating", "parking"}
      BY <1>20 DEF WaitOnline
  <2>2. Joined(target)
      BY <1>20, <1>d, Zenon DEF WaitOnline, Joined, Lifecycle, UnclaimedSteps, JoinSteps
  <2>3. QED
      BY <2>1, <2>2, AdvanceJoined, Zenon
<1>21. CASE WaitEcho
  <2>1. ScriptAdvances /\ bpc \in {"activating", "parking"}
      BY <1>21 DEF WaitEcho
  <2>2. Joined(target)
      BY <1>21 DEF WaitEcho
  <2>3. QED
      BY <2>1, <2>2, AdvanceJoined
<1>22. CASE Collect
  <2>1. ScriptAdvances /\ bpc \in {"activating", "parking"}
      BY <1>22 DEF Collect, Asking
  <2>2. Joined(target)
      BY <1>22 DEF Collect, Asking, Operations
  <2>3. QED
      BY <2>1, <2>2, AdvanceJoined
<1>23. CASE ActivationFails
    BY <1>23 DEF ActivationFails, BootStep
<1>24. CASE Snapshot
    BY <1>24 DEF Snapshot, BootStep, AllResponsive
<1>25. CASE ParkFails
    BY <1>25 DEF ParkFails
<1>26. CASE Authorize
    BY <1>26 DEF Authorize
<1>27. CASE BootIrq
    BY <1>27 DEF BootIrq, IrqSteps
<1>28. ASSUME UNCHANGED <<bpc, target, todo>> PROVE WorkerInv'
    BY <1>28
<1> HIDE <1>a, <1>b, <1>c, <1>d DEF WorkerInv
<1>29. CASE BootNext
    BY <1>29, <1>28, <1>1, <1>2, <1>3, <1>4, <1>5, <1>6, <1>7, <1>8, <1>9, <1>10, <1>11, <1>12,
       <1>13, <1>14, <1>15, <1>16, <1>17, <1>18, <1>19, <1>20, <1>21, <1>22, <1>23, <1>24, <1>25,
       <1>26, <1>27, Zenon DEF BootNext, Request, boot
<1>30. ASSUME NEW c \in Secondaries, SecondaryNext(c) PROVE WorkerInv'
    BY <1>30, <1>28, Zenon DEF SecondaryNext, FirmwareEnters, boot, Enter, Reject, Claim,
       PublishCheckpoint, ParkOrFail, SeeActivate, InitializeLocal, InitializeFails, GoOnline,
       PingBoot, PingAnswered, PingTimesOut, HoldStops, HoldSleeps, WakeUp, MaskAgain, Dispatch,
       IrqReturns, NotifyFatal
<1>31. ASSUME NEW c \in Secondaries, Environment(c) PROVE WorkerInv'
    BY <1>31, <1>28, Zenon DEF Environment, WriteBack, boot, FirmwareWrites, Trap
<1>32. CASE UNCHANGED vars
    BY <1>32, <1>28 DEF vars, boot
<1>33. QED
    BY <1>29, <1>30, <1>31, <1>32 DEF Next

\* The invariant is inductive.
LEMMA NextIInv == IInv /\ [Next]_vars => IInv'
<1> SUFFICES ASSUME IInv, [Next]_vars PROVE IInv'
    OBVIOUS
<1>1. BootTypes /\ MemoryTypes /\ CpuTypes /\ ManagementTypes /\ SlotTypes /\ faults \in FaultSets
    BY TypeParts DEF IInv
<1>2. /\ BootTypes' /\ ScriptTypes' /\ MemoryTypes' /\ CpuTypes' /\ ManagementTypes' /\ SlotTypes'
    BY <1>1, BootTypesStep, ScriptTypesStep, MemoryTypesStep, CpuTypesStep, ManagementTypesStep,
       SlotTypesStep
<1>3. faults' = faults
    BY Zenon DEF Next, BootNext, SecondaryNext, Environment, vars
<1>4. TypeOK'
    BY <1>1, <1>2, <1>3, Zenon DEF TypeOK, BootTypes, ScriptTypes, MemoryTypes, CpuTypes,
       ManagementTypes, SlotTypes
<1>5. CpuInv'
    BY ReleasedStep, LifecycleStep DEF CpuInv
<1>6. QED
    BY <1>4, <1>5, StatusStep, PublicationStep, StartedStep, SequenceStep, WorkerStep DEF IInv

\* The inductive invariant of the boot.
THEOREM StartupInvariant == Spec => []IInv
  BY InitIInv, NextIInv, PTL DEF Spec

\* A CPU that left the firmware was released by CPU0 and finds its own record in
\* memory (release_secondary, publish_all_startups, __secondary_entry).
THEOREM EntriesFindTheirRecords == Spec => []EntryFindsItsRecord
<1>1. IInv => EntryFindsItsRecord
  <2> SUFFICES ASSUME IInv, NEW c \in Secondaries
               PROVE  /\ pc[c] # "firmware" => c \in attempted /\ state[c] \notin {"Offline", "Prepared"}
                      /\ pc[c] = "entry" => recordRam[c] = Generation /\ observe_ready(c)
      BY Zenon DEF IInv, EntryFindsItsRecord
  <2>1. pc[c] # "firmware" => c \in attempted /\ state[c] \notin {"Offline", "Prepared"}
      BY Zenon DEF IInv, CpuInv, Released
  <2>2. c \in attempted => Published
      BY DEF IInv, PublicationInv
  <2>3. QED
      BY <2>1, <2>2 DEF Published, AllReady
<1>2. QED
    BY <1>1, StartupInvariant, PTL

\* The CPUs are released one after the other, each after a validated arrival of
\* the one before (release_and_wait, wait_until_parked, verify_checkpoint).
THEOREM ReleasesAreSequential == Spec => []ReleaseIsSequential
<1>1. IInv => ReleaseIsSequential
  <2> SUFFICES ASSUME IInv, NEW c \in Secondaries, NEW d \in Secondaries, c < d, d \in attempted
               PROVE  /\ claimed[c] /\ ~failures[c]
                      /\ state[c] \in {"Parked", "Online", "Failed"}
                      /\ state[c] = "Failed" => fatal
      BY DEF ReleaseIsSequential
  <2>1. Here(c) /\ Lifecycle(c)
      BY DEF IInv, CpuInv, SequenceInv
  <2>2. QED
      BY <2>1, Zenon DEF Here, Lifecycle
<1>2. QED
    BY <1>1, StartupInvariant, PTL

\* The guest is entered only with every CPU arrived, validated, activated and
\* parked again (ensure_guest_authorized): what the snapshot saw is still true.
THEOREM GuestNeedsEveryCpuHolds == Spec => GuestNeedsEveryCpu
<1>1. ASSUME IInv, [Next]_vars, bpc # "guest", bpc' = "guest"
      PROVE  /\ ~fatal /\ attempted = Secondaries
             /\ \A c \in Secondaries :
                    state[c] = "Parked" /\ claimed[c] /\ ~failures[c] /\ managed[c]
  <2>1. Authorize
    <3>1. CASE BootNext
        BY <1>1, <3>1, Zenon DEF BootNext, PrepareSlots, BootStep, BeginBootOnce, PrepareCpu, Freeze,
           PublishAll, BeginRelease, CheckRelease, BeginStart, RereadCell, MarkAttempted,
           StoreCell, CleanCell, SeeParked, VerifyCheckpoint, Readback, VerifyAllParked, Give,
           StartFails, FinalizeBoot, Activate, WaitOnline, ScriptAdvances, WaitEcho, Request,
           boot, Collect, ActivationFails, Snapshot, ParkFails, BootIrq
    <3>2. ASSUME NEW c \in Secondaries, SecondaryNext(c) \/ Environment(c) PROVE bpc' = bpc
        BY <3>2, Zenon DEF SecondaryNext, Environment, FirmwareEnters, boot, Enter, Reject, Claim,
           PublishCheckpoint, ParkOrFail, SeeActivate, InitializeLocal, InitializeFails, GoOnline,
           PingBoot, PingAnswered, PingTimesOut, HoldStops, HoldSleeps, WakeUp, MaskAgain,
           Dispatch, IrqReturns, NotifyFatal, WriteBack, FirmwareWrites, Trap
    <3>3. QED
        BY <1>1, <3>1, <3>2 DEF Next, vars, boot
  <2>2. bpc = "authorize" /\ ~fatal /\ status = "Ready"
      BY <1>1, <2>1 DEF Authorize
  <2>3. attempted = Secondaries
      BY <1>1, <2>2 DEF IInv, SequenceInv
  <2>4. \A c \in Secondaries : Here(c) /\ Joined(c) /\ state[c] = "Parked" /\ Lifecycle(c)
      BY <1>1, <2>2, Zenon DEF IInv, CpuInv, SequenceInv, WorkerInv
  <2>5. QED
      BY <2>2, <2>3, <2>4, Zenon DEF Here, Joined, Lifecycle
<1>2. QED
    BY <1>1, StartupInvariant, PTL DEF Spec, GuestNeedsEveryCpu

\* A secondary and its environment change neither CPU0 nor another CPU's arrival.
LEMMA OtherCpus ==
    ASSUME IInv, NEW c \in Secondaries, SecondaryNext(c) \/ Environment(c)
    PROVE  /\ UNCHANGED boot
           /\ \A v \in Secondaries \ {c} : state'[v] = state[v] /\ failures'[v] = failures[v]
<1>1. DOMAIN state = Secondaries /\ DOMAIN failures = Secondaries
    BY TypeParts DEF IInv, MemoryTypes, MailboxTypeOK, CpuTypes
<1>2. CASE SecondaryNext(c)
    BY <1>1, <1>2, Zenon DEF SecondaryNext, FirmwareEnters, mailbox, boot, Enter, Reject, Claim,
       ClaimEntry, PublishCheckpoint, ParkOrFail, Transition, SeeActivate, InitializeLocal,
       InitializeFails, GoOnline, PingBoot, PingAnswered, PingTimesOut, HoldStops, Stop,
       HoldSleeps, WakeUp, MaskAgain, Dispatch, IrqReturns, NotifyFatal
<1>3. CASE Environment(c)
    BY <1>3, Zenon DEF Environment, WriteBack, mailbox, boot, FirmwareWrites, Trap, mailbox
<1>4. QED
    BY <1>2, <1>3, Zenon

\* CPU0 changes no arrival.
LEMMA BootArrivals ==
    ASSUME IInv, BootNext
    PROVE  Arrived' = Arrived
<1>1. CASE UNCHANGED <<state, failures>>
    BY <1>1 DEF Arrived
<1>2. /\ DOMAIN state = Secondaries /\ target \in Secondaries
      /\ \A c \in Secondaries : bpc = "slots" => state[c] \in {"Offline", "Prepared", "Starting"}
    BY TypeParts, Zenon DEF IInv, BootTypes, MemoryTypes, MailboxTypeOK, StatusInv, PublicationInv,
       Unpublished, CpuInv, Released, Lifecycle, UnclaimedSteps
<1>3. CASE PrepareSlots
  <2>1. \A c \in Secondaries : state[c] \in {"Offline", "Prepared", "Starting"} /\ state'[c] = "Prepared"
      BY <1>2, <1>3 DEF PrepareSlots, BootStep
  <2>2. QED
      BY <2>1 DEF Arrived
<1>4. CASE BeginStart
  <2>1. /\ state[target] = "Prepared" /\ state'[target] = "Starting" /\ failures' = failures
        /\ \A c \in Secondaries \ {target} : state'[c] = state[c]
      BY <1>2, <1>4 DEF BeginStart, Transition
  <2>2. QED
      BY <2>1, Zenon DEF Arrived
<1>5. QED
    BY <1>1, <1>3, <1>4, Zenon DEF BootNext, BeginBootOnce, mailbox, PrepareCpu, PublishGeneration,
       Freeze, PublishAll, BeginRelease, CheckRelease, RereadCell, MarkAttempted, StoreCell,
       CleanCell, SeeParked, VerifyCheckpoint, Readback, VerifyAllParked, StartFails,
       FinalizeBoot, Activate, WaitOnline, WaitEcho, Request, Collect, ActivationFails, Snapshot,
       ParkFails, Authorize, BootIrq

\* Every step of the boot is a step of the abstract gate or changes nothing it
\* shows.
LEMMA GateStep ==
    ASSUME IInv, [Next]_vars
    PROVE  [Gate!Next]_(Gate!gate)
<1>1. ASSUME NEW c \in Secondaries, SecondaryNext(c) \/ Environment(c)
      PROVE  Gate!Arrive(c) \/ UNCHANGED Gate!gate
  <2>1. Decision' = Decision /\ Guest' = Guest
      BY <1>1, OtherCpus, Zenon DEF boot, Decision, Guest
  <2>2. \A v \in Secondaries \ {c} : Here(v)' = Here(v)
      BY <1>1, OtherCpus, Zenon DEF Here
  <2>3. Here(c) => Here(c)'
      BY HereStep
  <2>4. CASE Here(c)' /\ ~Here(c)
    <3>1. c \notin Arrived /\ Arrived' = Arrived \cup {c}
        BY <2>2, <2>4, Zenon DEF Arrived, Here
    <3>2. QED
        BY <2>1, <3>1 DEF Gate!Arrive
  <2>5. CASE ~(Here(c)' /\ ~Here(c))
    <3>1. Arrived' = Arrived
        BY <2>2, <2>3, <2>5, Zenon DEF Arrived, Here
    <3>2. QED
        BY <2>1, <3>1 DEF Gate!gate
  <2>6. QED
      BY <2>4, <2>5
<1>2. ASSUME BootNext, bpc' \notin {"guest", "halted"}, bpc \notin {"guest", "halted", "finalize"},
             status' \in Terminal <=> status \in Terminal, status' = "Ready" <=> status = "Ready"
      PROVE  UNCHANGED Gate!gate
    BY <1>2, BootArrivals DEF Gate!gate, Decision, Guest
<1>3. ASSUME FinalizeBoot, BootNext
      PROVE  Gate!Accept \/ Gate!Refuse
  <2>1. /\ Arrived' = Arrived /\ status \in {"Preparing", "Releasing"} /\ status' = FinalStatus
        /\ bpc = "finalize" /\ bpc' = IF FinalStatus = "Ready" THEN "activate" ELSE "halted"
      BY <1>3, BootArrivals DEF FinalizeBoot
  <2>2. CASE FinalStatus = "Ready"
    <3>1. Arrived = Secondaries
      <4>1. outcome = "ok"
          BY <2>1, <2>2 DEF FinalStatus
      <4>2. \A c \in Secondaries : Here(c)
          BY <2>1, <4>1 DEF IInv, SequenceInv
      <4>3. QED
          BY <4>2 DEF Arrived, Here
    <3>2. Decision = "open" /\ Decision' = "ready" /\ Guest' = Guest
        BY <2>1, <2>2 DEF Decision, Guest, Terminal
    <3>3. QED
        BY <2>1, <3>1, <3>2 DEF Gate!Accept
  <2>3. CASE FinalStatus # "Ready"
    <3>1. FinalStatus \in {"PreparationFailed", "WaitFailed", "ReleaseFailed"}
        BY <2>1, <2>3 DEF FinalStatus
    <3>2. Decision = "open" /\ Decision' = "failed" /\ Guest' = "stopped"
        BY <2>1, <3>1 DEF Decision, Guest, Terminal
    <3>3. QED
        BY <2>1, <3>2 DEF Gate!Refuse
  <2>4. QED
      BY <2>2, <2>3
<1>4. ASSUME BootNext, bpc \in ReadySteps, bpc' = "halted", status' = status
      PROVE  Gate!Stop
  <2>1. Decision = "ready" /\ Decision' = "ready" /\ Guest' = "stopped"
      BY <1>4 DEF IInv, StatusInv, Decision, Guest
  <2>2. QED
      BY <1>4, <2>1, BootArrivals DEF Gate!Stop
<1>5. ASSUME BootNext, bpc = "authorize", bpc' = "guest", status' = status
      PROVE  Gate!Enter
  <2>1. Decision = "ready" /\ Decision' = "ready" /\ Guest = "waiting" /\ Guest' = "running"
      BY <1>5 DEF IInv, StatusInv, ReadySteps, Decision, Guest
  <2>2. QED
      BY <1>5, <2>1, BootArrivals DEF Gate!Enter
<1>6. CASE BootNext
  <2>1. CASE PrepareSlots \/ PrepareCpu \/ Freeze \/ PublishAll \/ CheckRelease \/ BeginStart \/
     RereadCell \/ MarkAttempted \/ StoreCell \/ CleanCell \/ SeeParked \/ VerifyCheckpoint \/
     Readback \/ VerifyAllParked \/ StartFails \/ Activate \/ WaitOnline \/ WaitEcho \/ Collect \/
     Snapshot
    <3>1. bpc' \notin {"guest", "halted"} /\ bpc \notin {"guest", "halted", "finalize"}
          /\ status' = status
        BY <2>1, Zenon DEF PrepareSlots, BootStep, PrepareCpu, Freeze, PublishAll, CheckRelease,
           BeginStart, RereadCell, MarkAttempted, StoreCell, CleanCell, SeeParked,
           VerifyCheckpoint, Readback, VerifyAllParked, Give, StartFails, Activate, WaitOnline,
           ScriptAdvances, WaitEcho, Collect, Snapshot, Asking
    <3>2. QED
        BY <1>2, <1>6, <3>1
  <2>2. CASE BeginBootOnce \/ BeginRelease
      BY <1>2, <1>6, <2>2 DEF BeginBootOnce, BeginRelease, BootStep, Terminal
  <2>3. CASE FinalizeBoot
      BY <1>3, <1>6, <2>3 DEF Gate!Next
  <2>4. CASE ActivationFails \/ ParkFails
    <3>1. bpc \in ReadySteps /\ bpc' = "halted" /\ status' = status
        BY <2>4 DEF ActivationFails, ParkFails, BootStep, ReadySteps
    <3>2. QED
        BY <1>4, <1>6, <3>1 DEF Gate!Next
  <2>5. CASE Authorize
    <3>1. bpc = "authorize" /\ bpc' \in {"guest", "halted"} /\ status' = status
        BY <2>5 DEF Authorize
    <3>2. QED
        BY <1>4, <1>5, <1>6, <3>1 DEF ReadySteps, Gate!Next
  <2>6. CASE BootIrq \/ Request
    <3>1. UNCHANGED <<bpc, status>> \/ (bpc \in ReadySteps /\ bpc' = "halted" /\ status' = status)
        BY <2>6, Zenon DEF BootIrq, Request, boot, IrqSteps, ReadySteps
    <3>2. CASE UNCHANGED <<bpc, status>>
        BY <1>6, <3>2, BootArrivals DEF Gate!gate, Decision, Guest
    <3>3. QED
        BY <1>4, <1>6, <3>1, <3>2 DEF Gate!Next
  <2>7. QED
      BY <1>6, <2>1, <2>2, <2>3, <2>4, <2>5, <2>6 DEF BootNext
<1>7. CASE UNCHANGED vars
    BY <1>7, Zenon DEF vars, boot, mailbox, Gate!gate, Arrived, Decision, Guest
<1>8. QED
    BY <1>1, <1>6, <1>7 DEF Next, Gate!Next

\* The whole boot implements the abstract gate: one decision, taken once, positive
\* only after all arrivals, and the guest only after a positive decision.
THEOREM StartupRefinesBootGate == Spec => ImplementsBootGate
<1>1. Init => Gate!Init
  <2> SUFFICES ASSUME Init PROVE Gate!Init
      OBVIOUS
  <2>1. Arrived = {}
      BY Zenon DEF Init, MailboxInit, Arrived
  <2>2. Decision = "open" /\ Guest = "waiting"
      BY Zenon DEF Init, Decision, Guest, Terminal
  <2>3. QED
      BY <2>1, <2>2 DEF Gate!Init
<1>2. QED
    BY <1>1, StartupInvariant, GateStep, PTL DEF Spec, Gate!Spec, ImplementsBootGate

=============================================================================
