----------------------------- MODULE HostProofs -----------------------------
(***************************************************************************)
(* Proofs about Fatal and HostMemory, for every set of CPUs, every layout  *)
(* and every bound: the locks protect what they are meant to, a report     *)
(* shows the first failure, and the pages that the boot takes have one     *)
(* owner each.  Each component has an inductive invariant of its own.      *)
(***************************************************************************)
EXTENDS Fatal, HostMemory, FiniteSetTheorems, SequenceTheorems, TLAPS

LockSteps == {"spin", "write", "restore"}
\* Where main of a worker runs masked.
MaskedSteps == {"off", "parked", "online", "asleep"}
OpenSteps == {"idle", "work", "guest", "ended", "heap"}
HeapSteps == {"alloc", "dealloc", "count up", "count down"}
StoreSteps == {"kind", "address", "ready"}

FailureSteps == {"idle", "flag", "claim", "notify", "try", "emit", "halt"} \cup StoreSteps

RecordTypes ==
    /\ fpc \in [CPUs -> FailureSteps]
    /\ fault \in [CPUs -> Nat] /\ faults \in Nat
    /\ slot \in [CPUs -> Slots]
    /\ state \in [Slots -> 0 .. 2]
    /\ words \in [Slots -> [Fields -> Nat]]
    /\ first \in [Slots -> Nat]

\* A CPU that has claimed a record is alone in writing it, with its first
\* failure, and a record that is ready is complete.
RecordInv ==
    /\ \A c \in CPUs : fpc[c] # "idle" => fault[c] > 0
    /\ \A s \in Slots : state[s] = 0 <=> first[s] = 0
    /\ \A c \in CPUs : fpc[c] \in StoreSteps => state[slot[c]] = 1 /\ first[slot[c]] = fault[c]
    /\ \A c \in CPUs : fpc[c] \in {"address", "ready"} => words[slot[c]]["kind"] = fault[c]
    /\ \A c \in CPUs : fpc[c] = "ready" => words[slot[c]]["address"] = fault[c]
    /\ \A c, d \in CPUs : (fpc[c] \in StoreSteps /\ fpc[d] \in StoreSteps /\ slot[c] = slot[d]) =>
       c = d
    /\ \A s \in Slots : state[s] = 2 => \A f \in Fields : words[s][f] = first[s]

ContextTypes ==
    /\ context \in [CPUs -> {"main", "irq", "fatal", "halted"}]
    /\ below \in [CPUs -> {"main", "fatal"}]
    /\ fpc \in [CPUs -> FailureSteps]

MaskTypes ==
    /\ masked \in [CPUs -> BOOLEAN] /\ saved \in [CPUs -> BOOLEAN]
    /\ fatal \in BOOLEAN

MainSteps == MaskedSteps \cup OpenSteps \cup LockSteps \cup HeapSteps
MainTypes == pc \in [CPUs -> MainSteps]

\* The boot CPU outside activate_secondary and park_workers.
Closed(c) == c = Boot /\ phase # "open"

InMain(c) == context[c] = "main" \/ (context[c] = "irq" /\ below[c] = "main")

\* Whether a CPU holds the console, and where its interrupts are masked.
Console(c) ==
    /\ InMain(c) => fpc[c] = "idle"
    /\ pc[c] = "write" => uart = c
    /\ fpc[c] = "emit" => uart = c /\ pc[c] # "write"
    /\ (uart = c /\ InMain(c)) => pc[c] = "write"
    /\ pc[c] \in MaskedSteps => c # Boot
    /\ context[c] = "main" => (masked[c] <=> Closed(c) \/ pc[c] \in LockSteps \cup MaskedSteps)
    /\ (context[c] = "main" /\ pc[c] \in LockSteps) => (saved[c] <=> Closed(c))
    /\ (context[c] = "irq" /\ below[c] = "main") =>
       ~Closed(c) /\ pc[c] \notin LockSteps \cup MaskedSteps
    /\ (context[c] = "irq" /\ below[c] = "fatal") => fpc[c] # "emit"
    /\ (context[c] = "fatal" /\ fpc[c] = "emit") => masked[c]

ConsoleTypes == ContextTypes /\ MaskTypes /\ MainTypes
ConsoleInv == \A c \in CPUs : Console(c)

\* A CPU whose state a step of another leaves alone.
Same(c) ==
    /\ context'[c] = context[c] /\ below'[c] = below[c]
    /\ pc'[c] = pc[c] /\ fpc'[c] = fpc[c]
    /\ masked'[c] = masked[c] /\ saved'[c] = saved[c]
    /\ uart' = c <=> uart = c
    /\ c = Boot => phase' = phase

ArenaTypes == blocks \in Int /\ live \in Int

\* The owner of the heap, dead or alive, is in a heap call; the counter lags
\* behind the arena by the block it has not counted yet.
HeapInv ==
    /\ \A c \in CPUs : heap = c <=> pc[c] \in HeapSteps
    /\ heap = None => live = blocks
    /\ \A c \in CPUs : pc[c] \in {"alloc", "dealloc"} => live = blocks
    /\ \A c \in CPUs : pc[c] = "count up" => live + 1 = blocks
    /\ \A c \in CPUs : pc[c] = "count down" => live - 1 = blocks

IInv ==
    /\ RecordTypes /\ RecordInv
    /\ ConsoleTypes /\ ConsoleInv
    /\ ArenaTypes /\ HeapInv

-----------------------------------------------------------------------------
\* The initial state is idle everywhere.
LEMMA InitInvariant == Init => IInv
<1> SUFFICES ASSUME Init PROVE IInv
    OBVIOUS
<1> USE NoneAssumption, BootAssumption DEF Init
<1>1. RecordTypes
    BY DEF RecordTypes, FailureSteps, Slots
<1>2. RecordInv
    BY DEF RecordInv, Slots, StoreSteps
<1>3. ContextTypes
    BY DEF ContextTypes, FailureSteps
<1>4. MaskTypes
    BY Zenon DEF MaskTypes
<1>5. MainTypes
    BY DEF MainTypes, MainSteps, MaskedSteps, OpenSteps
<1>6. ConsoleInv
    BY DEF ConsoleInv, Console, InMain, Closed, LockSteps, MaskedSteps
<1>7. ArenaTypes
    BY DEF ArenaTypes
<1>8. HeapInv
    BY DEF HeapInv, HeapSteps
<1>9. QED
    BY <1>1, <1>2, <1>3, <1>4, <1>5, <1>6, <1>7, <1>8 DEF IInv, ConsoleTypes

\* The types of the failure records.
LEMMA RecordTypesInduction == RecordTypes /\ [Next]_vars => RecordTypes'
<1> SUFFICES ASSUME RecordTypes, [Next]_vars PROVE RecordTypes'
    OBVIOUS
<1> USE DEF RecordTypes, FailureSteps, StoreSteps, Fields, Slots
<1>1. ASSUME NEW c \in CPUs, RaiseFlag(c) PROVE RecordTypes'
    BY <1>1 DEF RaiseFlag, In, Others
<1>2. ASSUME NEW c \in CPUs, Claim(c) PROVE RecordTypes'
    BY <1>2 DEF Claim, In, Others
<1>3. ASSUME NEW c \in CPUs, Store(c) PROVE RecordTypes'
    BY <1>3 DEF Store, In, Others
<1>4. ASSUME NEW c \in CPUs, Publish(c) PROVE RecordTypes'
    BY <1>4 DEF Publish, In, Others
<1>5. ASSUME NEW c \in CPUs, Notify(c) PROVE RecordTypes'
    BY <1>5 DEF Notify, In, records, Others
<1>6. ASSUME NEW c \in CPUs, TryLock(c) PROVE RecordTypes'
    BY <1>6 DEF TryLock, In, records, Others
<1>7. ASSUME NEW c \in CPUs, Emit(c) PROVE RecordTypes'
    BY <1>7 DEF Emit, In, records, Others
<1>8. ASSUME NEW c \in CPUs, Fail(c) PROVE RecordTypes'
    BY <1>8 DEF Fail, records
<1>9. ASSUME NEW c \in CPUs, Lock(c) \/ Acquire(c) \/ Release(c) \/ Restore(c) \/ HeapSpin(c) \/
             HeapLock(c) \/ Alloc(c) \/ Dealloc(c) \/ Count(c) \/ TakeIrq(c) \/ Handle(c) \/
             Halt(c)
      PROVE  UNCHANGED <<fpc, fault, slot, state, words, first, faults>>
    BY <1>9, Zenon DEF Lock, Acquire, Release, Restore, HeapSpin, HeapLock, Alloc, Dealloc, Count,
       TakeIrq, Handle, Halt, records, Rest, Quiet
<1>10. ASSUME UNCHANGED <<fpc, fault, slot, state, words, first, faults>> PROVE RecordTypes'
    BY <1>10
<1>11. CASE UNCHANGED vars
    BY <1>11, <1>10 DEF vars, records
<1>12. ASSUME NEW c \in CPUs, TakeOver(c) PROVE RecordTypes'
    BY <1>12 DEF TakeOver, Proceed, At
<1>13. ASSUME NEW c \in CPUs, InitializeBoot(c) \/ StartWorker(c) \/ Open(c) \/ Activate(c) \/
             Close(c) \/ GiveUp(c) \/ EnterGuest(c) \/ TrapExit(c) \/ IrqExit(c)
      PROVE  UNCHANGED <<fpc, fault, slot, state, words, first, faults>>
    BY <1>13, Zenon DEF InitializeBoot, StartWorker, Open, Activate, Close, GiveUp, EnterGuest,
       TrapExit, IrqExit, Quiet, records
<1>14. ASSUME NEW c \in CPUs, Join(c) \/ Online(c) \/ Poll(c) \/ Wake(c) \/ Work(c) \/ EndWork(c)
      PROVE  UNCHANGED <<fpc, fault, slot, state, words, first, faults>>
    BY <1>14, Zenon DEF Join, Online, Poll, Wake, Work, EndWork, Unmask, Quiet, records
<1> HIDE DEF RecordTypes, StoreSteps, Fields, Slots
<1>15. QED
    BY <1>1, <1>2, <1>3, <1>4, <1>5, <1>6, <1>7, <1>8, <1>9, <1>10, <1>11, <1>12, <1>13, <1>14, Zenon
       DEF Next, Step, BootStep

\* Only Claim takes a record, when it is free, and only its owner stores.
LEMMA RecordInduction == RecordTypes /\ RecordInv /\ ConsoleInv /\ [Next]_vars => RecordInv'
<1> SUFFICES ASSUME RecordTypes, RecordInv, ConsoleInv, [Next]_vars PROVE RecordInv'
    OBVIOUS
<1> USE DEF RecordTypes, RecordInv, StoreSteps, Fields, Slots
<1>1. ASSUME NEW c \in CPUs, RaiseFlag(c) PROVE RecordInv'
    BY <1>1 DEF RaiseFlag, In, Others
<1>2. ASSUME NEW c \in CPUs, Claim(c) PROVE RecordInv'
    BY <1>2 DEF Claim, In, Others
<1>3. ASSUME NEW c \in CPUs, Store(c) PROVE RecordInv'
    BY <1>3 DEF Store, In, Others
<1>4. ASSUME NEW c \in CPUs, Publish(c) PROVE RecordInv'
    BY <1>4 DEF Publish, In, Others
<1>5. ASSUME NEW c \in CPUs, Notify(c) PROVE RecordInv'
    BY <1>5 DEF Notify, In, records, Others
<1>6. ASSUME NEW c \in CPUs, TryLock(c) PROVE RecordInv'
  <2>1. /\ fpc[c] = "try" /\ fpc'[c] \in {"emit", "halt"} /\ \A d \in CPUs \ {c} : fpc'[d] = fpc[d]
        /\ UNCHANGED <<fault, slot, state, words, first>>
    BY <1>6 DEF TryLock, In, records, Others
  <2>2. QED
    BY <2>1
<1>7. ASSUME NEW c \in CPUs, Emit(c) PROVE RecordInv'
    BY <1>7 DEF Emit, In, records, Others
<1>8. ASSUME NEW c \in CPUs, Fail(c) PROVE RecordInv'
    BY <1>8 DEF Fail, records
<1>9. ASSUME NEW c \in CPUs, Lock(c) \/ Acquire(c) \/ Release(c) \/ Restore(c) \/ HeapSpin(c) \/
             HeapLock(c) \/ Alloc(c) \/ Dealloc(c) \/ Count(c) \/ TakeIrq(c) \/ Handle(c) \/
             Halt(c)
      PROVE  UNCHANGED <<fpc, fault, slot, state, words, first, faults>>
    BY <1>9, Zenon DEF Lock, Acquire, Release, Restore, HeapSpin, HeapLock, Alloc, Dealloc, Count,
       TakeIrq, Handle, Halt, records, Rest, Quiet
<1>10. ASSUME UNCHANGED <<fpc, fault, slot, state, words, first, faults>> PROVE RecordInv'
    BY <1>10
<1>11. CASE UNCHANGED vars
    BY <1>11, <1>10, Zenon DEF vars, records
<1>12. ASSUME NEW c \in CPUs, TakeOver(c) PROVE RecordInv'
  <2>1. /\ fpc[c] = "idle" /\ \A d \in CPUs \ {c} : slot'[d] = slot[d]
        /\ UNCHANGED <<fpc, fault, state, words, first>>
    BY <1>12, Zenon DEF TakeOver, At, ConsoleInv, Console, InMain, RecordTypes
  <2>2. \A d \in CPUs : fpc[d] \in StoreSteps => slot'[d] = slot[d]
    BY <2>1
  <2>3. QED
    BY <2>1, <2>2
<1>13. ASSUME NEW c \in CPUs, InitializeBoot(c) \/ StartWorker(c) \/ Open(c) \/ Activate(c) \/
             Close(c) \/ GiveUp(c) \/ EnterGuest(c) \/ TrapExit(c) \/ IrqExit(c)
      PROVE  UNCHANGED <<fpc, fault, slot, state, words, first, faults>>
    BY <1>13, Zenon DEF InitializeBoot, StartWorker, Open, Activate, Close, GiveUp, EnterGuest,
       TrapExit, IrqExit, Quiet, records
<1>14. ASSUME NEW c \in CPUs, Join(c) \/ Online(c) \/ Poll(c) \/ Wake(c) \/ Work(c) \/ EndWork(c)
      PROVE  UNCHANGED <<fpc, fault, slot, state, words, first, faults>>
    BY <1>14, Zenon DEF Join, Online, Poll, Wake, Work, EndWork, Unmask, Quiet, records
<1> HIDE DEF RecordTypes, RecordInv, StoreSteps, Fields, Slots
<1>15. QED
    BY <1>1, <1>2, <1>3, <1>4, <1>5, <1>6, <1>7, <1>8, <1>9, <1>10, <1>11, <1>12, <1>13, <1>14, Zenon
       DEF Next, Step, BootStep

\* The types of the contexts.
LEMMA ContextTypesInduction == ContextTypes /\ [Next]_vars => ContextTypes'
<1> SUFFICES ASSUME ContextTypes, [Next]_vars PROVE ContextTypes'
    OBVIOUS
<1> USE DEF ContextTypes, FailureSteps, StoreSteps
<1>1. ASSUME NEW c \in CPUs, RaiseFlag(c) PROVE ContextTypes'
    BY <1>1 DEF RaiseFlag, In, Others
<1>2. ASSUME NEW c \in CPUs, Claim(c) PROVE ContextTypes'
    BY <1>2 DEF Claim, In, Others
<1>3. ASSUME NEW c \in CPUs, Store(c) PROVE ContextTypes'
    BY <1>3 DEF Store, In, Others
<1>4. ASSUME NEW c \in CPUs, Publish(c) PROVE ContextTypes'
    BY <1>4 DEF Publish, In, Others
<1>5. ASSUME NEW c \in CPUs, Notify(c) PROVE ContextTypes'
    BY <1>5 DEF Notify, In, Others
<1>6. ASSUME NEW c \in CPUs, TryLock(c) PROVE ContextTypes'
    BY <1>6 DEF TryLock, In, Others
<1>7. ASSUME NEW c \in CPUs, Emit(c) PROVE ContextTypes'
    BY <1>7 DEF Emit, In, Others
<1>8. ASSUME NEW c \in CPUs, Fail(c) PROVE ContextTypes'
    BY <1>8 DEF Fail
<1>9. ASSUME NEW c \in CPUs, TakeIrq(c) PROVE ContextTypes'
    BY <1>9 DEF TakeIrq
<1>10. ASSUME NEW c \in CPUs, Handle(c) PROVE ContextTypes'
    BY <1>10 DEF Handle, StopIfRequested
<1>11. ASSUME NEW c \in CPUs, Halt(c) PROVE ContextTypes'
    BY <1>11 DEF Halt, Quiet
<1>12. ASSUME NEW c \in CPUs, Lock(c) \/ Acquire(c) \/ Release(c) \/ Restore(c) \/ HeapSpin(c) \/
             HeapLock(c) \/ Alloc(c) \/ Dealloc(c) \/ Count(c)
      PROVE  UNCHANGED <<context, below, fpc>>
    BY <1>12, Zenon DEF Lock, Acquire, Release, Restore, HeapSpin, HeapLock, Alloc, Dealloc, Count,
       Rest
<1>13. ASSUME UNCHANGED <<context, below, fpc>> PROVE ContextTypes'
    BY <1>13
<1>14. CASE UNCHANGED vars
    BY <1>14, <1>13 DEF vars
<1>15. ASSUME NEW c \in CPUs, TakeOver(c) \/ InitializeBoot(c) \/ StartWorker(c) \/ Open(c) \/
             Activate(c) \/ Close(c) \/ GiveUp(c) \/ EnterGuest(c) \/ TrapExit(c)
      PROVE  UNCHANGED <<context, below, fpc>>
    BY <1>15, Zenon DEF TakeOver, InitializeBoot, StartWorker, Open, Activate, Close, GiveUp,
       EnterGuest, TrapExit, Quiet
<1>16. ASSUME NEW c \in CPUs, Join(c) \/ Wake(c) \/ Work(c) \/ EndWork(c)
      PROVE  UNCHANGED <<context, below, fpc>>
    BY <1>16, Zenon DEF Join, Wake, Work, EndWork, Unmask, Quiet
<1>17. ASSUME NEW c \in CPUs, IrqExit(c) PROVE ContextTypes'
    BY <1>17 DEF IrqExit, StopIfRequested, Quiet
<1>18. ASSUME NEW c \in CPUs, Online(c) PROVE ContextTypes'
    BY <1>18 DEF Online, Unmask, Quiet
<1>19. ASSUME NEW c \in CPUs, Poll(c) PROVE ContextTypes'
    BY <1>19 DEF Poll, StopIfRequested, Quiet
<1>20. QED
    BY <1>1, <1>2, <1>3, <1>4, <1>5, <1>6, <1>7, <1>8, <1>9, <1>10, <1>11, <1>12, <1>13, <1>14,
       <1>15, <1>16, <1>17, <1>18, <1>19, Zenon DEF Next, Step, BootStep

\* The types of the interrupt masks.
LEMMA MaskTypesInduction == MaskTypes /\ [Next]_vars => MaskTypes'
<1> SUFFICES ASSUME MaskTypes, [Next]_vars PROVE MaskTypes'
    OBVIOUS
<1> USE DEF MaskTypes
<1>1. ASSUME NEW c \in CPUs, Lock(c) PROVE MaskTypes'
    BY <1>1, Zenon DEF Lock, At, records, Rest
<1>2. ASSUME NEW c \in CPUs, Restore(c) PROVE MaskTypes'
    BY <1>2 DEF Restore, At, records, Rest
<1>3. ASSUME NEW c \in CPUs, TakeIrq(c) PROVE MaskTypes'
    BY <1>3 DEF TakeIrq, records
<1>4. ASSUME NEW c \in CPUs, Handle(c) PROVE MaskTypes'
    BY <1>4, Zenon DEF Handle, records
<1>5. ASSUME NEW c \in CPUs, RaiseFlag(c) PROVE MaskTypes'
    BY <1>5 DEF RaiseFlag, In, locks
<1>6. ASSUME NEW c \in CPUs, TryLock(c) PROVE MaskTypes'
    BY <1>6, Zenon DEF TryLock, In, locks, records
<1>7. ASSUME NEW c \in CPUs, Emit(c) PROVE MaskTypes'
    BY <1>7 DEF Emit, In, records
<1>8. ASSUME NEW c \in CPUs, Fail(c) PROVE MaskTypes'
    BY <1>8 DEF Fail, records
<1>9. ASSUME NEW c \in CPUs, Acquire(c) \/ Release(c) \/ HeapSpin(c) \/ HeapLock(c) \/ Alloc(c) \/
             Dealloc(c) \/ Count(c) \/ Claim(c) \/ Store(c) \/ Publish(c) \/ Notify(c) \/ Halt(c)
      PROVE  UNCHANGED <<masked, saved, fatal>>
    BY <1>9, Zenon DEF Acquire, Release, HeapSpin, HeapLock, Alloc, Dealloc, Count, Claim, Store,
       Publish, Notify, Halt, records, Rest, Quiet, locks
<1>10. ASSUME UNCHANGED <<masked, saved, fatal>> PROVE MaskTypes'
    BY <1>10
<1>11. CASE UNCHANGED vars
    BY <1>11, <1>10 DEF vars, locks, records
<1>12. ASSUME NEW c \in CPUs, TakeOver(c) \/ InitializeBoot(c) \/ StartWorker(c) \/ Activate(c) \/
             GiveUp(c) \/ EnterGuest(c) \/ TrapExit(c) \/ IrqExit(c) \/ Join(c) \/ EndWork(c)
      PROVE  UNCHANGED <<masked, saved, fatal>>
    BY <1>12, Zenon DEF TakeOver, InitializeBoot, StartWorker, Activate, GiveUp, EnterGuest,
       TrapExit, IrqExit, Join, EndWork, locks, Quiet, records
<1>13. ASSUME NEW c \in CPUs, Open(c) PROVE MaskTypes'
    BY <1>13, Zenon DEF Open, Quiet, records
<1>14. ASSUME NEW c \in CPUs, Close(c) PROVE MaskTypes'
    BY <1>14, Zenon DEF Close, Quiet, records
<1>15. ASSUME NEW c \in CPUs, Online(c) PROVE MaskTypes'
    BY <1>15, Zenon DEF Online, Unmask, locks, Quiet, records
<1>16. ASSUME NEW c \in CPUs, Poll(c) PROVE MaskTypes'
    BY <1>16, Zenon DEF Poll, Quiet, records
<1>17. ASSUME NEW c \in CPUs, Wake(c) PROVE MaskTypes'
    BY <1>17, Zenon DEF Wake, Unmask, Quiet, records
<1>18. ASSUME NEW c \in CPUs, Work(c) PROVE MaskTypes'
    BY <1>18, Zenon DEF Work, Unmask, Quiet, records
<1>19. QED
    BY <1>1, <1>2, <1>3, <1>4, <1>5, <1>6, <1>7, <1>8, <1>9, <1>10, <1>11, <1>12, <1>13, <1>14,
       <1>15, <1>16, <1>17, <1>18, Zenon DEF Next, Step, BootStep

\* The steps of main.
LEMMA MainTypesInduction == MainTypes /\ [Next]_vars => MainTypes'
<1> SUFFICES ASSUME MainTypes, [Next]_vars PROVE MainTypes'
    OBVIOUS
<1> USE DEF MainTypes, MainSteps, MaskedSteps, OpenSteps, LockSteps, HeapSteps
<1>1. ASSUME NEW c \in CPUs, Lock(c) PROVE MainTypes'
    BY <1>1, Zenon DEF Lock, At
<1>2. ASSUME NEW c \in CPUs, Acquire(c) PROVE MainTypes'
    BY <1>2, Zenon DEF Acquire, At
<1>3. ASSUME NEW c \in CPUs, Release(c) PROVE MainTypes'
    BY <1>3, Zenon DEF Release, At
<1>4. ASSUME NEW c \in CPUs, Restore(c) PROVE MainTypes'
    BY <1>4, Zenon DEF Restore, At, Base
<1>5. ASSUME NEW c \in CPUs, HeapLock(c) PROVE MainTypes'
    BY <1>5, Zenon DEF HeapLock, At
<1>6. ASSUME NEW c \in CPUs, Alloc(c) PROVE MainTypes'
    BY <1>6, Zenon DEF Alloc, At, Base
<1>7. ASSUME NEW c \in CPUs, Dealloc(c) PROVE MainTypes'
    BY <1>7, Zenon DEF Dealloc, At
<1>8. ASSUME NEW c \in CPUs, Count(c) PROVE MainTypes'
    BY <1>8, Zenon DEF Count, At, Base
<1>9. ASSUME NEW c \in CPUs, TakeIrq(c) \/ Handle(c) \/ RaiseFlag(c) \/ Claim(c) \/ Store(c) \/
             Publish(c) \/ Notify(c) \/ TryLock(c) \/ Emit(c) \/ Halt(c) \/ Fail(c)
      PROVE  UNCHANGED <<pc>>
    BY <1>9, Zenon DEF TakeIrq, Handle, RaiseFlag, Claim, Store, Publish, Notify, TryLock, Emit, Halt,
       Fail, Others
<1>10. ASSUME UNCHANGED <<pc>> PROVE MainTypes'
    BY <1>10, Zenon
<1>11. CASE UNCHANGED vars
    BY <1>11, <1>10, Zenon DEF vars
<1>12. ASSUME NEW c \in CPUs, HeapSpin(c) PROVE MainTypes'
    BY <1>12, Zenon DEF HeapSpin, At
<1>13. ASSUME NEW c \in CPUs, TakeOver(c) PROVE MainTypes'
    BY <1>13, Zenon DEF TakeOver, At
<1>14. ASSUME NEW c \in CPUs, InitializeBoot(c) PROVE MainTypes'
    BY <1>14, Zenon DEF InitializeBoot, At
<1>15. ASSUME NEW c \in CPUs, StartWorker(c) PROVE MainTypes'
    BY <1>15, Zenon DEF StartWorker, At, Workers
<1>16. ASSUME NEW c \in CPUs, Open(c) PROVE MainTypes'
    BY <1>16, Zenon DEF Open, At
<1>17. ASSUME NEW c \in CPUs, Activate(c) PROVE MainTypes'
    BY <1>17, Zenon DEF Activate, At
<1>18. ASSUME NEW c \in CPUs, Close(c) PROVE MainTypes'
    BY <1>18, Zenon DEF Close, At
<1>19. ASSUME NEW c \in CPUs, GiveUp(c) PROVE MainTypes'
    BY <1>19, Zenon DEF GiveUp, At
<1>20. ASSUME NEW c \in CPUs, EnterGuest(c) PROVE MainTypes'
    BY <1>20, Zenon DEF EnterGuest, At
<1>21. ASSUME NEW c \in CPUs, TrapExit(c) PROVE MainTypes'
    BY <1>21, Zenon DEF TrapExit, At
<1>22. ASSUME NEW c \in CPUs, IrqExit(c) PROVE MainTypes'
    BY <1>22, Zenon DEF IrqExit, At
<1>23. ASSUME NEW c \in CPUs, Join(c) PROVE MainTypes'
    BY <1>23, Zenon DEF Join, At
<1>24. ASSUME NEW c \in CPUs, Online(c) PROVE MainTypes'
    BY <1>24, Zenon DEF Online, At, Unmask
<1>25. ASSUME NEW c \in CPUs, Poll(c) PROVE MainTypes'
    BY <1>25, Zenon DEF Poll, At
<1>26. ASSUME NEW c \in CPUs, Wake(c) PROVE MainTypes'
    BY <1>26, Zenon DEF Wake, At, Unmask
<1>27. ASSUME NEW c \in CPUs, Work(c) PROVE MainTypes'
    BY <1>27, Zenon DEF Work, At, Unmask
<1>28. ASSUME NEW c \in CPUs, EndWork(c) PROVE MainTypes'
    BY <1>28, Zenon DEF EndWork, At
<1>29. QED
    BY <1>1, <1>2, <1>3, <1>4, <1>5, <1>6, <1>7, <1>8, <1>9, <1>10, <1>11, <1>12, <1>13, <1>14,
       <1>15, <1>16, <1>17, <1>18, <1>19, <1>20, <1>21, <1>22, <1>23, <1>24, <1>25, <1>26, <1>27,
       <1>28, Zenon DEF Next, Step, BootStep

\* What another CPU does changes nothing here unless it takes or gives the console.
LEMMA Untouched == ASSUME NEW c \in CPUs, Console(c), Same(c) PROVE Console(c)'
    BY DEF Console, Same, InMain, Closed

\* The console's lock and the interrupt masks, step by step.
LEMMA ConsoleInduction == ConsoleTypes /\ ConsoleInv /\ [Next]_vars => ConsoleInv'
<1> SUFFICES ASSUME ConsoleTypes, ConsoleInv, [Next]_vars, NEW d \in CPUs PROVE Console(d)'
    BY DEF ConsoleInv
<1> USE NoneAssumption DEF ConsoleTypes, ContextTypes, MaskTypes, MainTypes
<1>0. \A c \in CPUs : Console(c)
    BY DEF ConsoleInv
<1>1. ASSUME NEW c \in CPUs, Lock(c) PROVE Console(d)'
  <2>1. CASE d # c
    <3>1. Same(d)
        BY <1>0, <1>1, <2>1 DEF Lock, At, Base, Rest, Same, managed
    <3>2. QED
        BY <1>0, <3>1, Untouched
  <2>2. CASE d = c
      BY <1>0, <1>1, <2>2 DEF Lock, At, Base, Rest, managed, Console, InMain,
         Closed, LockSteps, MaskedSteps
  <2>3. QED
      BY <2>1, <2>2
<1>2. ASSUME NEW c \in CPUs, Acquire(c) PROVE Console(d)'
  <2>1. CASE d # c
    <3>1. Same(d)
        BY <1>0, <1>2, <2>1 DEF Acquire, At, Rest, Same, managed
    <3>2. QED
        BY <1>0, <3>1, Untouched
  <2>2. CASE d = c
      BY <1>0, <1>2, <2>2 DEF Acquire, At, Rest, managed, Console, InMain,
         Closed, LockSteps, MaskedSteps
  <2>3. QED
      BY <2>1, <2>2
<1>3. ASSUME NEW c \in CPUs, Release(c) PROVE Console(d)'
  <2>1. CASE d # c
    <3>1. Same(d)
        BY <1>0, <1>3, <2>1 DEF Release, At, Rest, Same, managed, Console
    <3>2. QED
        BY <1>0, <3>1, Untouched
  <2>2. CASE d = c
      BY <1>0, <1>3, <2>2 DEF Release, At, Rest, managed, Console, InMain,
         Closed, LockSteps, MaskedSteps
  <2>3. QED
      BY <2>1, <2>2
<1>4. ASSUME NEW c \in CPUs, Restore(c) PROVE Console(d)'
  <2>1. CASE d # c
    <3>1. Same(d)
        BY <1>0, <1>4, <2>1 DEF Restore, At, Base, Rest, Same, managed
    <3>2. QED
        BY <1>0, <3>1, Untouched
  <2>2. CASE d = c
      BY <1>0, <1>4, <2>2 DEF Restore, At, Base, Rest, managed, Console, InMain,
         Closed, LockSteps, MaskedSteps
  <2>3. QED
      BY <2>1, <2>2
<1>5. ASSUME NEW c \in CPUs, HeapLock(c) PROVE Console(d)'
  <2>1. CASE d # c
    <3>1. Same(d)
        BY <1>0, <1>5, <2>1 DEF HeapLock, At, Rest, Same, managed
    <3>2. QED
        BY <1>0, <3>1, Untouched
  <2>2. CASE d = c
      BY <1>0, <1>5, <2>2, Zenon DEF HeapLock, At, Rest, managed, Console, InMain,
         Closed, LockSteps, MaskedSteps
  <2>3. QED
      BY <2>1, <2>2
<1>6. ASSUME NEW c \in CPUs, Alloc(c) PROVE Console(d)'
  <2>1. CASE d # c
    <3>1. Same(d)
        BY <1>0, <1>6, <2>1, Zenon DEF Alloc, At, Base, locks, Rest, Same, managed
    <3>2. QED
        BY <1>0, <3>1, Untouched
  <2>2. CASE d = c
      BY <1>0, <1>6, <2>2, Zenon DEF Alloc, At, Base, locks, Rest, managed, Console, InMain,
         Closed, LockSteps, MaskedSteps
  <2>3. QED
      BY <2>1, <2>2
<1>7. ASSUME NEW c \in CPUs, Dealloc(c) PROVE Console(d)'
  <2>1. CASE d # c
    <3>1. Same(d)
        BY <1>0, <1>7, <2>1, Zenon DEF Dealloc, At, locks, Rest, Same, managed
    <3>2. QED
        BY <1>0, <3>1, Untouched
  <2>2. CASE d = c
      BY <1>0, <1>7, <2>2, Zenon DEF Dealloc, At, locks, Rest, managed, Console, InMain,
         Closed, LockSteps, MaskedSteps
  <2>3. QED
      BY <2>1, <2>2
<1>8. ASSUME NEW c \in CPUs, Count(c) PROVE Console(d)'
  <2>1. CASE d # c
    <3>1. Same(d)
        BY <1>0, <1>8, <2>1, Zenon DEF Count, At, Base, Rest, Same, managed
    <3>2. QED
        BY <1>0, <3>1, Untouched
  <2>2. CASE d = c
      BY <1>0, <1>8, <2>2, Zenon DEF Count, At, Base, Rest, managed, Console, InMain,
         Closed, LockSteps, MaskedSteps
  <2>3. QED
      BY <2>1, <2>2
<1>9. ASSUME NEW c \in CPUs, TakeIrq(c) PROVE Console(d)'
  <2>1. CASE d # c
    <3>1. Same(d)
        BY <1>0, <1>9, <2>1 DEF TakeIrq, Same, managed
    <3>2. QED
        BY <1>0, <3>1, Untouched
  <2>2. CASE d = c
      BY <1>0, <1>9, <2>2 DEF TakeIrq, managed, Console, InMain,
         Closed, LockSteps, MaskedSteps
  <2>3. QED
      BY <2>1, <2>2
<1>10. ASSUME NEW c \in CPUs, Handle(c) PROVE Console(d)'
  <2>1. CASE d # c
    <3>1. Same(d)
        BY <1>0, <1>10, <2>1 DEF Handle, StopIfRequested, Same, managed
    <3>2. QED
        BY <1>0, <3>1, Untouched
  <2>2. CASE d = c
      BY <1>0, <1>10, <2>2, Zenon DEF Handle, StopIfRequested, managed, Console, InMain,
         Closed, LockSteps, MaskedSteps
  <2>3. QED
      BY <2>1, <2>2
<1>11. ASSUME NEW c \in CPUs, RaiseFlag(c) PROVE Console(d)'
  <2>1. CASE d # c
    <3>1. Same(d)
        BY <1>0, <1>11, <2>1 DEF RaiseFlag, In, locks, Others, Same, managed
    <3>2. QED
        BY <1>0, <3>1, Untouched
  <2>2. CASE d = c
      BY <1>0, <1>11, <2>2, Zenon DEF RaiseFlag, In, locks, Others, managed, Console, InMain,
         Closed, LockSteps, MaskedSteps
  <2>3. QED
      BY <2>1, <2>2
<1>12. ASSUME NEW c \in CPUs, Claim(c) PROVE Console(d)'
  <2>1. CASE d # c
    <3>1. Same(d)
        BY <1>0, <1>12, <2>1, Zenon DEF Claim, In, locks, Others, Same, managed
    <3>2. QED
        BY <1>0, <3>1, Untouched
  <2>2. CASE d = c
      BY <1>0, <1>12, <2>2, Zenon DEF Claim, In, locks, Others, managed, Console, InMain,
         Closed, LockSteps, MaskedSteps
  <2>3. QED
      BY <2>1, <2>2
<1>13. ASSUME NEW c \in CPUs, Store(c) PROVE Console(d)'
  <2>1. CASE d # c
    <3>1. Same(d)
        BY <1>0, <1>13, <2>1 DEF Store, In, locks, Others, Same, managed
    <3>2. QED
        BY <1>0, <3>1, Untouched
  <2>2. CASE d = c
    <3>1. PICK now \in {<<"kind", "address">>, <<"address", "ready">>} :
            context[c] = "fatal" /\ fpc' = [fpc EXCEPT ![c] = now[2]]
        BY <1>13, Zenon DEF Store, In
    <3>2. now[2] \in {"address", "ready"}
        BY <3>1
    <3>3. fpc'[c] = now[2]
        BY <1>0, <3>1, Zenon
    <3>4. UNCHANGED <<context, below, pc, uart, masked, saved>>
        BY <1>13, Zenon DEF Store, locks, Others
    <3>5. fpc'[c] # "emit"
        BY <3>2, <3>3
    <3>6. QED
        BY <1>0, <2>2, <3>1, <3>4, <3>5, Zenon DEF Console, InMain
  <2>3. QED
      BY <2>1, <2>2
<1>14. ASSUME NEW c \in CPUs, Publish(c) PROVE Console(d)'
  <2>1. CASE d # c
    <3>1. Same(d)
        BY <1>0, <1>14, <2>1 DEF Publish, In, locks, Others, Same, managed
    <3>2. QED
        BY <1>0, <3>1, Untouched
  <2>2. CASE d = c
      BY <1>0, <1>14, <2>2 DEF Publish, In, locks, Others, managed, Console, InMain,
         Closed, LockSteps, MaskedSteps
  <2>3. QED
      BY <2>1, <2>2
<1>15. ASSUME NEW c \in CPUs, Notify(c) PROVE Console(d)'
  <2>1. CASE d # c
    <3>1. Same(d)
        BY <1>0, <1>15, <2>1 DEF Notify, In, locks, Others, Same, managed
    <3>2. QED
        BY <1>0, <3>1, Untouched
  <2>2. CASE d = c
      BY <1>0, <1>15, <2>2, Zenon DEF Notify, In, locks, Others, managed, Console, InMain,
         Closed, LockSteps, MaskedSteps
  <2>3. QED
      BY <2>1, <2>2
<1>16. ASSUME NEW c \in CPUs, TryLock(c) PROVE Console(d)'
  <2>1. CASE d # c
    <3>1. Same(d)
        BY <1>0, <1>16, <2>1 DEF TryLock, In, locks, Others, Same, managed
    <3>2. QED
        BY <1>0, <3>1, Untouched
  <2>2. CASE d = c
      BY <1>0, <1>16, <2>2, Zenon DEF TryLock, In, locks, Others, managed, Console, InMain,
         Closed, LockSteps, MaskedSteps
  <2>3. QED
      BY <2>1, <2>2
<1>17. ASSUME NEW c \in CPUs, Emit(c) PROVE Console(d)'
  <2>1. CASE d # c
    <3>1. Same(d)
        BY <1>0, <1>17, <2>1 DEF Emit, In, Others, Same, managed, Console
    <3>2. QED
        BY <1>0, <3>1, Untouched
  <2>2. CASE d = c
      BY <1>0, <1>17, <2>2, Zenon DEF Emit, In, Others, managed, Console, InMain,
         Closed, LockSteps, MaskedSteps
  <2>3. QED
      BY <2>1, <2>2
<1>18. ASSUME NEW c \in CPUs, Halt(c) PROVE Console(d)'
  <2>1. CASE d # c
    <3>1. Same(d)
        BY <1>0, <1>18, <2>1 DEF Halt, locks, Quiet, Same, managed
    <3>2. QED
        BY <1>0, <3>1, Untouched
  <2>2. CASE d = c
      BY <1>0, <1>18, <2>2, Zenon DEF Halt, locks, Quiet, managed, Console, InMain,
         Closed, LockSteps, MaskedSteps
  <2>3. QED
      BY <2>1, <2>2
<1>19. ASSUME NEW c \in CPUs, Fail(c) PROVE Console(d)'
  <2>1. CASE d # c
    <3>1. Same(d)
        BY <1>0, <1>19, <2>1 DEF Fail, Same, managed
    <3>2. QED
        BY <1>0, <3>1, Untouched
  <2>2. CASE d = c
      BY <1>0, <1>19, <2>2, Zenon DEF Fail, managed, Console, InMain,
         Closed, LockSteps, MaskedSteps
  <2>3. QED
      BY <2>1, <2>2
<1>20. CASE UNCHANGED vars
  <2>1. Same(d)
      BY <1>20 DEF vars, locks, Same, managed
  <2>2. QED
      BY <1>0, <2>1, Untouched
<1>21. ASSUME NEW c \in CPUs, HeapSpin(c) PROVE Console(d)'
  <2>1. CASE d # c
    <3>1. Same(d)
        BY <1>0, <1>21, <2>1, Zenon DEF HeapSpin, At, Base, Rest, locks, Same, managed
    <3>2. QED
        BY <1>0, <3>1, Untouched
  <2>2. CASE d = c
      BY <1>0, <1>21, <2>2, Zenon DEF HeapSpin, At, Base, Rest, locks, managed, Console, InMain,
         Closed, LockSteps, MaskedSteps
  <2>3. QED
      BY <2>1, <2>2
<1>22. ASSUME NEW c \in CPUs, TakeOver(c) PROVE Console(d)'
  <2>1. CASE d # c
    <3>1. Same(d)
        BY <1>0, <1>22, <2>1, Zenon DEF TakeOver, At, Proceed, locks, Same, managed
    <3>2. QED
        BY <1>0, <3>1, Untouched
  <2>2. CASE d = c
      BY <1>0, <1>22, <2>2, Zenon DEF TakeOver, At, Proceed, locks, managed, Console, InMain,
         Closed, LockSteps, MaskedSteps
  <2>3. QED
      BY <2>1, <2>2
<1>23. ASSUME NEW c \in CPUs, InitializeBoot(c) PROVE Console(d)'
  <2>1. CASE d # c
    <3>1. Same(d)
        BY <1>0, <1>23, <2>1, Zenon DEF InitializeBoot, At, Proceed, Quiet, locks, Same, managed
    <3>2. QED
        BY <1>0, <3>1, Untouched
  <2>2. CASE d = c
      BY <1>0, <1>23, <2>2, Zenon DEF InitializeBoot, At, Proceed, Quiet, locks, managed, Console,
         InMain, Closed, LockSteps, MaskedSteps
  <2>3. QED
      BY <2>1, <2>2
<1>24. ASSUME NEW c \in CPUs, Open(c) PROVE Console(d)'
  <2>1. CASE d # c
    <3>1. Same(d)
        BY <1>0, <1>24, <2>1, Zenon DEF Open, At, Proceed, Quiet, locks, Same, managed
    <3>2. QED
        BY <1>0, <3>1, Untouched
  <2>2. CASE d = c
      BY <1>0, <1>24, <2>2, Zenon DEF Open, At, Proceed, Quiet, locks, managed, Console, InMain,
         Closed, LockSteps, MaskedSteps
  <2>3. QED
      BY <2>1, <2>2
<1>25. ASSUME NEW c \in CPUs, Activate(c) PROVE Console(d)'
  <2>1. CASE d # c
    <3>1. Same(d)
        BY <1>0, <1>25, <2>1, Zenon DEF Activate, At, Quiet, locks, Same, managed
    <3>2. QED
        BY <1>0, <3>1, Untouched
  <2>2. CASE d = c
      BY <1>0, <1>25, <2>2, Zenon DEF Activate, At, Quiet, locks, managed, Console, InMain, Closed,
         LockSteps, MaskedSteps
  <2>3. QED
      BY <2>1, <2>2
<1>26. ASSUME NEW c \in CPUs, Close(c) PROVE Console(d)'
  <2>1. CASE d # c
    <3>1. Same(d)
        BY <1>0, <1>26, <2>1, Zenon DEF Close, At, Proceed, Quiet, locks, Same, managed
    <3>2. QED
        BY <1>0, <3>1, Untouched
  <2>2. CASE d = c
      BY <1>0, <1>26, <2>2, Zenon DEF Close, At, Proceed, Quiet, locks, managed, Console, InMain,
         Closed, LockSteps, MaskedSteps
  <2>3. QED
      BY <2>1, <2>2
<1>27. ASSUME NEW c \in CPUs, GiveUp(c) PROVE Console(d)'
  <2>1. CASE d # c
    <3>1. Same(d)
        BY <1>0, <1>27, <2>1, Zenon DEF GiveUp, At, Quiet, locks, Same, managed
    <3>2. QED
        BY <1>0, <3>1, Untouched
  <2>2. CASE d = c
      BY <1>0, <1>27, <2>2, Zenon DEF GiveUp, At, Quiet, locks, managed, Console, InMain, Closed,
         LockSteps, MaskedSteps
  <2>3. QED
      BY <2>1, <2>2
<1>28. ASSUME NEW c \in CPUs, EnterGuest(c) PROVE Console(d)'
  <2>1. CASE d # c
    <3>1. Same(d)
        BY <1>0, <1>28, <2>1, Zenon DEF EnterGuest, At, Quiet, locks, Same, managed
    <3>2. QED
        BY <1>0, <3>1, Untouched
  <2>2. CASE d = c
      BY <1>0, <1>28, <2>2, Zenon DEF EnterGuest, At, Quiet, locks, managed, Console, InMain,
         Closed, LockSteps, MaskedSteps
  <2>3. QED
      BY <2>1, <2>2
<1>29. ASSUME NEW c \in CPUs, TrapExit(c) PROVE Console(d)'
  <2>1. CASE d # c
    <3>1. Same(d)
        BY <1>0, <1>29, <2>1, Zenon DEF TrapExit, At, Quiet, locks, Same, managed
    <3>2. QED
        BY <1>0, <3>1, Untouched
  <2>2. CASE d = c
      BY <1>0, <1>29, <2>2, Zenon DEF TrapExit, At, Quiet, locks, managed, Console, InMain, Closed,
         LockSteps, MaskedSteps
  <2>3. QED
      BY <2>1, <2>2
<1>30. ASSUME NEW c \in CPUs, IrqExit(c) PROVE Console(d)'
  <2>1. CASE d # c
    <3>1. Same(d)
        BY <1>0, <1>30, <2>1, Zenon DEF IrqExit, At, StopIfRequested, Quiet, locks, Same, managed
    <3>2. QED
        BY <1>0, <3>1, Untouched
  <2>2. CASE d = c
      BY <1>0, <1>30, <2>2, Zenon DEF IrqExit, At, StopIfRequested, Quiet, locks, managed, Console,
         InMain, Closed, LockSteps, MaskedSteps
  <2>3. QED
      BY <2>1, <2>2
<1>31. ASSUME NEW c \in CPUs, Join(c) PROVE Console(d)'
  <2>1. CASE d # c
    <3>1. Same(d)
        BY <1>0, <1>31, <2>1, Zenon DEF Join, At, Quiet, locks, Same, managed
    <3>2. QED
        BY <1>0, <3>1, Untouched
  <2>2. CASE d = c
      BY <1>0, <1>31, <2>2, Zenon DEF Join, At, Quiet, locks, managed, Console, InMain, Closed,
         LockSteps, MaskedSteps
  <2>3. QED
      BY <2>1, <2>2
<1>32. ASSUME NEW c \in CPUs, Online(c) PROVE Console(d)'
  <2>1. CASE d # c
    <3>1. Same(d)
        BY <1>0, <1>32, <2>1, Zenon DEF Online, At, Unmask, Quiet, locks, Same, managed
    <3>2. QED
        BY <1>0, <3>1, Untouched
  <2>2. CASE d = c
      BY <1>0, <1>32, <2>2, Zenon DEF Online, At, Unmask, Quiet, locks, managed, Console, InMain,
         Closed, LockSteps, MaskedSteps
  <2>3. QED
      BY <2>1, <2>2
<1>33. ASSUME NEW c \in CPUs, Poll(c) PROVE Console(d)'
  <2>1. CASE d # c
    <3>1. Same(d)
        BY <1>0, <1>33, <2>1, Zenon DEF Poll, At, StopIfRequested, Quiet, locks, Same, managed
    <3>2. QED
        BY <1>0, <3>1, Untouched
  <2>2. CASE d = c
      BY <1>0, <1>33, <2>2, Zenon DEF Poll, At, StopIfRequested, Quiet, locks, managed, Console,
         InMain, Closed, LockSteps, MaskedSteps
  <2>3. QED
      BY <2>1, <2>2
<1>34. ASSUME NEW c \in CPUs, Wake(c) PROVE Console(d)'
  <2>1. CASE d # c
    <3>1. Same(d)
        BY <1>0, <1>34, <2>1, Zenon DEF Wake, At, Unmask, Quiet, locks, Same, managed
    <3>2. QED
        BY <1>0, <3>1, Untouched
  <2>2. CASE d = c
      BY <1>0, <1>34, <2>2, Zenon DEF Wake, At, Unmask, Quiet, locks, managed, Console, InMain,
         Closed, LockSteps, MaskedSteps
  <2>3. QED
      BY <2>1, <2>2
<1>35. ASSUME NEW c \in CPUs, Work(c) PROVE Console(d)'
  <2>1. CASE d # c
    <3>1. Same(d)
        BY <1>0, <1>35, <2>1, Zenon DEF Work, At, Unmask, Quiet, locks, Same, managed
    <3>2. QED
        BY <1>0, <3>1, Untouched
  <2>2. CASE d = c
      BY <1>0, <1>35, <2>2, Zenon DEF Work, At, Unmask, Quiet, locks, managed, Console, InMain,
         Closed, LockSteps, MaskedSteps
  <2>3. QED
      BY <2>1, <2>2
<1>36. ASSUME NEW c \in CPUs, EndWork(c) PROVE Console(d)'
  <2>1. CASE d # c
    <3>1. Same(d)
        BY <1>0, <1>36, <2>1, Zenon DEF EndWork, At, Quiet, locks, Same, managed
    <3>2. QED
        BY <1>0, <3>1, Untouched
  <2>2. CASE d = c
      BY <1>0, <1>36, <2>2, Zenon DEF EndWork, At, Quiet, locks, managed, Console, InMain, Closed,
         LockSteps, MaskedSteps
  <2>3. QED
      BY <2>1, <2>2
<1>37. ASSUME NEW c \in CPUs, StartWorker(c) PROVE Console(d)'
  <2>1. PICK w \in Workers : At(w, "off", "parked")
      BY <1>37, Zenon DEF StartWorker
  <2>2. CASE d # w
    <3>1. Same(d)
        BY <1>0, <1>37, <2>1, <2>2, Zenon DEF StartWorker, At, Quiet, locks, Same, managed
    <3>2. QED
        BY <1>0, <3>1, Untouched
  <2>3. CASE d = w
      BY <1>0, <1>37, <2>1, <2>3, Zenon DEF StartWorker, At, Workers, Quiet, locks, managed, Console,
         InMain, Closed, LockSteps, MaskedSteps
  <2>4. QED
      BY <2>2, <2>3
<1>38. QED
    BY <1>1, <1>2, <1>3, <1>4, <1>5, <1>6, <1>7, <1>8, <1>9, <1>10, <1>11, <1>12, <1>13, <1>14,
       <1>15, <1>16, <1>17, <1>18, <1>19, <1>20, <1>21, <1>22, <1>23, <1>24, <1>25, <1>26, <1>27,
       <1>28, <1>29, <1>30, <1>31, <1>32, <1>33, <1>34, <1>35, <1>36, <1>37, Zenon DEF Next, Step,
       BootStep

\* The counters are numbers.
LEMMA ArenaTypesInduction == ArenaTypes /\ [Next]_vars => ArenaTypes'
<1> SUFFICES ASSUME ArenaTypes, [Next]_vars PROVE ArenaTypes'
    OBVIOUS
<1> DEFINE Near(a, b) == b = a \/ b = a + 1 \/ b = a - 1
<1>1. ASSUME NEW c \in CPUs, Alloc(c) PROVE Near(blocks, blocks') /\ Near(live, live')
    BY <1>1, Zenon DEF Alloc, arena
<1>2. ASSUME NEW c \in CPUs, Dealloc(c) PROVE Near(blocks, blocks') /\ Near(live, live')
    BY <1>2, Zenon DEF Dealloc
<1>3. ASSUME NEW c \in CPUs, Count(c) PROVE Near(blocks, blocks') /\ Near(live, live')
    BY <1>3, Zenon DEF Count
<1>4. ASSUME NEW c \in CPUs, Step(c) \/ Fail(c), ~Alloc(c), ~Dealloc(c), ~Count(c)
      PROVE  UNCHANGED arena
    BY <1>4, Zenon DEF Step, BootStep, TakeOver, InitializeBoot, StartWorker, Open, Activate, Close,
       GiveUp, EnterGuest, TrapExit, IrqExit, Join, Online, Poll, Wake, Work, EndWork, Unmask, Lock,
       Acquire, Release, Restore, HeapSpin, HeapLock, TakeIrq, Handle, RaiseFlag, Claim, Store,
       Publish, Notify, TryLock, Emit, Halt, Fail, Others, Quiet
<1>5. Near(blocks, blocks') /\ Near(live, live')
    BY <1>1, <1>2, <1>3, <1>4 DEF Next, vars, arena
<1>6. QED
    BY <1>5 DEF ArenaTypes

\* The heap's lock and its counter, step by step.
LEMMA HeapInduction == MainTypes /\ ArenaTypes /\ HeapInv /\ [Next]_vars => HeapInv'
<1> SUFFICES ASSUME MainTypes, ArenaTypes, HeapInv, [Next]_vars PROVE HeapInv'
    OBVIOUS
<1> USE NoneAssumption DEF MainTypes, MainSteps, MaskedSteps, OpenSteps, ArenaTypes, HeapInv, LockSteps,
       HeapSteps
<1>1. ASSUME NEW c \in CPUs, Lock(c) PROVE HeapInv'
    BY <1>1, Zenon DEF Lock, At, Base, arena
<1>2. ASSUME NEW c \in CPUs, Acquire(c) PROVE HeapInv'
    BY <1>2, Zenon DEF Acquire, At, arena
<1>3. ASSUME NEW c \in CPUs, Release(c) PROVE HeapInv'
    BY <1>3, Zenon DEF Release, At, arena
<1>4. ASSUME NEW c \in CPUs, Restore(c) PROVE HeapInv'
    BY <1>4, Zenon DEF Restore, At, Base, arena
<1>5. ASSUME NEW c \in CPUs, HeapLock(c) PROVE HeapInv'
    BY <1>5, Zenon DEF HeapLock, At, arena
<1>6. ASSUME NEW c \in CPUs, Alloc(c) PROVE HeapInv'
    BY <1>6, Zenon DEF Alloc, At, Base, locks, arena
<1>7. ASSUME NEW c \in CPUs, Dealloc(c) PROVE HeapInv'
    BY <1>7, Zenon DEF Dealloc, At, locks
<1>8. ASSUME NEW c \in CPUs, Count(c) PROVE HeapInv'
    BY <1>8, Zenon DEF Count, At, Base
<1>9. ASSUME NEW c \in CPUs, TakeIrq(c) \/ Handle(c) \/ RaiseFlag(c) \/ Claim(c) \/ Store(c) \/
             Publish(c) \/ Notify(c) \/ TryLock(c) \/ Emit(c) \/ Halt(c) \/ Fail(c)
      PROVE  UNCHANGED <<pc, heap, blocks, live>>
    BY <1>9, Zenon DEF TakeIrq, Handle, RaiseFlag, Claim, Store, Publish, Notify, TryLock, Emit, Halt,
       Fail, arena, locks, Others, Quiet
<1>10. ASSUME UNCHANGED <<pc, heap, blocks, live>> PROVE HeapInv'
    BY <1>10, Zenon
<1>11. CASE UNCHANGED vars
    BY <1>11, <1>10, Zenon DEF vars, locks, arena
<1>12. ASSUME NEW c \in CPUs, HeapSpin(c) PROVE HeapInv'
    BY <1>12, Zenon DEF HeapSpin, At, Base, locks, arena, Quiet
<1>13. ASSUME NEW c \in CPUs, TakeOver(c) PROVE HeapInv'
    BY <1>13, Zenon DEF TakeOver, At, locks, arena, Quiet
<1>14. ASSUME NEW c \in CPUs, InitializeBoot(c) PROVE HeapInv'
    BY <1>14, Zenon DEF InitializeBoot, At, locks, arena, Quiet
<1>15. ASSUME NEW c \in CPUs, StartWorker(c) PROVE HeapInv'
    BY <1>15, Zenon DEF StartWorker, At, Workers, locks, arena, Quiet
<1>16. ASSUME NEW c \in CPUs, Open(c) PROVE HeapInv'
    BY <1>16, Zenon DEF Open, At, locks, arena, Quiet
<1>17. ASSUME NEW c \in CPUs, Activate(c) PROVE HeapInv'
    BY <1>17, Zenon DEF Activate, At, locks, arena, Quiet
<1>18. ASSUME NEW c \in CPUs, Close(c) PROVE HeapInv'
    BY <1>18, Zenon DEF Close, At, locks, arena, Quiet
<1>19. ASSUME NEW c \in CPUs, GiveUp(c) PROVE HeapInv'
    BY <1>19, Zenon DEF GiveUp, At, locks, arena, Quiet
<1>20. ASSUME NEW c \in CPUs, EnterGuest(c) PROVE HeapInv'
    BY <1>20, Zenon DEF EnterGuest, At, locks, arena, Quiet
<1>21. ASSUME NEW c \in CPUs, TrapExit(c) PROVE HeapInv'
    BY <1>21, Zenon DEF TrapExit, At, locks, arena, Quiet
<1>22. ASSUME NEW c \in CPUs, IrqExit(c) PROVE HeapInv'
    BY <1>22, Zenon DEF IrqExit, At, locks, arena, Quiet
<1>23. ASSUME NEW c \in CPUs, Join(c) PROVE HeapInv'
    BY <1>23, Zenon DEF Join, At, locks, arena, Quiet
<1>24. ASSUME NEW c \in CPUs, Online(c) PROVE HeapInv'
    BY <1>24, Zenon DEF Online, At, Unmask, locks, arena, Quiet
<1>25. ASSUME NEW c \in CPUs, Poll(c) PROVE HeapInv'
    BY <1>25, Zenon DEF Poll, At, locks, arena, Quiet
<1>26. ASSUME NEW c \in CPUs, Wake(c) PROVE HeapInv'
    BY <1>26, Zenon DEF Wake, At, Unmask, locks, arena, Quiet
<1>27. ASSUME NEW c \in CPUs, Work(c) PROVE HeapInv'
    BY <1>27, Zenon DEF Work, At, Unmask, locks, arena, Quiet
<1>28. ASSUME NEW c \in CPUs, EndWork(c) PROVE HeapInv'
    BY <1>28, Zenon DEF EndWork, At, locks, arena, Quiet
<1>29. QED
    BY <1>1, <1>2, <1>3, <1>4, <1>5, <1>6, <1>7, <1>8, <1>9, <1>10, <1>11, <1>12, <1>13, <1>14,
       <1>15, <1>16, <1>17, <1>18, <1>19, <1>20, <1>21, <1>22, <1>23, <1>24, <1>25, <1>26, <1>27,
       <1>28, Zenon DEF Next, Step, BootStep

\* The inductive invariant of the failure path and the locks.
THEOREM FatalInvariant == Spec => []IInv
<1>1. IInv /\ [Next]_vars => IInv'
    BY RecordTypesInduction, RecordInduction, ContextTypesInduction, MaskTypesInduction,
       MainTypesInduction, ConsoleInduction, ArenaTypesInduction, HeapInduction DEF IInv,
          ConsoleTypes
<1>2. QED
    BY InitInvariant, <1>1, PTL DEF Spec

\* LocksAreSound for any number of CPUs, critical sections and failures: the
\* console (IrqSpinLock) has one writer, whose interrupts are masked, a worker
\* and the boot CPU get the mask back that they had, and the heap's counter is
\* right whenever its lock is free.
THEOREM LocksAreSoundForAll == Spec => []LocksAreSound
<1>1. IInv => LocksAreSound
    BY NoneAssumption, Zenon DEF IInv, ConsoleInv, Console, HeapInv, LocksAreSound, Printing, InMain,
       Closed, LockSteps, MaskedSteps, HeapSteps
<1>2. QED
    BY FatalInvariant, <1>1, PTL

\* SnapshotIsFirstFailure for any number of CPUs and of nested failures, before
\* and after the boot CPU has its own record (FailureRecord::record, snapshot).
THEOREM SnapshotIsFirst == Spec => SnapshotIsFirstFailure
<1> DEFINE Shown(s) ==
        /\ \A f \in DOMAIN snapshot(s)' : words'[s][f] = first'[s]
        /\ state[s] = 2 => snapshot(s)' = snapshot(s)
<1>1. IInv /\ [Next]_vars => \A s \in Slots : Shown(s)
  <2> SUFFICES ASSUME IInv, [Next]_vars, NEW s \in Slots PROVE Shown(s)
      OBVIOUS
  <2>1. RecordTypes' /\ RecordInv'
      BY RecordTypesInduction, RecordInduction DEF IInv
  <2>2. \A f \in DOMAIN snapshot(s)' : words'[s][f] = first'[s]
      BY <2>1 DEF snapshot, RecordTypes, RecordInv
  <2>3. ASSUME state[s] = 2 PROVE snapshot(s)' = snapshot(s)
    <3>1. state'[s] = 2 /\ words'[s] = words[s]
      <4> USE <2>3 DEF IInv, RecordTypes, RecordInv, StoreSteps, In
      <4>1. CASE UNCHANGED vars
          BY <4>1, Zenon DEF vars, records
      <4>2. ASSUME NEW c \in CPUs, Claim(c) PROVE state'[s] = 2 /\ words'[s] = words[s]
        <5>1. /\ words' = words /\ slot[c] \in Slots /\ state \in [Slots -> 0 .. 2] /\ state[s] = 2
              /\ state' = [state EXCEPT ![slot[c]] =
                              IF state[slot[c]] = 0 THEN 1 ELSE state[slot[c]]]
            BY <4>2, Zenon DEF Claim
        <5> HIDE <2>3 DEF IInv, RecordTypes, RecordInv
        <5>2. QED
            BY <5>1
      <4>3. ASSUME NEW c \in CPUs, Store(c) PROVE state'[s] = 2 /\ words'[s] = words[s]
        <5>1. PICK now \in {<<"kind", "address">>, <<"address", "ready">>} :
                /\ fpc[c] = now[1] /\ words' = [words EXCEPT ![slot[c]][now[1]] = fault[c]]
                /\ state' = state
            BY <4>3, Zenon DEF Store
        <5>2. /\ slot[c] \in Slots /\ words \in [Slots -> [Fields -> Nat]] /\ state[s] = 2
              /\ fpc[c] \in {"kind", "address", "ready"} => state[slot[c]] = 1
            BY Zenon
        <5> HIDE <2>3 DEF IInv, RecordTypes, RecordInv
        <5>3. now[1] \in {"kind", "address", "ready"}
            BY <5>1
        <5>4. slot[c] # s
            BY <5>1, <5>2, <5>3
        <5>5. QED
            BY <5>1, <5>2, <5>4, Zenon
      <4>4. ASSUME NEW c \in CPUs, Publish(c) PROVE state'[s] = 2 /\ words'[s] = words[s]
          BY <4>4, Zenon DEF Publish
      <4>5. ASSUME NEW c \in CPUs, Step(c) \/ Fail(c), ~Claim(c), ~Store(c), ~Publish(c)
            PROVE  UNCHANGED <<state, words>>
          BY <4>5, Zenon DEF Step, BootStep, TakeOver, InitializeBoot, StartWorker, Open, Activate,
             Close, GiveUp, EnterGuest, TrapExit, IrqExit, Join, Online, Poll, Wake, Work, EndWork,
             Unmask, Fail, Lock, Acquire, Release, Restore, HeapSpin, HeapLock, Alloc, Dealloc,
             Count, TakeIrq, Handle, RaiseFlag, Notify, TryLock, Emit, Halt, Rest, Quiet, records
      <4>6. QED
          BY <4>1, <4>2, <4>3, <4>4, <4>5, Zenon DEF Next
    <3>2. QED
        BY <2>3, <3>1 DEF snapshot
  <2>4. QED
      BY <2>2, <2>3
<1>2. QED
    BY FatalInvariant, <1>1, PTL DEF Spec, SnapshotIsFirstFailure

-----------------------------------------------------------------------------
(* The hypervisor's own pages. *)

\* The stages, by what they have behind them.
EarlyStages == {"setup", "stacks", "slots", "heap"}
MappedStages == {"cells", "freeze", "running", "broken"}
PreparedStages == {"heap", "scratch"} \cup MappedStages

Stack == [guard : Nat, bottom : Nat, top : Nat]
Spans(i) == StackSpan(stacks[i].stack)
Ids == {stacks[i].cpu : i \in DOMAIN stacks}
StackOf(id) == (CHOOSE s \in Range(stacks) : s.cpu = id).stack
SlotOf(id) == IF id \in Ids THEN StackOf(id) ELSE boot_stack

HostTypes ==
    /\ layout \in Layouts
    /\ stage \in {"setup", "stacks", "slots", "failed"} \cup PreparedStages
    /\ stacks \in Seq([cpu : Nat, stack : Stack]) /\ scratch \in Seq(Pages)
    /\ IsFiniteSet(in_use) /\ IsFiniteSet(heap_region)

\* The stacks so far belong to the first CPUs; their pages are usable RAM, and
\* those of two stacks are apart.
StacksInv ==
    /\ Len(stacks) <= Len(layout.cpus)
    /\ \A i \in 1 .. Len(stacks) :
          /\ stacks[i].cpu = layout.cpus[i]
          /\ stacks[i].stack = stack_layout(stacks[i].stack.guard)
          /\ Spans(i) \subseteq Managed
    /\ \A i, k \in 1 .. Len(stacks) : i # k => Spans(i) \cap Spans(k) = {}

\* Who owns the pages in use.
OwnersInv ==
    /\ in_use = StackPagesOf(stacks) \cup heap_region \cup Range(scratch)
    /\ in_use_pages = Cardinality(in_use)
    /\ in_use_pages = Len(stacks) * (1 + StackPages) + Cardinality(heap_region) + Len(scratch)

\* What each stage has behind it.
StageInv ==
    /\ stage = "setup" => stacks = <<>>
    /\ stage \in EarlyStages => heap_region = {} /\ scratch = <<>>
    /\ stage \in {"slots"} \cup PreparedStages => Len(stacks) = Len(layout.cpus)
    /\ stage \in MappedStages => Len(scratch) = 2

\* The slots: the boot CPU's stack, and after prepare every CPU's own.
SlotsInv ==
    /\ stage \in {"setup", "stacks", "slots"} => slots = [id \in {0} |-> boot_stack]
    /\ stage \in PreparedStages => slots = [id \in Ids \cup {0} |-> SlotOf(id)]

HostInv == HostTypes /\ StacksInv /\ OwnersInv /\ StageInv /\ SlotsInv

-----------------------------------------------------------------------------
(* The allocator's count. *)

\* Pages are finitely many.
LEMMA FinitePages == \A S \in SUBSET Pages : IsFiniteSet(S) /\ Cardinality(S) \in Nat
<1>1. IsFiniteSet(Pages)
    BY ApertureAssumption, FS_Interval DEF Pages
<1> QED
    BY <1>1, FS_Subset, FS_CardinalityType

\* allocate_contiguous takes n usable pages that nobody has, and counts them.
LEMMA TakenRun ==
    ASSUME NEW n \in Nat, NEW s \in Pages, allocate_contiguous(n, s),
           IsFiniteSet(in_use), in_use_pages = Cardinality(in_use)
    PROVE  /\ n # 0 /\ s .. (s + n - 1) \subseteq Managed /\ (s .. (s + n - 1)) \cap in_use = {}
           /\ IsFiniteSet(s .. (s + n - 1)) /\ Cardinality(s .. (s + n - 1)) = n
           /\ in_use' = in_use \cup (s .. (s + n - 1)) /\ IsFiniteSet(in_use')
           /\ in_use_pages' = in_use_pages + n /\ in_use_pages' = Cardinality(in_use')
<1> DEFINE run == s .. (s + n - 1)
<1>1. s \in Nat
    BY ApertureAssumption DEF Pages
<1>2. n # 0 /\ run \subseteq Unused /\ SetBits(run)
    BY Zenon DEF allocate_contiguous, Runs
<1>3. IsFiniteSet(run) /\ Cardinality(run) = n
    BY <1>1, <1>2, FS_Interval
<1> HIDE DEF run
<1>4. run \subseteq Managed /\ run \cap in_use = {} /\ run \ in_use = run /\ in_use \cap run = {}
    BY <1>2 DEF Unused
<1>5. in_use' = in_use \cup run /\ in_use_pages' = in_use_pages + n
    BY <1>2, <1>3, <1>4, Zenon DEF SetBits
<1>6. /\ IsFiniteSet(in_use \cup run)
      /\ Cardinality(in_use \cup run) = Cardinality(in_use) + Cardinality(run) - Cardinality(in_use \cap run)
    BY <1>3, FS_Union, Zenon
<1>7. Cardinality(in_use) \in Nat
    BY FS_CardinalityType, Zenon
<1>8. Cardinality(in_use \cup run) = Cardinality(in_use) + n
    BY <1>3, <1>4, <1>6, <1>7, FS_EmptySet
<1> QED
    BY <1>2, <1>3, <1>4, <1>5, <1>6, <1>8, Zenon DEF run

\* The pages of a stack are its guard and the pages above it.
LEMMA SpanOfStack ==
    ASSUME NEW b \in Nat
    PROVE  /\ stack_layout(b) \in Stack /\ stack_layout(b).guard = b
           /\ StackSpan(stack_layout(b)) = b .. (b + (1 + StackPages) - 1)
    BY StackAssumption DEF stack_layout, StackSpan, Stack

\* One stack more.
LEMMA OneStackMore ==
    ASSUME NEW S, NEW list \in Seq(S), NEW x \in S
    PROVE  StackPagesOf(Append(list, x)) = StackPagesOf(list) \cup StackSpan(x.stack)
<1> DEFINE more == Append(list, x)
           n == Len(list)
<1>1. /\ n \in Nat /\ DOMAIN list = 1 .. n /\ more \in Seq(S) /\ Len(more) = n + 1
      /\ \A i \in 1 .. n : more[i] = list[i]
      /\ more[n + 1] = x
    <2>1. n \in Nat /\ DOMAIN list = 1 .. n
        BY LenProperties, Zenon
    <2>2. /\ more \in Seq(S) /\ Len(more) = n + 1
          /\ \A i \in 1 .. n : more[i] = list[i]
          /\ more[n + 1] = x
        BY AppendProperties
    <2> QED
        BY <2>1, <2>2, Zenon
<1>2. DOMAIN more = 1 .. (n + 1)
    BY <1>1, LenProperties, Zenon
<1>3. 1 .. (n + 1) = (1 .. n) \cup {n + 1}
    BY <1>1
<1> HIDE DEF more, n
<1>4. ASSUME NEW p PROVE p \in StackPagesOf(more) <=> p \in StackPagesOf(list) \cup StackSpan(x.stack)
    <2>1. p \in StackPagesOf(more) <=> \E i \in 1 .. (n + 1) : p \in StackSpan(more[i].stack)
        BY <1>2, Zenon DEF StackPagesOf
    <2>2. p \in StackPagesOf(list) <=> \E i \in 1 .. n : p \in StackSpan(list[i].stack)
        BY <1>1, Zenon DEF StackPagesOf
    <2>3. (\E i \in 1 .. (n + 1) : p \in StackSpan(more[i].stack))
              <=> (\E i \in 1 .. n : p \in StackSpan(more[i].stack)) \/ p \in StackSpan(more[n + 1].stack)
        BY <1>3, Zenon
    <2>4. (\E i \in 1 .. n : p \in StackSpan(more[i].stack)) <=> (\E i \in 1 .. n : p \in StackSpan(list[i].stack))
        BY <1>1, Zenon
    <2> QED
        BY <1>1, <2>1, <2>2, <2>3, <2>4, Zenon
<1>5. StackPagesOf(more) = StackPagesOf(list) \cup StackSpan(x.stack)
    BY <1>4, Zenon
<1> QED
    BY <1>5, Zenon DEF more

-----------------------------------------------------------------------------
(* The steps. *)

\* Numbers of a layout.
LEMMA LayoutNumbers ==
    ASSUME HostInv
    PROVE  /\ layout.heap_pages \in Nat /\ layout.boot_guard \in Nat /\ layout.cpus \in Seq(Nat)
           /\ (layout.boot_guard .. (layout.boot_guard + StackPages)) \cap Managed = {}
           /\ Len(stacks) \in Nat /\ DOMAIN stacks = 1 .. Len(stacks) /\ Len(layout.cpus) \in Nat
           /\ DOMAIN layout.cpus = 1 .. Len(layout.cpus)
           /\ Len(scratch) \in Nat /\ DOMAIN scratch = 1 .. Len(scratch)
<1>1. layout \in Layouts /\ stacks \in Seq([cpu : Nat, stack : Stack]) /\ scratch \in Seq(Pages)
    BY Zenon DEF HostInv, HostTypes
<1>2. /\ layout.heap_pages \in Nat /\ layout.boot_guard \in Nat /\ layout.cpus \in Seq(Nat)
      /\ (layout.boot_guard .. (layout.boot_guard + StackPages)) \cap Managed = {}
    BY <1>1, LayoutAssumption, Zenon
<1>3. Len(stacks) \in Nat /\ DOMAIN stacks = 1 .. Len(stacks)
    BY <1>1, LenProperties, Zenon
<1>4. Len(layout.cpus) \in Nat /\ DOMAIN layout.cpus = 1 .. Len(layout.cpus)
    BY <1>2, LenProperties, Zenon
<1>5. Len(scratch) \in Nat /\ DOMAIN scratch = 1 .. Len(scratch)
    BY <1>1, LenProperties, Zenon
<1> QED
    BY <1>2, <1>3, <1>4, <1>5, Zenon

\* Nothing is owned at the start.
LEMMA HostInitInv == HostInit => HostInv
<1> SUFFICES ASSUME HostInit PROVE HostInv
    OBVIOUS
<1>1. /\ layout \in Layouts /\ stage = "setup" /\ stacks = <<>> /\ scratch = <<>> /\ heap_region = {}
      /\ slots = [id \in {0} |-> boot_stack] /\ in_use = {} /\ in_use_pages = 0
    BY Zenon DEF HostInit, AllocatorInit, boot_stack
<1>2. layout.cpus \in Seq(Nat) /\ Len(layout.cpus) \in Nat
    BY <1>1, LayoutAssumption, LenProperties
<1>3. IsFiniteSet({}) /\ Cardinality({}) = 0
    BY FS_EmptySet, Zenon
<1>4. Len(stacks) = 0 /\ Len(scratch) = 0 /\ DOMAIN stacks = {} /\ DOMAIN scratch = {}
    BY <1>1
<1>5. HostTypes
    BY <1>1, <1>3 DEF HostTypes
<1>6. StacksInv
    BY <1>2, <1>4 DEF StacksInv
<1>7. OwnersInv
    <2>1. StackPagesOf(stacks) = {} /\ Range(scratch) = {}
        BY <1>4, Zenon DEF StackPagesOf, Range
    <2>2. 0 * (1 + StackPages) + 0 + 0 = 0
        BY StackAssumption
    <2> QED
        BY <1>1, <1>3, <1>4, <2>1, <2>2, Zenon DEF OwnersInv
<1>8. StageInv /\ SlotsInv
    BY <1>1 DEF StageInv, SlotsInv, MappedStages, PreparedStages, EarlyStages
<1> QED
    BY <1>5, <1>6, <1>7, <1>8, Zenon DEF HostInv

\* What the slots should hold depends on the stacks only.
LEMMA SameSlots ==
    ASSUME UNCHANGED <<layout, stacks>>
    PROVE  boot_stack' = boot_stack /\ Ids' = Ids /\ \A id : SlotOf(id)' = SlotOf(id)
<1>1. boot_stack' = boot_stack
    BY Zenon DEF boot_stack
<1>2. Ids' = Ids
    BY Zenon DEF Ids
<1>3. ASSUME NEW id PROVE StackOf(id)' = StackOf(id)
    <2>1. \A s : (s \in Range(stacks') /\ s.cpu = id) <=> (s \in Range(stacks) /\ s.cpu = id)
        OBVIOUS
    <2>2. (CHOOSE s \in Range(stacks') : s.cpu = id) = (CHOOSE s \in Range(stacks) : s.cpu = id)
        BY <2>1
    <2> QED
        BY <2>2, Zenon DEF StackOf
<1> QED
    BY <1>1, <1>2, <1>3, Zenon DEF SlotOf

\* A step that takes and gives nothing moves on to a stage whose work is done.
LEMMA StageMoves ==
    ASSUME HostInv, UNCHANGED <<layout, stacks, slots, heap_region, scratch, in_use, in_use_pages>>,
           \/ stage' \in {stage, "failed"}
           \/ stage = "setup" /\ stage' = "stacks"
           \/ stage = "stacks" /\ stage' = "slots" /\ Len(stacks) = Len(layout.cpus)
           \/ stage = "scratch" /\ stage' = "cells" /\ Len(scratch) = 2
           \/ stage = "cells" /\ stage' = "freeze"
           \/ stage = "freeze" /\ stage' = "running"
           \/ stage = "running" /\ stage' = "broken"
    PROVE  HostInv'
<1>1. HostTypes'
    BY DEF HostInv, HostTypes, PreparedStages, MappedStages
<1>2. StacksInv' /\ OwnersInv'
    BY Zenon DEF HostInv, StacksInv, OwnersInv, Spans
<1>3. StageInv'
    BY DEF HostInv, StageInv, EarlyStages, PreparedStages, MappedStages
<1>4. SlotsInv'
    <2>1. boot_stack' = boot_stack /\ Ids' = Ids /\ \A id : SlotOf(id)' = SlotOf(id)
        BY SameSlots, Zenon
    <2>2. stage' \in {"setup", "stacks", "slots"} => stage \in {"setup", "stacks", "slots"}
        BY DEF HostInv, HostTypes, PreparedStages, MappedStages
    <2>3. stage' \in PreparedStages => stage \in PreparedStages
        BY DEF HostInv, HostTypes, PreparedStages, MappedStages
    <2> QED
        BY <2>1, <2>2, <2>3, Zenon DEF HostInv, SlotsInv
<1> QED
    BY <1>1, <1>2, <1>3, <1>4, Zenon DEF HostInv

\* A stack is allocated for the next CPU.
LEMMA StackAllocated == HostInv /\ AllocateStack => HostInv'
<1> SUFFICES ASSUME HostInv, AllocateStack PROVE HostInv'
    OBVIOUS
<1> DEFINE n == Len(stacks)
           size == 1 + StackPages
<1>0. /\ layout.cpus \in Seq(Nat) /\ n \in Nat /\ DOMAIN stacks = 1 .. n /\ Len(layout.cpus) \in Nat
      /\ size \in Nat /\ StackPages \in Nat
    BY LayoutNumbers, StackAssumption
<1>1. PICK s \in Pages :
          /\ allocate_contiguous(size, s)
          /\ stacks' = Append(stacks, [cpu |-> layout.cpus[n + 1], stack |-> stack_layout(s)])
    BY Zenon DEF AllocateStack
<1> DEFINE new == [cpu |-> layout.cpus[n + 1], stack |-> stack_layout(s)]
           run == s .. (s + size - 1)
<1>2. stage = "stacks" /\ n < Len(layout.cpus) /\ UNCHANGED <<layout, stage, slots, heap_region, scratch>>
    BY Zenon DEF AllocateStack
<1>3. /\ run \subseteq Managed /\ run \cap in_use = {}
      /\ in_use' = in_use \cup run /\ IsFiniteSet(in_use')
      /\ in_use_pages' = in_use_pages + size /\ in_use_pages' = Cardinality(in_use')
    BY <1>0, <1>1, TakenRun, Zenon DEF HostInv, HostTypes, OwnersInv
<1>4. s \in Nat
    BY ApertureAssumption DEF Pages
<1>5. stack_layout(s) \in Stack /\ stack_layout(s).guard = s /\ StackSpan(stack_layout(s)) = run
    BY <1>4, SpanOfStack, Zenon
<1>6. layout.cpus[n + 1] \in Nat
    BY <1>0, <1>2, ElementOfSeq
<1>7. new \in [cpu : Nat, stack : Stack] /\ new.cpu = layout.cpus[n + 1] /\ new.stack = stack_layout(s)
    BY <1>5, <1>6, Zenon
<1>8. stacks \in Seq([cpu : Nat, stack : Stack]) /\ stacks' = Append(stacks, new)
    BY <1>1, Zenon DEF HostInv, HostTypes
<1> HIDE DEF new, run, size
<1>9. /\ stacks' \in Seq([cpu : Nat, stack : Stack]) /\ Len(stacks') = n + 1
      /\ \A i \in 1 .. n : stacks'[i] = stacks[i]
      /\ stacks'[n + 1] = new
    BY <1>7, <1>8, AppendProperties
<1>10. StackPagesOf(stacks') = StackPagesOf(stacks) \cup run
    <2> DEFINE S == [cpu : Nat, stack : Stack]
    <2>1. stacks \in Seq(S) /\ new \in S
        BY <1>7, <1>8, Zenon
    <2> HIDE DEF S
    <2>2. StackPagesOf(Append(stacks, new)) = StackPagesOf(stacks) \cup StackSpan(new.stack)
        BY <2>1, OneStackMore, Zenon
    <2> QED
        BY <1>5, <1>7, <1>8, <2>2, Zenon
<1> HIDE DEF n
<1>n. \A i \in 1 .. (n + 1) : i \in 1 .. n \/ i = n + 1
    BY <1>0
<1>11. \A i \in 1 .. n : Spans(i)' = Spans(i)
    BY <1>9, Zenon DEF Spans
<1>12. StackSpan(stacks'[n + 1].stack) = run
    BY <1>5, <1>7, <1>9, Zenon
<1>13. \A i \in 1 .. n : Spans(i) \cap run = {}
    <2>1. \A i \in 1 .. n : Spans(i) \subseteq in_use
        BY <1>0, Zenon DEF HostInv, OwnersInv, StackPagesOf, Spans
    <2> QED
        BY <1>3, <2>1, Zenon
<1>14. StacksInv'
    <2>1. Len(stacks') <= Len(layout'.cpus)
        BY <1>0, <1>2, <1>9
    <2>2. ASSUME NEW i \in 1 .. Len(stacks')
          PROVE  /\ stacks'[i].cpu = layout'.cpus[i]
                 /\ stacks'[i].stack = stack_layout(stacks'[i].stack.guard)
                 /\ Spans(i)' \subseteq Managed
        <3>1. CASE i \in 1 .. n
            BY <1>2, <1>9, <1>11, <3>1, Zenon DEF HostInv, StacksInv, n
        <3>2. CASE i = n + 1
            BY <1>2, <1>3, <1>5, <1>7, <1>9, <1>12, <3>2, Zenon DEF Spans
        <3> QED
            BY <1>9, <1>n, <3>1, <3>2, Zenon
    <2>3. ASSUME NEW i \in 1 .. Len(stacks'), NEW k \in 1 .. Len(stacks'), i # k
          PROVE  Spans(i)' \cap Spans(k)' = {}
        <3>1. CASE i \in 1 .. n /\ k \in 1 .. n
            BY <1>11, <2>3, <3>1, Zenon DEF HostInv, StacksInv, n
        <3>2. CASE i \in 1 .. n /\ k = n + 1
            BY <1>11, <1>12, <1>13, <3>2, Zenon DEF Spans
        <3>3. CASE i = n + 1 /\ k \in 1 .. n
            <4>1. Spans(k) \cap run = {} /\ Spans(i)' = run /\ Spans(k)' = Spans(k)
                BY <1>11, <1>12, <1>13, <3>3, Zenon DEF Spans
            <4> QED
                BY <4>1, Zenon
        <3> QED
            BY <1>9, <1>n, <2>3, <3>1, <3>2, <3>3, Zenon
    <2> QED
        BY <2>1, <2>2, <2>3, Zenon DEF StacksInv
<1>15. OwnersInv'
    <2>1. heap_region = {} /\ scratch = <<>>
        BY <1>2 DEF HostInv, StageInv, EarlyStages
    <2>2. in_use' = StackPagesOf(stacks') \cup heap_region' \cup Range(scratch')
        BY <1>2, <1>3, <1>10 DEF HostInv, OwnersInv
    <2>3. in_use_pages = n * size + Cardinality(heap_region) + Len(scratch)
        BY Zenon DEF HostInv, OwnersInv, n, size
    <2>4. Cardinality(heap_region) \in Nat /\ Len(scratch) \in Nat
        BY LayoutNumbers, FS_CardinalityType, Zenon DEF HostInv, HostTypes
    <2>5. (n + 1) * size = n * size + size /\ n * size \in Nat
        BY <1>0
    <2>6. in_use_pages' = (n + 1) * size + Cardinality(heap_region) + Len(scratch)
        BY <1>0, <1>3, <2>3, <2>4, <2>5
    <2> QED
        BY <1>2, <1>3, <1>9, <2>2, <2>6, Zenon DEF OwnersInv, size
<1>16. HostTypes'
    BY <1>2, <1>3, <1>9, Zenon DEF HostInv, HostTypes
<1>17. StageInv'
    BY <1>2 DEF HostInv, StageInv, EarlyStages, PreparedStages, MappedStages
<1>18. SlotsInv'
    BY <1>2 DEF HostInv, SlotsInv, PreparedStages, MappedStages, boot_stack
<1> QED
    BY <1>14, <1>15, <1>16, <1>17, <1>18, Zenon DEF HostInv

\* What is subtracted from itself, for the provers without arithmetic.
LEMMA NothingLeft == \A c \in Nat : c - c = 0
    OBVIOUS

\* Failing stacks are given back: the allocator is as before the first.
LEMMA RolledBack == HostInv /\ RollBack => HostInv'
<1> SUFFICES ASSUME HostInv, RollBack PROVE HostInv'
    OBVIOUS
<1>1. /\ stage = "stacks" /\ stage' = "failed" /\ stacks' = <<>> /\ ClearBits(StackPagesOf(stacks))
      /\ UNCHANGED <<layout, slots, heap_region, scratch>>
    BY Zenon DEF RollBack
<1>2. heap_region = {} /\ scratch = <<>>
    BY <1>1 DEF HostInv, StageInv, EarlyStages
<1>3. Range(scratch) = {} /\ Len(scratch) = 0
    BY <1>2 DEF Range
<1>4. in_use = StackPagesOf(stacks) /\ in_use_pages = Cardinality(in_use) /\ IsFiniteSet(in_use)
    BY <1>2, <1>3 DEF HostInv, OwnersInv, HostTypes
<1>5. in_use' = {} /\ in_use_pages' = 0
    <2>1. in_use' = in_use \ in_use /\ in_use_pages' = in_use_pages - Cardinality(in_use \cap in_use)
        BY <1>1, <1>4, Zenon DEF ClearBits
    <2>2. in_use \ in_use = {} /\ in_use \cap in_use = in_use
        OBVIOUS
    <2>3. Cardinality(in_use) \in Nat
        BY <1>4, FS_CardinalityType, Zenon
    <2> QED
        BY <1>4, <2>1, <2>2, <2>3, NothingLeft, Zenon
<1>6. IsFiniteSet({}) /\ Cardinality({}) = 0
    BY FS_EmptySet, Zenon
<1>7. Len(stacks') = 0 /\ DOMAIN stacks' = {} /\ stacks' \in Seq([cpu : Nat, stack : Stack])
    BY <1>1
<1>8. HostTypes'
    BY <1>1, <1>5, <1>6, <1>7 DEF HostInv, HostTypes
<1>9. StacksInv'
    BY <1>1, <1>7, LayoutNumbers DEF StacksInv
<1>10. OwnersInv'
    <2>1. StackPagesOf(stacks') = {}
        BY <1>7, Zenon DEF StackPagesOf
    <2>2. 0 * (1 + StackPages) + 0 + 0 = 0
        BY StackAssumption
    <2>3. in_use' = StackPagesOf(stacks') \cup heap_region' \cup Range(scratch')
        BY <1>1, <1>2, <1>3, <1>5, <2>1
    <2> QED
        BY <1>1, <1>2, <1>3, <1>5, <1>6, <1>7, <2>2, <2>3, Zenon DEF OwnersInv
<1>11. StageInv' /\ SlotsInv'
    BY <1>1 DEF StageInv, SlotsInv, EarlyStages, PreparedStages, MappedStages
<1> QED
    BY <1>8, <1>9, <1>10, <1>11, Zenon DEF HostInv

\* Each secondary's slot gets its stack.
LEMMA SlotsPrepared == HostInv /\ PrepareSlots => HostInv'
<1> SUFFICES ASSUME HostInv, PrepareSlots PROVE HostInv'
    OBVIOUS
<1>1. /\ stage = "slots" /\ stage' = "heap"
      /\ slots' = [id \in Ids \cup DOMAIN slots |-> IF id \in Ids THEN StackOf(id) ELSE slots[id]]
      /\ UNCHANGED <<layout, stacks, heap_region, scratch, in_use, in_use_pages>>
    BY Zenon DEF PrepareSlots, Ids, StackOf, allocator
<1>2. slots = [id \in {0} |-> boot_stack]
    BY <1>1, Zenon DEF HostInv, SlotsInv
<1>3. DOMAIN slots = {0} /\ slots[0] = boot_stack
    BY <1>2, Zenon
<1>4. Ids' = Ids /\ \A id : SlotOf(id)' = SlotOf(id)
    BY <1>1, SameSlots, Zenon
<1>5. SlotsInv'
    <2>1. \A id \in Ids \cup {0} : (IF id \in Ids THEN StackOf(id) ELSE slots[id]) = SlotOf(id)
        BY <1>3, Zenon DEF SlotOf
    <2>2. slots' = [id \in Ids \cup {0} |-> SlotOf(id)]
        BY <1>1, <1>3, <2>1, Zenon
    <2>3. stage' \notin {"setup", "stacks", "slots"}
        BY <1>1
    <2> QED
        BY <1>4, <2>2, <2>3, Zenon DEF SlotsInv
<1>6. HostTypes'
    BY <1>1 DEF HostInv, HostTypes, PreparedStages
<1>7. StacksInv' /\ OwnersInv'
    BY <1>1, Zenon DEF HostInv, StacksInv, OwnersInv, Spans
<1>8. StageInv'
    BY <1>1 DEF HostInv, StageInv, EarlyStages, PreparedStages, MappedStages
<1> QED
    BY <1>5, <1>6, <1>7, <1>8, Zenon DEF HostInv

\* The heap is taken, or there is no room.
LEMMA HeapInitialized == HostInv /\ InitializeHeap => HostInv'
<1> SUFFICES ASSUME HostInv, InitializeHeap PROVE HostInv'
    OBVIOUS
<1>1. stage = "heap" /\ UNCHANGED <<layout, stacks, slots, scratch>>
    BY Zenon DEF InitializeHeap
<1>2. CASE stage' = "failed" /\ UNCHANGED <<heap_region, allocator>>
    BY <1>1, <1>2, StageMoves, Zenon DEF allocator
<1>3. ASSUME NEW s \in Pages, allocate_contiguous(layout.heap_pages, s),
             heap_region' = s .. (s + layout.heap_pages - 1), stage' \in {"failed", "scratch"}
      PROVE  HostInv'
    <2> DEFINE n == layout.heap_pages
               run == s .. (s + n - 1)
    <2>1. n \in Nat /\ Len(stacks) \in Nat
        BY LayoutNumbers, Zenon
    <2>2. /\ run \subseteq Managed /\ IsFiniteSet(run) /\ Cardinality(run) = n
          /\ in_use' = in_use \cup run /\ IsFiniteSet(in_use')
          /\ in_use_pages' = in_use_pages + n /\ in_use_pages' = Cardinality(in_use')
        BY <1>3, <2>1, TakenRun, Zenon DEF HostInv, HostTypes, OwnersInv
    <2>3. heap_region' = run
        BY <1>3, Zenon
    <2> HIDE DEF run, n
    <2>4. heap_region = {} /\ scratch = <<>>
        BY <1>1 DEF HostInv, StageInv, EarlyStages
    <2>5. Range(scratch) = {} /\ Len(scratch) = 0 /\ Cardinality(heap_region) = 0
        BY <2>4, FS_EmptySet DEF Range
    <2>6. OwnersInv'
        <3>1. in_use' = StackPagesOf(stacks') \cup heap_region' \cup Range(scratch')
            BY <1>1, <2>2, <2>3, <2>4 DEF HostInv, OwnersInv
        <3>2. in_use_pages = Len(stacks) * (1 + StackPages) + 0 + 0
            BY <2>5, Zenon DEF HostInv, OwnersInv
        <3>3. Len(stacks) * (1 + StackPages) \in Nat
            BY <2>1, StackAssumption
        <3>4. in_use_pages' = Len(stacks) * (1 + StackPages) + n + 0
            BY <2>1, <2>2, <3>2, <3>3
        <3> QED
            BY <1>1, <2>2, <2>3, <2>5, <3>1, <3>4, Zenon DEF OwnersInv
    <2>7. HostTypes'
        BY <1>1, <1>3, <2>2, <2>3 DEF HostInv, HostTypes, PreparedStages
    <2>8. StacksInv'
        BY <1>1, Zenon DEF HostInv, StacksInv, Spans
    <2>9. StageInv'
        BY <1>1, <1>3 DEF HostInv, StageInv, EarlyStages, PreparedStages, MappedStages
    <2>10. SlotsInv'
        <3>1. Ids' = Ids /\ \A id : SlotOf(id)' = SlotOf(id)
            BY <1>1, SameSlots, Zenon
        <3>2. stage \in PreparedStages /\ stage' \notin {"setup", "stacks", "slots"}
            BY <1>1, <1>3 DEF PreparedStages
        <3> QED
            BY <1>1, <3>1, <3>2, Zenon DEF HostInv, SlotsInv
    <2> QED
        BY <2>6, <2>7, <2>8, <2>9, <2>10, Zenon DEF HostInv
<1>4. \/ stage' = "failed" /\ UNCHANGED <<heap_region, allocator>>
      \/ \E s \in Pages : /\ allocate_contiguous(layout.heap_pages, s)
                          /\ heap_region' = s .. (s + layout.heap_pages - 1)
                          /\ stage' \in {"failed", "scratch"}
    BY Zenon DEF InitializeHeap
<1> QED
    BY <1>2, <1>3, <1>4, Zenon

\* A backing page of the scratch mapping is taken, or there is none.
LEMMA ScratchAllocated == HostInv /\ AllocateScratch => HostInv'
<1> SUFFICES ASSUME HostInv, AllocateScratch PROVE HostInv'
    OBVIOUS
<1>1. stage = "scratch" /\ Len(scratch) < 2 /\ UNCHANGED <<layout, stacks, slots, heap_region>>
    BY Zenon DEF AllocateScratch
<1>2. CASE stage' = "failed" /\ UNCHANGED <<scratch, allocator>>
    BY <1>1, <1>2, StageMoves, Zenon DEF allocator
<1>3. ASSUME NEW p \in Pages, allocate_contiguous(1, p), scratch' = Append(scratch, p), stage' = stage
      PROVE  HostInv'
    <2> DEFINE n == Len(scratch)
    <2>1. /\ n \in Nat /\ DOMAIN scratch = 1 .. n /\ scratch \in Seq(Pages) /\ Len(stacks) \in Nat
          /\ Cardinality(heap_region) \in Nat
        BY LayoutNumbers, FS_CardinalityType, Zenon DEF HostInv, HostTypes
    <2>2. p .. (p + 1 - 1) = {p}
        BY ApertureAssumption DEF Pages
    <2>3. 1 \in Nat
        OBVIOUS
    <2>4. /\ in_use' = in_use \cup {p} /\ IsFiniteSet(in_use')
          /\ in_use_pages' = in_use_pages + 1 /\ in_use_pages' = Cardinality(in_use')
        BY <1>3, <2>2, <2>3, TakenRun, Zenon DEF HostInv, HostTypes, OwnersInv
    <2>5. /\ scratch' \in Seq(Pages) /\ Len(scratch') = n + 1
          /\ \A i \in 1 .. n : scratch'[i] = scratch[i]
          /\ scratch'[n + 1] = p
        BY <1>3, <2>1, AppendProperties
    <2>6. DOMAIN scratch' = (1 .. n) \cup {n + 1}
        <3>1. DOMAIN scratch' = 1 .. (n + 1)
            BY <2>5, LenProperties, Zenon
        <3> QED
            BY <2>1, <3>1
    <2> HIDE DEF n
    <2>7. Range(scratch') = Range(scratch) \cup {p}
        <3>1. ASSUME NEW q PROVE q \in Range(scratch') <=> q \in Range(scratch) \cup {p}
            <4>1. q \in Range(scratch') <=> \E i \in (1 .. n) \cup {n + 1} : q = scratch'[i]
                BY <2>6, Zenon DEF Range
            <4>2. q \in Range(scratch) <=> \E i \in 1 .. n : q = scratch[i]
                BY <2>1, Zenon DEF Range
            <4> QED
                BY <2>5, <4>1, <4>2, Zenon
        <3> QED
            BY <3>1, Zenon
    <2>8. OwnersInv'
        <3>1. in_use' = StackPagesOf(stacks') \cup heap_region' \cup Range(scratch')
            BY <1>1, <2>4, <2>7, Zenon DEF HostInv, OwnersInv
        <3>2. in_use_pages = Len(stacks) * (1 + StackPages) + Cardinality(heap_region) + n
            BY Zenon DEF HostInv, OwnersInv, n
        <3>3. Len(stacks) * (1 + StackPages) \in Nat
            BY <2>1, StackAssumption
        <3>4. in_use_pages' = Len(stacks) * (1 + StackPages) + Cardinality(heap_region) + (n + 1)
            BY <2>1, <2>4, <3>2, <3>3
        <3> QED
            BY <1>1, <2>4, <2>5, <3>1, <3>4, Zenon DEF OwnersInv
    <2>9. HostTypes'
        BY <1>1, <1>3, <2>4, <2>5, Zenon DEF HostInv, HostTypes
    <2>10. StacksInv'
        BY <1>1, Zenon DEF HostInv, StacksInv, Spans
    <2>11. StageInv'
        BY <1>1, <1>3 DEF HostInv, StageInv, EarlyStages, PreparedStages, MappedStages
    <2>12. SlotsInv'
        <3>1. Ids' = Ids /\ boot_stack' = boot_stack /\ \A id : SlotOf(id)' = SlotOf(id)
            BY <1>1, SameSlots, Zenon
        <3> QED
            BY <1>1, <1>3, <3>1, Zenon DEF HostInv, SlotsInv
    <2> QED
        BY <2>8, <2>9, <2>10, <2>11, <2>12, Zenon DEF HostInv
<1>4. \/ stage' = "failed" /\ UNCHANGED <<scratch, allocator>>
      \/ \E p \in Pages : allocate_contiguous(1, p) /\ scratch' = Append(scratch, p) /\ stage' = stage
    BY Zenon DEF AllocateScratch
<1> QED
    BY <1>2, <1>3, <1>4, Zenon

\* The scratch mapping changes its page: the two pages stay the same two.
LEMMA ScratchMade == HostInv /\ MakeScratch => HostInv'
<1> SUFFICES ASSUME HostInv, MakeScratch PROVE HostInv'
    OBVIOUS
<1>1. /\ stage = "broken" /\ stage' = "running" /\ scratch' = <<scratch[2], scratch[1]>>
      /\ UNCHANGED <<layout, stacks, slots, heap_region, in_use, in_use_pages>>
    BY Zenon DEF MakeScratch, allocator
<1>2. Len(scratch) = 2 /\ scratch \in Seq(Pages)
    BY <1>1 DEF HostInv, HostTypes, StageInv, MappedStages
<1>3. DOMAIN scratch = {1, 2} /\ scratch[1] \in Pages /\ scratch[2] \in Pages
    <2>1. DOMAIN scratch = 1 .. 2
        BY <1>2, LenProperties, Zenon
    <2>2. 1 .. 2 = {1, 2}
        OBVIOUS
    <2> QED
        BY <1>2, <2>1, <2>2, ElementOfSeq, Zenon
<1>4. /\ scratch' \in Seq(Pages) /\ Len(scratch') = 2 /\ DOMAIN scratch' = {1, 2}
      /\ scratch'[1] = scratch[2] /\ scratch'[2] = scratch[1]
    BY <1>1, <1>3
<1>5. Range(scratch') = Range(scratch)
    BY <1>3, <1>4, Zenon DEF Range
<1>6. OwnersInv'
    BY <1>1, <1>2, <1>4, <1>5, Zenon DEF HostInv, OwnersInv
<1>7. HostTypes'
    BY <1>1, <1>4 DEF HostInv, HostTypes, PreparedStages, MappedStages
<1>8. StacksInv'
    BY <1>1, Zenon DEF HostInv, StacksInv, Spans
<1>9. StageInv'
    BY <1>1, <1>4 DEF HostInv, StageInv, EarlyStages, PreparedStages, MappedStages
<1>10. SlotsInv'
    <2>1. Ids' = Ids /\ \A id : SlotOf(id)' = SlotOf(id)
        BY <1>1, SameSlots, Zenon
    <2>2. stage \in PreparedStages /\ stage' \notin {"setup", "stacks", "slots"}
        BY <1>1 DEF PreparedStages, MappedStages
    <2> QED
        BY <1>1, <2>1, <2>2, Zenon DEF HostInv, SlotsInv
<1> QED
    BY <1>6, <1>7, <1>8, <1>9, <1>10, Zenon DEF HostInv

\* Every step of the boot preserves the invariant.
LEMMA HostNextInv == HostInv /\ [HostNext]_host_vars => HostInv'
<1> SUFFICES ASSUME HostInv, [HostNext]_host_vars PROVE HostInv'
    OBVIOUS
<1>1. CASE SetupTables
    <2>1. /\ stage = "setup" /\ stage' \in {"stacks", "failed"}
          /\ UNCHANGED <<layout, stacks, slots, heap_region, scratch, in_use, in_use_pages>>
        BY <1>1, Zenon DEF SetupTables, Edit, allocator
    <2> QED
        BY <2>1, StageMoves, Zenon
<1>2. CASE MapUsableRam
    <2>1. /\ stage = "stacks" /\ stage' \in {"slots", "failed"} /\ Len(stacks) = Len(layout.cpus)
          /\ UNCHANGED <<layout, stacks, slots, heap_region, scratch, in_use, in_use_pages>>
        BY <1>2, Zenon DEF MapUsableRam, Edit, allocator
    <2> QED
        BY <2>1, StageMoves, Zenon
<1>3. CASE MapScratch
    <2>1. /\ stage = "scratch" /\ stage' \in {"cells", "failed"} /\ Len(scratch) = 2
          /\ UNCHANGED <<layout, stacks, slots, heap_region, scratch, in_use, in_use_pages>>
        BY <1>3, Zenon DEF MapScratch, Edit, allocator
    <2> QED
        BY <2>1, StageMoves, Zenon
<1>4. CASE MapReleaseCells
    <2>1. /\ stage = "cells" /\ stage' \in {"freeze", "failed"}
          /\ UNCHANGED <<layout, stacks, slots, heap_region, scratch, in_use, in_use_pages>>
        BY <1>4, Zenon DEF MapReleaseCells, Edit, allocator
    <2> QED
        BY <2>1, StageMoves, Zenon
<1>5. CASE ValidateAndFreeze
    <2>1. /\ stage = "freeze" /\ stage' \in {"running", "failed"}
          /\ UNCHANGED <<layout, stacks, slots, heap_region, scratch, in_use, in_use_pages>>
        BY <1>5, Zenon DEF ValidateAndFreeze, allocator
    <2> QED
        BY <2>1, StageMoves, Zenon
<1>6. CASE BreakScratch
    <2>1. /\ stage = "running" /\ stage' = "broken"
          /\ UNCHANGED <<layout, stacks, slots, heap_region, scratch, in_use, in_use_pages>>
        BY <1>6, Zenon DEF BreakScratch, allocator
    <2> QED
        BY <2>1, StageMoves, Zenon
<1>7. CASE Halted \/ UNCHANGED host_vars
    <2>1. stage' = stage /\ UNCHANGED <<layout, stacks, slots, heap_region, scratch, in_use, in_use_pages>>
        BY <1>7, Zenon DEF Halted, host_vars, allocator
    <2> QED
        BY <2>1, StageMoves, Zenon
<1> QED
    BY <1>1, <1>2, <1>3, <1>4, <1>5, <1>6, <1>7, StackAllocated, RolledBack, SlotsPrepared,
       HeapInitialized, ScratchAllocated, ScratchMade, Zenon DEF HostNext

\* The invariant of the boot's memory (mm.rs, pcpu.rs, heap.rs): who owns the
\* pages in use, what each stage has behind it and what the slots hold.
THEOREM HostInvariant == HostSpec => []HostInv
<1>1. HostInit => HostInv
    BY HostInitInv
<1>2. HostInv /\ [HostNext]_host_vars => HostInv'
    BY HostNextInv
<1> QED
    BY <1>1, <1>2, PTL DEF HostSpec

\* The slots of two CPUs never share a page.
LEMMA SlotsApart ==
    ASSUME HostInv, stage \in PreparedStages
    PROVE  /\ DOMAIN slots = {0} \cup Range(layout.cpus)
           /\ \A i, k \in DOMAIN slots : i # k => StackSpan(slots[i]) \cap StackSpan(slots[k]) = {}
<1> DEFINE n == Len(stacks)
<1>1. /\ n \in Nat /\ DOMAIN stacks = 1 .. n /\ n = Len(layout.cpus) /\ DOMAIN layout.cpus = 1 .. n
      /\ layout.boot_guard \in Nat
      /\ (layout.boot_guard .. (layout.boot_guard + StackPages)) \cap Managed = {}
    BY LayoutNumbers, Zenon DEF HostInv, StageInv
<1>2. slots = [id \in Ids \cup {0} |-> SlotOf(id)]
    BY Zenon DEF HostInv, SlotsInv
<1>3. \A i \in 1 .. n : stacks[i].cpu = layout.cpus[i] /\ Spans(i) \subseteq Managed
    BY Zenon DEF HostInv, StacksInv
<1>4. \A i, k \in 1 .. n : i # k => Spans(i) \cap Spans(k) = {}
    BY Zenon DEF HostInv, StacksInv
<1> HIDE DEF n
<1>5. Ids = Range(layout.cpus)
    BY <1>1, <1>3, Zenon DEF Ids, Range
<1>6. ASSUME NEW id \in Ids PROVE \E i \in 1 .. n : stacks[i].cpu = id /\ StackSpan(SlotOf(id)) = Spans(i)
    <2> DEFINE c == CHOOSE s \in Range(stacks) : s.cpu = id
    <2>1. \E s \in Range(stacks) : s.cpu = id
        BY Zenon DEF Ids, Range
    <2>2. c \in Range(stacks) /\ c.cpu = id
        BY <2>1, Zenon
    <2> HIDE DEF c
    <2>3. PICK i \in 1 .. n : c = stacks[i]
        BY <1>1, <2>2, Zenon DEF Range
    <2>4. SlotOf(id) = c.stack
        BY Zenon DEF SlotOf, StackOf, c
    <2> QED
        BY <2>2, <2>3, <2>4, Zenon DEF Spans
<1>7. StackSpan(boot_stack) \cap Managed = {}
    <2>1. StackSpan(boot_stack) = layout.boot_guard .. (layout.boot_guard + (1 + StackPages) - 1)
        BY <1>1, SpanOfStack, Zenon DEF boot_stack
    <2>2. layout.boot_guard + (1 + StackPages) - 1 = layout.boot_guard + StackPages
        BY <1>1, StackAssumption
    <2> QED
        BY <1>1, <2>1, <2>2, Zenon
<1>8. DOMAIN slots = {0} \cup Ids /\ \A id \in DOMAIN slots : slots[id] = SlotOf(id)
    BY <1>2, Zenon
<1>9. \A id : id \notin Ids => SlotOf(id) = boot_stack
    BY Zenon DEF SlotOf
<1>10. ASSUME NEW i \in DOMAIN slots, NEW k \in DOMAIN slots, i # k
       PROVE  StackSpan(slots[i]) \cap StackSpan(slots[k]) = {}
    <2>1. slots[i] = SlotOf(i) /\ slots[k] = SlotOf(k)
        BY <1>8, Zenon
    <2>2. CASE i \in Ids /\ k \in Ids
        <3>1. PICK a \in 1 .. n : stacks[a].cpu = i /\ StackSpan(SlotOf(i)) = Spans(a)
            BY <1>6, <2>2, Zenon
        <3>2. PICK b \in 1 .. n : stacks[b].cpu = k /\ StackSpan(SlotOf(k)) = Spans(b)
            BY <1>6, <2>2, Zenon
        <3>3. a # b
            BY <1>10, <3>1, <3>2, Zenon
        <3> QED
            BY <1>4, <2>1, <3>1, <3>2, <3>3, Zenon
    <2>3. CASE i \in Ids /\ k \notin Ids
        <3>1. StackSpan(slots[i]) \subseteq Managed /\ slots[k] = boot_stack
            BY <1>3, <1>6, <1>9, <2>1, <2>3, Zenon
        <3> QED
            BY <1>7, <3>1, Zenon
    <2>4. CASE i \notin Ids /\ k \in Ids
        <3>1. StackSpan(slots[k]) \subseteq Managed /\ slots[i] = boot_stack
            BY <1>3, <1>6, <1>9, <2>1, <2>4, Zenon
        <3> QED
            BY <1>7, <3>1, Zenon
    <2>5. i \in Ids \/ k \in Ids
        BY <1>8, <1>10, Zenon
    <2> QED
        BY <2>2, <2>3, <2>4, <2>5, Zenon
<1> QED
    BY <1>5, <1>8, <1>10, Zenon

\* allocate_secondary_stacks with its rollback, heap::initialize and
\* prepare_tlb_scratch: every page in use has one owner and is counted once, and
\* the slots of pcpu.rs give every CPU a stack of its own.
THEOREM PagesAlwaysHaveOneOwner == HostSpec => []PagesHaveOneOwner
<1>1. HostInv => PagesHaveOneOwner
    <2> SUFFICES ASSUME HostInv PROVE PagesHaveOneOwner
        OBVIOUS
    <2>1. Past("slots") => stage \in PreparedStages
        BY DEF Past, Stages, PreparedStages, MappedStages
    <2>2. OwnersInv
        BY Zenon DEF HostInv
    <2> QED
        BY <2>1, <2>2, SlotsApart, Zenon DEF PagesHaveOneOwner, OwnersInv
<1> QED
    BY <1>1, HostInvariant, PTL

=============================================================================
