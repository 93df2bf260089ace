-------------------------- MODULE TlbUpdateProofs --------------------------
(***************************************************************************)
(* A mapping update, proved for any number of workers and epochs and any   *)
(* failures.                                                               *)
(*                                                                         *)
(* Break-before-make: the coordinator alone writes the scratch leaf, so    *)
(* where it is tells which page is mapped; a TLB holds that page or        *)
(* nothing, except between the break and the invalidation after it, when   *)
(* the leaf is already empty and TLBs may still hold the old page.         *)
(*                                                                         *)
(* The rendezvous: a failure is final, every scratch read sees the         *)
(* signature that its step expects, and a late worker that is refused left *)
(* the old mapping in place. A worker inside an update is one that the     *)
(* coordinator still waits for. It cannot be before its quiesce once all   *)
(* are quiet, nor before its synchronize once all are synchronized,        *)
(* because its acknowledgement of this epoch is missing, and every         *)
(* acknowledgement is for the epoch it was asked for. So a worker can fail *)
(* the protocol only while the coordinator is between its first request    *)
(* and the last acknowledgement, where it reads the phase again before it  *)
(* writes anything outside the table lock.                                 *)
(***************************************************************************)
EXTENDS TlbUpdate, FiniteSetTheorems, TLAPS

\* The coordinator's steps by the page that the leaf holds meanwhile.
OldSteps == {"idle", "members", "epoch", "phase", "prepare", "warm", "quiesce", "ask", "asking",
             "start", "replacing", "authority", "break", "poison", "park", "parking"}
NewSteps == {"invalidate2", "publish", "publishing", "reread", "sync", "syncing", "drain", "finish",
             "finishing", "gate", "reuse"}
EndSteps == {"failing", "halted", "stopped", "observe"}

LeafInv ==
    /\ current \in Pages
    /\ pte \in Pages \cup {None}
    /\ cpc \in OldSteps \cup NewSteps \cup EndSteps \cup {"invalidate", "make"}
    /\ cpc \in OldSteps => pte = current
    /\ cpc \in NewSteps => pte = other
    /\ cpc \in {"invalidate", "make"} => pte = None

Cached(c) == tlb[c] \in IF cpc = "invalidate" THEN {None, current} ELSE {None, pte}

TlbInv == tlb \in [CPUs -> Pages \cup {None}] /\ \A c \in CPUs : Cached(c)

IInv == LeafInv /\ TlbInv

-----------------------------------------------------------------------------
\* The first mapping is page A, and nothing is cached.
LEMMA InitInvariant == Init => IInv
    BY PagesAssumption DEF Init, IInv, LeafInv, TlbInv, Cached, OldSteps, NewSteps, EndSteps, Pages

\* The leaf and the TLBs, step by step.
LEMMA Induction == IInv /\ [Next]_vars => IInv'
<1> SUFFICES ASSUME IInv, [Next]_vars PROVE IInv'
    OBVIOUS
<1> USE PagesAssumption DEF IInv, LeafInv, TlbInv, Cached, OldSteps, NewSteps, EndSteps, Pages,
   other
<1>1. CASE BeginGate
    BY <1>1 DEF BeginGate, CoordinatorStep, tables, scratch
<1>2. CASE BeginMembers
    BY <1>2 DEF BeginMembers, CoordinatorStep, tables, scratch
<1>3. CASE BeginFails
    BY <1>3 DEF BeginFails, CoordinatorStep, tables, scratch
<1>4. CASE BeginEpoch
    BY <1>4 DEF BeginEpoch, CoordinatorStep, tables, scratch
<1>5. CASE BeginQuiescing
    BY <1>5 DEF BeginQuiescing, CoordinatorStep, tables, scratch
<1>6. CASE PrepareNew
    BY <1>6 DEF PrepareNew, CoordinatorStep
<1>7. CASE CoordinatorWarm
    BY <1>7, Zenon DEF CoordinatorWarm, CoordinatorStep, Cache, translation, scratch
<1>8. CASE QuiesceSelf
    BY <1>8 DEF QuiesceSelf, CoordinatorStep, tables, scratch
<1>9. ASSUME NEW w \in Workers, AskWorker(w) PROVE IInv'
    BY <1>9 DEF AskWorker, CoordinatorStep, tables, scratch
<1>10. ASSUME NEW w \in Workers, WorkerAdmitted(w) PROVE IInv'
    BY <1>10 DEF WorkerAdmitted, CoordinatorStep, tables, scratch
<1>11. CASE WaitQuiet
    BY <1>11 DEF WaitQuiet, CoordinatorStep, tables, scratch
<1>12. CASE CheckReplace
    BY <1>12 DEF CheckReplace, CoordinatorStep, tables, scratch
<1>13. CASE StartReplace
    BY <1>13 DEF StartReplace, CoordinatorStep, tables, scratch
<1>14. CASE CheckAuthority
    BY <1>14 DEF CheckAuthority, CoordinatorStep, tables, scratch
<1>15. CASE BreakEntry
    BY <1>15 DEF BreakEntry, CoordinatorStep, scratch
<1>16. CASE InvalidateOld
    BY <1>16 DEF InvalidateOld, CoordinatorStep, InvalidateAll, scratch
<1>17. CASE MakeEntry
    BY <1>17 DEF MakeEntry, CoordinatorStep, scratch
<1>18. CASE InvalidateNew
    BY <1>18 DEF InvalidateNew, CoordinatorStep, InvalidateAll, scratch
<1>19. CASE CheckPublish
    BY <1>19 DEF CheckPublish, CoordinatorStep, tables, scratch
<1>20. CASE Publish
    BY <1>20 DEF Publish, CoordinatorStep, tables, scratch
<1>21. CASE CoordinatorReread
    BY <1>21, Zenon DEF CoordinatorReread, CoordinatorStep, Cache, translation, scratch
<1>22. CASE CheckSynchronizing
    BY <1>22 DEF CheckSynchronizing, CoordinatorStep, tables, scratch
<1>23. CASE SynchronizeSelf
    BY <1>23 DEF SynchronizeSelf, CoordinatorStep, tables, scratch
<1>24. CASE WaitSynced
    BY <1>24 DEF WaitSynced, CoordinatorStep, tables, scratch
<1>25. CASE CheckFinish
    BY <1>25 DEF CheckFinish, CoordinatorStep, tables, scratch
<1>26. CASE FinishPhase
    BY <1>26 DEF FinishPhase, CoordinatorStep, tables, scratch
<1>27. CASE FinishGate
    BY <1>27 DEF FinishGate, CoordinatorStep, tables, scratch
<1>28. CASE Reuse
    BY <1>28 DEF Reuse, CoordinatorStep, tables
<1>29. CASE PoisonOld
    BY <1>29 DEF PoisonOld, CoordinatorStep, scratch
<1>30. CASE RemapFails
    BY <1>30 DEF RemapFails, tables, scratch, CoordinatorErrs
<1>31. CASE RemapHalts
    BY <1>31 DEF RemapHalts, CoordinatorStep, tables, scratch
<1>32. CASE ObserveLate
    BY <1>32 DEF ObserveLate, CoordinatorStep, tables, scratch
<1>33. CASE CoordinatorStops
    BY <1>33 DEF CoordinatorStops, tables, scratch, RemapSteps, ParkSteps, LockedSteps
<1>34. CASE StartPark
    BY <1>34 DEF StartPark, CoordinatorStep, tables, scratch
<1>35. ASSUME NEW w \in Workers, ParkWorker(w) PROVE IInv'
    BY <1>35 DEF ParkWorker, CoordinatorStep, tables, scratch
<1>36. ASSUME NEW w \in Workers, WorkerParked(w) PROVE IInv'
    BY <1>36 DEF WorkerParked, CoordinatorStep, tables, scratch
<1>37. CASE ParkSnapshot
    BY <1>37 DEF ParkSnapshot, CoordinatorStep, tables, scratch
<1>38. CASE ParkFails
    BY <1>38 DEF ParkFails, tables, scratch
<1>39. ASSUME NEW w \in Workers, WarmOld(w) PROVE IInv'
    BY <1>39 DEF WarmOld, Cache, translation, scratch, coordinator, CPUs
<1>40. ASSUME NEW w \in Workers, RereadNew(w) PROVE IInv'
    BY <1>40 DEF RereadNew, Cache, translation, scratch, coordinator, CPUs
<1>41. ASSUME NEW c \in CPUs, TlbWalk(c) PROVE IInv'
    BY <1>41 DEF TlbWalk, coordinator, scratch
<1>42. ASSUME NEW w \in Workers, WorkerNext(w) \/ IrqNext(w), ~WarmOld(w), ~RereadNew(w)
      PROVE  UNCHANGED <<pte, tlb, current, cpc>>
    BY <1>42, Zenon DEF WorkerNext, IrqNext, TakeIrq, AdmitIdentify, AdmitConfirm, AdmitStore, ParkClaim,
       ParkFinish, IrqReturn, HoldingStop, HoldingContinue, HoldingPending, WakeUp, MaskAgain,
       EnterUpdate, QuiesceIdentify, QuiesceConfirm, QuiesceStore, AwaitSynchronizing,
       SynchronizeIdentify, SynchronizeConfirm, SynchronizeStore, WorkerReturns, WorkerFails,
       WorkerRecords, tables, scratch, coordinator
<1>43. ASSUME UNCHANGED <<pte, tlb, current, cpc>> PROVE IInv'
    BY <1>43
<1>44. CASE UNCHANGED vars
    BY <1>44, <1>43 DEF vars, tables, scratch, coordinator
<1>45. CASE CoordinatorNext
    BY <1>45, <1>1, <1>2, <1>3, <1>4, <1>5, <1>6, <1>7, <1>8, <1>9, <1>10, <1>11, <1>12, <1>13,
       <1>14, <1>15, <1>16, <1>17, <1>18, <1>19, <1>20, <1>21, <1>22, <1>23, <1>24, <1>25, <1>26,
       <1>27, <1>28, <1>29, <1>30, <1>31, <1>32, <1>33, <1>34, <1>35, <1>36, <1>37, <1>38, Zenon DEF
       CoordinatorNext
<1>46. QED
    BY <1>39, <1>40, <1>41, <1>42, <1>43, <1>44, <1>45, Zenon DEF Next

\* Which page is mapped, and what the TLBs may hold of it.
THEOREM LeafInvariant == Spec => []IInv
    BY InitInvariant, Induction, PTL DEF Spec

\* BreakBeforeMake for any number of workers and updates, expired deadlines and
\* failures (replace_data_page, remap): one backing page at a time, and a page
\* is written only while no CPU can reach it.
THEOREM BackingIsUnique == Spec => []BreakBeforeMake
<1>1. IInv => BreakBeforeMake
  <2> SUFFICES ASSUME IInv PROVE BreakBeforeMake
      OBVIOUS
  <2> DEFINE held == ({pte} \cup {tlb[c] : c \in CPUs}) \ {None}
  <2>1. \E p \in Pages : held \subseteq {p}
    <3>1. CASE cpc = "invalidate"
        BY <3>1 DEF IInv, LeafInv, TlbInv, Cached
    <3>2. CASE cpc # "invalidate" /\ pte # None
        BY <3>2 DEF IInv, LeafInv, TlbInv, Cached
    <3>3. CASE cpc # "invalidate" /\ pte = None
        BY <3>3 DEF IInv, LeafInv, TlbInv, Cached, Pages
    <3>4. QED
        BY <3>1, <3>2, <3>3
  <2>2. Cardinality(held) <= 1
    <3>1. PICK p \in Pages : held \subseteq {p}
        BY <2>1
    <3>2. IsFiniteSet({p}) /\ Cardinality({p}) = 1
        BY FS_Singleton, Zenon
    <3>3. Cardinality(held) <= Cardinality({p})
        BY <3>1, <3>2, FS_Subset
    <3>4. QED
        BY <3>2, <3>3
  <2>3. ASSUME cpc \in {"prepare", "poison"}, NEW c \in CPUs PROVE pte # other /\ tlb[c] # other
      BY <2>3, PagesAssumption DEF IInv, LeafInv, TlbInv, Cached, OldSteps, Pages, other
  <2>4. QED
      BY <2>2, <2>3 DEF BreakBeforeMake
<1>2. QED
    BY LeafInvariant, <1>1, PTL

-----------------------------------------------------------------------------
(* The rendezvous: its invariant and the coordinator's part.               *)

\* The steps of one update, by what the workers may be doing meanwhile.
AskSteps == {"ask", "asking"}
WriteSteps == {"authority", "publish", "publishing"} \cup LockedSteps
SyncSteps == {"reread", "sync", "syncing", "drain"}
OpenSteps == AskSteps \cup {"start", "replacing"} \cup WriteSteps \cup SyncSteps

OldMapped == pte = current /\ memory[current] = oldValue
NewMapped == pte = other /\ memory[other] = newValue

RendezvousTypes ==
    /\ epoch \in Nat /\ DOMAIN memory = Pages
    /\ requested \in [CPUs -> Nat] /\ synced \in [CPUs -> Nat] /\ quiet \in [CPUs -> Nat]
    /\ wepoch \in [Workers -> Nat]
    /\ DOMAIN wpc = Workers /\ DOMAIN ipc = Workers

SlotTypes ==
    slot \in [Workers -> [state : {"free", "posted", "accepted", "rejected"},
                          operation : {"none", "TlbQuiesce", "Park"}, argument : Nat]]

\* What each page holds.
MemoryInv ==
    /\ cpc \in OldSteps => memory[current] = oldValue
    /\ cpc \in {"invalidate", "make"} => memory[current] = oldValue
    /\ cpc \in {"warm", "quiesce", "start", "replacing", "authority", "break", "invalidate", "make"}
               \cup AskSteps \cup NewSteps => memory[other] = newValue

\* The phase, the gate and the members at each of the coordinator's steps.
PhaseInv ==
    /\ cpc \in {"idle", "members", "epoch", "phase", "park", "parking"} => phase \in {"Idle",
       "Complete"}
    /\ cpc \in {"prepare", "warm", "quiesce"} => phase = "Quiescing"
    /\ cpc \in AskSteps \cup {"start", "replacing"} => phase \in {"Quiescing", "Failed"}
    /\ cpc \in WriteSteps => phase \in {"Replacing", "Failed"}
    /\ cpc \in SyncSteps => phase \in {"Synchronizing", "Failed"}
    /\ cpc \in {"finish", "finishing"} => phase = "Synchronizing"
    /\ cpc \in {"gate", "reuse", "poison"} => phase = "Complete"
    /\ phase = "Quiescing" => OldMapped /\ gate = 1 /\ members = CPUs /\ epoch # 0
    /\ phase = "Synchronizing" => NewMapped
    /\ cpc \in {"members", "epoch", "phase"} => gate = 1
    /\ cpc \in {"epoch", "phase"} \cup OpenSteps => members = CPUs
    /\ cpc = "phase" => epoch # 0

\* One request at a time; a request to quiesce is for this epoch.
Request(w) ==
    /\ slot[w].state # "free" => cpc \in {"asking", "parking"} \cup EndSteps
    /\ slot[w].state = "posted" =>
        \/ /\ slot[w].operation = "TlbQuiesce" /\ slot[w].argument = epoch
           /\ cpc \in {"asking"} \cup EndSteps
        \/ slot[w].operation = "Park" /\ cpc \in {"parking"} \cup EndSteps
    /\ ipc[w] \in {"identify", "confirm", "store"} =>
        slot[w].state = "posted" /\ slot[w].operation = "TlbQuiesce"
    /\ ipc[w] \in {"park", "parking"} => slot[w].state = "posted" /\ slot[w].operation = "Park"
    /\ ipc[w] = "parking" => gate = 2

SlotInv ==
    /\ \A w \in Workers : Request(w)
    /\ \A u, w \in Workers : u # w => slot[u].state = "free" \/ slot[w].state = "free"

\* The acknowledgements of this epoch come at their steps.
Acknowledged(w) ==
    /\ requested[w] <= epoch /\ synced[w] <= epoch
    /\ cpc \in {"phase", "prepare", "warm", "quiesce"} => requested[w] < epoch
    /\ cpc \in {"phase", "prepare", "warm", "quiesce", "start", "replacing"} \cup AskSteps \cup
       WriteSteps
        => synced[w] < epoch
    /\ cpc \in {"start", "replacing"} => quiet[w] = epoch

AckInv == \A w \in Workers : Acknowledged(w)

\* A worker inside an update is one the coordinator still waits for.
Progress(w) ==
    /\ wpc[w] \in {"enter"} \cup QuiesceSteps =>
        /\ cpc \in AskSteps \cup EndSteps
        /\ OldMapped /\ gate = 1 /\ members = CPUs /\ epoch # 0 /\ requested[w] = epoch
        /\ phase \in {"Quiescing", "Failed"}
        /\ cpc \in AskSteps => quiet[w] # epoch
    /\ wpc[w] \in {"early", "await"} => cpc \in OpenSteps \cup EndSteps
    /\ wpc[w] \in SynchronizeSteps => cpc \in SyncSteps \cup EndSteps /\ NewMapped
    /\ wpc[w] \in {"early", "await"} \cup SynchronizeSteps /\ cpc \in SyncSteps => synced[w] < epoch
    /\ wpc[w] \in {"early", "await"} \cup QuiesceSteps \cup SynchronizeSteps => wepoch[w] = epoch

WorkerInv == \A w \in Workers : Progress(w)

\* A refused late worker: the update stopped before the mapping was touched.
LateInv ==
    lateRejected => phase = "Failed" /\ OldMapped /\ cpc \in AskSteps \cup EndSteps

Rendezvous ==
    /\ RendezvousTypes /\ SlotTypes
    /\ MemoryInv /\ PhaseInv /\ SlotInv /\ AckInv /\ WorkerInv /\ LateInv

-----------------------------------------------------------------------------
\* Initially nobody is in an update.
LEMMA RendezvousInit == Init => Rendezvous
<1> SUFFICES ASSUME Init PROVE Rendezvous
    OBVIOUS
<1> USE PagesAssumption, MembersAssumption DEF Init, UpdateInit, Pages, CPUs
<1>1. RendezvousTypes /\ SlotTypes
    BY DEF RendezvousTypes, SlotTypes, FreeSlot
<1>2. memory[current] = oldValue
    OBVIOUS
<1>3. MemoryInv /\ PhaseInv
    BY <1>2 DEF MemoryInv, PhaseInv, OldSteps, NewSteps, AskSteps, WriteSteps, SyncSteps, OpenSteps,
       LockedSteps
<1>4. SlotInv /\ AckInv
    BY DEF SlotInv, Request, AckInv, Acknowledged, FreeSlot, AskSteps, WriteSteps, LockedSteps
<1>5. WorkerInv /\ LateInv
    BY DEF WorkerInv, Progress, LateInv, QuiesceSteps, SynchronizeSteps
<1>6. QED
    BY <1>1, <1>3, <1>4, <1>5 DEF Rendezvous

\* The types.
LEMMA RendezvousTypesInduction == IInv /\ Rendezvous /\ [Next]_vars => RendezvousTypes'
<1> SUFFICES ASSUME IInv, Rendezvous, [Next]_vars PROVE RendezvousTypes'
    OBVIOUS
<1>0. RendezvousTypes
    BY DEF Rendezvous
<1>x. SlotTypes
    BY DEF Rendezvous
<1> USE <1>0, MembersAssumption DEF RendezvousTypes, CPUs
<1>1. CASE BeginEpoch
    BY <1>1 DEF BeginEpoch, CoordinatorStep, tables, worker, irq
<1>2. CASE PrepareNew
    BY <1>2 DEF PrepareNew, CoordinatorStep, updates, worker, irq
<1>3. CASE QuiesceSelf
    BY <1>3 DEF QuiesceSelf, CoordinatorStep, tables, worker, irq
<1>4. CASE SynchronizeSelf
    BY <1>4 DEF SynchronizeSelf, CoordinatorStep, tables, worker, irq
<1>5. CASE PoisonOld
    BY <1>5 DEF PoisonOld, CoordinatorStep, updates, worker, irq
<1>6. ASSUME NEW w \in Workers, TakeIrq(w) PROVE RendezvousTypes'
    BY <1>6 DEF TakeIrq, updates, tables, worker
<1>7. ASSUME NEW w \in Workers, AdmitIdentify(w) PROVE RendezvousTypes'
    BY <1>7 DEF AdmitIdentify, IrqStep, updates, tables, worker
<1>8. ASSUME NEW w \in Workers, AdmitConfirm(w) PROVE RendezvousTypes'
    BY <1>8 DEF AdmitConfirm, IrqStep, updates, tables, worker
<1>9. ASSUME NEW w \in Workers, AdmitStore(w) PROVE RendezvousTypes'
    BY <1>9, <1>x, Zenon DEF AdmitStore, IrqStep, tables, worker, SlotTypes
<1>10. ASSUME NEW w \in Workers, ParkClaim(w) PROVE RendezvousTypes'
    BY <1>10 DEF ParkClaim, IrqStep, tables, worker
<1>11. ASSUME NEW w \in Workers, ParkFinish(w) PROVE RendezvousTypes'
    BY <1>11 DEF ParkFinish, IrqStep, tables, worker
<1>12. ASSUME NEW w \in Workers, IrqReturn(w) PROVE RendezvousTypes'
    BY <1>12 DEF IrqReturn, IrqStep, Stop, updates, tables
<1>13. ASSUME NEW w \in Workers, HoldingStop(w) PROVE RendezvousTypes'
    BY <1>13 DEF HoldingStop, Stop, updates, tables, irq
<1>14. ASSUME NEW w \in Workers, HoldingContinue(w) PROVE RendezvousTypes'
    BY <1>14 DEF HoldingContinue, WorkerStep, updates, tables, irq
<1>15. ASSUME NEW w \in Workers, HoldingPending(w) PROVE RendezvousTypes'
    BY <1>15 DEF HoldingPending, WorkerStep, updates, tables, irq
<1>16. ASSUME NEW w \in Workers, WakeUp(w) PROVE RendezvousTypes'
    BY <1>16 DEF WakeUp, WorkerStep, updates, tables, irq
<1>17. ASSUME NEW w \in Workers, MaskAgain(w) PROVE RendezvousTypes'
    BY <1>17 DEF MaskAgain, WorkerStep, updates, tables, irq
<1>18. ASSUME NEW w \in Workers, EnterUpdate(w) PROVE RendezvousTypes'
    BY <1>18 DEF EnterUpdate, WorkerStep, updates, tables, irq
<1>19. ASSUME NEW w \in Workers, WarmOld(w) PROVE RendezvousTypes'
    BY <1>19 DEF WarmOld, WorkerStep, updates, irq
<1>20. ASSUME NEW w \in Workers, QuiesceIdentify(w) PROVE RendezvousTypes'
    BY <1>20 DEF QuiesceIdentify, WorkerStep, updates, tables, irq
<1>21. ASSUME NEW w \in Workers, QuiesceConfirm(w) PROVE RendezvousTypes'
    BY <1>21 DEF QuiesceConfirm, WorkerStep, updates, tables, irq
<1>22. ASSUME NEW w \in Workers, QuiesceStore(w) PROVE RendezvousTypes'
    BY <1>22 DEF QuiesceStore, WorkerStep, tables, irq
<1>23. ASSUME NEW w \in Workers, AwaitSynchronizing(w) PROVE RendezvousTypes'
    BY <1>23 DEF AwaitSynchronizing, WorkerStep, updates, tables, irq
<1>24. ASSUME NEW w \in Workers, RereadNew(w) PROVE RendezvousTypes'
    BY <1>24 DEF RereadNew, WorkerStep, updates, irq
<1>25. ASSUME NEW w \in Workers, SynchronizeIdentify(w) PROVE RendezvousTypes'
    BY <1>25 DEF SynchronizeIdentify, WorkerStep, updates, tables, irq
<1>26. ASSUME NEW w \in Workers, SynchronizeConfirm(w) PROVE RendezvousTypes'
    BY <1>26 DEF SynchronizeConfirm, WorkerStep, updates, tables, irq
<1>27. ASSUME NEW w \in Workers, SynchronizeStore(w) PROVE RendezvousTypes'
    BY <1>27 DEF SynchronizeStore, WorkerStep, tables, irq
<1>28. ASSUME NEW w \in Workers, WorkerReturns(w) PROVE RendezvousTypes'
    BY <1>28 DEF WorkerReturns, WorkerStep, updates, tables, irq
<1>29. ASSUME NEW w \in Workers, WorkerFails(w) PROVE RendezvousTypes'
    BY <1>29 DEF WorkerFails, tables, irq
<1>30. ASSUME NEW w \in Workers, WorkerRecords(w) PROVE RendezvousTypes'
    BY <1>30 DEF WorkerRecords, WorkerStep, updates, tables
<1>31. ASSUME UNCHANGED <<epoch, ipc, memory, quiet, requested, synced, wepoch, wpc>>
       PROVE  RendezvousTypes'
    BY <1>31
<1> HIDE <1>0, MembersAssumption DEF RendezvousTypes, CPUs
<1>32. CASE CoordinatorNext
    BY <1>32, <1>1, <1>2, <1>3, <1>4, <1>5, <1>31, Zenon DEF CoordinatorNext, BeginGate, BeginMembers,
       BeginFails, BeginQuiescing, CoordinatorWarm, AskWorker, WorkerAdmitted, WaitQuiet,
       CheckReplace, StartReplace, CheckAuthority, BreakEntry, InvalidateOld, MakeEntry,
       InvalidateNew, CheckPublish, Publish, CoordinatorReread, CheckSynchronizing, WaitSynced,
       CheckFinish, FinishPhase, FinishGate, Reuse, RemapFails, RemapHalts, ObserveLate,
       CoordinatorStops, StartPark, ParkWorker, WorkerParked, ParkSnapshot, ParkFails, tables,
       worker, irq, updates
<1>33. ASSUME NEW w \in Workers, WorkerNext(w) \/ IrqNext(w) PROVE RendezvousTypes'
    BY <1>33, <1>6, <1>7, <1>8, <1>9, <1>10, <1>11, <1>12, <1>13, <1>14, <1>15, <1>16, <1>17,
       <1>18, <1>19, <1>20, <1>21, <1>22, <1>23, <1>24, <1>25, <1>26, <1>27, <1>28, <1>29, <1>30, Zenon
       DEF WorkerNext, IrqNext
<1>34. ASSUME NEW c \in CPUs, TlbWalk(c) PROVE RendezvousTypes'
    BY <1>34, <1>31 DEF TlbWalk, updates, worker, irq
<1>35. CASE UNCHANGED vars
    BY <1>35, <1>31 DEF vars, updates, tables, worker, irq
<1>36. QED
    BY <1>32, <1>33, <1>34, <1>35 DEF Next

\* The types of the requests.
LEMMA SlotTypesInduction == IInv /\ Rendezvous /\ [Next]_vars => SlotTypes'
<1> SUFFICES ASSUME IInv, Rendezvous, [Next]_vars PROVE SlotTypes'
    OBVIOUS
<1>0. SlotTypes /\ epoch \in Nat
    BY DEF Rendezvous, RendezvousTypes
<1> USE <1>0 DEF SlotTypes, FreeSlot
<1>1. ASSUME NEW w \in Workers, AskWorker(w) PROVE SlotTypes'
    BY <1>1 DEF AskWorker, CoordinatorStep, Post
<1>2. ASSUME NEW w \in Workers, WorkerAdmitted(w) PROVE SlotTypes'
    BY <1>2 DEF WorkerAdmitted, CoordinatorStep, Collect
<1>3. ASSUME NEW w \in Workers, ParkWorker(w) PROVE SlotTypes'
    BY <1>3 DEF ParkWorker, CoordinatorStep, Post
<1>4. ASSUME NEW w \in Workers, WorkerParked(w) PROVE SlotTypes'
    BY <1>4 DEF WorkerParked, CoordinatorStep, Collect
<1>5. ASSUME NEW w \in Workers, AdmitIdentify(w) PROVE SlotTypes'
    BY <1>5 DEF AdmitIdentify, IrqStep, Reply
<1>6. ASSUME NEW w \in Workers, AdmitConfirm(w) PROVE SlotTypes'
    BY <1>6 DEF AdmitConfirm, IrqStep, Reply
<1>7. ASSUME NEW w \in Workers, AdmitStore(w) PROVE SlotTypes'
    BY <1>7 DEF AdmitStore, IrqStep, Reply
<1>8. ASSUME NEW w \in Workers, ParkClaim(w) PROVE SlotTypes'
    BY <1>8 DEF ParkClaim, IrqStep, Reply
<1>9. ASSUME NEW w \in Workers, ParkFinish(w) PROVE SlotTypes'
    BY <1>9 DEF ParkFinish, IrqStep, Reply
<1>10. ASSUME UNCHANGED <<slot>> PROVE SlotTypes'
    BY <1>10
<1> HIDE <1>0 DEF SlotTypes, FreeSlot
<1>11. CASE CoordinatorNext
    BY <1>11, <1>1, <1>2, <1>3, <1>4, <1>10, Zenon DEF CoordinatorNext, BeginGate, BeginMembers,
       BeginFails, BeginEpoch, BeginQuiescing, PrepareNew, CoordinatorWarm, QuiesceSelf,
       WaitQuiet, CheckReplace, StartReplace, CheckAuthority, BreakEntry, InvalidateOld,
       MakeEntry, InvalidateNew, CheckPublish, Publish, CoordinatorReread, CheckSynchronizing,
       SynchronizeSelf, WaitSynced, CheckFinish, FinishPhase, FinishGate, Reuse, PoisonOld,
       RemapFails, RemapHalts, ObserveLate, CoordinatorStops, StartPark, ParkSnapshot, ParkFails
<1>12. ASSUME NEW w \in Workers, WorkerNext(w) \/ IrqNext(w) PROVE SlotTypes'
    BY <1>12, <1>5, <1>6, <1>7, <1>8, <1>9, <1>10, Zenon DEF WorkerNext, IrqNext, TakeIrq, IrqReturn,
       HoldingStop, HoldingContinue, HoldingPending, WakeUp, MaskAgain, EnterUpdate, WarmOld,
       QuiesceIdentify, QuiesceConfirm, QuiesceStore, AwaitSynchronizing, RereadNew,
       SynchronizeIdentify, SynchronizeConfirm, SynchronizeStore, WorkerReturns, WorkerFails,
       WorkerRecords
<1>13. ASSUME NEW c \in CPUs, TlbWalk(c) PROVE SlotTypes'
    BY <1>13, <1>10 DEF TlbWalk
<1>14. CASE UNCHANGED vars
    BY <1>14, <1>10 DEF vars
<1>15. QED
    BY <1>11, <1>12, <1>13, <1>14 DEF Next

\* What the pages hold.
LEMMA MemoryInduction == IInv /\ Rendezvous /\ [Next]_vars => MemoryInv'
<1> SUFFICES ASSUME IInv, Rendezvous, [Next]_vars PROVE MemoryInv'
    OBVIOUS
<1>0. DOMAIN memory = Pages /\ MemoryInv /\ current \in Pages
    BY DEF Rendezvous, IInv, LeafInv, RendezvousTypes
<1> USE <1>0, PagesAssumption DEF MemoryInv, Pages, other, OldSteps, NewSteps, EndSteps, AskSteps
<1>1. CASE BeginGate
    BY <1>1 DEF BeginGate, CoordinatorStep, tables, scratch
<1>2. CASE BeginMembers
    BY <1>2 DEF BeginMembers, CoordinatorStep, tables, scratch
<1>3. CASE BeginFails
    BY <1>3 DEF BeginFails, CoordinatorStep, tables, scratch
<1>4. CASE BeginEpoch
    BY <1>4 DEF BeginEpoch, CoordinatorStep, tables, scratch
<1>5. CASE BeginQuiescing
    BY <1>5 DEF BeginQuiescing, CoordinatorStep, tables, scratch
<1>6. CASE PrepareNew
    BY <1>6 DEF PrepareNew, CoordinatorStep
<1>7. CASE CoordinatorWarm
    BY <1>7 DEF CoordinatorWarm, CoordinatorStep, scratch
<1>8. CASE QuiesceSelf
    BY <1>8 DEF QuiesceSelf, CoordinatorStep, tables, scratch
<1>9. ASSUME NEW w \in Workers, AskWorker(w) PROVE MemoryInv'
    BY <1>9 DEF AskWorker, CoordinatorStep, tables, scratch
<1>10. ASSUME NEW w \in Workers, WorkerAdmitted(w) PROVE MemoryInv'
    BY <1>10 DEF WorkerAdmitted, CoordinatorStep, tables, scratch
<1>11. CASE WaitQuiet
    BY <1>11 DEF WaitQuiet, CoordinatorStep, tables, scratch
<1>12. CASE CheckReplace
    BY <1>12 DEF CheckReplace, CoordinatorStep, tables, scratch
<1>13. CASE StartReplace
    BY <1>13 DEF StartReplace, CoordinatorStep, tables, scratch
<1>14. CASE CheckAuthority
    BY <1>14 DEF CheckAuthority, CoordinatorStep, tables, scratch
<1>15. CASE BreakEntry
    BY <1>15 DEF BreakEntry, CoordinatorStep, scratch
<1>16. CASE InvalidateOld
    BY <1>16 DEF InvalidateOld, CoordinatorStep, scratch
<1>17. CASE MakeEntry
    BY <1>17 DEF MakeEntry, CoordinatorStep, scratch
<1>18. CASE InvalidateNew
    BY <1>18 DEF InvalidateNew, CoordinatorStep, scratch
<1>19. CASE CheckPublish
    BY <1>19 DEF CheckPublish, CoordinatorStep, tables, scratch
<1>20. CASE Publish
    BY <1>20 DEF Publish, CoordinatorStep, tables, scratch
<1>21. CASE CoordinatorReread
    BY <1>21 DEF CoordinatorReread, CoordinatorStep, scratch
<1>22. CASE CheckSynchronizing
    BY <1>22 DEF CheckSynchronizing, CoordinatorStep, tables, scratch
<1>23. CASE SynchronizeSelf
    BY <1>23 DEF SynchronizeSelf, CoordinatorStep, tables, scratch
<1>24. CASE WaitSynced
    BY <1>24 DEF WaitSynced, CoordinatorStep, tables, scratch
<1>25. CASE CheckFinish
    BY <1>25 DEF CheckFinish, CoordinatorStep, tables, scratch
<1>26. CASE FinishPhase
    BY <1>26 DEF FinishPhase, CoordinatorStep, tables, scratch
<1>27. CASE FinishGate
    BY <1>27 DEF FinishGate, CoordinatorStep, tables, scratch
<1>28. CASE Reuse
    BY <1>28 DEF Reuse, CoordinatorStep, tables
<1>29. CASE PoisonOld
    BY <1>29 DEF PoisonOld, CoordinatorStep, scratch
<1>30. CASE RemapFails
    BY <1>30, Zenon DEF RemapFails, tables, scratch, CoordinatorErrs
<1>31. CASE RemapHalts
    BY <1>31 DEF RemapHalts, CoordinatorStep, tables, scratch
<1>32. CASE ObserveLate
    BY <1>32 DEF ObserveLate, CoordinatorStep, tables, scratch
<1>33. CASE CoordinatorStops
    BY <1>33 DEF CoordinatorStops, tables, scratch
<1>34. CASE StartPark
    BY <1>34 DEF StartPark, CoordinatorStep, tables, scratch
<1>35. ASSUME NEW w \in Workers, ParkWorker(w) PROVE MemoryInv'
    BY <1>35 DEF ParkWorker, CoordinatorStep, tables, scratch
<1>36. ASSUME NEW w \in Workers, WorkerParked(w) PROVE MemoryInv'
    BY <1>36 DEF WorkerParked, CoordinatorStep, tables, scratch
<1>37. CASE ParkSnapshot
    BY <1>37 DEF ParkSnapshot, CoordinatorStep, tables, scratch
<1>38. CASE ParkFails
    BY <1>38, Zenon DEF ParkFails, tables, scratch
<1>39. ASSUME UNCHANGED <<cpc, current, memory, newValue, oldValue>> PROVE MemoryInv'
    BY <1>39
<1> HIDE <1>0, PagesAssumption DEF MemoryInv, Pages, other, OldSteps, NewSteps, EndSteps, AskSteps
<1>40. CASE CoordinatorNext
    BY <1>40, <1>1, <1>2, <1>3, <1>4, <1>5, <1>6, <1>7, <1>8, <1>9, <1>10, <1>11, <1>12, <1>13,
       <1>14, <1>15, <1>16, <1>17, <1>18, <1>19, <1>20, <1>21, <1>22, <1>23, <1>24, <1>25, <1>26,
       <1>27, <1>28, <1>29, <1>30, <1>31, <1>32, <1>33, <1>34, <1>35, <1>36, <1>37, <1>38, Zenon DEF
       CoordinatorNext
<1>41. ASSUME NEW w \in Workers, WorkerNext(w) \/ IrqNext(w) PROVE MemoryInv'
    BY <1>41, <1>39, Zenon DEF WorkerNext, IrqNext, TakeIrq, AdmitIdentify, AdmitConfirm, AdmitStore,
       ParkClaim, ParkFinish, IrqReturn, HoldingStop, HoldingContinue, HoldingPending, WakeUp,
       MaskAgain, EnterUpdate, WarmOld, QuiesceIdentify, QuiesceConfirm, QuiesceStore,
       AwaitSynchronizing, RereadNew, SynchronizeIdentify, SynchronizeConfirm, SynchronizeStore,
       WorkerReturns, WorkerFails, WorkerRecords, tables, scratch, coordinator
<1>42. ASSUME NEW c \in CPUs, TlbWalk(c) PROVE MemoryInv'
    BY <1>42, <1>39 DEF TlbWalk, scratch, coordinator
<1>43. CASE UNCHANGED vars
    BY <1>43, <1>39 DEF vars, tables, scratch, coordinator
<1>44. QED
    BY <1>40, <1>41, <1>42, <1>43 DEF Next

\* The phase at each step of the coordinator.
LEMMA PhaseInduction == IInv /\ Rendezvous /\ [Next]_vars => PhaseInv'
<1> SUFFICES ASSUME IInv, Rendezvous, [Next]_vars PROVE PhaseInv'
    OBVIOUS
<1>0. epoch \in Nat /\ DOMAIN memory = Pages /\ MemoryInv /\ PhaseInv /\ LeafInv
    BY DEF Rendezvous, IInv, RendezvousTypes
<1>x. WorkerInv /\ SlotInv
    BY DEF Rendezvous
<1>y. epoch + 1 # 0 /\ 1 # 2
    BY <1>0
<1> USE <1>0, PagesAssumption DEF MemoryInv, PhaseInv, LeafInv, Pages, other, OldMapped,
   NewMapped, OldSteps, NewSteps, EndSteps, AskSteps, WriteSteps, SyncSteps, OpenSteps,
   LockedSteps
<1>1. CASE BeginGate
    BY <1>1, Zenon DEF BeginGate, CoordinatorStep, tables, scratch
<1>2. CASE BeginMembers
    BY <1>2, Zenon DEF BeginMembers, CoordinatorStep, tables, scratch
<1>3. CASE BeginFails
    BY <1>3, Zenon DEF BeginFails, CoordinatorStep, Fail, tables, scratch
<1>4. CASE BeginEpoch
  <2>1. /\ cpc' = "phase" /\ phase' \in {"Idle", "Complete"} /\ gate' = 1 /\ members' = CPUs
        /\ epoch' # 0
      BY <1>4, <1>y, Zenon DEF BeginEpoch, CoordinatorStep
  <2> HIDE <1>0, PagesAssumption DEF MemoryInv, LeafInv, Pages, other, OldMapped, NewMapped, OldSteps,
     NewSteps
  <2>2. QED
      BY <2>1
<1>5. CASE BeginQuiescing
    BY <1>5, Zenon DEF BeginQuiescing, CoordinatorStep, AdvancePhase, tables, scratch
<1>6. CASE PrepareNew
    BY <1>6, Zenon DEF PrepareNew, CoordinatorStep, updates
<1>7. CASE CoordinatorWarm
    BY <1>7, Zenon DEF CoordinatorWarm, CoordinatorStep, updates, scratch
<1>8. CASE QuiesceSelf
    BY <1>8, Zenon DEF QuiesceSelf, CoordinatorStep, tables, scratch
<1>9. ASSUME NEW w \in Workers, AskWorker(w) PROVE PhaseInv'
    BY <1>9, Zenon DEF AskWorker, CoordinatorStep, updates, tables, scratch
<1>10. ASSUME NEW w \in Workers, WorkerAdmitted(w) PROVE PhaseInv'
    BY <1>10, Zenon DEF WorkerAdmitted, CoordinatorStep, updates, tables, scratch
<1>11. CASE WaitQuiet
    BY <1>11, Zenon DEF WaitQuiet, CoordinatorStep, updates, tables, scratch
<1>12. CASE CheckReplace
    BY <1>12, Zenon DEF CheckReplace, CoordinatorStep, updates, tables, scratch
<1>13. CASE StartReplace
    BY <1>13, Zenon DEF StartReplace, CoordinatorStep, AdvancePhase, tables, scratch
<1>14. CASE CheckAuthority
    BY <1>14, Zenon DEF CheckAuthority, CoordinatorStep, updates, tables, scratch
<1>15. CASE BreakEntry
    BY <1>15, Zenon DEF BreakEntry, CoordinatorStep, updates, scratch
<1>16. CASE InvalidateOld
    BY <1>16, Zenon DEF InvalidateOld, CoordinatorStep, updates, scratch
<1>17. CASE MakeEntry
    BY <1>17, Zenon DEF MakeEntry, CoordinatorStep, updates, scratch
<1>18. CASE InvalidateNew
    BY <1>18, Zenon DEF InvalidateNew, CoordinatorStep, updates, scratch
<1>19. CASE CheckPublish
    BY <1>19, Zenon DEF CheckPublish, CoordinatorStep, updates, tables, scratch
<1>20. CASE Publish
    BY <1>20, Zenon DEF Publish, CoordinatorStep, AdvancePhase, tables, scratch
<1>21. CASE CoordinatorReread
    BY <1>21, Zenon DEF CoordinatorReread, CoordinatorStep, updates, scratch
<1>22. CASE CheckSynchronizing
    BY <1>22, Zenon DEF CheckSynchronizing, CoordinatorStep, updates, tables, scratch
<1>23. CASE SynchronizeSelf
    BY <1>23, Zenon DEF SynchronizeSelf, CoordinatorStep, tables, scratch
<1>24. CASE WaitSynced
    BY <1>24, Zenon DEF WaitSynced, CoordinatorStep, updates, tables, scratch, all_synced
<1>25. CASE CheckFinish
    BY <1>25, Zenon DEF CheckFinish, CoordinatorStep, updates, tables, scratch
<1>26. CASE FinishPhase
    BY <1>26, Zenon DEF FinishPhase, CoordinatorStep, AdvancePhase, tables, scratch
<1>27. CASE FinishGate
    BY <1>27, Zenon DEF FinishGate, CoordinatorStep, tables, scratch
<1>28. CASE Reuse
    BY <1>28, Zenon DEF Reuse, CoordinatorStep, updates, tables
<1>29. CASE PoisonOld
    BY <1>29, Zenon DEF PoisonOld, CoordinatorStep, updates, scratch
<1>30. CASE RemapFails
  <2>1. phase' = "Failed" /\ cpc' \in EndSteps
      BY <1>30, Zenon DEF RemapFails, Fail
  <2> HIDE <1>0, PagesAssumption DEF MemoryInv, LeafInv, Pages, other, OldMapped, NewMapped, OldSteps,
     NewSteps
  <2>2. QED
      BY <2>1
<1>31. CASE RemapHalts
    BY <1>31, Zenon DEF RemapHalts, CoordinatorStep, updates, tables, scratch
<1>32. CASE ObserveLate
    BY <1>32, Zenon DEF ObserveLate, CoordinatorStep, updates, tables, scratch
<1>33. CASE CoordinatorStops
    BY <1>33, Zenon DEF CoordinatorStops, updates, tables, scratch
<1>34. CASE StartPark
    BY <1>34, Zenon DEF StartPark, CoordinatorStep, updates, tables, scratch
<1>35. ASSUME NEW w \in Workers, ParkWorker(w) PROVE PhaseInv'
    BY <1>35, Zenon DEF ParkWorker, CoordinatorStep, updates, tables, scratch
<1>36. ASSUME NEW w \in Workers, WorkerParked(w) PROVE PhaseInv'
    BY <1>36, Zenon DEF WorkerParked, CoordinatorStep, updates, tables, scratch
<1>37. CASE ParkSnapshot
    BY <1>37, Zenon DEF ParkSnapshot, CoordinatorStep, updates, tables, scratch
<1>38. CASE ParkFails
    BY <1>38, Zenon DEF ParkFails, updates, tables, scratch
<1>39. ASSUME NEW w \in Workers, ParkClaim(w) PROVE PhaseInv'
  <2>1. cpc \in {"parking"} \cup EndSteps
      BY <1>39, <1>x, Zenon DEF ParkClaim, IrqStep, SlotInv, Request
  <2>2. /\ UNCHANGED <<cpc, phase, members, epoch>>
        /\ gate = 1 => gate' = 1
        /\ OldMapped' = OldMapped /\ NewMapped' = NewMapped
      BY <1>39, Zenon DEF ParkClaim, tables, scratch, coordinator
  <2> HIDE <1>0, PagesAssumption DEF MemoryInv, LeafInv, Pages, other, OldMapped, NewMapped, OldSteps,
     NewSteps
  <2>3. QED
      BY <1>0, <2>1, <2>2, Zenon
<1>40. ASSUME NEW w \in Workers, ParkFinish(w) PROVE PhaseInv'
  <2>1. cpc \in {"parking"} \cup EndSteps /\ gate = 2
      BY <1>40, <1>x, Zenon DEF ParkFinish, IrqStep, SlotInv, Request
  <2>2. /\ UNCHANGED <<cpc, phase, members, epoch>>
        /\ OldMapped' = OldMapped /\ NewMapped' = NewMapped
      BY <1>40, Zenon DEF ParkFinish, tables, scratch, coordinator
  <2> HIDE <1>0, PagesAssumption DEF MemoryInv, LeafInv, Pages, other, OldMapped, NewMapped, OldSteps,
     NewSteps
  <2>3. QED
      BY <1>0, <1>y, <2>1, <2>2, Zenon
<1>41. ASSUME NEW w \in Workers, WorkerFails(w) PROVE PhaseInv'
  <2>1. wpc[w] \in {"early", "await"} \cup QuiesceSteps \cup SynchronizeSteps
      BY <1>41, Zenon DEF WorkerFails, WorkerErrs, QuiesceSteps, SynchronizeSteps
  <2>2. cpc \in OpenSteps \cup EndSteps
      BY <2>1, <1>x, Zenon DEF WorkerInv, Progress
  <2>3. phase' = "Failed" /\ UNCHANGED <<cpc, gate, members, epoch>>
      BY <1>41, Zenon DEF WorkerFails, Fail, coordinator
  <2> HIDE <1>0, PagesAssumption DEF MemoryInv, LeafInv, Pages, other, OldMapped, NewMapped, OldSteps,
     NewSteps
  <2>4. QED
      BY <1>0, <2>2, <2>3, Zenon
<1>42. ASSUME UNCHANGED <<cpc, current, epoch, gate, members, memory, newValue, oldValue, phase,
              pte>>
       PROVE  PhaseInv'
    BY <1>42, Zenon
<1> HIDE <1>0, PagesAssumption DEF MemoryInv, PhaseInv, LeafInv, Pages, other, OldMapped,
   NewMapped, OldSteps, NewSteps, EndSteps, AskSteps, WriteSteps, SyncSteps, OpenSteps,
   LockedSteps
<1>43. CASE CoordinatorNext
    BY <1>43, <1>1, <1>2, <1>3, <1>4, <1>5, <1>6, <1>7, <1>8, <1>9, <1>10, <1>11, <1>12, <1>13,
       <1>14, <1>15, <1>16, <1>17, <1>18, <1>19, <1>20, <1>21, <1>22, <1>23, <1>24, <1>25, <1>26,
       <1>27, <1>28, <1>29, <1>30, <1>31, <1>32, <1>33, <1>34, <1>35, <1>36, <1>37, <1>38, Zenon DEF
       CoordinatorNext
<1>44. ASSUME NEW w \in Workers, WorkerNext(w) \/ IrqNext(w) PROVE PhaseInv'
    BY <1>44, <1>39, <1>40, <1>41, <1>42, Zenon DEF WorkerNext, IrqNext, TakeIrq, AdmitIdentify,
       AdmitConfirm, AdmitStore, IrqReturn, HoldingStop, HoldingContinue, HoldingPending, WakeUp,
       MaskAgain, EnterUpdate, WarmOld, QuiesceIdentify, QuiesceConfirm, QuiesceStore,
       AwaitSynchronizing, RereadNew, SynchronizeIdentify, SynchronizeConfirm, SynchronizeStore,
       WorkerReturns, WorkerRecords, updates, tables, scratch, coordinator
<1>45. ASSUME NEW c \in CPUs, TlbWalk(c) PROVE PhaseInv'
    BY <1>45, <1>42 DEF TlbWalk, updates, scratch, coordinator
<1>46. CASE UNCHANGED vars
    BY <1>46, <1>42 DEF vars, updates, tables, scratch, coordinator
<1>47. QED
    BY <1>43, <1>44, <1>45, <1>46 DEF Next

-----------------------------------------------------------------------------
(* The workers' part of the invariant: one request at a time and for this  *)
(* epoch, acknowledgements at their steps, and where a worker may be while *)
(* the coordinator is at each of its own.                                  *)

\* The requests.
LEMMA SlotInduction == IInv /\ Rendezvous /\ [Next]_vars => SlotInv'
<1> SUFFICES ASSUME IInv, Rendezvous, [Next]_vars PROVE SlotInv'
    OBVIOUS
<1>0. SlotTypes /\ DOMAIN ipc = Workers /\ SlotInv
    BY DEF Rendezvous, RendezvousTypes
<1>f. ASSUME \A v \in Workers : /\ slot'[v].state = "free"
                                /\ ipc'[v] \notin {"identify", "confirm", "store", "park", "parking"}
      PROVE  SlotInv'
    BY <1>f, Zenon DEF SlotInv, Request
<1>g. ASSUME cpc \notin {"asking", "parking"} \cup EndSteps
      PROVE  \A v \in Workers : /\ slot[v].state = "free"
                                /\ ipc[v] \notin {"identify", "confirm", "store", "park", "parking"}
    BY <1>0, <1>g, Zenon DEF SlotInv, Request
<1>h. ASSUME UNCHANGED <<slot, ipc>>, cpc \notin {"asking", "parking"} \cup EndSteps
      PROVE  SlotInv'
    BY <1>f, <1>g, <1>h, Zenon
<1>i. ASSUME UNCHANGED <<slot, ipc, epoch, gate>>, cpc' \in EndSteps
      PROVE  SlotInv'
    BY <1>0, <1>i, Zenon DEF SlotInv, Request
<1>1. CASE BeginGate
    BY <1>1, <1>h, Zenon DEF BeginGate, CoordinatorStep, irq, EndSteps
<1>2. CASE BeginMembers
    BY <1>2, <1>h, Zenon DEF BeginMembers, CoordinatorStep, irq, EndSteps
<1>3. CASE BeginFails
    BY <1>3, <1>h, Zenon DEF BeginFails, CoordinatorStep, irq, EndSteps
<1>4. CASE BeginEpoch
    BY <1>4, <1>h, Zenon DEF BeginEpoch, CoordinatorStep, irq, EndSteps
<1>5. CASE BeginQuiescing
    BY <1>5, <1>h, Zenon DEF BeginQuiescing, CoordinatorStep, irq, EndSteps
<1>6. CASE PrepareNew
    BY <1>6, <1>h, Zenon DEF PrepareNew, CoordinatorStep, updates, irq, EndSteps
<1>7. CASE CoordinatorWarm
    BY <1>7, <1>h, Zenon DEF CoordinatorWarm, CoordinatorStep, updates, irq, EndSteps
<1>8. CASE QuiesceSelf
    BY <1>8, <1>h, Zenon DEF QuiesceSelf, CoordinatorStep, irq, EndSteps
<1>9. ASSUME NEW w \in Workers, AskWorker(w) PROVE SlotInv'
  <2>1. /\ cpc = "ask" /\ cpc' = "asking" /\ epoch' = epoch /\ ipc' = ipc
        /\ slot'[w].state = "posted" /\ slot'[w].operation = "TlbQuiesce" /\ slot'[w].argument = epoch
        /\ \A v \in Workers \ {w} : slot'[v] = slot[v]
      BY <1>0, <1>9 DEF AskWorker, CoordinatorStep, Post, updates, SlotTypes
  <2>2. \A v \in Workers : /\ slot[v].state = "free"
                          /\ ipc[v] \notin {"identify", "confirm", "store", "park", "parking"}
      BY <1>g, <2>1, Zenon DEF EndSteps
  <2>3. QED
      BY <2>1, <2>2, Zenon DEF SlotInv, Request
<1>10. ASSUME NEW w \in Workers, WorkerAdmitted(w) PROVE SlotInv'
  <2>1. /\ slot[w].state = "accepted" /\ ipc' = ipc
        /\ slot'[w].state = "free" /\ \A v \in Workers \ {w} : slot'[v] = slot[v]
      BY <1>0, <1>10 DEF WorkerAdmitted, CoordinatorStep, Collect, FreeSlot, updates, irq, SlotTypes
  <2>2. \A v \in Workers \ {w} : slot[v].state = "free"
      BY <1>0, <2>1, Zenon DEF SlotInv
  <2>3. ASSUME NEW v \in Workers, slot[v].state # "posted"
        PROVE  ipc[v] \notin {"identify", "confirm", "store", "park", "parking"}
      BY <1>0, <2>3, Zenon DEF SlotInv, Request
  <2>4. QED
      BY <1>f, <2>1, <2>2, <2>3, Zenon
<1>11. CASE WaitQuiet
    BY <1>11, <1>h, Zenon DEF WaitQuiet, CoordinatorStep, updates, irq, EndSteps
<1>12. CASE CheckReplace
    BY <1>12, <1>h, Zenon DEF CheckReplace, CoordinatorStep, updates, irq, EndSteps
<1>13. CASE StartReplace
    BY <1>13, <1>h, Zenon DEF StartReplace, CoordinatorStep, irq, EndSteps
<1>14. CASE CheckAuthority
    BY <1>14, <1>h, Zenon DEF CheckAuthority, CoordinatorStep, updates, irq, EndSteps
<1>15. CASE BreakEntry
    BY <1>15, <1>h, Zenon DEF BreakEntry, CoordinatorStep, updates, irq, EndSteps
<1>16. CASE InvalidateOld
    BY <1>16, <1>h, Zenon DEF InvalidateOld, CoordinatorStep, updates, irq, EndSteps
<1>17. CASE MakeEntry
    BY <1>17, <1>h, Zenon DEF MakeEntry, CoordinatorStep, updates, irq, EndSteps
<1>18. CASE InvalidateNew
    BY <1>18, <1>h, Zenon DEF InvalidateNew, CoordinatorStep, updates, irq, EndSteps
<1>19. CASE CheckPublish
    BY <1>19, <1>h, Zenon DEF CheckPublish, CoordinatorStep, updates, irq, EndSteps
<1>20. CASE Publish
    BY <1>20, <1>h, Zenon DEF Publish, CoordinatorStep, irq, EndSteps
<1>21. CASE CoordinatorReread
    BY <1>21, <1>h, Zenon DEF CoordinatorReread, CoordinatorStep, updates, irq, EndSteps
<1>22. CASE CheckSynchronizing
    BY <1>22, <1>h, Zenon DEF CheckSynchronizing, CoordinatorStep, updates, irq, EndSteps
<1>23. CASE SynchronizeSelf
    BY <1>23, <1>h, Zenon DEF SynchronizeSelf, CoordinatorStep, irq, EndSteps
<1>24. CASE WaitSynced
    BY <1>24, <1>h, Zenon DEF WaitSynced, CoordinatorStep, updates, irq, EndSteps
<1>25. CASE CheckFinish
    BY <1>25, <1>h, Zenon DEF CheckFinish, CoordinatorStep, updates, irq, EndSteps
<1>26. CASE FinishPhase
    BY <1>26, <1>h, Zenon DEF FinishPhase, CoordinatorStep, irq, EndSteps
<1>27. CASE FinishGate
    BY <1>27, <1>h, Zenon DEF FinishGate, CoordinatorStep, irq, EndSteps
<1>28. CASE Reuse
    BY <1>28, <1>h, Zenon DEF Reuse, CoordinatorStep, updates, irq, EndSteps
<1>29. CASE PoisonOld
    BY <1>29, <1>h, Zenon DEF PoisonOld, CoordinatorStep, updates, irq, EndSteps
<1>30. CASE RemapFails
    BY <1>30, <1>i, Zenon DEF RemapFails, irq, EndSteps
<1>31. CASE RemapHalts
    BY <1>31, <1>i, Zenon DEF RemapHalts, CoordinatorStep, updates, EndSteps
<1>32. CASE ObserveLate
    BY <1>32, <1>i, Zenon DEF ObserveLate, CoordinatorStep, updates, EndSteps
<1>33. CASE CoordinatorStops
    BY <1>33, <1>i, Zenon DEF CoordinatorStops, updates, irq, EndSteps
<1>34. CASE StartPark
    BY <1>34, <1>h, Zenon DEF StartPark, CoordinatorStep, updates, irq, EndSteps
<1>35. ASSUME NEW w \in Workers, ParkWorker(w) PROVE SlotInv'
  <2>1. /\ cpc = "park" /\ cpc' = "parking" /\ epoch' = epoch /\ ipc' = ipc
        /\ slot'[w].state = "posted" /\ slot'[w].operation = "Park" /\ slot'[w].argument = 0
        /\ \A v \in Workers \ {w} : slot'[v] = slot[v]
      BY <1>0, <1>35 DEF ParkWorker, CoordinatorStep, Post, updates, SlotTypes
  <2>2. \A v \in Workers : /\ slot[v].state = "free"
                          /\ ipc[v] \notin {"identify", "confirm", "store", "park", "parking"}
      BY <1>g, <2>1, Zenon DEF EndSteps
  <2>3. QED
      BY <2>1, <2>2, Zenon DEF SlotInv, Request
<1>36. ASSUME NEW w \in Workers, WorkerParked(w) PROVE SlotInv'
  <2>1. /\ slot[w].state = "accepted" /\ ipc' = ipc
        /\ slot'[w].state = "free" /\ \A v \in Workers \ {w} : slot'[v] = slot[v]
      BY <1>0, <1>36, Zenon DEF WorkerParked, CoordinatorStep, Collect, FreeSlot, updates, irq, SlotTypes
  <2>2. \A v \in Workers \ {w} : slot[v].state = "free"
      BY <1>0, <2>1, Zenon DEF SlotInv
  <2>3. ASSUME NEW v \in Workers, slot[v].state # "posted"
        PROVE  ipc[v] \notin {"identify", "confirm", "store", "park", "parking"}
      BY <1>0, <2>3, Zenon DEF SlotInv, Request
  <2>4. QED
      BY <1>f, <2>1, <2>2, <2>3, Zenon
<1>37. CASE ParkSnapshot
    BY <1>37, <1>h, Zenon DEF ParkSnapshot, CoordinatorStep, updates, irq, EndSteps
<1>38. CASE ParkFails
    BY <1>38, <1>i, Zenon DEF ParkFails, updates, EndSteps
<1> USE <1>0 DEF SlotTypes, SlotInv, Request, EndSteps
<1>39. ASSUME NEW w \in Workers, TakeIrq(w) PROVE SlotInv'
  <2>1. ASSUME NEW v \in Workers PROVE Request(v)'
    <3>1. CASE v = w
      <4>1. UNCHANGED <<slot, cpc, epoch, gate>>
          BY <1>39, Zenon DEF TakeIrq, updates, coordinator
      <4>2. ipc'[w] = IF slot[w].state # "posted" THEN "return"
                      ELSE IF slot[w].operation = "Park" THEN "park" ELSE "identify"
          BY <1>39, Zenon DEF TakeIrq
      <4>3. CASE slot[w].state # "posted"
          BY <3>1, <4>1, <4>2, <4>3, Zenon
      <4>4. CASE slot[w].state = "posted" /\ slot[w].operation = "Park"
          BY <3>1, <4>1, <4>2, <4>4, Zenon
      <4>5. CASE slot[w].state = "posted" /\ slot[w].operation = "TlbQuiesce"
          BY <3>1, <4>1, <4>2, <4>5, Zenon
      <4>6. QED
          BY <4>3, <4>4, <4>5, Zenon
    <3>2. CASE v # w
        BY <1>39, <3>2, Zenon DEF TakeIrq, updates, coordinator
    <3>3. QED
        BY <3>1, <3>2, Zenon
  <2>2. \A u, v \in Workers : u # v => slot'[u].state = "free" \/ slot'[v].state = "free"
      BY <1>39, Zenon DEF TakeIrq, updates, coordinator
  <2>3. QED
      BY <2>1, <2>2, Zenon
<1>40. ASSUME NEW w \in Workers, AdmitIdentify(w) PROVE SlotInv'
  <2>1. ASSUME NEW v \in Workers PROVE Request(v)'
    <3>1. CASE v = w
        BY <1>40, <3>1 DEF AdmitIdentify, IrqStep, Reply, updates, coordinator
    <3>2. CASE v # w
        BY <1>40, <3>2 DEF AdmitIdentify, IrqStep, Reply, updates, coordinator
    <3>3. QED
        BY <3>1, <3>2, Zenon
  <2>2. \A u, v \in Workers : u # v => slot'[u].state = "free" \/ slot'[v].state = "free"
      BY <1>40 DEF AdmitIdentify, IrqStep, Reply, updates, coordinator
  <2>3. QED
      BY <2>1, <2>2, Zenon
<1>41. ASSUME NEW w \in Workers, AdmitConfirm(w) PROVE SlotInv'
  <2>1. ASSUME NEW v \in Workers PROVE Request(v)'
    <3>1. CASE v = w
        BY <1>41, <3>1 DEF AdmitConfirm, IrqStep, Reply, updates, coordinator
    <3>2. CASE v # w
        BY <1>41, <3>2 DEF AdmitConfirm, IrqStep, Reply, updates, coordinator
    <3>3. QED
        BY <3>1, <3>2, Zenon
  <2>2. \A u, v \in Workers : u # v => slot'[u].state = "free" \/ slot'[v].state = "free"
      BY <1>41 DEF AdmitConfirm, IrqStep, Reply, updates, coordinator
  <2>3. QED
      BY <2>1, <2>2, Zenon
<1>42. ASSUME NEW w \in Workers, AdmitStore(w) PROVE SlotInv'
  <2>1. ASSUME NEW v \in Workers PROVE Request(v)'
    <3>1. CASE v = w
        BY <1>42, <3>1 DEF AdmitStore, IrqStep, Reply, coordinator
    <3>2. CASE v # w
        BY <1>42, <3>2 DEF AdmitStore, IrqStep, Reply, coordinator
    <3>3. QED
        BY <3>1, <3>2, Zenon
  <2>2. \A u, v \in Workers : u # v => slot'[u].state = "free" \/ slot'[v].state = "free"
      BY <1>42 DEF AdmitStore, IrqStep, Reply, coordinator
  <2>3. QED
      BY <2>1, <2>2, Zenon
<1>43. ASSUME NEW w \in Workers, ParkClaim(w) PROVE SlotInv'
  <2>1. ASSUME NEW v \in Workers PROVE Request(v)'
    <3>1. CASE v = w
        BY <1>43, <3>1 DEF ParkClaim, IrqStep, Reply, coordinator
    <3>2. CASE v # w
        BY <1>43, <3>2 DEF ParkClaim, IrqStep, Reply, coordinator
    <3>3. QED
        BY <3>1, <3>2, Zenon
  <2>2. \A u, v \in Workers : u # v => slot'[u].state = "free" \/ slot'[v].state = "free"
      BY <1>43 DEF ParkClaim, IrqStep, Reply, coordinator
  <2>3. QED
      BY <2>1, <2>2, Zenon
<1>44. ASSUME NEW w \in Workers, ParkFinish(w) PROVE SlotInv'
  <2>1. ASSUME NEW v \in Workers PROVE Request(v)'
    <3>1. CASE v = w
        BY <1>44, <3>1 DEF ParkFinish, IrqStep, Reply, coordinator
    <3>2. CASE v # w
        BY <1>44, <3>2 DEF ParkFinish, IrqStep, Reply, coordinator
    <3>3. QED
        BY <3>1, <3>2, Zenon
  <2>2. \A u, v \in Workers : u # v => slot'[u].state = "free" \/ slot'[v].state = "free"
      BY <1>44 DEF ParkFinish, IrqStep, Reply, coordinator
  <2>3. QED
      BY <2>1, <2>2, Zenon
<1> HIDE <1>0 DEF SlotTypes, SlotInv, Request, EndSteps
<1>45. ASSUME NEW w \in Workers, IrqReturn(w) PROVE SlotInv'
  <2>1. /\ UNCHANGED <<cpc, epoch, gate, slot>>
        /\ \A v \in Workers : ipc'[v] \in {ipc[v], "none"}
      BY <1>0, <1>45, Zenon DEF IrqReturn, IrqStep, updates, coordinator
  <2>2. ASSUME NEW v \in Workers PROVE Request(v)'
    <3>1. Request(v)
        BY <1>0, Zenon DEF SlotInv
    <3>2. QED
        BY <2>1, <3>1, Zenon DEF Request
  <2>3. QED
      BY <1>0, <2>1, <2>2, Zenon DEF SlotInv
<1>46. ASSUME UNCHANGED <<cpc, epoch, gate, ipc, slot>> PROVE SlotInv'
  <2>1. ASSUME NEW v \in Workers PROVE Request(v)'
    <3>1. Request(v)
        BY <1>0, Zenon DEF SlotInv
    <3>2. QED
        BY <1>46, <3>1, Zenon DEF Request
  <2>2. QED
      BY <1>0, <1>46, <2>1, Zenon DEF SlotInv
<1>47. CASE CoordinatorNext
    BY <1>47, <1>1, <1>2, <1>3, <1>4, <1>5, <1>6, <1>7, <1>8, <1>9, <1>10, <1>11, <1>12, <1>13,
       <1>14, <1>15, <1>16, <1>17, <1>18, <1>19, <1>20, <1>21, <1>22, <1>23, <1>24, <1>25, <1>26,
       <1>27, <1>28, <1>29, <1>30, <1>31, <1>32, <1>33, <1>34, <1>35, <1>36, <1>37, <1>38, Zenon DEF
       CoordinatorNext
<1>48. ASSUME NEW w \in Workers, WorkerNext(w) \/ IrqNext(w) PROVE SlotInv'
    BY <1>48, <1>39, <1>40, <1>41, <1>42, <1>43, <1>44, <1>45, <1>46, Zenon DEF WorkerNext, IrqNext,
       HoldingStop, HoldingContinue, HoldingPending, WakeUp, MaskAgain, EnterUpdate, WarmOld,
       QuiesceIdentify, QuiesceConfirm, QuiesceStore, AwaitSynchronizing, RereadNew,
       SynchronizeIdentify, SynchronizeConfirm, SynchronizeStore, WorkerReturns, WorkerFails,
       WorkerRecords, updates, coordinator, irq
<1>49. ASSUME NEW c \in CPUs, TlbWalk(c) PROVE SlotInv'
    BY <1>49, <1>46 DEF TlbWalk, updates, coordinator, irq
<1>50. CASE UNCHANGED vars
    BY <1>50, <1>46 DEF vars, updates, coordinator, irq
<1>51. QED
    BY <1>47, <1>48, <1>49, <1>50 DEF Next

\* The steps from the write on are none of the earlier ones.
LEMMA AfterTheWrite ==
    cpc \in SyncSteps \cup EndSteps =>
        /\ cpc \notin {"phase", "prepare", "warm", "quiesce", "start", "replacing"}
        /\ cpc \notin AskSteps /\ cpc \notin WriteSteps
    BY DEF SyncSteps, EndSteps, AskSteps, WriteSteps, LockedSteps

\* The order of the epochs is reflexive, for the provers without arithmetic.
LEMMA SameEpoch == \A n \in Nat : n <= n
    OBVIOUS

\* The acknowledgements.
LEMMA AckInduction == IInv /\ Rendezvous /\ [Next]_vars => AckInv'
<1> SUFFICES ASSUME IInv, Rendezvous, [Next]_vars, NEW v \in Workers PROVE Acknowledged(v)'
    BY DEF AckInv
<1>0. RendezvousTypes /\ Acknowledged(v)
    BY DEF Rendezvous, AckInv
<1>x. SlotInv /\ WorkerInv /\ PhaseInv
    BY DEF Rendezvous
<1> USE <1>0, MembersAssumption DEF RendezvousTypes, Acknowledged, EndSteps, AskSteps, WriteSteps,
   LockedSteps, CPUs
<1>1. CASE BeginGate
    BY <1>1, Zenon DEF BeginGate, CoordinatorStep
<1>2. CASE BeginMembers
    BY <1>2, Zenon DEF BeginMembers, CoordinatorStep
<1>3. CASE BeginFails
    BY <1>3, Zenon DEF BeginFails, CoordinatorStep
<1>4. CASE BeginEpoch
  <2>1. /\ cpc' = "phase" /\ epoch' = epoch + 1 /\ UNCHANGED <<requested, quiet, synced>>
        /\ requested[v] \in Nat /\ synced[v] \in Nat /\ epoch \in Nat
        /\ requested[v] <= epoch /\ synced[v] <= epoch
      BY <1>4, Zenon DEF BeginEpoch, CoordinatorStep
  <2> HIDE <1>0, MembersAssumption DEF RendezvousTypes, Acknowledged
  <2>2. /\ requested'[v] <= epoch' /\ synced'[v] <= epoch'
        /\ requested'[v] < epoch' /\ synced'[v] < epoch'
      BY <2>1
  <2>3. QED
      BY <2>1, <2>2, Zenon DEF Acknowledged
<1>5. CASE BeginQuiescing
    BY <1>5, Zenon DEF BeginQuiescing, CoordinatorStep
<1>6. CASE PrepareNew
    BY <1>6, Zenon DEF PrepareNew, CoordinatorStep, updates
<1>7. CASE CoordinatorWarm
    BY <1>7, Zenon DEF CoordinatorWarm, CoordinatorStep, updates
<1>8. CASE QuiesceSelf
    BY <1>8, Zenon DEF QuiesceSelf, CoordinatorStep
<1>9. ASSUME NEW w \in Workers, AskWorker(w) PROVE Acknowledged(v)'
    BY <1>9, Zenon DEF AskWorker, CoordinatorStep, updates
<1>10. ASSUME NEW w \in Workers, WorkerAdmitted(w) PROVE Acknowledged(v)'
    BY <1>10, Zenon DEF WorkerAdmitted, CoordinatorStep, updates
<1>11. CASE WaitQuiet
    BY <1>11, <1>x, Zenon DEF WaitQuiet, CoordinatorStep, all_quiet, All, updates, PhaseInv, OpenSteps,
       SyncSteps
<1>12. CASE CheckReplace
    BY <1>12, Zenon DEF CheckReplace, CoordinatorStep, All, updates
<1>13. CASE StartReplace
    BY <1>13, Zenon DEF StartReplace, CoordinatorStep
<1>14. CASE CheckAuthority
    BY <1>14, Zenon DEF CheckAuthority, CoordinatorStep, updates
<1>15. CASE BreakEntry
    BY <1>15, Zenon DEF BreakEntry, CoordinatorStep, updates
<1>16. CASE InvalidateOld
    BY <1>16, Zenon DEF InvalidateOld, CoordinatorStep, updates
<1>17. CASE MakeEntry
    BY <1>17, Zenon DEF MakeEntry, CoordinatorStep, updates
<1>18. CASE InvalidateNew
    BY <1>18, Zenon DEF InvalidateNew, CoordinatorStep, updates
<1>19. CASE CheckPublish
    BY <1>19, Zenon DEF CheckPublish, CoordinatorStep, updates
<1>20. CASE Publish
    BY <1>20, Zenon DEF Publish, CoordinatorStep
<1>21. CASE CoordinatorReread
    BY <1>21, Zenon DEF CoordinatorReread, CoordinatorStep, updates
<1>22. CASE CheckSynchronizing
    BY <1>22, Zenon DEF CheckSynchronizing, CoordinatorStep, updates
<1>23. CASE SynchronizeSelf
    BY <1>23, Zenon DEF SynchronizeSelf, CoordinatorStep
<1>24. CASE WaitSynced
    BY <1>24, Zenon DEF WaitSynced, CoordinatorStep, updates
<1>25. CASE CheckFinish
    BY <1>25, Zenon DEF CheckFinish, CoordinatorStep, All, updates
<1>26. CASE FinishPhase
    BY <1>26, Zenon DEF FinishPhase, CoordinatorStep
<1>27. CASE FinishGate
    BY <1>27, Zenon DEF FinishGate, CoordinatorStep
<1>28. CASE Reuse
    BY <1>28, Zenon DEF Reuse, CoordinatorStep, updates
<1>29. CASE PoisonOld
    BY <1>29, Zenon DEF PoisonOld, CoordinatorStep, updates
<1>30. CASE RemapFails
    BY <1>30, Zenon DEF RemapFails
<1>31. CASE RemapHalts
    BY <1>31, Zenon DEF RemapHalts, CoordinatorStep, updates
<1>32. CASE ObserveLate
    BY <1>32, Zenon DEF ObserveLate, CoordinatorStep, updates
<1>33. CASE CoordinatorStops
    BY <1>33, Zenon DEF CoordinatorStops, updates
<1>34. CASE StartPark
    BY <1>34, Zenon DEF StartPark, CoordinatorStep, updates
<1>35. ASSUME NEW w \in Workers, ParkWorker(w) PROVE Acknowledged(v)'
    BY <1>35, Zenon DEF ParkWorker, CoordinatorStep, updates
<1>36. ASSUME NEW w \in Workers, WorkerParked(w) PROVE Acknowledged(v)'
    BY <1>36, Zenon DEF WorkerParked, CoordinatorStep, updates
<1>37. CASE ParkSnapshot
    BY <1>37, Zenon DEF ParkSnapshot, CoordinatorStep, updates
<1>38. CASE ParkFails
    BY <1>38, Zenon DEF ParkFails, updates
<1>39. ASSUME NEW w \in Workers, AdmitStore(w) PROVE Acknowledged(v)'
  <2>1. slot[w].argument = epoch /\ cpc \in {"asking"} \cup EndSteps
      BY <1>39, <1>x, Zenon DEF AdmitStore, IrqStep, SlotInv, Request
  <2>2. requested'[v] \in {requested[v], epoch} /\ UNCHANGED <<cpc, epoch, quiet, synced>>
      BY <1>39, <2>1, Zenon DEF AdmitStore, coordinator
  <2>3. QED
      BY <2>1, <2>2
<1>40. ASSUME NEW w \in Workers, QuiesceStore(w) PROVE Acknowledged(v)'
    BY <1>40, <1>x, Zenon DEF QuiesceStore, WorkerStep, coordinator, WorkerInv, Progress, QuiesceSteps
<1>41. ASSUME NEW w \in Workers, SynchronizeStore(w) PROVE Acknowledged(v)'
  <2>1. wepoch[w] = epoch /\ cpc \in SyncSteps \cup EndSteps
      BY <1>41, <1>x, Zenon DEF SynchronizeStore, WorkerStep, WorkerInv, Progress, SynchronizeSteps
  <2>2. synced'[v] \in {synced[v], epoch} /\ UNCHANGED <<cpc, epoch, quiet, requested>>
      BY <1>41, <2>1, Zenon DEF SynchronizeStore, coordinator
  <2>3. /\ cpc \notin {"phase", "prepare", "warm", "quiesce", "start", "replacing"}
        /\ cpc \notin AskSteps /\ cpc \notin WriteSteps
      BY <2>1, AfterTheWrite, Zenon
  <2>4. epoch <= epoch
      BY SameEpoch, Zenon
  <2>5. QED
      BY <2>2, <2>3, <2>4, Zenon
<1>42. ASSUME UNCHANGED <<cpc, epoch, quiet, requested, synced>> PROVE Acknowledged(v)'
    BY <1>42, Zenon
<1> HIDE <1>0, MembersAssumption DEF RendezvousTypes, Acknowledged, EndSteps, AskSteps,
   WriteSteps, LockedSteps, CPUs
<1>43. CASE CoordinatorNext
    BY <1>43, <1>1, <1>2, <1>3, <1>4, <1>5, <1>6, <1>7, <1>8, <1>9, <1>10, <1>11, <1>12, <1>13,
       <1>14, <1>15, <1>16, <1>17, <1>18, <1>19, <1>20, <1>21, <1>22, <1>23, <1>24, <1>25, <1>26,
       <1>27, <1>28, <1>29, <1>30, <1>31, <1>32, <1>33, <1>34, <1>35, <1>36, <1>37, <1>38, Zenon DEF
       CoordinatorNext
<1>44. ASSUME NEW w \in Workers, WorkerNext(w) \/ IrqNext(w) PROVE Acknowledged(v)'
    BY <1>44, <1>39, <1>40, <1>41, <1>42, Zenon DEF WorkerNext, IrqNext, TakeIrq, AdmitIdentify,
       AdmitConfirm, ParkClaim, ParkFinish, IrqReturn, HoldingStop, HoldingContinue,
       HoldingPending, WakeUp, MaskAgain, EnterUpdate, WarmOld, QuiesceIdentify, QuiesceConfirm,
       AwaitSynchronizing, RereadNew, SynchronizeIdentify, SynchronizeConfirm, WorkerReturns,
       WorkerFails, WorkerRecords, updates, coordinator
<1>45. ASSUME NEW c \in CPUs, TlbWalk(c) PROVE Acknowledged(v)'
    BY <1>45, <1>42 DEF TlbWalk, updates, coordinator
<1>46. CASE UNCHANGED vars
    BY <1>46, <1>42 DEF vars, updates, coordinator
<1>47. QED
    BY <1>43, <1>44, <1>45, <1>46 DEF Next

\* The workers.
LEMMA WorkerInduction == IInv /\ Rendezvous /\ [Next]_vars => WorkerInv'
<1> SUFFICES ASSUME IInv, Rendezvous, [Next]_vars, NEW v \in Workers PROVE Progress(v)'
    BY DEF WorkerInv
<1>0. RendezvousTypes /\ Progress(v)
    BY DEF Rendezvous, WorkerInv
<1>x. PhaseInv /\ AckInv /\ SlotInv
    BY DEF Rendezvous
<1> USE <1>0, PagesAssumption, MembersAssumption DEF RendezvousTypes, Progress, CPUs, other,
   OldMapped, NewMapped, QuiesceSteps, SynchronizeSteps, OpenSteps, EndSteps, AskSteps, SyncSteps,
   WriteSteps, LockedSteps
<1>1. CASE BeginGate
    BY <1>1, Zenon DEF BeginGate, CoordinatorStep, tables, scratch, worker
<1>2. CASE BeginMembers
    BY <1>2, Zenon DEF BeginMembers, CoordinatorStep, tables, scratch, worker
<1>3. CASE BeginFails
    BY <1>3, Zenon DEF BeginFails, CoordinatorStep, Fail, tables, scratch, worker
<1>4. CASE BeginEpoch
    BY <1>4, Zenon DEF BeginEpoch, CoordinatorStep, tables, scratch, worker
<1>5. CASE BeginQuiescing
    BY <1>5, Zenon DEF BeginQuiescing, CoordinatorStep, AdvancePhase, tables, scratch, worker
<1>6. CASE PrepareNew
    BY <1>6, Zenon DEF PrepareNew, CoordinatorStep, updates, worker
<1>7. CASE CoordinatorWarm
    BY <1>7, Zenon DEF CoordinatorWarm, CoordinatorStep, updates, scratch, worker
<1>8. CASE QuiesceSelf
    BY <1>8, Zenon DEF QuiesceSelf, CoordinatorStep, tables, scratch, worker
<1>9. ASSUME NEW w \in Workers, AskWorker(w) PROVE Progress(v)'
    BY <1>9, Zenon DEF AskWorker, CoordinatorStep, updates, tables, scratch, worker
<1>10. ASSUME NEW w \in Workers, WorkerAdmitted(w) PROVE Progress(v)'
    BY <1>10, Zenon DEF WorkerAdmitted, CoordinatorStep, updates, tables, scratch, worker
<1>11. CASE WaitQuiet
    BY <1>11, <1>x, Zenon DEF WaitQuiet, CoordinatorStep, all_quiet, All, updates, tables, scratch,
       worker, PhaseInv
<1>12. CASE CheckReplace
    BY <1>12, Zenon DEF CheckReplace, CoordinatorStep, All, updates, tables, scratch, worker
<1>13. CASE StartReplace
    BY <1>13, Zenon DEF StartReplace, CoordinatorStep, AdvancePhase, tables, scratch, worker
<1>14. CASE CheckAuthority
    BY <1>14, Zenon DEF CheckAuthority, CoordinatorStep, updates, tables, scratch, worker
<1>15. CASE BreakEntry
    BY <1>15, Zenon DEF BreakEntry, CoordinatorStep, updates, scratch, worker
<1>16. CASE InvalidateOld
    BY <1>16, Zenon DEF InvalidateOld, CoordinatorStep, updates, scratch, worker
<1>17. CASE MakeEntry
    BY <1>17, Zenon DEF MakeEntry, CoordinatorStep, updates, scratch, worker
<1>18. CASE InvalidateNew
    BY <1>18, Zenon DEF InvalidateNew, CoordinatorStep, updates, scratch, worker
<1>19. CASE CheckPublish
    BY <1>19, Zenon DEF CheckPublish, CoordinatorStep, updates, tables, scratch, worker
<1>20. CASE Publish
    BY <1>20, <1>x, Zenon DEF Publish, CoordinatorStep, AdvancePhase, tables, scratch, worker, AckInv,
       Acknowledged
<1>21. CASE CoordinatorReread
    BY <1>21, Zenon DEF CoordinatorReread, CoordinatorStep, updates, scratch, worker
<1>22. CASE CheckSynchronizing
    BY <1>22, Zenon DEF CheckSynchronizing, CoordinatorStep, updates, tables, scratch, worker
<1>23. CASE SynchronizeSelf
    BY <1>23, Zenon DEF SynchronizeSelf, CoordinatorStep, tables, scratch, worker
<1>24. CASE WaitSynced
  <2>1. synced[v] = epoch /\ cpc = "drain" /\ cpc' = "finish"
      BY <1>24, <1>x, Zenon DEF WaitSynced, CoordinatorStep, all_synced, All, PhaseInv
  <2>2. /\ UNCHANGED <<wpc, gate, members, epoch, requested, phase, quiet, synced, wepoch, CPUs>>
        /\ OldMapped' = OldMapped /\ NewMapped' = NewMapped
      BY <1>24, Zenon DEF WaitSynced, updates, tables, scratch, worker
  <2>3. wpc[v] \notin {"enter", "early", "await"} \cup QuiesceSteps \cup SynchronizeSteps
    <3>1. synced[v] \in Nat /\ epoch \in Nat
        BY <1>0, Zenon
    <3>2. ~(synced[v] < epoch)
      <4> HIDE <1>0, PagesAssumption, MembersAssumption
      <4>1. QED
          BY <2>1, <3>1
    <3>3. QED
        BY <2>1, <3>2, Zenon
  <2> HIDE <1>0, PagesAssumption, MembersAssumption DEF RendezvousTypes, CPUs, other, OldMapped, NewMapped
  <2>4. QED
      BY <2>2, <2>3, Zenon
<1>25. CASE CheckFinish
    BY <1>25, Zenon DEF CheckFinish, CoordinatorStep, All, updates, tables, scratch, worker
<1>26. CASE FinishPhase
    BY <1>26, Zenon DEF FinishPhase, CoordinatorStep, AdvancePhase, tables, scratch, worker
<1>27. CASE FinishGate
    BY <1>27, Zenon DEF FinishGate, CoordinatorStep, tables, scratch, worker
<1>28. CASE Reuse
    BY <1>28, Zenon DEF Reuse, CoordinatorStep, updates, tables, worker
<1>29. CASE PoisonOld
    BY <1>29, Zenon DEF PoisonOld, CoordinatorStep, updates, scratch, worker
<1>30. CASE RemapFails
    BY <1>30, Zenon DEF RemapFails, Fail, tables, scratch, worker
<1>31. CASE RemapHalts
    BY <1>31, Zenon DEF RemapHalts, CoordinatorStep, updates, tables, scratch, worker
<1>32. CASE ObserveLate
    BY <1>32, Zenon DEF ObserveLate, CoordinatorStep, updates, tables, scratch, worker
<1>33. CASE CoordinatorStops
    BY <1>33, Zenon DEF CoordinatorStops, updates, tables, scratch, worker
<1>34. CASE StartPark
    BY <1>34, Zenon DEF StartPark, CoordinatorStep, updates, tables, scratch, worker
<1>35. ASSUME NEW w \in Workers, ParkWorker(w) PROVE Progress(v)'
    BY <1>35, Zenon DEF ParkWorker, CoordinatorStep, updates, tables, scratch, worker
<1>36. ASSUME NEW w \in Workers, WorkerParked(w) PROVE Progress(v)'
    BY <1>36, Zenon DEF WorkerParked, CoordinatorStep, updates, tables, scratch, worker
<1>37. CASE ParkSnapshot
    BY <1>37, Zenon DEF ParkSnapshot, CoordinatorStep, updates, tables, scratch, worker
<1>38. CASE ParkFails
    BY <1>38, Zenon DEF ParkFails, updates, tables, scratch, worker
<1>39. ASSUME NEW w \in Workers, AdmitStore(w) PROVE Progress(v)'
    BY <1>39, <1>x, Zenon DEF AdmitStore, IrqStep, tables, scratch, coordinator, worker, SlotInv, Request
<1>40. ASSUME NEW w \in Workers, ParkClaim(w) PROVE Progress(v)'
    BY <1>40, Zenon DEF ParkClaim, IrqStep, tables, scratch, coordinator, worker
<1>41. ASSUME NEW w \in Workers, ParkFinish(w) PROVE Progress(v)'
  <2>1. gate = 2
      BY <1>41, <1>x, Zenon DEF ParkFinish, IrqStep, SlotInv, Request
  <2>2. /\ UNCHANGED <<wpc, cpc, members, epoch, requested, phase, quiet, synced, wepoch, CPUs>>
        /\ OldMapped' = OldMapped /\ NewMapped' = NewMapped
      BY <1>41, Zenon DEF ParkFinish, tables, scratch, coordinator, worker
  <2> HIDE <1>0, PagesAssumption, MembersAssumption DEF RendezvousTypes, CPUs, other, OldMapped, NewMapped
  <2>3. gate = 1 => FALSE
      BY <2>1
  <2>4. wpc[v] \notin {"enter"} \cup QuiesceSteps
      BY <1>0, <2>3, Zenon
  <2>5. QED
      BY <1>0, <2>2, <2>4, Zenon
<1>42. ASSUME NEW w \in Workers, IrqReturn(w) PROVE Progress(v)'
    BY <1>42, Zenon DEF IrqReturn, IrqStep, Stop, updates, tables, scratch, coordinator
<1>43. ASSUME NEW w \in Workers, HoldingStop(w) PROVE Progress(v)'
    BY <1>43, Zenon DEF HoldingStop, Stop, updates, tables, scratch, coordinator
<1>44. ASSUME NEW w \in Workers, HoldingContinue(w) PROVE Progress(v)'
    BY <1>44, Zenon DEF HoldingContinue, WorkerStep, updates, tables, scratch, coordinator
<1>45. ASSUME NEW w \in Workers, HoldingPending(w) PROVE Progress(v)'
  <2>1. UNCHANGED <<cpc, pte, current, memory, oldValue, newValue, gate, members, epoch, requested,
                    phase, quiet, synced, wepoch>>
      BY <1>45, Zenon DEF HoldingPending, updates, tables, scratch, coordinator
  <2>2. ASSUME pending(w) PROVE phase = "Quiescing" /\ cpc \in AskSteps \cup EndSteps
    <3>1. cpc \notin {"phase", "prepare", "warm", "quiesce", "start", "replacing"}
      <4>1. Acknowledged(w)
          BY <1>x, Zenon DEF AckInv
      <4>2. requested[w] = epoch /\ quiet[w] # epoch /\ epoch \in Nat
          BY <2>2, Zenon DEF pending
      <4> HIDE DEF RendezvousTypes, Progress, other, OldMapped, NewMapped
      <4>3. QED
          BY <4>1, <4>2 DEF Acknowledged
    <3>2. QED
        BY <2>2, <3>1, <1>x, Zenon DEF pending, PhaseInv, IInv, LeafInv, OldSteps, NewSteps
  <2>3. ASSUME pending(w) PROVE OldMapped /\ gate = 1 /\ members = CPUs /\ epoch # 0
                                 /\ requested[w] = epoch /\ quiet[w] # epoch
      BY <2>3, <1>x, Zenon DEF pending, PhaseInv
  <2>4. CASE v # w
      BY <1>45, <2>1, <2>4, Zenon DEF HoldingPending, WorkerStep
  <2>5. CASE v = w /\ pending(w)
      BY <1>45, <2>1, <2>2, <2>3, <2>5, Zenon DEF HoldingPending, WorkerStep
  <2>6. CASE v = w /\ ~pending(w)
      BY <1>45, <2>1, <2>6, Zenon DEF HoldingPending, WorkerStep
  <2>7. QED
      BY <2>4, <2>5, <2>6, Zenon
<1>46. ASSUME NEW w \in Workers, WakeUp(w) PROVE Progress(v)'
    BY <1>46, Zenon DEF WakeUp, WorkerStep, updates, tables, scratch, coordinator
<1>47. ASSUME NEW w \in Workers, MaskAgain(w) PROVE Progress(v)'
    BY <1>47, Zenon DEF MaskAgain, WorkerStep, updates, tables, scratch, coordinator
<1>48. ASSUME NEW w \in Workers, EnterUpdate(w) PROVE Progress(v)'
    BY <1>48, Zenon DEF EnterUpdate, WorkerStep, updates, tables, scratch, coordinator
<1>49. ASSUME NEW w \in Workers, WarmOld(w) PROVE Progress(v)'
    BY <1>49, Zenon DEF WarmOld, WorkerStep, updates, scratch, coordinator
<1>50. ASSUME NEW w \in Workers, QuiesceIdentify(w) PROVE Progress(v)'
    BY <1>50, Zenon DEF QuiesceIdentify, WorkerStep, updates, tables, scratch, coordinator
<1>51. ASSUME NEW w \in Workers, QuiesceConfirm(w) PROVE Progress(v)'
    BY <1>51, Zenon DEF QuiesceConfirm, WorkerStep, updates, tables, scratch, coordinator
<1>52. ASSUME NEW w \in Workers, QuiesceStore(w) PROVE Progress(v)'
    BY <1>52, Zenon DEF QuiesceStore, WorkerStep, tables, scratch, coordinator
<1>53. ASSUME NEW w \in Workers, AwaitSynchronizing(w) PROVE Progress(v)'
    BY <1>53, <1>x, Zenon DEF AwaitSynchronizing, WorkerStep, updates, tables, scratch, coordinator,
       PhaseInv
<1>54. ASSUME NEW w \in Workers, RereadNew(w) PROVE Progress(v)'
    BY <1>54, Zenon DEF RereadNew, WorkerStep, updates, scratch, coordinator
<1>55. ASSUME NEW w \in Workers, SynchronizeIdentify(w) PROVE Progress(v)'
    BY <1>55, Zenon DEF SynchronizeIdentify, WorkerStep, updates, tables, scratch, coordinator
<1>56. ASSUME NEW w \in Workers, SynchronizeConfirm(w) PROVE Progress(v)'
    BY <1>56, Zenon DEF SynchronizeConfirm, WorkerStep, updates, tables, scratch, coordinator
<1>57. ASSUME NEW w \in Workers, SynchronizeStore(w) PROVE Progress(v)'
    BY <1>57, Zenon DEF SynchronizeStore, WorkerStep, tables, scratch, coordinator
<1>58. ASSUME NEW w \in Workers, WorkerReturns(w) PROVE Progress(v)'
  <2>1. wpc'[v] \in {wpc[v], "top"}
      BY <1>58, Zenon DEF WorkerReturns, WorkerStep
  <2>2. /\ UNCHANGED <<cpc, gate, members, epoch, requested, phase, quiet, synced, wepoch, CPUs>>
        /\ OldMapped' = OldMapped /\ NewMapped' = NewMapped
      BY <1>58, Zenon DEF WorkerReturns, updates, tables, scratch, coordinator
  <2> HIDE <1>0, PagesAssumption, MembersAssumption DEF RendezvousTypes, CPUs, other, OldMapped, NewMapped,
          Progress
  <2>3. CASE wpc'[v] = wpc[v]
      BY <1>0, <2>2, <2>3, Zenon DEF Progress
  <2>4. CASE wpc'[v] = "top"
      BY <2>4, Zenon DEF Progress
  <2>5. QED
      BY <2>1, <2>3, <2>4, Zenon
<1>59. ASSUME NEW w \in Workers, WorkerFails(w) PROVE Progress(v)'
    BY <1>59, Zenon DEF WorkerFails, Fail, tables, scratch, coordinator
<1>60. ASSUME NEW w \in Workers, WorkerRecords(w) PROVE Progress(v)'
    BY <1>60, Zenon DEF WorkerRecords, WorkerStep, updates, tables, scratch, coordinator
<1>61. ASSUME UNCHANGED <<cpc, current, epoch, gate, members, memory, newValue, oldValue, phase,
              pte, quiet, requested, synced, wepoch, wpc>>
       PROVE  Progress(v)'
    BY <1>61, Zenon
<1> HIDE <1>0, PagesAssumption, MembersAssumption DEF RendezvousTypes, Progress, CPUs, other,
   OldMapped, NewMapped, QuiesceSteps, SynchronizeSteps, OpenSteps, EndSteps, AskSteps, SyncSteps,
   WriteSteps, LockedSteps
<1>62. CASE CoordinatorNext
    BY <1>62, <1>1, <1>2, <1>3, <1>4, <1>5, <1>6, <1>7, <1>8, <1>9, <1>10, <1>11, <1>12, <1>13,
       <1>14, <1>15, <1>16, <1>17, <1>18, <1>19, <1>20, <1>21, <1>22, <1>23, <1>24, <1>25, <1>26,
       <1>27, <1>28, <1>29, <1>30, <1>31, <1>32, <1>33, <1>34, <1>35, <1>36, <1>37, <1>38, Zenon DEF
       CoordinatorNext
<1>63. ASSUME NEW w \in Workers, WorkerNext(w) \/ IrqNext(w) PROVE Progress(v)'
    BY <1>63, <1>39, <1>40, <1>41, <1>42, <1>43, <1>44, <1>45, <1>46, <1>47, <1>48, <1>49, <1>50,
       <1>51, <1>52, <1>53, <1>54, <1>55, <1>56, <1>57, <1>58, <1>59, <1>60, <1>61, Zenon DEF WorkerNext,
       IrqNext, TakeIrq, AdmitIdentify, AdmitConfirm, updates, tables, scratch, coordinator,
       worker
<1>64. ASSUME NEW c \in CPUs, TlbWalk(c) PROVE Progress(v)'
    BY <1>64, <1>61 DEF TlbWalk, updates, scratch, coordinator, worker
<1>65. CASE UNCHANGED vars
    BY <1>65, <1>61, Zenon DEF vars, updates, tables, scratch, coordinator, worker
<1>66. QED
    BY <1>62, <1>63, <1>64, <1>65 DEF Next

-----------------------------------------------------------------------------
(* The refused workers, and the theorems.                                  *)

\* The refused workers.
LEMMA LateInduction == IInv /\ Rendezvous /\ [Next]_vars => LateInv'
<1> SUFFICES ASSUME IInv, Rendezvous, [Next]_vars PROVE LateInv'
    OBVIOUS
<1>0. LateInv
    BY DEF Rendezvous
<1>x. WorkerInv
    BY DEF Rendezvous
<1> USE <1>0 DEF LateInv, OldMapped, EndSteps, AskSteps
<1>1. CASE BeginGate
    BY <1>1 DEF BeginGate, CoordinatorStep, tables, scratch, cpus
<1>2. CASE BeginMembers
    BY <1>2 DEF BeginMembers, CoordinatorStep, tables, scratch, cpus
<1>3. CASE BeginFails
    BY <1>3 DEF BeginFails, CoordinatorStep, Fail, tables, scratch, cpus
<1>4. CASE BeginEpoch
    BY <1>4 DEF BeginEpoch, CoordinatorStep, tables, scratch, cpus
<1>5. CASE BeginQuiescing
    BY <1>5 DEF BeginQuiescing, CoordinatorStep, AdvancePhase, tables, scratch, cpus
<1>6. CASE PrepareNew
    BY <1>6 DEF PrepareNew, CoordinatorStep, updates, cpus
<1>7. CASE CoordinatorWarm
    BY <1>7 DEF CoordinatorWarm, CoordinatorStep, updates, scratch, cpus
<1>8. CASE QuiesceSelf
    BY <1>8 DEF QuiesceSelf, CoordinatorStep, Identified, Confirmed, tables, scratch, cpus
<1>9. ASSUME NEW w \in Workers, AskWorker(w) PROVE LateInv'
    BY <1>9 DEF AskWorker, CoordinatorStep, updates, tables, scratch, cpus
<1>10. ASSUME NEW w \in Workers, WorkerAdmitted(w) PROVE LateInv'
    BY <1>10 DEF WorkerAdmitted, CoordinatorStep, updates, tables, scratch, cpus
<1>11. CASE WaitQuiet
    BY <1>11 DEF WaitQuiet, CoordinatorStep, all_quiet, All, updates, tables, scratch, cpus
<1>12. CASE CheckReplace
    BY <1>12, Zenon DEF CheckReplace, CoordinatorStep, Identified, Confirmed, updates, tables, scratch,
       cpus
<1>13. CASE StartReplace
    BY <1>13 DEF StartReplace, CoordinatorStep, AdvancePhase, tables, scratch, cpus
<1>14. CASE CheckAuthority
    BY <1>14 DEF CheckAuthority, CoordinatorStep, updates, tables, scratch, cpus
<1>15. CASE BreakEntry
    BY <1>15 DEF BreakEntry, CoordinatorStep, updates, scratch, cpus
<1>16. CASE InvalidateOld
    BY <1>16 DEF InvalidateOld, CoordinatorStep, updates, scratch, cpus
<1>17. CASE MakeEntry
    BY <1>17 DEF MakeEntry, CoordinatorStep, updates, scratch, cpus
<1>18. CASE InvalidateNew
    BY <1>18 DEF InvalidateNew, CoordinatorStep, updates, scratch, cpus
<1>19. CASE CheckPublish
    BY <1>19 DEF CheckPublish, CoordinatorStep, Identified, Confirmed, updates, tables, scratch,
       cpus
<1>20. CASE Publish
    BY <1>20 DEF Publish, CoordinatorStep, AdvancePhase, tables, scratch, cpus
<1>21. CASE CoordinatorReread
    BY <1>21 DEF CoordinatorReread, CoordinatorStep, updates, scratch, cpus
<1>22. CASE CheckSynchronizing
    BY <1>22 DEF CheckSynchronizing, CoordinatorStep, Identified, Confirmed, updates, tables,
       scratch, cpus
<1>23. CASE SynchronizeSelf
    BY <1>23 DEF SynchronizeSelf, CoordinatorStep, tables, scratch, cpus
<1>24. CASE WaitSynced
    BY <1>24 DEF WaitSynced, CoordinatorStep, updates, tables, scratch, cpus
<1>25. CASE CheckFinish
    BY <1>25 DEF CheckFinish, CoordinatorStep, Identified, Confirmed, updates, tables, scratch,
       cpus
<1>26. CASE FinishPhase
    BY <1>26 DEF FinishPhase, CoordinatorStep, AdvancePhase, tables, scratch, cpus
<1>27. CASE FinishGate
    BY <1>27, Zenon DEF FinishGate, CoordinatorStep, tables, scratch, cpus
<1>28. CASE Reuse
    BY <1>28, Zenon DEF Reuse, CoordinatorStep, updates, tables, cpus
<1>29. CASE PoisonOld
    BY <1>29, Zenon DEF PoisonOld, CoordinatorStep, updates, scratch, cpus
<1>30. CASE RemapFails
    BY <1>30 DEF RemapFails, Fail, tables, scratch, cpus
<1>31. CASE RemapHalts
    BY <1>31, Zenon DEF RemapHalts, CoordinatorStep, updates, tables, scratch
<1>32. CASE ObserveLate
    BY <1>32 DEF ObserveLate, CoordinatorStep, updates, tables, scratch
<1>33. CASE CoordinatorStops
    BY <1>33 DEF CoordinatorStops, updates, tables, scratch, cpus
<1>34. CASE StartPark
    BY <1>34, Zenon DEF StartPark, CoordinatorStep, updates, tables, scratch, cpus
<1>35. ASSUME NEW w \in Workers, ParkWorker(w) PROVE LateInv'
    BY <1>35, Zenon DEF ParkWorker, CoordinatorStep, updates, tables, scratch, cpus
<1>36. ASSUME NEW w \in Workers, WorkerParked(w) PROVE LateInv'
    BY <1>36, Zenon DEF WorkerParked, CoordinatorStep, updates, tables, scratch, cpus
<1>37. CASE ParkSnapshot
    BY <1>37 DEF ParkSnapshot, CoordinatorStep, updates, tables, scratch, cpus
<1>38. CASE ParkFails
    BY <1>38 DEF ParkFails, updates, tables, scratch
<1>39. ASSUME NEW w \in Workers, WorkerReturns(w) PROVE LateInv'
    BY <1>39, <1>x, Zenon DEF WorkerReturns, WorkerStep, Identified, Confirmed, updates, tables, scratch,
       coordinator, WorkerInv, Progress, QuiesceSteps, CPUs
<1>40. ASSUME NEW w \in Workers, WorkerFails(w) PROVE LateInv'
    BY <1>40 DEF WorkerFails, Fail, tables, scratch, coordinator, cpus
<1>41. ASSUME UNCHANGED <<cpc, current, lateRejected, memory, oldValue, phase, pte>> PROVE LateInv'
    BY <1>41
<1> HIDE <1>0 DEF LateInv, OldMapped, EndSteps, AskSteps
<1>42. CASE CoordinatorNext
    BY <1>42, <1>1, <1>2, <1>3, <1>4, <1>5, <1>6, <1>7, <1>8, <1>9, <1>10, <1>11, <1>12, <1>13,
       <1>14, <1>15, <1>16, <1>17, <1>18, <1>19, <1>20, <1>21, <1>22, <1>23, <1>24, <1>25, <1>26,
       <1>27, <1>28, <1>29, <1>30, <1>31, <1>32, <1>33, <1>34, <1>35, <1>36, <1>37, <1>38, Zenon DEF
       CoordinatorNext
<1>43. ASSUME NEW w \in Workers, WorkerNext(w) \/ IrqNext(w) PROVE LateInv'
    BY <1>43, <1>39, <1>40, <1>41, Zenon DEF WorkerNext, IrqNext, TakeIrq, AdmitIdentify, AdmitConfirm,
       AdmitStore, ParkClaim, ParkFinish, IrqReturn, HoldingStop, HoldingContinue, HoldingPending,
       WakeUp, MaskAgain, EnterUpdate, WarmOld, QuiesceIdentify, QuiesceConfirm, QuiesceStore,
       AwaitSynchronizing, RereadNew, SynchronizeIdentify, SynchronizeConfirm, SynchronizeStore,
       WorkerRecords, updates, tables, scratch, coordinator, cpus
<1>44. ASSUME NEW c \in CPUs, TlbWalk(c) PROVE LateInv'
    BY <1>44, <1>41 DEF TlbWalk, updates, scratch, coordinator, cpus
<1>45. CASE UNCHANGED vars
    BY <1>45, <1>41 DEF vars, updates, tables, scratch, coordinator, cpus
<1>46. QED
    BY <1>42, <1>43, <1>44, <1>45 DEF Next

-----------------------------------------------------------------------------
\* Who is where in an update.
THEOREM RendezvousInvariant == Spec => [](IInv /\ Rendezvous)
<1>1. IInv /\ Rendezvous /\ [Next]_vars => Rendezvous'
    BY RendezvousTypesInduction, SlotTypesInduction, MemoryInduction, PhaseInduction,
       SlotInduction, AckInduction, WorkerInduction, LateInduction, Zenon DEF Rendezvous
<1>2. QED
    BY InitInvariant, RendezvousInit, Induction, <1>1, PTL DEF Spec

\* FailureIsSticky (remap and fatal in tlb_test.rs, UpdateState::fail): after a
\* failure no page is written or repurposed, no epoch begins and the gate stays
\* owned, whichever CPU failed and wherever the others were.
THEOREM FailureIsFinal == Spec => FailureIsSticky
<1> DEFINE Sticky == phase = "Failed" =>
        /\ phase' = "Failed" /\ UNCHANGED <<memory, current, epoch>>
        /\ gate = 1 => gate' = 1
        /\ pte' # pte => cpc \in LockedSteps
<1>1. ASSUME IInv, Rendezvous, [Next]_vars, phase = "Failed"
      PROVE  /\ phase' = "Failed" /\ UNCHANGED <<memory, current, epoch>>
             /\ gate = 1 => gate' = 1
             /\ pte' # pte => cpc \in LockedSteps
  <2>1. PhaseInv /\ SlotInv
      BY <1>1 DEF Rendezvous
  <2>2. cpc \notin {"idle", "members", "epoch", "phase", "prepare", "warm", "quiesce", "finish",
                    "finishing", "gate", "reuse", "poison", "park", "parking"}
      BY <1>1, <2>1 DEF PhaseInv
  <2>3. CASE CoordinatorNext
    <3>1. CASE BreakEntry \/ InvalidateOld \/ MakeEntry \/ InvalidateNew
        BY <1>1, <3>1, Zenon DEF BreakEntry, InvalidateOld, MakeEntry, InvalidateNew, CoordinatorStep,
           LockedSteps, updates, scratch
    <3>2. CASE RemapFails \/ RemapHalts \/ ObserveLate \/ CoordinatorStops
        BY <1>1, <3>2, Zenon DEF RemapFails, RemapHalts, ObserveLate, CoordinatorStops, Fail, updates,
           tables,
           scratch
    <3>3. CASE \/ \E w \in Workers : AskWorker(w) \/ WorkerAdmitted(w)
               \/ WaitQuiet \/ CheckReplace \/ CheckAuthority \/ CheckPublish \/ CoordinatorReread
               \/ CheckSynchronizing \/ SynchronizeSelf \/ WaitSynced
        BY <1>1, <3>3, Zenon DEF AskWorker, WorkerAdmitted, WaitQuiet, CheckReplace, CheckAuthority,
           CheckPublish, CoordinatorReread, CheckSynchronizing, SynchronizeSelf, WaitSynced,
              updates,
           tables, scratch
    <3>4. QED
        BY <1>1, <2>2, <2>3, <3>1, <3>2, <3>3, Zenon
        DEF CoordinatorNext, BeginGate, BeginMembers, BeginFails, BeginEpoch, BeginQuiescing,
            PrepareNew, CoordinatorWarm, QuiesceSelf, StartReplace, Publish, CheckFinish,
               FinishPhase,
            FinishGate, Reuse, PoisonOld, StartPark, ParkWorker, WorkerParked, ParkSnapshot,
               ParkFails,
            CoordinatorStep, AdvancePhase
  <2>4. ASSUME NEW w \in Workers, WorkerNext(w) \/ IrqNext(w)
        PROVE  UNCHANGED <<phase, memory, current, epoch, gate, pte>>
      BY <1>1, <2>1, <2>4, Zenon DEF WorkerNext, IrqNext, TakeIrq, updates, tables, scratch,
         AdmitIdentify, IrqStep, AdmitConfirm, AdmitStore, ParkClaim, ParkFinish, IrqReturn, Stop,
         HoldingStop, HoldingContinue, WorkerStep, HoldingPending, WakeUp, MaskAgain, EnterUpdate,
         WarmOld, QuiesceIdentify, QuiesceConfirm, QuiesceStore, AwaitSynchronizing, RereadNew,
         SynchronizeIdentify, SynchronizeConfirm, SynchronizeStore, WorkerReturns, WorkerFails,
         Fail, WorkerRecords, SlotInv, Request
  <2>5. CASE \E c \in CPUs : TlbWalk(c)
      BY <1>1, <2>5 DEF TlbWalk, updates, scratch
  <2>6. CASE UNCHANGED vars
      BY <1>1, <2>6 DEF vars, updates, tables, scratch
  <2>7. QED
      BY <1>1, <2>3, <2>4, <2>5, <2>6 DEF Next
<1>2. IInv /\ Rendezvous /\ [Next]_vars => [Sticky]_vars
    BY <1>1
<1>3. QED
    BY RendezvousInvariant, <1>2, PTL DEF Spec, FailureIsSticky

\* ScratchReadsAreExact (read, before_guest and worker in tlb_test.rs): a warm
\* read sees the old signature and a reread the new one, on every CPU.
THEOREM ReadsAreExact == Spec => []ScratchReadsAreExact
<1>1. IInv /\ Rendezvous => ScratchReadsAreExact
  <2> SUFFICES ASSUME IInv, Rendezvous PROVE ScratchReadsAreExact
      OBVIOUS
  <2>1. ASSUME NEW c \in CPUs, pte # None, cpc # "invalidate" PROVE Read(c) = memory[pte]
      BY <2>1, Zenon DEF IInv, TlbInv, Cached, Read, translation
  <2>2. pte # None => cpc # "invalidate"
      BY DEF IInv, LeafInv
  <2>3. ASSUME NEW w \in Workers
        PROVE  /\ wpc[w] = "warm" => Read(w) = oldValue
               /\ wpc[w] = "reread" => Read(w) = newValue
    <3>1. w \in CPUs /\ current \in Pages /\ Progress(w)
        BY DEF CPUs, IInv, LeafInv, Rendezvous, WorkerInv
    <3>2. QED
        BY <2>1, <2>2, <3>1, PagesAssumption, Zenon
        DEF Progress, OldMapped, NewMapped, QuiesceSteps, SynchronizeSteps, other, Pages
  <2>4. /\ cpc = "warm" => Read(Boot) = oldValue
        /\ cpc = "reread" => Read(Boot) = newValue
    <3>1. Boot \in CPUs /\ LeafInv /\ MemoryInv
        BY DEF CPUs, IInv, Rendezvous
    <3>2. QED
        BY <2>1, <3>1, PagesAssumption, Zenon DEF LeafInv, MemoryInv, OldSteps, NewSteps, other, Pages
  <2>5. QED
      BY <2>3, <2>4 DEF ScratchReadsAreExact
<1>2. QED
    BY RendezvousInvariant, <1>1, PTL

\* LateArrivalIsRefused (timeout_acceptance in tlb_test.rs), for any set of
\* late workers.
THEOREM RefusedLateArrival == Spec => []LateArrivalIsRefused
<1>1. Rendezvous => LateArrivalIsRefused
    BY DEF Rendezvous, LateInv, OldMapped, LateArrivalIsRefused, reusable
<1>2. QED
    BY RendezvousInvariant, <1>1, PTL

=============================================================================
