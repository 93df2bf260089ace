--------------------------- MODULE SecondaryEntry ---------------------------
(***************************************************************************)
(* What a secondary CPU finds in memory when it arrives, and what it       *)
(* becomes: preflight checks of the CPU descriptions (secondary_backend.rs *)
(* and secondary_entry.rs), the per-CPU slots and the shared register      *)
(* configuration (pcpu.rs, el2_policy.rs), their publication to memory     *)
(* (startup_publication.rs), the entry assembly of secondary.rs and the    *)
(* validation of the CPU's own state (secondary_validation.rs).  Startup   *)
(* has the boot procedure around these steps; here the contents matter.    *)
(*                                                                         *)
(* CPU0 writes cached lines, and a CPU that enters reads memory until its  *)
(* MMU and caches are on.  The image is not loaded there: slots, mailboxes *)
(* and configuration are in .bss, which CPU0 clears with ordinary stores   *)
(* (main.rs), so memory first holds whatever was left in it, for example   *)
(* by an earlier boot.  A dirty line may reach memory at any time, in any  *)
(* order, and a CPU that arrives too early sees any mixture.               *)
(***************************************************************************)
EXTENDS Integers, Sequences, FiniteSets

CONSTANTS
    MaxCpus,      \* slots in PCPU_SLOTS (MAX_CPUS)
    Topologies,   \* CPU descriptions: sequences of [affinity, enabled, id, startup], boot CPU first
    Leftovers,    \* what memory may hold at the lines of the image before they are written back
    LineSize,     \* bytes in a cache line
    None          \* no logical id, no release cell

ASSUME CpusAssumption == MaxCpus \in Nat \ {0} /\ None \notin Nat

\* discover_cpus refuses two nodes with one affinity, enabled or not (DuplicateAffinity).
ASSUME TopologyAssumption ==
    \A t \in Topologies :
        /\ t \in Seq([affinity : Nat, enabled : BOOLEAN, id : Nat \cup {None}, startup : Nat \cup {None}])
        /\ t # <<>>
        /\ \A i, j \in DOMAIN t : i # j => t[i].affinity # t[j].affinity

VARIABLES
    cpus,         \* the CPU descriptions of this machine
    bpc, target,  \* CPU0: its step, and the logical id it works on
    attempted,    \* the logical ids CPU0 tried to release
    cache, memory,          \* per line of the published image: coherent value, value in memory
    cellCache, cellMemory,  \* per release address: a nonzero value was stored
    lifecycle,    \* per logical id: the mailbox state
    checkpoint,   \* per logical id: the failures its validation published
    claimed,      \* per logical id: the CPU that claimed its entry (entry_claimed), or None
    pc,           \* per physical secondary: where it is
    supported,    \* per physical secondary: it arrives at EL2, caches off, in a known core
    early,        \* physical secondaries that arrived without being released
    regs          \* per physical secondary: what it has read and installed

boot == <<bpc, target, attempted>>
image == <<cache, memory>>
cells == <<cellCache, cellMemory>>
entrant == <<checkpoint, claimed, pc, early, regs>>
vars == <<cpus, boot, image, cells, lifecycle, entrant, supported>>

Ids == 0 .. (MaxCpus - 1)
Slot(i) == <<"slot", i>>
Mailbox(i) == <<"mailbox", i>>
Config == <<"config", 0>>
Lines == {Slot(i) : i \in Ids} \cup {Mailbox(i) : i \in Ids} \cup {Config}

\* PcpuContext; a stack is named after the CPU it was allocated for.
EmptySlot == [present |-> FALSE, id |-> 0, affinity |-> 0, stack |-> None]
Context(i, a) == [present |-> TRUE, id |-> i, affinity |-> a, stack |-> i]
NoConfig == "zero"
HostConfig == "host"
Generation == 1

\* What the words of a line can be; a configuration that is not the host's is "foreign".
Slots == [present : BOOLEAN, id : Nat, affinity : Nat, stack : Nat \cup {None}]
Configs == {NoConfig, HostConfig, "foreign"}

ASSUME LeftoversAssumption ==
    \A left \in Leftovers :
        /\ DOMAIN left = Lines /\ left[Config] \in Configs
        /\ \A i \in Ids : left[Slot(i)] \in Slots /\ left[Mailbox(i)] \in Nat

Secondaries == 2 .. Len(cpus)
NoRegs == [at |-> 0, found |-> None, generation |-> 0, stack |-> None, context |-> None,
           config |-> NoConfig, controls |-> "firmware"]

(***************************************************************************)
(* Preflight checks                                                        *)
(***************************************************************************)

Enabled == {i \in DOMAIN cpus : cpus[i].enabled}

\* secondary_mask, and none when it fails.
secondary_mask ==
    LET ids == {cpus[i].id : i \in Enabled}
        valid == /\ \A i \in Enabled : cpus[i].id \in Ids
                 /\ \A i, j \in Enabled : i # j => /\ cpus[i].id # cpus[j].id
                                                   /\ cpus[i].affinity # cpus[j].affinity
                 /\ 0 \in ids
    IN  IF valid THEN ids \ {0} ELSE {}

\* Bcm2711SpinTableBackend::select: one cluster of at most four cores.
backend_selected ==
    LET own == cpus[1].affinity
    IN  \A i \in Enabled : cpus[i].affinity \div 256 = own \div 256 /\ cpus[i].affinity % 256 < 4

\* validate_spin_table_target: the release address of a logical id, or None.
validate_spin_table_target(t) ==
    LET i == CHOOSE k \in DOMAIN cpus : cpus[k].id = t
        others == DOMAIN cpus \ {i}
        valid == /\ \E k \in DOMAIN cpus : cpus[k].id = t
                 /\ t \in Ids \ {0}
                 /\ cpus[i].enabled
                 /\ \A k \in others : cpus[k].enabled => /\ cpus[k].id # t
                                                         /\ cpus[k].affinity # cpus[i].affinity
                 /\ cpus[i].startup # None
                 /\ cpus[i].startup % 8 = 0
                 /\ \A k \in others : cpus[k].startup # cpus[i].startup
    IN  IF valid THEN cpus[i].startup ELSE None

\* find_slot_by_affinity: the only prepared slot with this affinity, or None.
find_slot_by_affinity(a) ==
    LET found == {i \in Ids : cache[Slot(i)].present /\ cache[Slot(i)].affinity = a}
    IN  IF Cardinality(found) = 1 THEN CHOOSE i \in found : TRUE ELSE None

(***************************************************************************)
(* CPU0                                                                    *)
(***************************************************************************)

\* HostEl2ConfigStorage::publish and PcpuSlot::publish_startup.
publish(config) == [cache EXCEPT ![Config] = config]
publish_startup(t) == [cache EXCEPT ![Mailbox(t)] = Generation]

\* The record of an id, once its token and the configuration are published.
startup_view(i, generation) == cache[Config] # NoConfig /\ cache[Mailbox(i)] = generation

\* CPU0 has cleared .bss and prepared its own slot, in its cache; memory has not been written.
Init ==
    /\ cpus \in Topologies
    /\ bpc = "slots" /\ target = 1 /\ attempted = {}
    /\ cache = [l \in Lines |-> IF l = Slot(0) THEN Context(0, cpus[1].affinity)
                                ELSE IF l = Config THEN NoConfig
                                ELSE IF l[1] = "slot" THEN EmptySlot ELSE 0]
    /\ memory \in Leftovers
    /\ cellCache = {} /\ cellMemory = {}
    /\ lifecycle = [i \in Ids |-> IF i = 0 THEN "Prepared" ELSE "Offline"]
    /\ checkpoint = [i \in Ids |-> {}] /\ claimed = [i \in Ids |-> None]
    /\ pc = [c \in Secondaries |-> "firmware"]
    /\ supported \in [Secondaries -> BOOLEAN]
    /\ early = {}
    /\ regs = [c \in Secondaries |-> NoRegs]

\* A dirty line is written back.
WriteBack(l) ==
    /\ memory[l] # cache[l]
    /\ memory' = [memory EXCEPT ![l] = cache[l]]
    /\ UNCHANGED <<cpus, boot, cache, cells, lifecycle, entrant, supported>>

\* The release cells of one cache line are written back together.
CellLine(a) == {b \in {cpus[c].startup : c \in DOMAIN cpus} \ {None} : b \div LineSize = a \div LineSize}
CellsWritten(a) == (cellMemory \ CellLine(a)) \cup (cellCache \cap CellLine(a))

WriteBackCells(a) ==
    /\ cellMemory' = CellsWritten(a)
    /\ UNCHANGED <<cpus, boot, image, cellCache, lifecycle, entrant, supported>>

\* PcpuSlot::prepare for every enabled secondary, each with its own stack.
PrepareSlots ==
    /\ bpc = "slots" /\ bpc' = "platform"
    /\ LET mine == {i \in Enabled : cpus[i].id # 0}
           prepared == {cpus[i].id : i \in mine}
           of(t) == CHOOSE i \in mine : cpus[i].id = t
       IN  /\ cache' = [l \in Lines |-> IF l[1] = "slot" /\ l[2] \in prepared
                                        THEN Context(l[2], cpus[of(l[2])].affinity) ELSE cache[l]]
           /\ lifecycle' = [i \in Ids |-> IF i \in prepared THEN "Prepared" ELSE lifecycle[i]]
    /\ UNCHANGED <<cpus, target, attempted, memory, cells, entrant, supported>>

\* validate_platform, secondary_mask and HostEl2ConfigStorage::publish.
ValidatePlatform ==
    /\ bpc = "platform"
    /\ IF backend_selected /\ secondary_mask # {}
       THEN /\ bpc' = "prepare"
            /\ cache' = publish(HostConfig)
       ELSE bpc' = "failed" /\ UNCHANGED cache
    /\ UNCHANGED <<cpus, target, attempted, memory, cells, lifecycle, entrant, supported>>

\* The next required id after target, or the end of the loop.
NextTarget(step, done) ==
    LET rest == {i \in secondary_mask : i > target}
    IN  \/ rest = {} /\ bpc' = done /\ target' = 1
        \/ \E i \in rest : (\A j \in rest : i <= j) /\ bpc' = step /\ target' = i

verify_unreleased_cell(a) == a \notin cellCache

\* startup_resources: the slot is the only one for its affinity, the cell is still zero.
startup_resources(t) ==
    /\ validate_spin_table_target(t) # None
    /\ find_slot_by_affinity(cache[Slot(t)].affinity) = t
    /\ \E i \in Enabled : cpus[i].id = t /\ cpus[i].affinity = cache[Slot(t)].affinity
    /\ verify_unreleased_cell(validate_spin_table_target(t))

\* An iteration of prepare_all_cpus, with publish_startup at its end.
PrepareCpu ==
    /\ bpc = "prepare"
    /\ IF startup_resources(target)
       THEN /\ cache' = publish_startup(target)
            /\ NextTarget("prepare", "publish")
       ELSE bpc' = "failed" /\ UNCHANGED <<cache, target>>
    /\ UNCHANGED <<cpus, attempted, memory, cells, lifecycle, entrant, supported>>

\* validate_publication of one CPU.
validate_publication(t) ==
    /\ validate_spin_table_target(t) # None
    /\ lifecycle[t] = "Prepared"
    /\ startup_view(t, Generation)
    /\ cache[Slot(t)].id = t
    /\ \E i \in DOMAIN cpus : cpus[i].id = t /\ cpus[i].affinity = cache[Slot(t)].affinity
    /\ cache[Slot(t)].stack = t

\* The writable image holds the slots, the mailboxes and the configuration; it is cleaned line by
\* line, which is what WriteBack does, and the barrier waits for all of it.
publish_shared_startup == [l \in Lines |-> cache[l]]

\* publish_all_startups: every check comes before the first clean.
PublishAllStartups ==
    /\ bpc = "publish"
    /\ \A t \in secondary_mask : validate_publication(t)
    /\ memory' = publish_shared_startup
    /\ bpc' = "release" /\ target' = 1
    /\ UNCHANGED <<cpus, attempted, cache, cells, lifecycle, entrant, supported>>

\* release_secondary up to the store; attempted precedes it.
ReleaseSecondary ==
    /\ bpc = "release"
    /\ validate_spin_table_target(target) \notin cellCache
    /\ lifecycle[target] = "Prepared" /\ target \notin attempted
    /\ lifecycle' = [lifecycle EXCEPT ![target] = "Starting"]
    /\ attempted' = attempted \cup {target}
    /\ bpc' = "store"
    /\ UNCHANGED <<cpus, target, image, cells, entrant, supported>>

StoreReleaseCell ==
    /\ bpc = "store" /\ bpc' = "clean"
    /\ cellCache' = cellCache \cup {validate_spin_table_target(target)}
    /\ UNCHANGED <<cpus, target, attempted, image, cellMemory, lifecycle, entrant, supported>>

\* clean_cache_line, publication_barrier, send_event.
CleanReleaseCell ==
    /\ bpc = "clean" /\ bpc' = "wait"
    /\ cellMemory' = CellsWritten(validate_spin_table_target(target))
    /\ UNCHANGED <<cpus, target, attempted, image, cellCache, lifecycle, entrant, supported>>

\* verify_release_set: the cells of the released CPUs hold the entry, the others are zero.
verify_release_set ==
    \A c \in Secondaries : cpus[c].startup \in cellCache <=>
        \E d \in Secondaries : cpus[d].id \in attempted /\ cpus[d].startup = cpus[c].startup

\* wait_for_secondary: parked with a clean checkpoint, or the deadline passed.
WaitForSecondary ==
    /\ bpc = "wait"
    /\ \/ /\ lifecycle[target] = "Parked" /\ checkpoint[target] = {} /\ verify_release_set
          /\ NextTarget("release", "ready")
       \/ lifecycle[target] # "Parked" /\ bpc' = "failed" /\ UNCHANGED target
    /\ UNCHANGED <<cpus, attempted, image, cells, lifecycle, entrant, supported>>

(***************************************************************************)
(* A secondary                                                             *)
(***************************************************************************)

Advance(c, from, to) == pc[c] = from /\ pc' = [pc EXCEPT ![c] = to]
Untouched == UNCHANGED <<cpus, boot, image, cells, supported>>

\* The armstub leaves its loop once memory holds an entry address ...
FirmwareEnters(c) ==
    /\ cpus[c].startup \in cellMemory
    /\ Advance(c, "firmware", "entry")
    /\ UNCHANGED <<lifecycle, checkpoint, claimed, early, regs>> /\ Untouched

\* ... and a CPU nobody released may arrive at any time.
ArrivesEarly(c) ==
    /\ cpus[c].startup \notin cellMemory
    /\ Advance(c, "firmware", "entry")
    /\ early' = early \cup {c}
    /\ UNCHANGED <<lifecycle, checkpoint, claimed, regs>> /\ Untouched

\* Exception level, MMU, cache, endianness, core and SMPEN.
CheckRegime(c) ==
    /\ Advance(c, "entry", IF supported[c] THEN "lookup" ELSE "rejected")
    /\ UNCHANGED <<lifecycle, checkpoint, claimed, early, regs>> /\ Untouched

\* __secondary_lookup, one slot at a time; two matches are not routed.
Lookup(c) ==
    LET i == regs[c].at
        match == memory[Slot(i)].present /\ memory[Slot(i)].affinity = cpus[c].affinity
    IN  /\ i < MaxCpus
        /\ Advance(c, "lookup", IF match /\ regs[c].found # None THEN "rejected" ELSE "lookup")
        /\ regs' = [regs EXCEPT ![c] = [@ EXCEPT !.at = i + 1,
                                                 !.found = IF match THEN i ELSE regs[c].found]]
        /\ UNCHANGED <<lifecycle, checkpoint, claimed, early>> /\ Untouched

\* The id of the only match; a secondary never takes slot 0.
ReadId(c) ==
    LET i == regs[c].found
    IN  /\ regs[c].at = MaxCpus
        /\ Advance(c, "lookup", IF i # None /\ memory[Slot(i)].id # 0 /\ memory[Slot(i)].id = i
                                THEN "token" ELSE "rejected")
        /\ UNCHANGED <<lifecycle, checkpoint, claimed, early, regs>> /\ Untouched

ReadToken(c) ==
    LET token == memory[Mailbox(regs[c].found)]
    IN  /\ Advance(c, "token", IF token # 0 THEN "stack" ELSE "rejected")
        /\ regs' = [regs EXCEPT ![c] = [@ EXCEPT !.generation = token]]
        /\ UNCHANGED <<lifecycle, checkpoint, claimed, early>> /\ Untouched

\* The id again, and the stack's bounds; None is one that is missing or misaligned.
ReadStack(c) ==
    LET slot == memory[Slot(regs[c].found)]
    IN  /\ Advance(c, "stack", IF slot.id \in Ids \ {0} /\ slot.stack # None THEN "root" ELSE "rejected")
        /\ regs' = [regs EXCEPT ![c] = [@ EXCEPT !.stack = slot.stack]]
        /\ UNCHANGED <<lifecycle, checkpoint, claimed, early>> /\ Untouched

\* The shared root is checked before the stack and the context pointer are installed.
CheckRoot(c) ==
    /\ Advance(c, "root", IF memory[Config] # NoConfig THEN "config" ELSE "rejected")
    /\ UNCHANGED <<lifecycle, checkpoint, claimed, early, regs>> /\ Untouched

\* The control registers get the host's values, and the configuration is read again; a control
\* register may not read back as written.
Install(c) ==
    /\ Advance(c, "config", "mmu")
    /\ \E controls \in {"host", "other"} :
           regs' = [regs EXCEPT ![c] = [@ EXCEPT !.context = regs[c].found, !.config = memory[Config],
                                                 !.controls = controls]]
    /\ UNCHANGED <<lifecycle, checkpoint, claimed, early>> /\ Untouched

\* The caches are on, unless SCTLR_EL2 was zero: the token is read again, with acquire.
CrossRustBoundary(c) ==
    /\ regs[c].config # NoConfig
    /\ Advance(c, "mmu", IF cache[Mailbox(regs[c].found)] = regs[c].generation THEN "rust" ELSE "rejected")
    /\ UNCHANGED <<lifecycle, checkpoint, claimed, early, regs>> /\ Untouched

\* A CPU nobody released may find no translation behind the root it took, or some other one, or
\* run on with its MMU off: it faults for ever, and what else it may do is not described.
GetLost(c) ==
    /\ c \in early
    /\ Advance(c, "mmu", "lost")
    /\ UNCHANGED <<lifecycle, checkpoint, claimed, early, regs>> /\ Untouched

\* secondary_main: the record, and claim_entry.
ClaimEntry(c) ==
    LET i == regs[c].found
        good == /\ startup_view(i, regs[c].generation)
                /\ lifecycle[i] = "Starting" /\ claimed[i] = None
    IN  /\ Advance(c, "rust", IF good THEN "validate" ELSE "halted")
        /\ claimed' = IF good THEN [claimed EXCEPT ![i] = c] ELSE claimed
        /\ UNCHANGED <<lifecycle, checkpoint, early, regs>> /\ Untouched

\* validate_secondary_context: the slot of this id is the one in use, and it is prepared.
validate_secondary_context(i, context) ==
    i # 0 /\ context = i /\ lifecycle[i] # "Offline" /\ cache[Slot(i)].id = i

\* Mutant: a CPU in the slot of another affinity is let through.
FailureButAffinity(check, ok) == IF ok \/ check = "Affinity" THEN {} ELSE {check}

\* A check that failed is recorded.
Failure(check, ok) == IF ok THEN {} ELSE {check}

\* validate: the checks that fail, against the record in coherent memory.
validate(c) ==
    LET r == regs[c]
        identity == cache[Slot(r.found)]
    IN  UNION {Failure("Generation", r.generation # 0 /\ cache[Mailbox(r.found)] = r.generation),
               Failure("Affinity", cpus[c].affinity = identity.affinity),
               Failure("Stack", r.stack = identity.stack),
               Failure("ContextPointer", r.context = r.found),
               Failure("ContextIdentity", validate_secondary_context(identity.id, r.context)),
               Failure("Root", r.config = cache[Config]),
               Failure("Hcr", r.controls = "host"),
               Failure("CpuImplementation", supported[c]),
               Failure("LogicalId", identity.id \in Ids \ {0})}

publish_checkpoint(i, failed) == checkpoint' = [checkpoint EXCEPT ![i] = failed]

\* The checkpoint, then park or fail.
Park(c) ==
    /\ pc[c] = "validate"
    /\ LET end == IF validate(c) = {} THEN "Parked" ELSE "Failed"
       IN  /\ publish_checkpoint(regs[c].found, validate(c))
           /\ lifecycle' = [lifecycle EXCEPT ![regs[c].found] = end]
           /\ pc' = [pc EXCEPT ![c] = IF end = "Parked" THEN "worker" ELSE "halted"]
    /\ UNCHANGED <<claimed, early, regs>> /\ Untouched

SecondaryNext(c) ==
    \/ FirmwareEnters(c) \/ ArrivesEarly(c) \/ CheckRegime(c) \/ Lookup(c)
    \/ ReadId(c) \/ ReadToken(c) \/ ReadStack(c) \/ CheckRoot(c) \/ Install(c)
    \/ CrossRustBoundary(c) \/ GetLost(c) \/ ClaimEntry(c) \/ Park(c)

Next ==
    \/ \E l \in Lines : WriteBack(l)
    \/ \E a \in cellCache : WriteBackCells(a)
    \/ PrepareSlots \/ ValidatePlatform \/ PrepareCpu \/ PublishAllStartups
    \/ ReleaseSecondary \/ StoreReleaseCell \/ CleanReleaseCell \/ WaitForSecondary
    \/ \E c \in Secondaries : SecondaryNext(c)

Spec == Init /\ [][Next]_vars

(***************************************************************************)
(* Properties                                                              *)
(***************************************************************************)

\* The CPUs that run Rust after CPU0 released them, and the ones that passed their validation.
Trusted ==
    {c \in Secondaries : pc[c] = "worker" \/ (c \notin early /\ pc[c] \in {"rust", "validate"})}

\* A CPU that crosses into Rust (secondary.rs, __secondary_rust_boundary) after its release runs as
\* itself: in a supported state, in the slot of its own affinity, on that slot's stack and with the
\* published registers.  So does every CPU that becomes a worker, with the host's controls too,
\* even one that nobody released, whatever it found in memory: a leftover of an earlier boot may
\* route it to a wrong slot, stack or root, and the validation against the coherent record does
\* not let it pass.  An id is therefore parked by its own CPU only, and no two of these CPUs share
\* a stack.  Only a required CPU leaves the firmware without having come by itself, and it is
\* turned away or halted only for its own state, or because a CPU that nobody released has taken
\* the entry of its id: what CPU0 published before the release is all that it needs.
EntrantsAreThemselves ==
    /\ \A c \in Trusted :
           /\ supported[c] /\ cpus[c].enabled
           /\ regs[c].context = cpus[c].id
           /\ cache[Slot(cpus[c].id)].affinity = cpus[c].affinity
           /\ regs[c].stack = cpus[c].id
           /\ regs[c].config = HostConfig
           /\ pc[c] = "worker" => regs[c].controls = "host"
    /\ \A c, d \in Trusted : c # d => regs[c].stack # regs[d].stack
    /\ \A i \in Ids : lifecycle[i] = "Parked" => \E c \in Trusted : pc[c] = "worker" /\ cpus[c].id = i
    /\ \A c \in Secondaries \ early :
           /\ pc[c] # "firmware" => cpus[c].id \in attempted
           /\ (pc[c] \in {"rejected", "halted"}) =>
                  ~supported[c] \/ regs[c].controls = "other" \/ claimed[cpus[c].id] \in early

=============================================================================
