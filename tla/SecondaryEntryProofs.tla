------------------------ MODULE SecondaryEntryProofs ------------------------
(***************************************************************************)
(* A released CPU enters as itself, and so does every CPU that becomes a   *)
(* worker, for any number of slots, any machine whose CPUs have affinities *)
(* of their own, anything left in memory and any order of write-backs.     *)
(*                                                                         *)
(* The argument: CPU0 writes a slot once, for one CPU, the configuration   *)
(* after the slots, and the token of an id after the checks of its CPU     *)
(* (ImageInv).  Cells are stored after everything was written back         *)
(* (ReleaseInv), so a released CPU reads what CPU0 wrote, and finds its    *)
(* own slot (ReleasedInv).  A CPU that nobody released may have read       *)
(* anything, but the entry of an id is claimed once, after CPU0 started it *)
(* (ClaimInv), and its validation is against the coherent slot: affinities *)
(* are apart, so only the owner of the id passes it (EntrantInv).          *)
(***************************************************************************)
EXTENDS SecondaryEntry, TLAPS

BeforeSteps == {"slots", "platform", "prepare", "publish"}
ReleaseSteps == {"release", "store", "clean", "wait"}
ClaimedSteps == {"validate", "worker", "halted"}
InstalledSteps == ClaimedSteps \cup {"mmu", "rust"}
StackSteps == InstalledSteps \cup {"root", "config"}
TokenSteps == StackSteps \cup {"stack"}
MatchedSteps == TokenSteps \cup {"token", "lost"}
Steps == MatchedSteps \cup {"firmware", "entry", "lookup", "rejected"}

Registers ==
    [at : 0 .. MaxCpus, found : Ids \cup {None}, generation : Nat, stack : Nat \cup {None},
     context : Ids \cup {None}, config : Configs, controls : {"firmware", "host", "other"}]

Typed(lines) ==
    /\ DOMAIN lines = Lines /\ lines[Config] \in Configs
    /\ \A i \in Ids : lines[Slot(i)] \in Slots /\ lines[Mailbox(i)] \in Nat

Types ==
    /\ cpus \in Topologies
    /\ bpc \in BeforeSteps \cup ReleaseSteps \cup {"ready", "failed"}
    /\ DOMAIN cache = Lines /\ Typed(memory) /\ DOMAIN lifecycle = Ids
    /\ claimed \in [Ids -> Secondaries \cup {None}]
    /\ pc \in [Secondaries -> Steps]
    /\ supported \in [Secondaries -> BOOLEAN]
    /\ early \subseteq Secondaries
    /\ regs \in [Secondaries -> Registers]

\* The CPU k is the only enabled one with the id t, and no other has its cell.
IsOwner(k, t) ==
    /\ k \in Enabled /\ cpus[k].id = t /\ t \in Ids \ {0}
    /\ \A j \in DOMAIN cpus \ {k} :
        (cpus[j].enabled => cpus[j].id # t) /\ cpus[j].startup # cpus[k].startup

\* The slot i is the one prepared for the CPU k.
Holds(i, k) ==
    /\ cache[Slot(i)] = Context(i, cpus[k].affinity)
    /\ (k = 1 /\ i = 0) \/ (k \in Enabled /\ cpus[k].id = i)

SlotInv(i) == cache[Slot(i)] = EmptySlot \/ \E k \in DOMAIN cpus : Holds(i, k)

TokenInv(i) ==
    /\ cache[Mailbox(i)] \in {0, Generation}
    /\ cache[Mailbox(i)] # 0 =>
        cache[Config] = HostConfig /\ validate_spin_table_target(i) # None

\* What CPU0 wrote.
ImageInv ==
    /\ \A i \in Ids : SlotInv(i) /\ TokenInv(i)
    /\ cache[Config] \in {NoConfig, HostConfig}
    /\ bpc = "slots" => \A i \in Ids \ {0} : cache[Slot(i)] = EmptySlot
    /\ bpc \in {"slots", "platform"} => cache[Config] = NoConfig
    /\ bpc = "prepare" => cache[Config] = HostConfig
    /\ bpc # "slots" => \A k \in DOMAIN cpus : IsOwner(k, cpus[k].id) => Holds(cpus[k].id, k)

\* The CPU with the id t may be released.
Ready(t) == validate_spin_table_target(t) # None /\ cache[Mailbox(t)] = Generation

ReleaseInv ==
    /\ bpc \in BeforeSteps => attempted = {}
    /\ bpc \in {"slots", "platform"} => target = 1
    /\ bpc = "prepare" => target = 1 \/ Ready(1)
    /\ bpc = "publish" => Ready(1)
    /\ attempted # {} \/ bpc \in ReleaseSteps => \A l \in Lines : memory[l] = cache[l]
    /\ bpc \in ReleaseSteps => Ready(target) /\ \A t \in secondary_mask : Ready(t)
    /\ bpc \in {"store", "clean"} => target \in attempted
    /\ \A t \in attempted : Ready(t)
    /\ \A a \in cellCache \cup cellMemory : \E t \in attempted : a = validate_spin_table_target(t)

\* The entry of an id is claimed once, while its lifecycle is Starting, and the claimant parks it.
ClaimInv(i) ==
    /\ lifecycle[i] = "Starting" \/ claimed[i] # None => i \in attempted
    /\ i \in attempted /\ claimed[i] = None => lifecycle[i] = "Starting"
    /\ claimed[i] # None => regs[claimed[i]].found = i /\ pc[claimed[i]] \in ClaimedSteps
    /\ lifecycle[i] = "Parked" => claimed[i] # None /\ pc[claimed[i]] = "worker"

\* What every CPU has, wherever it came from.
EntrantInv(c) ==
    /\ pc[c] \in {"firmware", "entry"} => regs[c] = NoRegs
    /\ pc[c] \notin {"firmware", "entry", "rejected"} => supported[c]
    /\ pc[c] \in MatchedSteps => regs[c].found \in Ids \ {0}
    /\ pc[c] = "validate" => claimed[regs[c].found] = c /\ lifecycle[regs[c].found] = "Starting"
    /\ pc[c] = "worker" =>
        /\ cpus[c].id \in attempted /\ IsOwner(c, cpus[c].id) /\ regs[c].found = cpus[c].id
        /\ regs[c].stack = cpus[c].id /\ regs[c].context = cpus[c].id
        /\ regs[c].config = HostConfig /\ regs[c].controls = "host"

\* What a CPU has that came through its cell.
ReleasedInv(c) ==
    c \notin early /\ pc[c] # "firmware" =>
        /\ cpus[c].id \in attempted /\ IsOwner(c, cpus[c].id)
        /\ pc[c] = "lookup" =>
            regs[c].found = IF cpus[c].id < regs[c].at THEN cpus[c].id ELSE None
        /\ pc[c] \in MatchedSteps => regs[c].found = cpus[c].id
        /\ pc[c] \in TokenSteps => regs[c].generation = Generation
        /\ pc[c] \in StackSteps => regs[c].stack = cpus[c].id
        /\ pc[c] \in InstalledSteps =>
            /\ regs[c].context = cpus[c].id /\ regs[c].config = HostConfig
            /\ regs[c].controls \in {"host", "other"}
        /\ pc[c] = "rejected" => ~supported[c]
        /\ pc[c] = "halted" => regs[c].controls = "other" \/ claimed[cpus[c].id] \in early

CpuInv == \A c \in Secondaries : EntrantInv(c) /\ ReleasedInv(c)

IInv == Types /\ ImageInv /\ ReleaseInv /\ (\A i \in Ids : ClaimInv(i)) /\ CpuInv

-----------------------------------------------------------------------------
(* Lines, slots and the machine. *)

\* The lines of the published image are apart.
LEMMA LinesApart ==
    /\ 0 \in Ids /\ Config \in Lines /\ Config[1] # "slot"
    /\ \A i \in Ids :
        /\ Slot(i) \in Lines /\ Slot(i)[1] = "slot" /\ Slot(i)[2] = i /\ Slot(i) # Config
        /\ Mailbox(i) \in Lines /\ Mailbox(i)[1] # "slot" /\ Mailbox(i) # Config
    /\ \A i, j \in Ids :
        /\ Slot(i) # Mailbox(j)
        /\ Slot(i) = Slot(j) => i = j
        /\ Mailbox(i) = Mailbox(j) => i = j
    BY CpusAssumption DEF Ids, Lines, Slot, Mailbox, Config

\* The fields of a slot.
LEMMA ContextFields ==
    /\ ~EmptySlot.present
    /\ \A i, a : /\ Context(i, a).present /\ Context(i, a).id = i
                 /\ Context(i, a).affinity = a /\ Context(i, a).stack = i
    BY DEF EmptySlot, Context

\* CPU descriptions: affinities are apart, and the boot CPU is not a secondary.
LEMMA Machine ==
    ASSUME Types
    PROVE  /\ DOMAIN cpus = 1 .. Len(cpus) /\ Len(cpus) \in Nat
           /\ 1 \in DOMAIN cpus
           /\ \A c \in Secondaries : c \in DOMAIN cpus /\ c # 1
           /\ \A i, j \in DOMAIN cpus : cpus[i].affinity = cpus[j].affinity => i = j
<1>1. cpus \in Topologies
    BY DEF Types
<1>2. /\ cpus \in Seq([affinity : Nat, enabled : BOOLEAN, id : Nat \cup {None}, startup : Nat \cup {None}])
      /\ cpus # <<>>
      /\ \A i, j \in DOMAIN cpus : cpus[i].affinity = cpus[j].affinity => i = j
    BY <1>1, TopologyAssumption, Zenon
<1>3. DOMAIN cpus = 1 .. Len(cpus) /\ Len(cpus) \in Nat /\ 1 \in DOMAIN cpus
    BY <1>2
<1>4. \A c \in Secondaries : c \in DOMAIN cpus /\ c # 1
    BY <1>3 DEF Secondaries
<1> QED
    BY <1>2, <1>3, <1>4, Zenon

\* What is computed from the descriptions alone does not change.
LEMMA SameMachine ==
    ASSUME cpus' = cpus
    PROVE  /\ Enabled' = Enabled /\ Secondaries' = Secondaries /\ secondary_mask' = secondary_mask
           /\ \A t : validate_spin_table_target(t)' = validate_spin_table_target(t)
           /\ \A k, t : IsOwner(k, t)' <=> IsOwner(k, t)
<1>1. Enabled' = Enabled /\ Secondaries' = Secondaries
    BY Zenon DEF Enabled, Secondaries
<1>2. secondary_mask' = secondary_mask
    BY <1>1 DEF secondary_mask
<1>3. ASSUME NEW t PROVE validate_spin_table_target(t)' = validate_spin_table_target(t)
    BY DEF validate_spin_table_target
<1>4. ASSUME NEW k, NEW t PROVE IsOwner(k, t)' <=> IsOwner(k, t)
    BY <1>1, Zenon DEF IsOwner
<1> QED
    BY <1>1, <1>2, <1>3, <1>4, Zenon

\* A release address belongs to one CPU, and so does its id.
LEMMA TargetOwner ==
    ASSUME NEW t, validate_spin_table_target(t) # None
    PROVE  \E k \in DOMAIN cpus : IsOwner(k, t) /\ validate_spin_table_target(t) = cpus[k].startup
<1> DEFINE i == CHOOSE k \in DOMAIN cpus : cpus[k].id = t
           valid == /\ \E k \in DOMAIN cpus : cpus[k].id = t
                    /\ t \in Ids \ {0}
                    /\ cpus[i].enabled
                    /\ \A k \in DOMAIN cpus \ {i} :
                        cpus[k].enabled => cpus[k].id # t /\ cpus[k].affinity # cpus[i].affinity
                    /\ cpus[i].startup # None
                    /\ cpus[i].startup % 8 = 0
                    /\ \A k \in DOMAIN cpus \ {i} : cpus[k].startup # cpus[i].startup
<1>1. validate_spin_table_target(t) = IF valid THEN cpus[i].startup ELSE None
    BY DEF validate_spin_table_target
<1> HIDE DEF valid, i
<1>2. valid /\ validate_spin_table_target(t) = cpus[i].startup
    BY <1>1, Zenon
<1>3. i \in DOMAIN cpus /\ cpus[i].id = t
    BY <1>2, Zenon DEF valid, i
<1>4. IsOwner(i, t)
    BY <1>2, <1>3, Zenon DEF valid, IsOwner, Enabled
<1> QED
    BY <1>2, <1>3, <1>4, Zenon

\* An id has one owner.
LEMMA OneOwner ==
    ASSUME NEW t, NEW k, NEW j, IsOwner(k, t), j \in Enabled, cpus[j].id = t
    PROVE  j = k
    BY Zenon DEF IsOwner, Enabled

\* The slot of an id that CPU0 released is its owner's.
LEMMA AttemptedOwn ==
    ASSUME IInv, NEW t \in attempted
    PROVE  /\ t \in Ids \ {0} /\ \A l \in Lines : memory[l] = cache[l]
           /\ cache[Mailbox(t)] = Generation /\ cache[Config] = HostConfig
           /\ \E k \in DOMAIN cpus : IsOwner(k, t) /\ cache[Slot(t)] = Context(t, cpus[k].affinity)
<1>1. /\ Ready(t) /\ bpc # "slots" /\ \A l \in Lines : memory[l] = cache[l]
    BY Zenon DEF IInv, ReleaseInv, BeforeSteps
<1>2. validate_spin_table_target(t) # None /\ cache[Mailbox(t)] = Generation
    BY <1>1, Zenon DEF Ready
<1>3. PICK k \in DOMAIN cpus : IsOwner(k, t)
    BY <1>2, TargetOwner, Zenon
<1>4. t \in Ids \ {0} /\ cpus[k].id = t
    BY <1>3, Zenon DEF IsOwner
<1>5. cache[Slot(t)] = Context(t, cpus[k].affinity)
    BY <1>1, <1>3, <1>4, Zenon DEF IInv, ImageInv, Holds
<1>6. Generation # 0
    BY DEF Generation
<1>7. cache[Config] = HostConfig
    BY <1>2, <1>4, <1>6, Zenon DEF IInv, ImageInv, TokenInv
<1> QED
    BY <1>1, <1>2, <1>3, <1>4, <1>5, <1>7, Zenon

-----------------------------------------------------------------------------
(* One step. *)

\* The steps of the secondaries leave CPU0 and what it wrote alone.
LEMMA SecondaryFrame ==
    ASSUME NEW c, SecondaryNext(c)
    PROVE  UNCHANGED <<cpus, boot, image, cells, supported>>
    BY Zenon DEF SecondaryNext, Untouched, FirmwareEnters, ArrivesEarly, CheckRegime, Lookup, ReadId,
       ReadToken, ReadStack, CheckRoot, Install, CrossRustBoundary, GetLost, ClaimEntry, Park

\* A secondary changes its own registers only.
LEMMA OthersKeepTheirs ==
    ASSUME Types, NEW c \in Secondaries, SecondaryNext(c), NEW d \in Secondaries, d # c
    PROVE  pc'[d] = pc[d] /\ regs'[d] = regs[d] /\ (d \in early' <=> d \in early)
<1>1. DOMAIN pc = Secondaries /\ DOMAIN regs = Secondaries
    BY DEF Types
<1>2. \E to : pc' = [pc EXCEPT ![c] = to]
    BY Zenon DEF SecondaryNext, Advance, FirmwareEnters, ArrivesEarly, CheckRegime, Lookup, ReadId,
       ReadToken, ReadStack, CheckRoot, Install, CrossRustBoundary, GetLost, ClaimEntry, Park
<1>3. regs' = regs \/ \E r : regs' = [regs EXCEPT ![c] = r]
    BY Zenon DEF SecondaryNext, FirmwareEnters, ArrivesEarly, CheckRegime, Lookup, ReadId,
       ReadToken, ReadStack, CheckRoot, Install, CrossRustBoundary, GetLost, ClaimEntry, Park
<1>4. early' = early \/ early' = early \cup {c}
    BY Zenon DEF SecondaryNext, FirmwareEnters, ArrivesEarly, CheckRegime, Lookup, ReadId,
       ReadToken, ReadStack, CheckRoot, Install, CrossRustBoundary, GetLost, ClaimEntry, Park
<1> QED
    BY <1>1, <1>2, <1>3, <1>4, Zenon

\* The steps of a CPU outside the claim.
UnclaimedNext(c) ==
    \/ FirmwareEnters(c) \/ ArrivesEarly(c) \/ CheckRegime(c) \/ Lookup(c)
    \/ ReadId(c) \/ ReadToken(c) \/ ReadStack(c) \/ CheckRoot(c) \/ Install(c)
    \/ CrossRustBoundary(c) \/ GetLost(c)

BootNext ==
    \/ PrepareSlots \/ ValidatePlatform \/ PrepareCpu \/ PublishAllStartups
    \/ ReleaseSecondary \/ StoreReleaseCell \/ CleanReleaseCell \/ WaitForSecondary

WriteBackNext == (\E l \in Lines : WriteBack(l)) \/ (\E a \in cellCache : WriteBackCells(a))

\* CPU0 and the caches leave the secondaries alone.
LEMMA BootFrame ==
    ASSUME BootNext \/ WriteBackNext \/ UNCHANGED vars
    PROVE  UNCHANGED <<cpus, entrant, supported>>
    BY Zenon DEF BootNext, WriteBackNext, PrepareSlots, ValidatePlatform, PrepareCpu, PublishAllStartups,
       ReleaseSecondary, StoreReleaseCell, CleanReleaseCell, WaitForSecondary, WriteBack,
       WriteBackCells, vars

\* A step is one of CPU0, a write-back, one of a secondary, or nothing.
LEMMA Split ==
    ASSUME [Next]_vars
    PROVE  BootNext \/ WriteBackNext \/ UNCHANGED vars \/ \E c \in Secondaries : SecondaryNext(c)
    BY Zenon DEF Next, BootNext, WriteBackNext

\* The machine never changes.
LEMMA MachineStep ==
    ASSUME [Next]_vars
    PROVE  cpus' = cpus /\ supported' = supported
    BY Split, SecondaryFrame, BootFrame, Zenon

\* What a CPU has after it compared one slot.
LEMMA LookupRegisters ==
    ASSUME Types, NEW c \in Secondaries, Lookup(c)
    PROVE  /\ regs'[c] \in Registers /\ regs[c].at \in Ids /\ regs'[c].at = regs[c].at + 1
           /\ IF memory[Slot(regs[c].at)].present /\ memory[Slot(regs[c].at)].affinity = cpus[c].affinity
              THEN regs'[c].found = regs[c].at
              ELSE regs'[c].found = regs[c].found
           /\ regs' = [regs EXCEPT ![c] = regs'[c]]
<1> DEFINE i == regs[c].at
           match == memory[Slot(i)].present /\ memory[Slot(i)].affinity = cpus[c].affinity
           f == IF match THEN i ELSE regs[c].found
<1>1. /\ i < MaxCpus
      /\ regs' = [regs EXCEPT ![c] = [regs[c] EXCEPT !.at = i + 1, !.found = f]]
    BY Zenon DEF Lookup
<1>2. regs \in [Secondaries -> Registers] /\ regs[c] \in Registers
    BY Zenon DEF Types
<1>3. i \in Ids /\ i + 1 \in 0 .. MaxCpus
    BY <1>1, <1>2, CpusAssumption DEF Registers, Ids
<1> HIDE DEF match
<1>4. f \in Ids \cup {None} /\ IF match THEN f = i ELSE f = regs[c].found
    BY <1>2, <1>3, Zenon DEF Registers
<1> HIDE DEF f
<1> DEFINE q == [regs[c] EXCEPT !.at = i + 1, !.found = f]
<1>5. q \in Registers /\ q.at = i + 1 /\ q.found = f
    BY <1>2, <1>3, <1>4, Zenon DEF Registers
<1> HIDE DEF q
<1>6. regs' = [regs EXCEPT ![c] = q] /\ regs'[c] = q
    BY <1>1, <1>2, Zenon DEF q
<1> QED
    BY <1>3, <1>4, <1>5, <1>6, Zenon DEF match

\* What a CPU has after it read its token.
LEMMA TokenRegisters ==
    ASSUME Types, NEW c \in Secondaries, ReadToken(c), regs[c].found \in Ids
    PROVE  /\ regs'[c] \in Registers /\ regs' = [regs EXCEPT ![c] = regs'[c]]
           /\ regs'[c].found = regs[c].found
           /\ regs'[c].generation = memory[Mailbox(regs[c].found)]
<1> DEFINE x == memory[Mailbox(regs[c].found)]
           q == [regs[c] EXCEPT !.generation = x]
<1>1. regs \in [Secondaries -> Registers] /\ regs[c] \in Registers /\ x \in Nat
    BY Zenon DEF Types, Typed
<1>2. regs' = [regs EXCEPT ![c] = q]
    BY Zenon DEF ReadToken
<1> HIDE DEF x
<1>3. q \in Registers /\ q.found = regs[c].found /\ q.generation = x
    BY <1>1, Zenon DEF Registers
<1> HIDE DEF q
<1>4. regs'[c] = q
    BY <1>1, <1>2, Zenon
<1> QED
    BY <1>2, <1>3, <1>4, Zenon DEF x

\* What a CPU has after it read the bounds of its stack.
LEMMA StackRegisters ==
    ASSUME Types, NEW c \in Secondaries, ReadStack(c), regs[c].found \in Ids
    PROVE  /\ regs'[c] \in Registers /\ regs' = [regs EXCEPT ![c] = regs'[c]]
           /\ regs'[c].found = regs[c].found /\ regs'[c].generation = regs[c].generation
           /\ regs'[c].stack = memory[Slot(regs[c].found)].stack
<1> DEFINE x == memory[Slot(regs[c].found)].stack
           q == [regs[c] EXCEPT !.stack = x]
<1>1. memory[Slot(regs[c].found)] \in Slots
    BY Zenon DEF Types, Typed
<1>2. regs \in [Secondaries -> Registers] /\ regs[c] \in Registers /\ x \in Nat \cup {None}
    BY <1>1, Zenon DEF Types, Slots
<1>3. regs' = [regs EXCEPT ![c] = q]
    BY Zenon DEF ReadStack
<1> HIDE DEF x
<1>4. /\ q \in Registers /\ q.found = regs[c].found /\ q.generation = regs[c].generation
      /\ q.stack = x
    BY <1>2, Zenon DEF Registers
<1> HIDE DEF q
<1>5. regs'[c] = q
    BY <1>2, <1>3, Zenon
<1> QED
    BY <1>3, <1>4, <1>5, Zenon DEF x

\* What a CPU has after it installed its context and its configuration.
LEMMA InstallRegisters ==
    ASSUME Types, NEW c \in Secondaries, Install(c)
    PROVE  /\ regs'[c] \in Registers /\ regs' = [regs EXCEPT ![c] = regs'[c]]
           /\ regs'[c].found = regs[c].found /\ regs'[c].generation = regs[c].generation
           /\ regs'[c].stack = regs[c].stack /\ regs'[c].context = regs[c].found
           /\ regs'[c].config = memory[Config] /\ regs'[c].controls \in {"host", "other"}
<1> DEFINE x == memory[Config]
<1>1. regs \in [Secondaries -> Registers] /\ regs[c] \in Registers /\ x \in Configs
    BY Zenon DEF Types, Typed
<1>2. PICK s \in {"host", "other"} :
        regs' = [regs EXCEPT ![c] = [regs[c] EXCEPT !.context = regs[c].found, !.config = x,
                                                    !.controls = s]]
    BY Zenon DEF Install
<1> HIDE DEF x
<1> DEFINE q == [regs[c] EXCEPT !.context = regs[c].found, !.config = x, !.controls = s]
<1>3. /\ q \in Registers /\ q.found = regs[c].found /\ q.generation = regs[c].generation
      /\ q.stack = regs[c].stack /\ q.context = regs[c].found /\ q.config = x /\ q.controls = s
    BY <1>1, <1>2, Zenon DEF Registers
<1>4. regs' = [regs EXCEPT ![c] = q]
    BY <1>2, Zenon
<1> HIDE DEF q
<1>5. regs'[c] = q
    BY <1>1, <1>4, Zenon
<1> QED
    BY <1>2, <1>3, <1>4, <1>5, Zenon DEF x

\* A CPU that goes on after its lookup has found a slot.
LEMMA MatchedFound ==
    ASSUME IInv, NEW c \in Secondaries, pc[c] \in MatchedSteps
    PROVE  regs[c].found \in Ids /\ regs[c].found # 0
    BY Zenon DEF IInv, CpuInv, EntrantInv

\* The coherent image is typed, as memory is.
LEMMA CacheTyped ==
    ASSUME IInv
    PROVE  Typed(cache)
<1>1. DOMAIN cache = Lines /\ cache[Config] \in Configs
    BY Zenon DEF IInv, Types, ImageInv, Configs
<1>2. ASSUME NEW i \in Ids
      PROVE  cache[Slot(i)] \in Slots
    <2>1. i \in Nat
        BY CpusAssumption DEF Ids
    <2>2. \A k \in DOMAIN cpus : cpus[k].affinity \in Nat
        <3> DEFINE S == [affinity : Nat, enabled : BOOLEAN, id : Nat \cup {None},
                         startup : Nat \cup {None}]
        <3>1. cpus \in Seq(S)
            BY TopologyAssumption, Zenon DEF IInv, Types
        <3> HIDE DEF S
        <3>2. \A k \in DOMAIN cpus : cpus[k] \in S
            BY <3>1
        <3> QED
            BY <3>2, Zenon DEF S
    <2>3. SlotInv(i)
        BY Zenon DEF IInv, ImageInv
    <2>4. EmptySlot \in Slots
        BY DEF EmptySlot, Slots
    <2>5. \A a \in Nat : Context(i, a) \in Slots
        BY <2>1 DEF Context, Slots
    <2> QED
        BY <2>2, <2>3, <2>4, <2>5, Zenon DEF SlotInv, Holds
<1>3. ASSUME NEW i \in Ids
      PROVE  cache[Mailbox(i)] \in Nat
    <2>1. cache[Mailbox(i)] \in {0, Generation}
        BY Zenon DEF IInv, ImageInv, TokenInv
    <2> QED
        BY <2>1 DEF Generation
<1> QED
    BY <1>1, <1>2, <1>3, Zenon DEF Typed

\* A secondary changes one claim at most, and only for itself.
LEMMA ClaimMove ==
    ASSUME Types, NEW c \in Secondaries, SecondaryNext(c)
    PROVE  \/ /\ UNCHANGED <<lifecycle, claimed>> /\ pc[c] \notin ClaimedSteps
              /\ UnclaimedNext(c) \/ (ClaimEntry(c) /\ regs' = regs /\ pc'[c] = "halted")
           \/ /\ ClaimEntry(c) /\ lifecycle' = lifecycle /\ lifecycle[regs[c].found] = "Starting"
              /\ claimed[regs[c].found] = None /\ claimed' = [claimed EXCEPT ![regs[c].found] = c]
              /\ pc[c] = "rust" /\ pc'[c] = "validate" /\ regs' = regs
           \/ /\ Park(c) /\ claimed' = claimed /\ pc[c] = "validate" /\ regs' = regs
              /\ \/ /\ validate(c) = {} /\ pc'[c] = "worker"
                    /\ lifecycle' = [lifecycle EXCEPT ![regs[c].found] = "Parked"]
                 \/ /\ validate(c) # {} /\ pc'[c] = "halted"
                    /\ lifecycle' = [lifecycle EXCEPT ![regs[c].found] = "Failed"]
<1>1. DOMAIN pc = Secondaries
    BY Zenon DEF Types
<1>2. CASE ClaimEntry(c)
    BY <1>1, <1>2, Zenon DEF ClaimEntry, Advance, ClaimedSteps
<1>3. CASE Park(c)
    <2> DEFINE end == IF validate(c) = {} THEN "Parked" ELSE "Failed"
    <2>1. /\ claimed' = claimed /\ pc[c] = "validate" /\ regs' = regs
          /\ lifecycle' = [lifecycle EXCEPT ![regs[c].found] = end]
          /\ pc' = [pc EXCEPT ![c] = IF end = "Parked" THEN "worker" ELSE "halted"]
        BY <1>3, Zenon DEF Park
    <2>2. CASE validate(c) = {}
        <3>1. end = "Parked"
            BY <2>2, Zenon
        <3> QED
            BY <1>1, <1>3, <2>1, <2>2, <3>1, Zenon
    <2>3. CASE validate(c) # {}
        <3>1. end = "Failed" /\ end # "Parked"
            BY <2>3
        <3> QED
            BY <1>1, <1>3, <2>1, <2>3, <3>1, Zenon
    <2> QED
        BY <2>2, <2>3
<1>4. CASE UnclaimedNext(c)
    BY <1>4, Zenon DEF UnclaimedNext, Advance, ClaimedSteps, FirmwareEnters, ArrivesEarly, CheckRegime,
       Lookup, ReadId, ReadToken, ReadStack, CheckRoot, Install, CrossRustBoundary, GetLost
<1> QED
    BY <1>2, <1>3, <1>4, Zenon DEF SecondaryNext, UnclaimedNext

\* The types of CPU0's state, of the image and of the entrants.
LEMMA TypesStep ==
    ASSUME IInv, [Next]_vars
    PROVE  Types'
<1>1. cpus' = cpus /\ supported' = supported /\ Secondaries' = Secondaries
    BY MachineStep, SameMachine, Zenon
<1>2. Types
    BY Zenon DEF IInv
<1>3. CASE UNCHANGED <<boot, image, lifecycle, entrant>>
    BY <1>1, <1>2, <1>3, Zenon DEF Types, Typed, boot, image, entrant
<1>4. CASE BootNext \/ WriteBackNext
    <2>1. UNCHANGED <<pc, early, regs, claimed>>
        BY <1>4, BootFrame, Zenon DEF entrant
    <2>2. DOMAIN cache' = Lines /\ DOMAIN memory' = Lines /\ DOMAIN lifecycle' = Ids
        BY <1>2, <1>4 DEF Types, Typed, BootNext, WriteBackNext, PrepareSlots, ValidatePlatform,
           PrepareCpu, PublishAllStartups, ReleaseSecondary, StoreReleaseCell, CleanReleaseCell,
           WaitForSecondary, WriteBack, WriteBackCells, publish, publish_startup,
           publish_shared_startup, image, boot
    <2>3. bpc' \in BeforeSteps \cup ReleaseSteps \cup {"ready", "failed"}
        BY <1>2, <1>4 DEF Types, BeforeSteps, ReleaseSteps, BootNext, WriteBackNext, PrepareSlots,
           ValidatePlatform, PrepareCpu, PublishAllStartups, ReleaseSecondary, StoreReleaseCell,
           CleanReleaseCell, WaitForSecondary, WriteBack, WriteBackCells, NextTarget, boot
    <2>4. \A l \in Lines : memory'[l] \in {memory[l], cache[l]}
        <3>1. DOMAIN memory = Lines
            BY <1>2, Zenon DEF Types, Typed
        <3>2. memory' = memory \/ memory' = publish_shared_startup
              \/ \E l \in Lines : memory' = [memory EXCEPT ![l] = cache[l]]
            BY <1>4, Zenon DEF BootNext, WriteBackNext, PrepareSlots, ValidatePlatform, PrepareCpu,
               PublishAllStartups, ReleaseSecondary, StoreReleaseCell, CleanReleaseCell,
               WaitForSecondary, WriteBack, WriteBackCells, image
        <3> QED
            BY <3>1, <3>2, Zenon DEF publish_shared_startup
    <2>5. Typed(memory')
        <3>1. Typed(memory) /\ Typed(cache)
            BY <1>2, CacheTyped, Zenon DEF Types
        <3> QED
            BY <2>2, <2>4, <3>1, LinesApart, Zenon DEF Typed
    <2> QED
        BY <1>1, <1>2, <2>1, <2>2, <2>3, <2>5, Zenon DEF Types, Typed
<1>5. ASSUME NEW c \in Secondaries, SecondaryNext(c)
      PROVE  Types'
    <2>1. UNCHANGED <<bpc, cache, memory>>
        BY <1>5, SecondaryFrame, Zenon DEF boot, image
    <2>2. DOMAIN lifecycle' = Ids
        BY <1>2, <1>5, ClaimMove, Zenon DEF Types
    <2>3. pc' \in [Secondaries -> Steps]
        <3>1. \E to \in Steps : pc' = [pc EXCEPT ![c] = to]
            BY <1>5, Zenon DEF Steps, MatchedSteps, TokenSteps, StackSteps, InstalledSteps,
               ClaimedSteps, Advance, SecondaryNext, FirmwareEnters, ArrivesEarly, CheckRegime,
               Lookup, ReadId, ReadToken, ReadStack, CheckRoot, Install, CrossRustBoundary, GetLost,
               ClaimEntry, Park
        <3> QED
            BY <1>2, <3>1, Zenon DEF Types
    <2>4. early' \subseteq Secondaries
        BY <1>2, <1>5, Zenon DEF Types, SecondaryNext, FirmwareEnters, ArrivesEarly, CheckRegime,
           Lookup, ReadId, ReadToken, ReadStack, CheckRoot, Install, CrossRustBoundary, GetLost,
           ClaimEntry, Park
    <2>5. regs' \in [Secondaries -> Registers]
        <3>1. CASE UNCHANGED regs
            BY <1>2, <3>1, Zenon DEF Types
        <3>2. CASE Lookup(c) \/ ReadToken(c) \/ ReadStack(c) \/ Install(c)
            <4>1. ReadToken(c) \/ ReadStack(c) => regs[c].found \in Ids
                <5>1. ReadToken(c) \/ ReadStack(c) => pc[c] \in MatchedSteps
                    BY Zenon DEF ReadToken, ReadStack, Advance, MatchedSteps, TokenSteps
                <5> QED
                    BY <5>1, MatchedFound, Zenon
            <4>2. regs'[c] \in Registers /\ regs' = [regs EXCEPT ![c] = regs'[c]]
                BY <1>2, <3>2, <4>1, LookupRegisters, TokenRegisters, StackRegisters,
                   InstallRegisters, Zenon
            <4> QED
                BY <1>2, <4>2, Zenon DEF Types
        <3> QED
            BY <1>5, <3>1, <3>2, Zenon DEF SecondaryNext, FirmwareEnters, ArrivesEarly,
               CheckRegime, ReadId, CheckRoot, CrossRustBoundary, GetLost, ClaimEntry, Park
    <2>6. claimed' \in [Ids -> Secondaries \cup {None}]
        BY <1>2, <1>5, ClaimMove, Zenon DEF Types
    <2> QED
        BY <1>1, <1>2, <2>1, <2>2, <2>3, <2>4, <2>5, <2>6, Zenon DEF Types, Typed
<1> QED
    BY <1>3, <1>4, <1>5, Split, Zenon DEF vars

\* CPU0 prepares all slots in one step.
LEMMA PreparedSlots ==
    ASSUME IInv, PrepareSlots
    PROVE  /\ \A i \in Ids : /\ \/ cache'[Slot(i)] = cache[Slot(i)]
                                \/ /\ i # 0
                                   /\ \E k \in Enabled : /\ cpus[k].id = i
                                                         /\ cache'[Slot(i)] = Context(i, cpus[k].affinity)
                             /\ cache'[Mailbox(i)] = cache[Mailbox(i)]
           /\ cache'[Config] = cache[Config] /\ memory' = memory /\ cpus' = cpus
           /\ bpc = "slots" /\ bpc' = "platform"
           /\ \A k \in Enabled : cpus[k].id \in Ids \ {0} =>
                \E j \in Enabled : /\ cpus[j].id = cpus[k].id
                                   /\ cache'[Slot(cpus[k].id)] = Context(cpus[k].id, cpus[j].affinity)
<1> DEFINE mine == {i \in Enabled : cpus[i].id # 0}
           prepared == {cpus[i].id : i \in mine}
           of(t) == CHOOSE i \in mine : cpus[i].id = t
           value(l) == IF l[1] = "slot" /\ l[2] \in prepared
                       THEN Context(l[2], cpus[of(l[2])].affinity) ELSE cache[l]
<1>1. /\ bpc = "slots" /\ bpc' = "platform" /\ memory' = memory /\ cpus' = cpus
      /\ cache' = [l \in Lines |-> value(l)]
    BY Zenon DEF PrepareSlots
<1>2. \A t \in prepared : of(t) \in Enabled /\ cpus[of(t)].id = t /\ t # 0
    BY Zenon
<1> HIDE DEF of, prepared
<1>3. ASSUME NEW i \in Ids
      PROVE  /\ cache'[Mailbox(i)] = cache[Mailbox(i)]
             /\ i \in prepared => cache'[Slot(i)] = Context(i, cpus[of(i)].affinity)
             /\ i \notin prepared => cache'[Slot(i)] = cache[Slot(i)]
    <2>1. /\ Slot(i) \in Lines /\ Slot(i)[1] = "slot" /\ Slot(i)[2] = i
          /\ Mailbox(i) \in Lines /\ Mailbox(i)[1] # "slot"
        BY LinesApart, Zenon
    <2>2. cache'[Slot(i)] = value(Slot(i)) /\ cache'[Mailbox(i)] = value(Mailbox(i))
        BY <1>1, <2>1, Zenon
    <2> QED
        BY <2>1, <2>2, Zenon
<1>4. cache'[Config] = cache[Config]
    BY <1>1, LinesApart, Zenon
<1>5. \A k \in Enabled : cpus[k].id # 0 => cpus[k].id \in prepared
    BY Zenon DEF prepared
<1> QED
    BY <1>1, <1>2, <1>3, <1>4, <1>5, Zenon

\* ValidatePlatform and PrepareCpu write one line each.
LEMMA PublishedConfig ==
    ASSUME IInv, ValidatePlatform
    PROVE  /\ bpc = "platform" /\ bpc' \in {"prepare", "failed"} /\ memory' = memory /\ cpus' = cpus
           /\ bpc' = "prepare" => cache'[Config] = HostConfig
           /\ bpc' = "failed" => cache' = cache
           /\ \A i \in Ids : /\ cache'[Slot(i)] = cache[Slot(i)]
                             /\ cache'[Mailbox(i)] = cache[Mailbox(i)]
<1>1. DOMAIN cache = Lines
    BY Zenon DEF IInv, Types
<1>2. \/ bpc' = "prepare" /\ cache' = [cache EXCEPT ![Config] = HostConfig]
      \/ bpc' = "failed" /\ cache' = cache
    BY Zenon DEF ValidatePlatform, publish
<1>3. bpc = "platform" /\ memory' = memory /\ cpus' = cpus
    BY Zenon DEF ValidatePlatform
<1> QED
    BY <1>1, <1>2, <1>3, LinesApart, Zenon

\* prepare_cpu publishes one token, of a target that was validated.
LEMMA PublishedToken ==
    ASSUME IInv, PrepareCpu
    PROVE  /\ bpc = "prepare" /\ memory' = memory /\ cpus' = cpus
           /\ \/ /\ bpc' = "failed" /\ cache' = cache
              \/ /\ bpc' \in {"prepare", "publish"} /\ target \in Ids
                 /\ validate_spin_table_target(target) # None
                 /\ cache'[Mailbox(target)] = Generation /\ cache'[Config] = cache[Config]
                 /\ \A i \in Ids : /\ cache'[Slot(i)] = cache[Slot(i)]
                                   /\ i # target => cache'[Mailbox(i)] = cache[Mailbox(i)]
<1>1. DOMAIN cache = Lines
    BY Zenon DEF IInv, Types
<1>2. \/ bpc' = "failed" /\ cache' = cache
      \/ /\ startup_resources(target) /\ bpc' \in {"prepare", "publish"}
         /\ cache' = [cache EXCEPT ![Mailbox(target)] = Generation]
    BY Zenon DEF PrepareCpu, publish_startup, NextTarget
<1>3. bpc = "prepare" /\ memory' = memory /\ cpus' = cpus
    BY Zenon DEF PrepareCpu
<1>4. CASE startup_resources(target)
    <2>1. validate_spin_table_target(target) # None
        BY <1>4, Zenon DEF startup_resources
    <2>2. target \in Ids
        BY <2>1, TargetOwner, Zenon DEF IsOwner
    <2>3. CASE cache' = [cache EXCEPT ![Mailbox(target)] = Generation]
        <3>1. cache'[Mailbox(target)] = Generation /\ cache'[Config] = cache[Config]
            BY <1>1, <2>2, <2>3, LinesApart, Zenon
        <3>2. ASSUME NEW i \in Ids
              PROVE  /\ cache'[Slot(i)] = cache[Slot(i)]
                     /\ i # target => cache'[Mailbox(i)] = cache[Mailbox(i)]
            BY <1>1, <2>2, <2>3, LinesApart, Zenon
        <3> QED
            BY <1>2, <1>3, <2>1, <2>2, <3>1, <3>2, Zenon
    <2> QED
        BY <1>2, <1>3, <2>1, <2>2, <2>3, Zenon
<1> QED
    BY <1>2, <1>3, <1>4, Zenon

\* publish_shared_startup writes every line back, with every token in place.
LEMMA PublishedImage ==
    ASSUME PublishAllStartups
    PROVE  /\ bpc = "publish" /\ bpc' = "release" /\ cache' = cache /\ cpus' = cpus
           /\ target' = 1 /\ \A l \in Lines : memory'[l] = cache[l]
           /\ \A t \in secondary_mask : Ready(t)
    BY Zenon DEF PublishAllStartups, publish_shared_startup, validate_publication, startup_view, Ready

\* A line that is written back holds the coherent value.
LEMMA WrittenBack ==
    ASSUME IInv, NEW l \in Lines, WriteBack(l)
    PROVE  /\ cache' = cache /\ bpc' = bpc /\ cpus' = cpus
           /\ \A k \in Lines : memory'[k] \in {memory[k], cache[k]}
           /\ memory[l] # cache[l]
<1>1. DOMAIN memory = Lines
    BY Zenon DEF IInv, Types, Typed
<1> QED
    BY <1>1, Zenon DEF WriteBack, boot

\* The steps that write no line of the image.
LEMMA ImageFrame ==
    ASSUME \/ \E a \in cellCache : WriteBackCells(a)
           \/ ReleaseSecondary \/ StoreReleaseCell \/ CleanReleaseCell \/ WaitForSecondary
           \/ \E c \in Secondaries : SecondaryNext(c)
           \/ UNCHANGED vars
    PROVE  /\ cache' = cache /\ memory' = memory /\ cpus' = cpus
           /\ bpc' = bpc \/ (bpc \in ReleaseSteps /\ bpc' \in ReleaseSteps \cup {"ready", "failed"})
<1>1. CASE \E c \in Secondaries : SecondaryNext(c)
    BY <1>1, SecondaryFrame, Zenon DEF boot, image
<1>2. CASE (\E a \in cellCache : WriteBackCells(a)) \/ UNCHANGED vars
    BY <1>2, Zenon DEF WriteBackCells, vars, boot, image
<1>3. CASE ReleaseSecondary \/ StoreReleaseCell \/ CleanReleaseCell \/ WaitForSecondary
    BY <1>3, Zenon DEF ReleaseSecondary, StoreReleaseCell, CleanReleaseCell, WaitForSecondary,
       NextTarget, ReleaseSteps, image
<1> QED
    BY <1>1, <1>2, <1>3, Zenon

\* A token stays.
LEMMA TokenKeeps ==
    ASSUME IInv, [Next]_vars, NEW i \in Ids, cache[Mailbox(i)] = Generation
    PROVE  cache'[Mailbox(i)] = Generation
<1>1. CASE PrepareSlots
    BY <1>1, PreparedSlots, Zenon
<1>2. CASE ValidatePlatform
    BY <1>2, PublishedConfig, Zenon
<1>3. CASE PrepareCpu
    BY <1>3, PublishedToken, Zenon
<1>4. CASE PublishAllStartups
    BY <1>4, PublishedImage, Zenon
<1>5. ASSUME NEW l \in Lines, WriteBack(l)
      PROVE  cache' = cache
    BY <1>5, WrittenBack, Zenon
<1>6. CASE cache' = cache
    BY <1>6, Zenon
<1> QED
    BY <1>1, <1>2, <1>3, <1>4, <1>5, <1>6, ImageFrame, Split, Zenon DEF BootNext, WriteBackNext

\* CPU0 writes every line once, in the order slots, configuration, tokens.
LEMMA ImageStep ==
    ASSUME IInv, [Next]_vars
    PROVE  ImageInv'
<1>1. ImageInv /\ cpus' = cpus
    BY MachineStep, Zenon DEF IInv
<1>2. /\ Enabled' = Enabled
      /\ \A t : validate_spin_table_target(t)' = validate_spin_table_target(t)
      /\ \A k, t : IsOwner(k, t)' <=> IsOwner(k, t)
    BY <1>1, SameMachine, Zenon
<1>4. NoConfig # HostConfig /\ Generation # 0
    BY DEF NoConfig, HostConfig, Generation
<1>5. ASSUME NEW i \in Ids, NEW k, Holds(i, k), cache'[Slot(i)] = cache[Slot(i)]
      PROVE  Holds(i, k)'
    BY <1>1, <1>2, <1>5, Zenon DEF Holds
<1>6. CASE PrepareSlots
    <2>1. ASSUME NEW i \in Ids
          PROVE  SlotInv(i)'
        <3>1. SlotInv(i) /\ (i # 0 => cache[Slot(i)] = EmptySlot)
            BY <1>1, <1>6, PreparedSlots, Zenon DEF ImageInv
        <3>2. CASE cache'[Slot(i)] = cache[Slot(i)]
            BY <1>1, <1>5, <1>6, <3>1, <3>2, PreparedSlots, Zenon DEF SlotInv
        <3>3. ASSUME NEW k \in Enabled, i # 0, cpus[k].id = i,
                     cache'[Slot(i)] = Context(i, cpus[k].affinity)
              PROVE  SlotInv(i)'
            <4>1. Holds(i, k)' /\ k \in DOMAIN cpus
                BY <1>1, <1>2, <3>3, Zenon DEF Holds, Enabled
            <4> QED
                BY <1>1, <4>1, Zenon DEF SlotInv
        <3> QED
            BY <1>6, <3>2, <3>3, PreparedSlots, Zenon
    <2>2. ASSUME NEW i \in Ids
          PROVE  TokenInv(i)'
        BY <1>1, <1>2, <1>6, PreparedSlots, Zenon DEF ImageInv, TokenInv
    <2>3. ASSUME NEW k \in DOMAIN cpus, IsOwner(k, cpus[k].id)
          PROVE  Holds(cpus[k].id, k)'
        <3>1. k \in Enabled /\ cpus[k].id \in Ids \ {0}
            BY <2>3, Zenon DEF IsOwner
        <3>2. PICK j \in Enabled : /\ cpus[j].id = cpus[k].id
                                   /\ cache'[Slot(cpus[k].id)] = Context(cpus[k].id, cpus[j].affinity)
            BY <1>6, <3>1, PreparedSlots, Zenon
        <3>3. j = k
            BY <2>3, <3>2, OneOwner, Zenon
        <3> QED
            BY <1>1, <1>2, <3>1, <3>2, <3>3, Zenon DEF Holds
    <2> QED
        BY <1>1, <1>2, <1>6, <2>1, <2>2, <2>3, PreparedSlots, Zenon DEF ImageInv
<1>7. CASE /\ UNCHANGED <<cache, memory>>
           /\ bpc # "slots" /\ bpc' \notin {"slots", "platform", "prepare"}
    <2>1. \A i \in Ids : SlotInv(i)' /\ TokenInv(i)'
        BY <1>1, <1>2, <1>5, <1>7, Zenon DEF ImageInv, SlotInv, TokenInv
    <2>2. \A k \in DOMAIN cpus : IsOwner(k, cpus[k].id) => Holds(cpus[k].id, k)'
        BY <1>1, <1>5, <1>7, Zenon DEF ImageInv, IsOwner
    <2> QED
        BY <1>1, <1>2, <1>7, <2>1, <2>2, Zenon DEF ImageInv
<1>8. CASE UNCHANGED <<cache, memory, bpc>>
    <2>1. \A i \in Ids : SlotInv(i)' /\ TokenInv(i)'
        BY <1>1, <1>2, <1>5, <1>8, Zenon DEF ImageInv, SlotInv, TokenInv
    <2>2. bpc # "slots" => \A k \in DOMAIN cpus : IsOwner(k, cpus[k].id) => Holds(cpus[k].id, k)'
        BY <1>1, <1>5, <1>8, Zenon DEF ImageInv, IsOwner
    <2> QED
        BY <1>1, <1>2, <1>8, <2>1, <2>2, Zenon DEF ImageInv
<1>9. CASE ValidatePlatform
    <2>1. ASSUME NEW i \in Ids
          PROVE  SlotInv(i)' /\ TokenInv(i)'
        <3>1. SlotInv(i) /\ TokenInv(i) /\ cache[Config] = NoConfig
            BY <1>1, <1>9, PublishedConfig, Zenon DEF ImageInv
        <3>2. cache[Mailbox(i)] = 0
            BY <1>4, <3>1, Zenon DEF TokenInv
        <3> QED
            BY <1>1, <1>2, <1>5, <1>9, <3>1, <3>2, PublishedConfig, Zenon DEF SlotInv, TokenInv
    <2>2. \A k \in DOMAIN cpus : IsOwner(k, cpus[k].id) => Holds(cpus[k].id, k)'
        BY <1>1, <1>5, <1>9, PublishedConfig, Zenon DEF ImageInv, IsOwner
    <2>3. cache'[Config] \in {NoConfig, HostConfig}
        BY <1>1, <1>9, PublishedConfig, Zenon DEF ImageInv
    <2> QED
        BY <1>1, <1>2, <1>9, <2>1, <2>2, <2>3, PublishedConfig, Zenon DEF ImageInv
<1>10. CASE PrepareCpu
    <2>1. CASE bpc' = "failed" /\ cache' = cache
        BY <1>7, <1>10, <2>1, PublishedToken, Zenon
    <2>2. CASE /\ bpc' \in {"prepare", "publish"} /\ target \in Ids
               /\ validate_spin_table_target(target) # None
               /\ cache'[Mailbox(target)] = Generation /\ cache'[Config] = cache[Config]
               /\ \A i \in Ids : /\ cache'[Slot(i)] = cache[Slot(i)]
                                 /\ i # target => cache'[Mailbox(i)] = cache[Mailbox(i)]
        <3>1. cache[Config] = HostConfig /\ memory' = memory /\ bpc = "prepare"
            BY <1>1, <1>10, PublishedToken, Zenon DEF ImageInv
        <3>2. ASSUME NEW i \in Ids
              PROVE  SlotInv(i)'
            BY <1>1, <1>5, <2>2, <3>1, Zenon DEF ImageInv, SlotInv
        <3>3. ASSUME NEW i \in Ids
              PROVE  TokenInv(i)'
            <4>1. CASE i # target
                BY <1>1, <1>2, <2>2, <3>1, <4>1, Zenon DEF ImageInv, TokenInv
            <4>2. CASE i = target
                BY <1>2, <2>2, <3>1, <4>2, Zenon DEF TokenInv
            <4> QED
                BY <4>1, <4>2
        <3>4. \A k \in DOMAIN cpus : IsOwner(k, cpus[k].id) => Holds(cpus[k].id, k)'
            BY <1>1, <1>5, <2>2, <3>1, Zenon DEF ImageInv, IsOwner
        <3> QED
            BY <1>1, <1>2, <2>2, <3>1, <3>2, <3>3, <3>4, Zenon DEF ImageInv
    <2> QED
        BY <1>10, <2>1, <2>2, PublishedToken, Zenon
<1>11. ASSUME cache' = cache, bpc' = bpc \/ (bpc = "publish" /\ bpc' = "release")
       PROVE  ImageInv'
    <2>1. \A i \in Ids : SlotInv(i)' /\ TokenInv(i)'
        BY <1>1, <1>2, <1>5, <1>11, Zenon DEF ImageInv, SlotInv, TokenInv
    <2>2. bpc # "slots" => \A k \in DOMAIN cpus : IsOwner(k, cpus[k].id) => Holds(cpus[k].id, k)'
        BY <1>1, <1>5, <1>11, Zenon DEF ImageInv, IsOwner
    <2> QED
        BY <1>1, <1>2, <1>11, <2>1, <2>2, Zenon DEF ImageInv
<1>12. CASE PublishAllStartups
    BY <1>11, <1>12, PublishedImage, Zenon
<1>13. ASSUME NEW l \in Lines, WriteBack(l)
       PROVE  ImageInv'
    BY <1>11, <1>13, WrittenBack, Zenon
<1> QED
    <2>1. CASE /\ cache' = cache /\ memory' = memory
               /\ bpc' = bpc \/ (bpc \in ReleaseSteps /\ bpc' \in ReleaseSteps \cup {"ready", "failed"})
        BY <1>7, <1>8, <2>1, Zenon DEF ReleaseSteps
    <2> QED
        BY <1>6, <1>9, <1>10, <1>12, <1>13, <2>1, ImageFrame, Split, Zenon DEF BootNext, WriteBackNext

\* An id that may be released stays so.
LEMMA ReadyKeeps ==
    ASSUME IInv, [Next]_vars, NEW t, Ready(t)
    PROVE  Ready(t)'
<1>1. validate_spin_table_target(t)' # None
    BY MachineStep, SameMachine, Zenon DEF Ready
<1>2. t \in Ids
    BY TargetOwner, Zenon DEF Ready, IsOwner
<1> QED
    BY <1>1, <1>2, TokenKeeps, Zenon DEF Ready

\* Cells are stored after everything was written back.
LEMMA ReleaseStep ==
    ASSUME IInv, [Next]_vars
    PROVE  ReleaseInv'
<1>1. ReleaseInv /\ cpus' = cpus
    BY MachineStep, Zenon DEF IInv
<1>2. /\ secondary_mask' = secondary_mask
      /\ \A t : validate_spin_table_target(t)' = validate_spin_table_target(t)
    BY <1>1, SameMachine, Zenon
<1>3. \A t : Ready(t) => Ready(t)'
    BY ReadyKeeps, Zenon
<1>4. ASSUME attempted = {}, UNCHANGED <<attempted, cellCache, cellMemory>>
      PROVE  \A a \in cellCache' \cup cellMemory' : \E t \in attempted' : a = validate_spin_table_target(t)'
    BY <1>1, <1>4, Zenon DEF ReleaseInv
<1>5. CASE PrepareSlots \/ ValidatePlatform
    <2>1. /\ bpc \in {"slots", "platform"} /\ bpc' \in {"platform", "prepare", "failed"}
          /\ UNCHANGED <<target, attempted, cellCache, cellMemory>>
        BY <1>5, Zenon DEF PrepareSlots, ValidatePlatform, cells
    <2>2. attempted = {} /\ target = 1
        BY <1>1, <2>1, Zenon DEF ReleaseInv, BeforeSteps
    <2> QED
        BY <1>4, <2>1, <2>2, Zenon DEF ReleaseInv, ReleaseSteps
<1>6. CASE PrepareCpu
    <2>1. bpc = "prepare" /\ UNCHANGED <<attempted, cellCache, cellMemory>>
        BY <1>6, Zenon DEF PrepareCpu, cells
    <2>2. attempted = {} /\ (target = 1 \/ Ready(1))
        BY <1>1, <2>1, Zenon DEF ReleaseInv, BeforeSteps
    <2>3. \/ bpc' = "failed"
          \/ /\ bpc' \in {"prepare", "publish"}
             /\ validate_spin_table_target(target) # None /\ cache'[Mailbox(target)] = Generation
        BY <1>6, PublishedToken, Zenon
    <2>4. bpc' \in {"prepare", "publish"} => Ready(1)'
        BY <1>2, <1>3, <2>2, <2>3, Zenon DEF Ready
    <2> QED
        BY <1>4, <2>1, <2>2, <2>3, <2>4, Zenon DEF ReleaseInv, ReleaseSteps
<1>7. CASE PublishAllStartups
    <2>1. /\ bpc = "publish" /\ bpc' = "release" /\ target' = 1
          /\ UNCHANGED <<attempted, cache, cellCache, cellMemory>>
          /\ \A l \in Lines : memory'[l] = cache[l]
          /\ \A t \in secondary_mask : Ready(t)
        BY <1>7, PublishedImage, Zenon DEF PublishAllStartups, cells
    <2>2. attempted = {} /\ Ready(1)
        BY <1>1, <2>1, Zenon DEF ReleaseInv, BeforeSteps
    <2> QED
        BY <1>2, <1>3, <1>4, <2>1, <2>2, Zenon DEF ReleaseInv, BeforeSteps
<1>8. CASE ReleaseSecondary
    <2>1. /\ bpc = "release" /\ bpc' = "store" /\ attempted' = attempted \cup {target}
          /\ UNCHANGED <<target, cache, memory, cellCache, cellMemory>>
        BY <1>8, Zenon DEF ReleaseSecondary, image, cells
    <2> QED
        BY <1>1, <1>2, <1>3, <2>1, Zenon DEF ReleaseInv, BeforeSteps, ReleaseSteps
<1>9. CASE StoreReleaseCell
    <2>1. /\ bpc = "store" /\ bpc' = "clean"
          /\ cellCache' = cellCache \cup {validate_spin_table_target(target)}
          /\ UNCHANGED <<target, attempted, cache, memory, cellMemory>>
        BY <1>9, Zenon DEF StoreReleaseCell, image
    <2> QED
        BY <1>1, <1>2, <1>3, <2>1, Zenon DEF ReleaseInv, BeforeSteps, ReleaseSteps
<1>10. CASE CleanReleaseCell
    <2>1. /\ bpc = "clean" /\ bpc' = "wait" /\ cellMemory' \subseteq cellMemory \cup cellCache
          /\ UNCHANGED <<target, attempted, cache, memory, cellCache>>
        BY <1>10, Zenon DEF CleanReleaseCell, CellsWritten, image
    <2> QED
        BY <1>1, <1>2, <1>3, <2>1, Zenon DEF ReleaseInv, BeforeSteps, ReleaseSteps
<1>11. CASE WaitForSecondary
    <2>1. /\ bpc = "wait" /\ UNCHANGED <<attempted, cache, memory, cellCache, cellMemory>>
          /\ bpc' \in {"ready", "failed"} \/ (bpc' = "release" /\ target' \in secondary_mask)
        BY <1>11, Zenon DEF WaitForSecondary, NextTarget, image, cells
    <2> QED
        BY <1>1, <1>2, <1>3, <2>1, Zenon DEF ReleaseInv, BeforeSteps, ReleaseSteps
<1>12. ASSUME NEW l \in Lines, WriteBack(l)
       PROVE  ReleaseInv'
    <2>1. /\ memory[l] # cache[l] /\ UNCHANGED <<bpc, target, attempted, cellCache, cellMemory>>
        BY <1>12, Zenon DEF WriteBack, boot, cells
    <2>2. attempted = {} /\ bpc \notin ReleaseSteps
        BY <1>1, <2>1, Zenon DEF ReleaseInv
    <2> QED
        BY <1>1, <1>3, <1>4, <2>1, <2>2, Zenon DEF ReleaseInv
<1>13. ASSUME UNCHANGED <<bpc, target, attempted, cache, memory, cellCache>>,
              cellMemory' \subseteq cellMemory \cup cellCache
       PROVE  ReleaseInv'
    BY <1>1, <1>2, <1>3, <1>13, Zenon DEF ReleaseInv
<1>14. ASSUME NEW a \in cellCache, WriteBackCells(a)
       PROVE  ReleaseInv'
    BY <1>13, <1>14, Zenon DEF WriteBackCells, CellsWritten, boot, image
<1>15. ASSUME NEW c \in Secondaries, SecondaryNext(c)
       PROVE  ReleaseInv'
    BY <1>13, <1>15, SecondaryFrame, Zenon DEF boot, image, cells
<1>16. CASE UNCHANGED vars
    BY <1>13, <1>16, Zenon DEF vars, boot, image, cells
<1> QED
    BY <1>5, <1>6, <1>7, <1>8, <1>9, <1>10, <1>11, <1>12, <1>14, <1>15, <1>16, Split, Zenon
    DEF BootNext, WriteBackNext

\* What CPU0 released stays released.
LEMMA AttemptsStay ==
    ASSUME [Next]_vars
    PROVE  attempted \subseteq attempted'
<1>1. CASE \E c \in Secondaries : SecondaryNext(c)
    BY <1>1, SecondaryFrame, Zenon DEF boot
<1>2. CASE BootNext \/ WriteBackNext \/ UNCHANGED vars
    BY <1>2, Zenon DEF BootNext, WriteBackNext, PrepareSlots, ValidatePlatform, PrepareCpu,
       PublishAllStartups, ReleaseSecondary, StoreReleaseCell, CleanReleaseCell, WaitForSecondary,
       WriteBack, WriteBackCells, vars, boot
<1> QED
    BY <1>1, <1>2, Split, Zenon

\* CPU0 starts an id before its entry is claimed, and leaves it alone then.
LEMMA BootLifecycle ==
    ASSUME IInv, BootNext \/ WriteBackNext \/ UNCHANGED vars, NEW i \in Ids
    PROVE  /\ UNCHANGED <<pc, regs, claimed, early>>
           /\ \/ lifecycle'[i] = lifecycle[i] /\ (i \in attempted' <=> i \in attempted)
              \/ i \notin attempted /\ lifecycle'[i] = "Starting" /\ i \in attempted'
              \/ i \notin attempted' /\ i \notin attempted /\ lifecycle'[i] = "Prepared"
<1>1. UNCHANGED <<pc, regs, claimed, early>>
    BY BootFrame, Zenon DEF entrant
<1>2. DOMAIN lifecycle = Ids
    BY Zenon DEF IInv, Types
<1>3. CASE PrepareSlots
    <2>1. bpc = "slots" /\ attempted' = attempted
        BY <1>3, Zenon DEF PrepareSlots
    <2>2. attempted = {}
        BY <2>1, Zenon DEF IInv, ReleaseInv, BeforeSteps
    <2>3. lifecycle'[i] = lifecycle[i] \/ lifecycle'[i] = "Prepared"
        BY <1>3, Zenon DEF PrepareSlots
    <2> QED
        BY <1>1, <2>1, <2>2, <2>3, Zenon
<1>4. CASE ReleaseSecondary
    <2>1. /\ lifecycle' = [lifecycle EXCEPT ![target] = "Starting"]
          /\ attempted' = attempted \cup {target} /\ target \notin attempted
        BY <1>4, Zenon DEF ReleaseSecondary
    <2> QED
        BY <1>1, <1>2, <2>1, Zenon
<1>5. CASE ~PrepareSlots /\ ~ReleaseSecondary
    <2>1. UNCHANGED <<lifecycle, attempted>>
        BY <1>5, Zenon DEF BootNext, WriteBackNext, ValidatePlatform, PrepareCpu, PublishAllStartups,
           StoreReleaseCell, CleanReleaseCell, WaitForSecondary, WriteBack, WriteBackCells, vars, boot
    <2> QED
        BY <1>1, <2>1, Zenon
<1> QED
    BY <1>3, <1>4, <1>5, Zenon

\* The entry of an id is claimed once, and parked by the claimant.
LEMMA ClaimStep ==
    ASSUME IInv, [Next]_vars, NEW i \in Ids
    PROVE  ClaimInv(i)'
<1>1. ClaimInv(i) /\ Types
    BY Zenon DEF IInv
<1>2. claimed[i] # None => claimed[i] \in Secondaries
    BY <1>1, Zenon DEF Types
<1>3. CASE BootNext \/ WriteBackNext \/ UNCHANGED vars
    BY <1>1, <1>3, BootLifecycle, Zenon DEF ClaimInv
<1>4. ASSUME NEW c \in Secondaries, SecondaryNext(c)
      PROVE  ClaimInv(i)'
    <2> DEFINE f == regs[c].found
    <2>1. attempted' = attempted
        BY <1>4, SecondaryFrame, Zenon DEF boot
    <2>2. \A d \in Secondaries \ {c} : pc'[d] = pc[d] /\ regs'[d] = regs[d]
        BY <1>1, <1>4, OthersKeepTheirs, Zenon
    <2>3. DOMAIN claimed = Ids /\ DOMAIN lifecycle = Ids /\ c # None
        <3>1. c \in Nat
            BY Machine, <1>1 DEF Secondaries
        <3> QED
            BY <1>1, <3>1, CpusAssumption, Zenon DEF Types
    <2>4. CASE UNCHANGED <<lifecycle, claimed>> /\ pc[c] \notin ClaimedSteps
        <3>1. claimed[i] # c
            BY <1>1, <2>3, <2>4, Zenon DEF ClaimInv
        <3> QED
            BY <1>1, <1>2, <2>1, <2>2, <2>4, <3>1, Zenon DEF ClaimInv, ClaimedSteps
    <2>5. CASE /\ lifecycle' = lifecycle /\ lifecycle[f] = "Starting"
               /\ claimed[f] = None /\ claimed' = [claimed EXCEPT ![f] = c]
               /\ pc[c] = "rust" /\ pc'[c] = "validate" /\ regs' = regs
        <3>1. CASE i = f
            BY <1>1, <2>1, <2>3, <2>5, <3>1, Zenon DEF ClaimInv, ClaimedSteps
        <3>2. CASE i # f
            <4>1. claimed'[i] = claimed[i]
                BY <2>3, <2>5, <3>2, Zenon
            <4>2. claimed[i] # c
                BY <1>1, <2>3, <2>5, Zenon DEF ClaimInv, ClaimedSteps
            <4> QED
                BY <1>1, <1>2, <2>1, <2>2, <2>5, <4>1, <4>2, Zenon DEF ClaimInv
        <3> QED
            BY <3>1, <3>2
    <2>6. CASE /\ claimed' = claimed /\ pc[c] = "validate" /\ regs' = regs
               /\ \/ pc'[c] = "worker" /\ lifecycle' = [lifecycle EXCEPT ![f] = "Parked"]
                  \/ pc'[c] = "halted" /\ lifecycle' = [lifecycle EXCEPT ![f] = "Failed"]
        <3>1. claimed[f] = c
            BY <2>6, Zenon DEF IInv, CpuInv, EntrantInv
        <3>2. CASE i = f
            BY <1>1, <2>1, <2>3, <2>6, <3>1, <3>2, Zenon DEF ClaimInv, ClaimedSteps
        <3>3. CASE i # f
            <4>1. lifecycle'[i] = lifecycle[i]
                BY <2>3, <2>6, <3>3, Zenon
            <4>2. claimed[i] # c
                BY <1>1, <2>3, <3>3, Zenon DEF ClaimInv
            <4> QED
                BY <1>1, <1>2, <2>1, <2>2, <2>6, <4>1, <4>2, Zenon DEF ClaimInv
        <3> QED
            BY <3>2, <3>3
    <2> QED
        BY <1>1, <1>4, <2>4, <2>5, <2>6, ClaimMove, Zenon
<1> QED
    BY <1>3, <1>4, Split, Zenon

\* A claim stays with its CPU, and a CPU that came by itself stays known as one.
LEMMA ClaimStays ==
    ASSUME IInv, [Next]_vars
    PROVE  /\ early \subseteq early'
           /\ \A i \in Ids : claimed[i] # None => claimed'[i] = claimed[i]
<1>1. CASE BootNext \/ WriteBackNext \/ UNCHANGED vars
    BY <1>1, BootFrame, Zenon DEF entrant
<1>2. ASSUME NEW c \in Secondaries, SecondaryNext(c)
      PROVE  /\ early \subseteq early'
             /\ \A i \in Ids : claimed[i] # None => claimed'[i] = claimed[i]
    <2>1. early \subseteq early'
        BY <1>2, Zenon DEF SecondaryNext, FirmwareEnters, ArrivesEarly, CheckRegime, Lookup, ReadId,
           ReadToken, ReadStack, CheckRoot, Install, CrossRustBoundary, GetLost, ClaimEntry, Park
    <2>2. Types /\ DOMAIN claimed = Ids
        BY Zenon DEF IInv, Types
    <2> QED
        BY <1>2, <2>1, <2>2, ClaimMove, Zenon
<1> QED
    BY <1>1, <1>2, Split, Zenon

\* Nobody else touches the lifecycle of an id that a CPU validates itself for.
LEMMA ValidatorKeeps ==
    ASSUME IInv, [Next]_vars, NEW c \in Secondaries, pc[c] = "validate", pc'[c] = pc[c]
    PROVE  claimed'[regs[c].found] = c /\ lifecycle'[regs[c].found] = "Starting"
<1> DEFINE f == regs[c].found
<1>1. f \in Ids /\ claimed[f] = c /\ lifecycle[f] = "Starting"
    BY Zenon DEF IInv, CpuInv, EntrantInv, MatchedSteps, TokenSteps, StackSteps, InstalledSteps,
       ClaimedSteps
<1>2. Types /\ c # None /\ DOMAIN lifecycle = Ids
    <2>1. Types /\ c \in Nat
        BY Machine DEF IInv, Secondaries
    <2> QED
        BY <2>1, CpusAssumption, Zenon DEF Types
<1>3. claimed'[f] = c
    BY <1>1, <1>2, ClaimStays, Zenon
<1>4. CASE BootNext \/ WriteBackNext \/ UNCHANGED vars
    <2>1. f \in attempted
        BY <1>1, Zenon DEF IInv, ClaimInv
    <2> QED
        BY <1>1, <1>3, <1>4, <2>1, BootLifecycle, Zenon
<1>5. ASSUME NEW d \in Secondaries, SecondaryNext(d)
      PROVE  lifecycle'[f] = "Starting"
    <2>1. CASE lifecycle' = lifecycle
        BY <1>1, <2>1, Zenon
    <2>2. CASE Park(d) /\ pc[d] = "validate" /\ pc'[d] \in {"worker", "halted"}
               /\ \E e : lifecycle' = [lifecycle EXCEPT ![regs[d].found] = e]
        <3>1. claimed[regs[d].found] = d /\ d # c
            BY <2>2, Zenon DEF IInv, CpuInv, EntrantInv
        <3> QED
            BY <1>1, <1>2, <2>2, <3>1, Zenon
    <2> QED
        BY <1>2, <1>5, <2>1, <2>2, ClaimMove, Zenon
<1> QED
    BY <1>3, <1>4, <1>5, Split, Zenon

\* The facts about a CPU that rests.
LEMMA EntrantKeeps ==
    ASSUME IInv, [Next]_vars, NEW c \in Secondaries, pc'[c] = pc[c], regs'[c] = regs[c]
    PROVE  EntrantInv(c)'
<1>1. EntrantInv(c) /\ supported' = supported /\ cpus' = cpus
    BY MachineStep, Zenon DEF IInv, CpuInv
<1>2. \A k, t : IsOwner(k, t)' <=> IsOwner(k, t)
    BY <1>1, SameMachine, Zenon
<1>3. pc[c] = "validate" =>
        claimed'[regs[c].found] = c /\ lifecycle'[regs[c].found] = "Starting"
    BY ValidatorKeeps, Zenon
<1> QED
    BY <1>1, <1>2, <1>3, AttemptsStay, Zenon DEF EntrantInv

\* The facts about a released CPU, over a step that is not its own.
LEMMA ReleasedKeeps ==
    ASSUME IInv, [Next]_vars, NEW c \in Secondaries, pc'[c] = pc[c], regs'[c] = regs[c],
           c \in early' <=> c \in early
    PROVE  ReleasedInv(c)'
<1>1. ReleasedInv(c) /\ supported' = supported /\ cpus' = cpus
    BY MachineStep, Zenon DEF IInv, CpuInv
<1>2. \A k, t : IsOwner(k, t)' <=> IsOwner(k, t)
    BY <1>1, SameMachine, Zenon
<1>3. ASSUME IsOwner(c, cpus[c].id), claimed[cpus[c].id] \in early
      PROVE  claimed'[cpus[c].id] \in early'
    <2>1. early \subseteq Secondaries /\ None \notin Secondaries
        <3>1. \A d \in Secondaries : d \in Nat
            BY Machine DEF IInv, Secondaries
        <3> QED
            BY <3>1, CpusAssumption, Zenon DEF IInv, Types
    <2>2. cpus[c].id \in Ids
        BY <1>3, Zenon DEF IsOwner
    <2> QED
        BY <1>3, <2>1, <2>2, ClaimStays, Zenon
<1> QED
    BY <1>1, <1>2, <1>3, AttemptsStay, Zenon DEF ReleasedInv

-----------------------------------------------------------------------------
(* The steps of a secondary. *)

\* What a step of a secondary leaves alone, as the facts about it need it.
LEMMA OwnFrame ==
    ASSUME NEW c \in Secondaries, SecondaryNext(c)
    PROVE  /\ UNCHANGED <<cpus, attempted, cache, memory, supported>>
           /\ \A k, t : IsOwner(k, t)' <=> IsOwner(k, t)
<1>1. UNCHANGED <<cpus, attempted, cache, memory, supported>>
    BY SecondaryFrame, Zenon DEF boot, image
<1>2. \A k, t : IsOwner(k, t)' <=> IsOwner(k, t)
    BY <1>1, SameMachine, Zenon
<1> QED
    BY <1>1, <1>2, Zenon

\* A CPU that leaves its firmware loop was released, and nobody else has its cell.
LEMMA ReleasedOwn ==
    ASSUME IInv, NEW c \in Secondaries, cpus[c].startup \in cellMemory
    PROVE  cpus[c].id \in attempted /\ IsOwner(c, cpus[c].id)
<1>1. PICK t \in attempted : cpus[c].startup = validate_spin_table_target(t)
    BY Zenon DEF IInv, ReleaseInv
<1>2. validate_spin_table_target(t) # None
    BY Zenon DEF IInv, ReleaseInv, Ready
<1>3. PICK k \in DOMAIN cpus : IsOwner(k, t) /\ validate_spin_table_target(t) = cpus[k].startup
    BY <1>2, TargetOwner, Zenon
<1>4. c \in DOMAIN cpus
    BY Machine, Zenon DEF IInv
<1>5. k = c
    BY <1>1, <1>3, <1>4, Zenon DEF IsOwner
<1> QED
    BY <1>3, <1>5, Zenon DEF IsOwner

\* What a released CPU reads.
LEMMA ReleasedReads ==
    ASSUME IInv, NEW c \in Secondaries, c \notin early, pc[c] # "firmware"
    PROVE  /\ cpus[c].id \in Ids \ {0} /\ IsOwner(c, cpus[c].id) /\ cpus[c].id \in attempted
           /\ \A l \in Lines : memory[l] = cache[l]
           /\ cache[Slot(cpus[c].id)] = Context(cpus[c].id, cpus[c].affinity)
           /\ cache[Mailbox(cpus[c].id)] = Generation /\ cache[Config] = HostConfig
<1>1. cpus[c].id \in attempted /\ IsOwner(c, cpus[c].id)
    BY Zenon DEF IInv, CpuInv, ReleasedInv
<1>2. cpus[c].id \in Ids \ {0}
    BY <1>1, Zenon DEF IsOwner
<1>3. /\ \A l \in Lines : memory[l] = cache[l]
      /\ bpc # "slots" /\ cache[Mailbox(cpus[c].id)] = Generation
    BY <1>1, Zenon DEF IInv, ReleaseInv, Ready, BeforeSteps
<1>4. c \in DOMAIN cpus /\ Generation # 0
    BY Machine DEF IInv, Generation
<1>5. cache[Slot(cpus[c].id)] = Context(cpus[c].id, cpus[c].affinity)
    BY <1>1, <1>3, <1>4, Zenon DEF IInv, ImageInv, Holds
<1>6. cache[Config] = HostConfig
    BY <1>2, <1>3, <1>4, Zenon DEF IInv, ImageInv, TokenInv
<1> QED
    BY <1>1, <1>2, <1>3, <1>5, <1>6, Zenon

\* The affinity of a CPU stands in its own slot only.
LEMMA OneMatch ==
    ASSUME IInv, NEW c \in Secondaries, c \in Enabled, NEW i \in Ids,
           cache[Slot(i)].present, cache[Slot(i)].affinity = cpus[c].affinity
    PROVE  i = cpus[c].id
<1>1. PICK k \in DOMAIN cpus : Holds(i, k)
    BY ContextFields, Zenon DEF IInv, ImageInv, SlotInv
<1>2. cpus[k].affinity = cpus[c].affinity
    BY <1>1, ContextFields DEF Holds
<1>3. k = c /\ c # 1
    BY <1>2, Machine, Zenon DEF IInv
<1> QED
    BY <1>1, <1>3, Zenon DEF Holds

\* The validation passes when every check does.
LEMMA ValidationIsExact ==
    ASSUME NEW c \in Secondaries
    PROVE  validate(c) = {} <=>
              /\ regs[c].generation # 0 /\ cache[Mailbox(regs[c].found)] = regs[c].generation
              /\ cpus[c].affinity = cache[Slot(regs[c].found)].affinity
              /\ regs[c].stack = cache[Slot(regs[c].found)].stack
              /\ regs[c].context = regs[c].found
              /\ validate_secondary_context(cache[Slot(regs[c].found)].id, regs[c].context)
              /\ regs[c].config = cache[Config]
              /\ regs[c].controls = "host"
              /\ supported[c]
              /\ cache[Slot(regs[c].found)].id \in Ids \ {0}
    BY DEF validate, Failure

\* Whoever passes its validation for an id that CPU0 released is the owner of the id.
LEMMA ValidatedOwn ==
    ASSUME IInv, NEW c \in Secondaries, pc[c] = "validate", validate(c) = {}
    PROVE  /\ cpus[c].id \in attempted /\ IsOwner(c, cpus[c].id) /\ regs[c].found = cpus[c].id
           /\ regs[c].stack = cpus[c].id /\ regs[c].context = cpus[c].id
           /\ regs[c].config = HostConfig /\ regs[c].controls = "host"
<1> DEFINE f == regs[c].found
<1>1. f \in Ids /\ lifecycle[f] = "Starting"
    BY Zenon DEF IInv, CpuInv, EntrantInv, MatchedSteps, TokenSteps, StackSteps, InstalledSteps,
       ClaimedSteps
<1>2. f \in attempted
    BY <1>1, Zenon DEF IInv, ClaimInv
<1>3. /\ cpus[c].affinity = cache[Slot(f)].affinity /\ regs[c].stack = cache[Slot(f)].stack
      /\ regs[c].context = f /\ regs[c].config = cache[Config] /\ regs[c].controls = "host"
    BY ValidationIsExact, Zenon
<1>4. PICK k \in DOMAIN cpus : IsOwner(k, f) /\ cache[Slot(f)] = Context(f, cpus[k].affinity)
    BY <1>2, AttemptedOwn, Zenon
<1>5. cpus[c].affinity = cpus[k].affinity /\ regs[c].stack = f
    BY <1>3, <1>4, ContextFields
<1>6. k = c
    BY <1>5, Machine, Zenon DEF IInv
<1>7. cpus[c].id = f /\ IsOwner(c, f)
    BY <1>4, <1>6, Zenon DEF IsOwner
<1>8. cache[Config] = HostConfig
    BY <1>2, AttemptedOwn, Zenon
<1> QED
    BY <1>2, <1>3, <1>5, <1>7, <1>8, Zenon

\* The facts about an entrant, over an own step.
LEMMA OwnEntrant ==
    ASSUME IInv, NEW c \in Secondaries, SecondaryNext(c)
    PROVE  EntrantInv(c)'
<1> USE DEF MatchedSteps, TokenSteps, StackSteps, InstalledSteps, ClaimedSteps
<1>1. EntrantInv(c) /\ DOMAIN pc = Secondaries /\ DOMAIN regs = Secondaries
    BY DEF IInv, Types, CpuInv
<1>2. /\ UNCHANGED <<cpus, attempted, cache, memory, supported>>
      /\ \A k, t : IsOwner(k, t)' <=> IsOwner(k, t)
    BY OwnFrame, Zenon
<1>3. regs[c].found \in Ids \cup {None} /\ Types
    BY DEF IInv, Types, Registers
<1>4. CASE FirmwareEnters(c) \/ ArrivesEarly(c)
    <2>1. pc[c] = "firmware" /\ pc'[c] = "entry" /\ regs' = regs
        BY <1>1, <1>4, Zenon DEF FirmwareEnters, ArrivesEarly, Advance
    <2> QED
        BY <1>1, <1>2, <2>1, Zenon DEF EntrantInv
<1>5. CASE CheckRegime(c)
    <2>1. /\ pc[c] = "entry" /\ regs' = regs
          /\ pc'[c] = "rejected" \/ (pc'[c] = "lookup" /\ supported[c])
        BY <1>1, <1>5, Zenon DEF CheckRegime, Advance
    <2> QED
        BY <1>1, <1>2, <2>1, Zenon DEF EntrantInv
<1>6. CASE Lookup(c)
    <2>1. pc[c] = "lookup" /\ pc'[c] \in {"lookup", "rejected"}
        BY <1>1, <1>6, Zenon DEF Lookup, Advance
    <2> QED
        BY <1>1, <1>2, <2>1, Zenon DEF EntrantInv
<1>7. CASE ReadId(c)
    <2>1. /\ pc[c] = "lookup" /\ regs' = regs /\ pc'[c] \in {"token", "rejected"}
          /\ pc'[c] = "token" => /\ regs[c].found # None
                                  /\ memory[Slot(regs[c].found)].id # 0
                                  /\ memory[Slot(regs[c].found)].id = regs[c].found
        BY <1>1, <1>7, Zenon DEF ReadId, Advance
    <2>2. pc'[c] = "token" => regs[c].found \in Ids \ {0}
        BY <1>3, <2>1, Zenon
    <2> QED
        BY <1>1, <1>2, <2>1, <2>2, Zenon DEF EntrantInv
<1>8. CASE ReadToken(c) \/ ReadStack(c) \/ CheckRoot(c) \/ Install(c)
    <2>1. /\ pc[c] \in {"token", "stack", "root", "config"}
          /\ pc'[c] \in {"stack", "root", "config", "mmu", "rejected"}
        BY <1>1, <1>8, Zenon DEF ReadToken, ReadStack, CheckRoot, Install, Advance
    <2>2. regs[c].found \in Ids \ {0}
        BY <1>1, <2>1, Zenon DEF EntrantInv
    <2>3. regs'[c].found = regs[c].found
        <3>1. CASE CheckRoot(c)
            BY <3>1, Zenon DEF CheckRoot
        <3> QED
            BY <1>3, <1>8, <2>2, <3>1, TokenRegisters, StackRegisters, InstallRegisters, Zenon
    <2> QED
        BY <1>1, <1>2, <2>1, <2>2, <2>3, Zenon DEF EntrantInv
<1>9. CASE CrossRustBoundary(c) \/ GetLost(c)
    <2>1. pc[c] = "mmu" /\ regs' = regs /\ pc'[c] \in {"rust", "lost", "rejected"}
        BY <1>1, <1>9, Zenon DEF CrossRustBoundary, GetLost, Advance
    <2> QED
        BY <1>1, <1>2, <2>1, Zenon DEF EntrantInv
<1>10. CASE ClaimEntry(c)
    <2>1. /\ pc[c] = "rust" /\ regs' = regs /\ lifecycle' = lifecycle
          /\ pc'[c] = "halted" \/ /\ pc'[c] = "validate" /\ lifecycle[regs[c].found] = "Starting"
                                  /\ claimed' = [claimed EXCEPT ![regs[c].found] = c]
        BY <1>1, <1>10, Zenon DEF ClaimEntry, Advance
    <2>2. regs[c].found \in DOMAIN claimed /\ regs[c].found \in Ids \ {0}
        BY <1>1, <1>3, <2>1, Zenon DEF EntrantInv, Types
    <2> QED
        BY <1>1, <1>2, <2>1, <2>2, Zenon DEF EntrantInv
<1>11. CASE Park(c)
    <2>1. /\ pc[c] = "validate" /\ regs' = regs
          /\ pc'[c] = "halted" \/ (pc'[c] = "worker" /\ validate(c) = {})
        BY <1>1, <1>11 DEF Park
    <2> QED
        BY <1>1, <1>2, <2>1, ValidatedOwn, Zenon DEF EntrantInv
<1> QED
    BY <1>4, <1>5, <1>6, <1>7, <1>8, <1>9, <1>10, <1>11, Zenon DEF SecondaryNext

\* The facts about a released CPU, over an own step: its own state stops it, or somebody who was
\* never released.
LEMMA OwnReleased ==
    ASSUME IInv, NEW c \in Secondaries, SecondaryNext(c)
    PROVE  ReleasedInv(c)'
<1> USE DEF MatchedSteps, TokenSteps, StackSteps, InstalledSteps, ClaimedSteps
<1>1. /\ ReleasedInv(c) /\ EntrantInv(c) /\ Types
      /\ DOMAIN pc = Secondaries /\ DOMAIN regs = Secondaries
    BY DEF IInv, Types, CpuInv
<1>2. /\ UNCHANGED <<cpus, attempted, supported>>
      /\ \A k, t : IsOwner(k, t)' <=> IsOwner(k, t)
    BY OwnFrame, Zenon
<1>3. CASE ArrivesEarly(c)
    BY <1>3, Zenon DEF ArrivesEarly, ReleasedInv
<1>4. CASE FirmwareEnters(c)
    <2>1. pc'[c] = "entry" /\ cpus[c].startup \in cellMemory
        BY <1>1, <1>4, Zenon DEF FirmwareEnters, Advance
    <2> QED
        BY <1>2, <2>1, ReleasedOwn, Zenon DEF ReleasedInv
<1>5. ASSUME ~ArrivesEarly(c), ~FirmwareEnters(c)
      PROVE  pc[c] # "firmware" /\ early' = early
    BY <1>5, Zenon DEF SecondaryNext, Advance, CheckRegime, Lookup, ReadId, ReadToken, ReadStack,
       CheckRoot, Install, CrossRustBoundary, GetLost, ClaimEntry, Park
<1>6. SUFFICES ASSUME ~ArrivesEarly(c), ~FirmwareEnters(c), c \notin early, pc[c] # "firmware"
               PROVE  ReleasedInv(c)'
    BY <1>1, <1>2, <1>3, <1>4, <1>5, Zenon DEF ReleasedInv
<1> DEFINE i == cpus[c].id
<1>7. /\ i \in Ids \ {0} /\ IsOwner(c, i) /\ i \in attempted
      /\ \A l \in Lines : memory[l] = cache[l]
      /\ cache[Slot(i)] = Context(i, cpus[c].affinity)
      /\ cache[Mailbox(i)] = Generation /\ cache[Config] = HostConfig
    BY <1>6, ReleasedReads, Zenon
<1>8. /\ \A j \in Ids : memory[Slot(j)] = cache[Slot(j)] /\ memory[Mailbox(j)] = cache[Mailbox(j)]
      /\ memory[Config] = HostConfig
    BY <1>7, LinesApart, Zenon
<1>9. i \in Nat /\ i # None /\ 0 # None /\ NoConfig # HostConfig /\ Generation # 0
    BY <1>7, CpusAssumption DEF Ids, NoConfig, HostConfig, Generation
<1>10. /\ memory[Slot(i)].id = i /\ memory[Slot(i)].stack = i /\ memory[Mailbox(i)] = Generation
       /\ cache[Slot(i)].affinity = cpus[c].affinity /\ cache[Slot(i)].stack = i
       /\ cache[Slot(i)].id = i /\ memory[Slot(i)].present
    BY <1>7, <1>8, ContextFields
<1>11. CASE CheckRegime(c)
    <2>1. /\ pc[c] = "entry" /\ regs' = regs
          /\ (pc'[c] = "rejected" /\ ~supported[c]) \/ pc'[c] = "lookup"
        BY <1>1, <1>11, Zenon DEF CheckRegime, Advance
    <2>2. regs[c].at = 0 /\ regs[c].found = None /\ ~(i < 0)
        BY <1>1, <1>9, <2>1 DEF EntrantInv, NoRegs
    <2> QED
        BY <1>2, <1>7, <2>1, <2>2, Zenon DEF ReleasedInv
<1>12. CASE Lookup(c)
    <2> DEFINE j == regs[c].at
               match == memory[Slot(j)].present /\ memory[Slot(j)].affinity = cpus[c].affinity
    <2>1. /\ pc[c] = "lookup"
          /\ pc'[c] = IF match /\ regs[c].found # None THEN "rejected" ELSE "lookup"
        BY <1>1, <1>12, Zenon DEF Lookup, Advance
    <2>2. /\ j \in Ids /\ regs'[c].at = j + 1
          /\ IF match THEN regs'[c].found = j ELSE regs'[c].found = regs[c].found
        BY <1>1, <1>12, LookupRegisters, Zenon
    <2>3. regs[c].found = IF i < j THEN i ELSE None
        BY <1>1, <1>6, <2>1, Zenon DEF ReleasedInv
    <2>4. match => j = i
        BY <1>7, <1>8, <2>2, OneMatch, Zenon DEF IsOwner
    <2>5. j = i => match
        BY <1>8, <1>10, <2>2, Zenon
    <2> HIDE DEF match
    <2>6. j \in Nat
        BY <2>2 DEF Ids
    <2>7. /\ ~(i < i) /\ i < i + 1
          /\ j # i => (i < j + 1 <=> i < j)
        BY <1>9, <2>6
    <2>8. pc'[c] = "lookup" /\ regs'[c].found = IF i < regs'[c].at THEN i ELSE None
        <3>1. CASE match
            BY <2>1, <2>2, <2>3, <2>4, <2>7, <3>1, Zenon
        <3>2. CASE ~match
            BY <2>1, <2>2, <2>3, <2>5, <2>7, <3>2, Zenon
        <3> QED
            BY <3>1, <3>2
    <2> QED
        BY <1>2, <1>7, <2>8, Zenon DEF ReleasedInv
<1>13. CASE ReadId(c)
    <2>1. /\ pc[c] = "lookup" /\ regs[c].at = MaxCpus /\ regs' = regs
          /\ /\ regs[c].found # None
             /\ memory[Slot(regs[c].found)].id # 0
             /\ memory[Slot(regs[c].found)].id = regs[c].found
             => pc'[c] = "token"
        BY <1>1, <1>13, Zenon DEF ReadId, Advance
    <2>2. i < MaxCpus
        BY <1>7, CpusAssumption DEF Ids
    <2>3. regs[c].found = i
        BY <1>1, <1>6, <2>1, <2>2, Zenon DEF ReleasedInv
    <2>4. pc'[c] = "token"
        BY <1>7, <1>9, <1>10, <2>1, <2>3, Zenon
    <2> QED
        BY <1>2, <1>7, <2>1, <2>3, <2>4, Zenon DEF ReleasedInv
<1>14. CASE ReadToken(c)
    <2>1. /\ pc[c] = "token"
          /\ memory[Mailbox(regs[c].found)] # 0 => pc'[c] = "stack"
        BY <1>1, <1>14, Zenon DEF ReadToken, Advance
    <2>2. regs[c].found = i
        BY <1>1, <1>6, <2>1, Zenon DEF ReleasedInv
    <2>3. pc'[c] = "stack"
        BY <1>9, <1>10, <2>1, <2>2, Zenon
    <2>4. regs'[c].found = i /\ regs'[c].generation = Generation
        BY <1>1, <1>7, <1>10, <1>14, <2>2, TokenRegisters, Zenon
    <2> QED
        BY <1>2, <1>7, <2>3, <2>4, Zenon DEF ReleasedInv
<1>15. CASE ReadStack(c)
    <2>1. /\ pc[c] = "stack"
          /\ /\ memory[Slot(regs[c].found)].id \in Ids \ {0}
             /\ memory[Slot(regs[c].found)].stack # None
             => pc'[c] = "root"
        BY <1>1, <1>15, Zenon DEF ReadStack, Advance
    <2>2. regs[c].found = i /\ regs[c].generation = Generation
        BY <1>1, <1>6, <2>1, Zenon DEF ReleasedInv
    <2>3. pc'[c] = "root"
        BY <1>7, <1>9, <1>10, <2>1, <2>2, Zenon
    <2>4. regs'[c].found = i /\ regs'[c].generation = Generation /\ regs'[c].stack = i
        BY <1>1, <1>7, <1>10, <1>15, <2>2, StackRegisters, Zenon
    <2> QED
        BY <1>2, <1>7, <2>3, <2>4, Zenon DEF ReleasedInv
<1>16. CASE CheckRoot(c)
    <2>1. pc[c] = "root" /\ regs' = regs /\ (memory[Config] # NoConfig => pc'[c] = "config")
        BY <1>1, <1>16, Zenon DEF CheckRoot, Advance
    <2>2. pc'[c] = "config"
        BY <1>8, <1>9, <2>1, Zenon
    <2>3. regs[c].found = i /\ regs[c].generation = Generation /\ regs[c].stack = i
        BY <1>1, <1>6, <2>1, Zenon DEF ReleasedInv
    <2> QED
        BY <1>2, <1>7, <2>1, <2>2, <2>3, Zenon DEF ReleasedInv
<1>17. CASE Install(c)
    <2>1. pc[c] = "config" /\ pc'[c] = "mmu"
        BY <1>1, <1>17, Zenon DEF Install, Advance
    <2>2. regs[c].found = i /\ regs[c].generation = Generation /\ regs[c].stack = i
        BY <1>1, <1>6, <2>1, Zenon DEF ReleasedInv
    <2>3. /\ regs'[c].found = i /\ regs'[c].generation = Generation /\ regs'[c].stack = i
          /\ regs'[c].context = i /\ regs'[c].config = HostConfig
          /\ regs'[c].controls \in {"host", "other"}
        BY <1>1, <1>8, <1>17, <2>2, InstallRegisters, Zenon
    <2> QED
        BY <1>2, <1>7, <2>1, <2>3, Zenon DEF ReleasedInv
<1>18. ASSUME pc[c] \in InstalledSteps
       PROVE  /\ regs[c].found = i /\ regs[c].generation = Generation /\ regs[c].stack = i
              /\ regs[c].context = i /\ regs[c].config = HostConfig
              /\ regs[c].controls \in {"host", "other"}
    BY <1>1, <1>6, <1>18, Zenon DEF ReleasedInv
<1>19. ASSUME pc[c] \in InstalledSteps, regs' = regs, pc'[c] \in {"rust", "validate", "worker"}
       PROVE  ReleasedInv(c)'
    BY <1>2, <1>7, <1>18, <1>19, Zenon DEF ReleasedInv
<1>20. CASE CrossRustBoundary(c) \/ GetLost(c)
    <2>1. /\ pc[c] = "mmu" /\ regs' = regs
          /\ cache[Mailbox(regs[c].found)] = regs[c].generation => pc'[c] = "rust"
        BY <1>1, <1>6, <1>20, Zenon DEF CrossRustBoundary, GetLost, Advance
    <2>2. pc'[c] = "rust"
        BY <1>7, <1>18, <2>1, Zenon
    <2> QED
        BY <1>19, <2>1, <2>2, Zenon
<1>21. CASE ClaimEntry(c)
    <2>1. /\ pc[c] = "rust" /\ regs' = regs /\ pc'[c] \in {"validate", "halted"}
          /\ /\ startup_view(regs[c].found, regs[c].generation)
             /\ lifecycle[regs[c].found] = "Starting" /\ claimed[regs[c].found] = None
             => pc'[c] = "validate"
          /\ pc'[c] = "halted" => claimed' = claimed
        BY <1>1, <1>21, Zenon DEF ClaimEntry, Advance
    <2>2. regs[c].found = i /\ startup_view(regs[c].found, regs[c].generation)
        BY <1>7, <1>9, <1>18, <2>1, Zenon DEF startup_view
    <2>3. ClaimInv(i)
        BY <1>7, Zenon DEF IInv
    <2>4. CASE claimed[i] = None
        <3>1. pc'[c] = "validate"
            BY <1>7, <2>1, <2>2, <2>3, <2>4, Zenon DEF ClaimInv
        <3> QED
            BY <1>19, <2>1, <3>1, Zenon
    <2>5. CASE claimed[i] # None
        <3> DEFINE d == claimed[i]
        <3>1. d \in Secondaries /\ regs[d].found = i /\ pc[d] \in ClaimedSteps
            BY <1>1, <1>7, <2>3, <2>5, Zenon DEF ClaimInv, Types
        <3>2. d \in early
            <4>1. d # c
                BY <2>1, <3>1, Zenon
            <4>2. d \notin early => cpus[d].id = i /\ IsOwner(d, cpus[d].id)
                BY <3>1, Zenon DEF IInv, CpuInv, ReleasedInv
            <4>3. ASSUME d \notin early PROVE d = c
                <5>1. d \in Enabled /\ cpus[d].id = i
                    BY <4>2, <4>3, Zenon DEF IsOwner
                <5> QED
                    BY <1>7, <5>1, OneOwner, Zenon
            <4> QED
                BY <4>1, <4>3, Zenon
        <3>3. CASE pc'[c] = "validate"
            BY <1>19, <2>1, <3>3, Zenon
        <3>4. CASE pc'[c] = "halted"
            BY <1>2, <1>5, <1>6, <1>7, <1>18, <2>1, <3>2, <3>4, Zenon DEF ReleasedInv
        <3> QED
            BY <2>1, <3>3, <3>4, Zenon
    <2> QED
        BY <2>4, <2>5
<1>22. CASE Park(c)
    <2>1. /\ pc[c] = "validate" /\ regs' = regs /\ pc'[c] \in {"worker", "halted"}
          /\ validate(c) = {} => pc'[c] = "worker"
        BY <1>1, <1>22 DEF Park
    <2>2. /\ regs[c].found = i /\ regs[c].generation = Generation /\ supported[c]
          /\ regs[c].stack = i /\ regs[c].context = i /\ regs[c].config = HostConfig
          /\ regs[c].controls \in {"host", "other"}
        BY <1>1, <1>18, <2>1, Zenon DEF EntrantInv
    <2>3. lifecycle[i] = "Starting"
        BY <1>1, <2>1, <2>2, Zenon DEF EntrantInv
    <2>4. validate_secondary_context(i, i)
        BY <1>7, <1>10, <2>3 DEF validate_secondary_context
    <2>5. regs[c].controls = "host" => validate(c) = {}
        <3>1. /\ regs[c].generation # 0 /\ cache[Mailbox(regs[c].found)] = regs[c].generation
              /\ regs[c].context = regs[c].found /\ regs[c].config = cache[Config]
            BY <1>7, <1>9, <2>2, Zenon
        <3>2. /\ cpus[c].affinity = cache[Slot(regs[c].found)].affinity
              /\ regs[c].stack = cache[Slot(regs[c].found)].stack
              /\ cache[Slot(regs[c].found)].id = i
            BY <1>10, <2>2, Zenon
        <3>3. /\ validate_secondary_context(cache[Slot(regs[c].found)].id, regs[c].context)
              /\ cache[Slot(regs[c].found)].id \in Ids \ {0}
            BY <1>7, <2>2, <2>4, <3>2, Zenon
        <3> QED
            BY <2>2, <3>1, <3>2, <3>3, ValidationIsExact, Zenon
    <2>6. CASE pc'[c] = "worker"
        BY <1>19, <2>1, <2>6, Zenon
    <2>7. CASE pc'[c] = "halted"
        <3>1. regs[c].controls = "other"
            BY <2>1, <2>2, <2>5, <2>7, Zenon
        <3> QED
            BY <1>2, <1>7, <2>1, <2>2, <2>7, <3>1, Zenon DEF ReleasedInv
    <2> QED
        BY <2>1, <2>6, <2>7, Zenon
<1> QED
    BY <1>6, <1>11, <1>12, <1>13, <1>14, <1>15, <1>16, <1>17, <1>20, <1>21, <1>22, Zenon
    DEF SecondaryNext

\* A step keeps what is known of every secondary.
LEMMA CpuStep ==
    ASSUME IInv, [Next]_vars
    PROVE  CpuInv'
<1>1. Types /\ Secondaries' = Secondaries
    BY MachineStep, SameMachine, Zenon DEF IInv
<1>2. SUFFICES ASSUME NEW d \in Secondaries
               PROVE  EntrantInv(d)' /\ ReleasedInv(d)'
    BY <1>1, Zenon DEF CpuInv
<1>3. CASE pc'[d] = pc[d] /\ regs'[d] = regs[d] /\ (d \in early' <=> d \in early)
    BY <1>3, EntrantKeeps, ReleasedKeeps, Zenon
<1>4. CASE SecondaryNext(d)
    BY <1>4, OwnEntrant, OwnReleased, Zenon
<1>5. ASSUME NEW c \in Secondaries, SecondaryNext(c), c # d
      PROVE  pc'[d] = pc[d] /\ regs'[d] = regs[d] /\ (d \in early' <=> d \in early)
    BY <1>1, <1>5, OthersKeepTheirs, Zenon
<1>6. CASE BootNext \/ WriteBackNext \/ UNCHANGED vars
    BY <1>3, <1>6, BootFrame, Zenon DEF entrant
<1> QED
    BY <1>3, <1>4, <1>5, <1>6, Split, Zenon

\* Before CPU0's first step.
LEMMA InitIInv == Init => IInv
<1> SUFFICES ASSUME Init PROVE IInv
    OBVIOUS
<1>1. Types
    <2>1. NoRegs \in Registers
        BY CpusAssumption DEF NoRegs, Registers, Configs
    <2>2. regs \in [Secondaries -> Registers]
        BY <2>1, Zenon DEF Init
    <2>3. DOMAIN cache = Lines /\ DOMAIN lifecycle = Ids
        BY Zenon DEF Init
    <2>4. Typed(memory)
        BY LeftoversAssumption, Zenon DEF Init, Typed
    <2>5. claimed \in [Ids -> Secondaries \cup {None}]
        BY Zenon DEF Init
    <2> QED
        BY <2>2, <2>3, <2>4, <2>5, Zenon DEF Init, Types, BeforeSteps, Steps
<1>2. ImageInv
    <2>1. cache[Slot(0)] = Context(0, cpus[1].affinity) /\ cache[Config] = NoConfig
        BY LinesApart, Zenon DEF Init
    <2>2. ASSUME NEW i \in Ids \ {0}
          PROVE  cache[Slot(i)] = EmptySlot
        BY <2>2, LinesApart, Zenon DEF Init
    <2>3. ASSUME NEW i \in Ids
          PROVE  cache[Mailbox(i)] = 0
        BY <2>3, LinesApart, Zenon DEF Init
    <2>4. Holds(0, 1) /\ 1 \in DOMAIN cpus
        BY <1>1, <2>1, Machine, Zenon DEF Holds
    <2>5. \A i \in Ids : SlotInv(i)
        BY <2>1, <2>2, <2>4, Zenon DEF SlotInv
    <2>6. \A i \in Ids : TokenInv(i)
        BY <2>3, Zenon DEF TokenInv
    <2>7. bpc = "slots"
        BY DEF Init
    <2> QED
        BY <2>1, <2>2, <2>5, <2>6, <2>7, Zenon DEF ImageInv
<1>3. ReleaseInv
    BY DEF Init, ReleaseInv, ReleaseSteps, BeforeSteps
<1>4. ASSUME NEW i \in Ids
      PROVE  ClaimInv(i)
    BY DEF Init, ClaimInv
<1>5. CpuInv
    <2>1. SUFFICES ASSUME NEW c \in Secondaries
                   PROVE  EntrantInv(c) /\ ReleasedInv(c)
        BY Zenon DEF CpuInv
    <2>2. pc[c] = "firmware" /\ regs[c] = NoRegs
        BY Zenon DEF Init
    <2> QED
        BY <2>2, Zenon DEF EntrantInv, ReleasedInv, MatchedSteps, TokenSteps, StackSteps,
           InstalledSteps, ClaimedSteps
<1> QED
    BY <1>1, <1>2, <1>3, <1>4, <1>5, Zenon DEF IInv

-----------------------------------------------------------------------------
(* The theorems. *)

\* What CPU0 wrote, whom it released, who claimed which entry and what each entrant has read form
\* an inductive invariant, from any contents of memory (start_all of secondary.rs,
\* __secondary_entry and secondary_main).
THEOREM EntryInvariant == Spec => []IInv
<1>1. IInv /\ [Next]_vars => IInv'
    BY TypesStep, ImageStep, ReleaseStep, ClaimStep, CpuStep, Zenon DEF IInv
<1> QED
    BY <1>1, InitIInv, PTL DEF Spec

\* EntrantsAreThemselves: a released CPU in Rust and every worker run as themselves, whatever
\* memory held before CPU0 wrote it, an id is parked by its own CPU, and a released CPU is not
\* turned away for what CPU0 published (__secondary_rust_boundary and secondary_main).
THEOREM EntrantsAlwaysThemselves == Spec => []EntrantsAreThemselves
<1> USE DEF MatchedSteps, TokenSteps, StackSteps, InstalledSteps, ClaimedSteps
<1>1. ASSUME IInv PROVE EntrantsAreThemselves
    <2>1. ASSUME NEW c \in Trusted
          PROVE  /\ supported[c] /\ cpus[c].enabled
                 /\ regs[c].context = cpus[c].id
                 /\ cache[Slot(cpus[c].id)].affinity = cpus[c].affinity
                 /\ regs[c].stack = cpus[c].id
                 /\ regs[c].config = HostConfig
                 /\ pc[c] = "worker" => regs[c].controls = "host"
        <3>1. /\ c \in Secondaries /\ pc[c] \in {"rust", "validate", "worker"}
              /\ pc[c] # "worker" => c \notin early
            BY <2>1, Zenon DEF Trusted
        <3>2. EntrantInv(c) /\ ReleasedInv(c)
            BY <1>1, <3>1, Zenon DEF IInv, CpuInv
        <3>3. /\ cpus[c].id \in attempted /\ IsOwner(c, cpus[c].id) /\ supported[c]
              /\ regs[c].context = cpus[c].id /\ regs[c].stack = cpus[c].id
              /\ regs[c].config = HostConfig /\ (pc[c] = "worker" => regs[c].controls = "host")
            BY <3>1, <3>2, Zenon DEF EntrantInv, ReleasedInv
        <3>4. PICK k \in DOMAIN cpus : /\ IsOwner(k, cpus[c].id)
                                       /\ cache[Slot(cpus[c].id)] = Context(cpus[c].id, cpus[k].affinity)
            BY <1>1, <3>3, AttemptedOwn, Zenon
        <3>5. k = c
            BY <3>3, <3>4, OneOwner, Zenon DEF IsOwner
        <3>6. cache[Slot(cpus[c].id)].affinity = cpus[c].affinity
            BY <3>4, <3>5, ContextFields
        <3> QED
            BY <3>3, <3>6, Zenon DEF IsOwner, Enabled
    <2>2. ASSUME NEW c \in Trusted, NEW d \in Trusted, c # d
          PROVE  regs[c].stack # regs[d].stack
        <3>1. c \in DOMAIN cpus /\ d \in DOMAIN cpus
            BY <1>1, <2>2, Machine, Zenon DEF Trusted, IInv
        <3>2. cpus[c].affinity # cpus[d].affinity
            BY <1>1, <2>2, <3>1, Machine, Zenon DEF IInv
        <3>3. /\ cache[Slot(cpus[c].id)].affinity = cpus[c].affinity /\ regs[c].stack = cpus[c].id
              /\ cache[Slot(cpus[d].id)].affinity = cpus[d].affinity /\ regs[d].stack = cpus[d].id
            BY <2>1, <2>2, Zenon
        <3> QED
            BY <3>2, <3>3
    <2>3. ASSUME NEW i \in Ids, lifecycle[i] = "Parked"
          PROVE  \E c \in Trusted : pc[c] = "worker" /\ cpus[c].id = i
        <3> DEFINE c == claimed[i]
        <3>1. c \in Secondaries /\ regs[c].found = i /\ pc[c] = "worker"
            <4>1. ClaimInv(i) /\ claimed[i] \in Secondaries \cup {None}
                BY <1>1, Zenon DEF IInv, Types
            <4> QED
                BY <2>3, <4>1, Zenon DEF ClaimInv
        <3>2. cpus[c].id = i
            BY <1>1, <3>1, Zenon DEF IInv, CpuInv, EntrantInv
        <3>3. c \in Trusted
            BY <3>1, Zenon DEF Trusted
        <3> QED
            BY <3>1, <3>2, <3>3, Zenon
    <2>4. ASSUME NEW c \in Secondaries \ early
          PROVE  /\ pc[c] # "firmware" => cpus[c].id \in attempted
                 /\ pc[c] \in {"rejected", "halted"} =>
                        ~supported[c] \/ regs[c].controls = "other" \/ claimed[cpus[c].id] \in early
        BY <1>1, <2>4, Zenon DEF IInv, CpuInv, ReleasedInv
    <2> QED
        BY <2>1, <2>2, <2>3, <2>4, Zenon DEF EntrantsAreThemselves
<1> QED
    BY <1>1, EntryInvariant, PTL

=============================================================================
