----------------------------- MODULE HostMemory -----------------------------
(***************************************************************************)
(* The hypervisor's own memory, from the first tables to the frozen ones:  *)
(* mm.rs builds the EL2 stage-1 tables, allocates the stacks of the        *)
(* secondary CPUs and maps the usable RAM around their guards, pcpu.rs     *)
(* fills the CPU slots, heap.rs takes the heap, and startup_resources.rs   *)
(* validates and freezes the tables before a secondary runs.  CPU0 is      *)
(* alone until then; the first error stops the boot.  A layout gives the   *)
(* pages of the image, device tree and devices, the CPUs and their release *)
(* cells, and the size of the heap.                                        *)
(***************************************************************************)
EXTENDS PageAllocator, Stage1

CONSTANTS
    Layouts,
    Usable,         \* usable_ram of the memory map, as bounds of pages
    ReservedPages,  \* pages of RAM that are wholly reserved
    StackPages,     \* STACK_SIZE
    ScratchVa       \* SCRATCH_VA

ASSUME StackAssumption == StackPages \in Nat

\* The boot stack and its guard are in the image, which is reserved.
ASSUME LayoutAssumption ==
    \A l \in Layouts :
        /\ l.heap_pages \in Nat /\ l.boot_guard \in Nat
        /\ l.cpus \in Seq(Nat)
        /\ (l.boot_guard .. (l.boot_guard + StackPages)) \cap Managed = {}

VARIABLES
    layout, stage,
    tables,     \* TVISOR_TABLES
    frozen,     \* BootTables.frozen
    stacks,     \* the stacks of the secondaries, in topology order
    slots,      \* PCPU_SLOTS: what prepare wrote, by logical id
    heap_region, \* the pages of the arena
    scratch     \* the backing pages of the scratch mapping, current first

host_vars == <<layout, stage, tables, frozen, stacks, slots, heap_region, scratch, allocator>>

RX == [type |-> "normal", writable |-> FALSE, executable |-> TRUE]
RO == [type |-> "normal", writable |-> FALSE, executable |-> FALSE]
RW == [type |-> "normal", writable |-> TRUE, executable |-> FALSE]
Device == [type |-> "device", writable |-> TRUE, executable |-> FALSE]

\* stack_layout: a guard page, then the stack.
stack_layout(base) == [guard |-> base, bottom |-> base + 1, top |-> base + 1 + StackPages]
StackSpan(s) == s.guard .. (s.top - 1)

map_identity(set, start, end, attr) ==
    IF start >= end THEN [set |-> set, ok |-> FALSE]
    ELSE map(set, Mapping(start, start, end - start, attr))

\* A list of [start, end, attr], mapped until one fails.
MapAll(set, list) ==
    FoldLeft(LAMBDA acc, r : IF acc.ok THEN map_identity(acc.set, r.start, r.end, r.attr) ELSE acc,
             [set |-> set, ok |-> TRUE], list)

Area(r, attr) == [start |-> r[1], end |-> r[2], attr |-> attr]

\* Every page of a range translates to itself with the attributes.
validate_range(set, pages, attr) == \A p \in pages : walk(set, p) = leaf_descriptor(p, attr)

validate_stack(set, s) ==
    /\ walk(set, s.guard) = Zero
    /\ validate_range(set, s.bottom .. (s.top - 1), RW)

-----------------------------------------------------------------------------

HostInit ==
    /\ layout \in Layouts
    /\ stage = "setup"
    /\ tables = TableSet(layout.arena) /\ frozen = FALSE
    /\ stacks = <<>> /\ slots = [id \in {0} |-> stack_layout(layout.boot_guard)]
    /\ heap_region = {} /\ scratch = <<>>
    /\ AllocatorInit

boot_stack == stack_layout(layout.boot_guard)

\* What setup_el2_stage1_page_table maps, in its order.
InitialAreas ==
    <<Area(layout.text, RX), Area(layout.vectors, RX), Area(layout.rodata, RO), Area(layout.writable, RW),
      Area(<<boot_stack.bottom, boot_stack.top>>, RW), Area(layout.tables, RW),
      Area(layout.dtb, RO), Area(layout.linux, RO), Area(layout.uart, Device)>>
    \o [i \in DOMAIN layout.gic |-> Area(layout.gic[i], Device)]

\* The spots validate_el2_stage1_page_table looks at.
validate_el2_stage1_page_table(set) ==
    /\ \A a \in {InitialAreas[i] : i \in {1, 2, 3, 4, 9}} : validate_range(set, {a.start}, a.attr)
    /\ \A a \in {InitialAreas[i] : i \in {6, 7}} : validate_range(set, {a.start, a.end - 1}, a.attr)
    /\ validate_stack(set, boot_stack)

\* A step of the boot that edits the tables: an edit that fails, or whose
\* result is not valid, stops the boot with what it has written.
Edit(at, result, valid, next) ==
    /\ stage = at /\ ~frozen
    /\ tables' = result.set
    /\ stage' = IF result.ok /\ valid THEN next ELSE "failed"

SetupTables ==
    LET built == MapAll(tables, InitialAreas)
    IN /\ Edit("setup", built, built.ok /\ validate_el2_stage1_page_table(built.set), "stacks")
       /\ UNCHANGED <<layout, frozen, stacks, slots, heap_region, scratch, allocator>>

-----------------------------------------------------------------------------

\* allocate_secondary_stacks: one contiguous run for the next enabled CPU.
AllocateStack ==
    /\ stage = "stacks" /\ Len(stacks) < Len(layout.cpus)
    /\ \E s \in Pages :
          /\ allocate_contiguous(1 + StackPages, s)
          /\ stacks' = Append(stacks, [cpu |-> layout.cpus[Len(stacks) + 1], stack |-> stack_layout(s)])
    /\ UNCHANGED <<layout, stage, tables, frozen, slots, heap_region, scratch>>

StackPagesOf(list) == UNION {StackSpan(list[i].stack) : i \in DOMAIN list}

\* Mutant: the guard of a stack is not freed.
RollBackStacksOnly ==
    /\ stage = "stacks" /\ Len(stacks) < Len(layout.cpus) /\ Exhausted(1 + StackPages)
    /\ ClearBits(StackPagesOf(stacks) \ {stacks[i].stack.guard : i \in DOMAIN stacks})
    /\ stacks' = <<>> /\ stage' = "failed"
    /\ UNCHANGED <<layout, tables, frozen, slots, heap_region, scratch>>

\* An allocation failed: the stacks so far are freed page by page.
RollBack ==
    /\ stage = "stacks" /\ Len(stacks) < Len(layout.cpus) /\ Exhausted(1 + StackPages)
    /\ ClearBits(StackPagesOf(stacks))
    /\ stacks' = <<>> /\ stage' = "failed"
    /\ UNCHANGED <<layout, tables, frozen, slots, heap_region, scratch>>

exclusions == [i \in DOMAIN stacks |-> <<stacks[i].stack.guard, stacks[i].stack.guard + 1>>] \o <<layout.dtb>>

\* map_identity_regions_excluding for one region: the pieces between the
\* exclusions that reach beyond the cursor, nearest first.
PiecesOf(region) ==
    LET end == region[2]
        piece[cursor \in 0 .. end] ==
            LET ahead == {i \in DOMAIN exclusions : exclusions[i][2] > cursor /\ exclusions[i][1] < end}
                next == exclusions[CHOOSE i \in ahead : \A k \in ahead : exclusions[i][1] <= exclusions[k][1]]
                until == IF next[2] < end THEN next[2] ELSE end
            IN IF cursor >= end THEN <<>>
               ELSE IF ahead = {} THEN <<Area(<<cursor, end>>, RW)>>
               ELSE (IF next[1] > cursor THEN <<Area(<<cursor, next[1]>>, RW)>> ELSE <<>>) \o piece[until]
    IN piece[region[1]]

\* map_usable_ram: the pieces of every region, and the Linux image again.
MapUsableRam ==
    LET areas == FlattenSeq([i \in DOMAIN Usable |-> PiecesOf(Usable[i])]) \o <<Area(layout.linux, RO)>>
        built == MapAll(tables, areas)
    IN /\ Len(stacks) = Len(layout.cpus)
       /\ Edit("stacks", built,
               /\ built.ok /\ validate_stack(built.set, boot_stack)
               /\ \A i \in DOMAIN stacks : validate_stack(built.set, stacks[i].stack), "slots")
       /\ UNCHANGED <<layout, frozen, stacks, slots, heap_region, scratch, allocator>>

\* The zeroed stacks are published in their slots (PcpuSlot::prepare).
PrepareSlots ==
    /\ stage = "slots"
    /\ LET prepared == {stacks[i].cpu : i \in DOMAIN stacks}
       IN slots' = [id \in prepared \cup DOMAIN slots |->
                       IF id \in prepared THEN (CHOOSE s \in Range(stacks) : s.cpu = id).stack
                       ELSE slots[id]]
    /\ stage' = "heap"
    /\ UNCHANGED <<layout, tables, frozen, stacks, heap_region, scratch, allocator>>

\* heap::initialize: an arena at address zero is refused, and stays taken.
InitializeHeap ==
    /\ stage = "heap"
    /\ \/ /\ Exhausted(layout.heap_pages) /\ stage' = "failed"
          /\ UNCHANGED <<heap_region, allocator>>
       \/ \E s \in Pages :
             /\ allocate_contiguous(layout.heap_pages, s)
             /\ heap_region' = s .. (s + layout.heap_pages - 1)
             /\ stage' = IF s = 0 THEN "failed" ELSE "scratch"
    /\ UNCHANGED <<layout, tables, frozen, stacks, slots, scratch>>

\* prepare_tlb_scratch: two pages, the first mapped at the scratch address;
\* pages taken before a failure stay taken.
AllocateScratch ==
    /\ stage = "scratch" /\ Len(scratch) < 2
    /\ \/ /\ Exhausted(1) /\ stage' = "failed"
          /\ UNCHANGED <<scratch, allocator>>
       \/ \E p \in Pages :
             /\ allocate_contiguous(1, p)
             /\ scratch' = Append(scratch, p) /\ stage' = stage
    /\ UNCHANGED <<layout, tables, frozen, stacks, slots, heap_region>>

MapScratch ==
    LET built == map(tables, Mapping(ScratchVa, scratch[1], 1, RW))
        unmapped == walk(tables, ScratchVa) = Zero
    IN /\ stage = "scratch" /\ Len(scratch) = 2
       /\ Edit("scratch", IF unmapped THEN built ELSE [set |-> tables, ok |-> FALSE], TRUE, "cells")
       /\ UNCHANGED <<layout, frozen, stacks, slots, heap_region, scratch, allocator>>

-----------------------------------------------------------------------------

\* release_page: the whole page is reserved RAM and nobody else's.
release_page(p) == p \in ReservedPages /\ p \notin Managed

\* map_firmware_release_cell for every cell: a page that is mapped already
\* must be mapped as this call would.
MapReleaseCells ==
    LET step(acc, p) ==
            IF ~acc.ok \/ ~release_page(p) THEN [acc EXCEPT !.ok = FALSE]
            ELSE IF walk(acc.set, p) = Zero THEN map_identity(acc.set, p, p + 1, RW)
            ELSE [acc EXCEPT !.ok = walk(acc.set, p) = leaf_descriptor(p, RW)]
        built == FoldLeft(step, [set |-> tables, ok |-> TRUE], layout.cells)
    IN /\ Edit("cells", built, TRUE, "freeze")
       /\ UNCHANGED <<layout, frozen, stacks, slots, heap_region, scratch, allocator>>

Disjoint(list) ==
    \A i, k \in DOMAIN list : i < k => list[i].end <= list[k].start \/ list[k].end <= list[i].start

\* validate_resources and validate_stacks for every secondary.
Resources(cell) ==
    <<Area(layout.text, RX), Area(layout.vectors, RX), Area(layout.rodata, RO), Area(layout.writable, RW),
      Area(layout.tables, RW), Area(<<cell, cell + 1>>, RW)>>

validate_resources(set, cell, stack) ==
    /\ Disjoint(Append(Resources(cell), Area(<<stack.guard, stack.top>>, RW)))
    /\ layout.tables[2] - layout.tables[1] >= layout.arena
    /\ \A a \in Range(Resources(cell)) : validate_range(set, a.start .. (a.end - 1), a.attr)
    /\ validate_stack(set, stack)

validate_stacks(set) ==
    /\ \A i, k \in DOMAIN slots : i # k => StackSpan(slots[i]) \cap StackSpan(slots[k]) = {}
    /\ \A i \in DOMAIN slots : validate_stack(set, slots[i])

ValidateAndFreeze ==
    LET good == /\ validate_stacks(tables)
                /\ \A i \in DOMAIN stacks : validate_resources(tables, layout.cells[i], stacks[i].stack)
    IN /\ stage = "freeze" /\ ~frozen
       /\ frozen' = good
       /\ stage' = IF good THEN "running" ELSE "failed"
       /\ UNCHANGED <<layout, tables, stacks, slots, heap_region, scratch, allocator>>

-----------------------------------------------------------------------------

\* Mutant: the new page is written over the old one.
BreakScratchNever ==
    /\ stage = "running" /\ frozen /\ walk(tables, ScratchVa) = leaf_descriptor(scratch[1], RW)
    /\ tables' = [tables EXCEPT !.entries[LeafTable(tables, ScratchVa)][index_for(3, ScratchVa)] =
                    leaf_descriptor(scratch[2], RW)]
    /\ stage' = "broken"
    /\ UNCHANGED <<layout, frozen, stacks, slots, heap_region, scratch, allocator>>

\* replace_data_page, the only edit of frozen tables: break, synchronize,
\* make.
BreakScratch ==
    /\ stage = "running" /\ frozen /\ walk(tables, ScratchVa) = leaf_descriptor(scratch[1], RW)
    /\ tables' = [tables EXCEPT !.entries[LeafTable(tables, ScratchVa)][index_for(3, ScratchVa)] = Zero]
    /\ stage' = "broken"
    /\ UNCHANGED <<layout, frozen, stacks, slots, heap_region, scratch, allocator>>

MakeScratch ==
    /\ stage = "broken"
    /\ tables' = [tables EXCEPT !.entries[LeafTable(tables, ScratchVa)][index_for(3, ScratchVa)] =
                    leaf_descriptor(scratch[2], RW)]
    /\ scratch' = <<scratch[2], scratch[1]>>
    /\ stage' = "running"
    /\ UNCHANGED <<layout, frozen, stacks, slots, heap_region, allocator>>

Halted == stage = "failed" /\ UNCHANGED host_vars

HostNext ==
    \/ SetupTables \/ AllocateStack \/ RollBack \/ MapUsableRam \/ PrepareSlots \/ InitializeHeap
    \/ AllocateScratch \/ MapScratch \/ MapReleaseCells \/ ValidateAndFreeze
    \/ BreakScratch \/ MakeScratch \/ Halted

HostSpec == HostInit /\ [][HostNext]_host_vars

-----------------------------------------------------------------------------

\* What the steps before each stage have to have mapped, page by page.
Stages == <<"setup", "stacks", "slots", "heap", "scratch", "cells", "freeze", "running">>
Past(at) ==
    stage = "broken" \/ \E i, k \in DOMAIN Stages : Stages[i] = at /\ Stages[k] = stage /\ k > i

Guards == {stacks[i].stack.guard : i \in DOMAIN stacks}
Requests(all) ==
    {[pages |-> a.start .. (a.end - 1), attr |-> a.attr] :
        a \in IF all \/ Past("setup") THEN Range(InitialAreas) ELSE {}}
    \cup (IF all \/ Past("stacks") THEN {[pages |-> Managed \ Guards, attr |-> RW]} ELSE {})
    \cup (IF all \/ Past("cells") THEN {[pages |-> Range(layout.cells), attr |-> RW]} ELSE {})

Targets(all, va) ==
    IF va = ScratchVa
    THEN IF Len(scratch) = 2 /\ (all \/ (Past("scratch") /\ stage # "broken"))
         THEN {leaf_descriptor(scratch[1], RW)} ELSE {}
    ELSE {leaf_descriptor(va, r.attr) : r \in {q \in Requests(all) : va \in q.pages}}

\* The tables translate exactly the pages the boot has asked for so far, each
\* to itself with the attributes of its only owner, whatever blocks map chose;
\* the guards of the stacks stay unmapped, and an edit that fails half way has
\* added nothing that was not asked for.  The stack of a prepared slot is mapped.
TranslationsAreExact ==
    /\ \A va \in 0 .. (VaPages - 1) :
          LET w == walk(tables, va)
          IN /\ w # Zero => w \in Targets(TRUE, va)
             /\ stage # "failed" => {w} \ {Zero} = Targets(FALSE, va)
    /\ \A g \in Guards \cup {boot_stack.guard} : walk(tables, g) = Zero
    /\ Past("slots") => \A i \in DOMAIN slots : validate_stack(tables, slots[i])

\* A descriptor that a CPU may have cached is never changed: an entry goes
\* from zero to its value once, and after the freeze only the scratch leaf
\* changes, through zero (replace_data_page).
LeavesAreStable ==
    [][\A t \in 0 .. (layout.arena - 1), i \in 0 .. (Fanout - 1) :
          LET old == tables.entries[t][i]
              new == tables'.entries[t][i]
          IN old # new =>
                /\ old = Zero \/ new = Zero
                /\ frozen \/ old = Zero
                /\ frozen => t = LeafTable(tables, ScratchVa) /\ i = index_for(3, ScratchVa)]_host_vars

\* Every page in use belongs to one stack, the heap or the scratch mapping, and
\* the allocator counts it once; a failed stack allocation gives back all it
\* took; every CPU has a slot when the slots are prepared, and no two CPUs share
\* a page of a stack or of its guard.
PagesHaveOneOwner ==
    /\ in_use = StackPagesOf(stacks) \cup heap_region \cup Range(scratch)
    /\ in_use_pages = Cardinality(in_use)
    /\ in_use_pages = Len(stacks) * (1 + StackPages) + Cardinality(heap_region) + Len(scratch)
    /\ Past("slots") =>
          /\ DOMAIN slots = {0} \cup Range(layout.cpus)
          /\ \A i, k \in DOMAIN slots : i # k => StackSpan(slots[i]) \cap StackSpan(slots[k]) = {}

=============================================================================
