------------------------------ MODULE Platform ------------------------------
(***************************************************************************)
(* The boot from the device tree to the page allocator: smp.rs discover    *)
(* and cpu_startup.rs find the CPUs and their release cells, platform.rs   *)
(* and boot.rs fill the memory map, and mm.rs hands its usable RAM to the  *)
(* page allocator.  One CPU runs it, each step once; the first error stops *)
(* the boot.  A tree is given by what the code reads of it.                *)
(***************************************************************************)
EXTENDS MemoryMap, CpuTopology, FiniteSets

CONSTANTS
    Trees,          \* the device trees
    LowLimit,       \* BCM2711_LOW_MEMORY_LIMIT
    Aperture        \* pages the bitmaps cover

VARIABLES
    tree,       \* the device tree and what U-Boot passed with it
    stage,      \* the next step
    error,      \* the step that failed
    topology,   \* TOPOLOGY
    cells,      \* release_cells of STARTUP_CONTRACT
    map,        \* MEMORY_MAP while it is filled, then published
    managed,    \* the managed bitmap
    in_use,     \* the in-use bitmap
    ram_pages   \* PAGE_ALLOCATOR.ram_pages

vars == <<tree, stage, error, topology, cells, map, managed, in_use, ram_pages>>

Cell == 2       \* bound: the eight bytes of a release cell, in model addresses

CellAddresses == {a \in 0 .. (MaxAddr - Cell) : a % Cell = 0}

Init ==
    /\ tree \in Trees
    /\ stage = "smp" /\ error = "none"
    /\ topology = <<>> /\ cells = <<>> /\ map = empty
    /\ managed = {} /\ in_use = {} /\ ram_pages = 0

\* A step that fails changes nothing that is read afterwards.
Fail(at) ==
    /\ stage = at /\ stage' = "failed" /\ error' = at
    /\ UNCHANGED <<tree, topology, cells, map, managed, in_use, ram_pages>>

Fill(at, result, next) ==
    \/ result = Err /\ Fail(at)
    \/ /\ result # Err /\ stage = at
       /\ map' = result /\ stage' = next
       /\ UNCHANGED <<tree, error, topology, cells, managed, in_use, ram_pages>>

-----------------------------------------------------------------------------

\* The registers of the enabled memory nodes in tree order, as pairs of address
\* and size; a node that does not parse is a pair that is no region.
RamEntries ==
    FlattenSeq([i \in DOMAIN tree.memory |->
        LET n == tree.memory[i]
        IN IF n.type = "bad" \/ (n.type = "memory" /\ n.status = "bad") THEN <<<<0, 0>>>>
           ELSE IF n.type = "memory" /\ n.status = "okay" THEN n.reg ELSE <<>>])

RegionOf(pair) == new(pair[1], pair[2])

\* cell_in_ram: what comes before the register with the cell must parse.
cell_in_ram(cell) ==
    \E i \in DOMAIN RamEntries :
        /\ \A k \in 1 .. i : RegionOf(RamEntries[k]) # Err
        /\ contains_region(RegionOf(RamEntries[i]), cell)

\* discover_startup_memory: every enabled CPU has a cell in reserved RAM.
discover_startup_memory(cpus) ==
    LET step(found, c) ==
            IF ~c.enabled \/ c.startup.kind = "psci" THEN found
            ELSE IF c.startup.kind # "spin-table" THEN Err
            ELSE LET cell == new(c.startup.release, Cell)
                 IN IF \/ ~\E i \in DOMAIN tree.memreserve :
                              contains_region(RegionOf(tree.memreserve[i]), cell)
                       \/ ~cell_in_ram(cell)
                    THEN Err
                    ELSE IF \E i \in DOMAIN found : found[i] = cell THEN found
                    ELSE push(found, cell, MaxCpus)
    IN IF \E i \in DOMAIN tree.memreserve : RegionOf(tree.memreserve[i]) = Err
       THEN Err
       ELSE TryFold(step, <<>>, cpus)

\* smp::discover: nothing is published unless every cell reads zero.
Discover ==
    LET cpus == discover_cpu_topology(tree, tree.boot, CellAddresses, Err)
        found == IF cpus = Err THEN Err ELSE discover_startup_memory(cpus)
        good == found # Err /\ (found = <<>> \/ tree.cellsZero)
    IN \/ ~good /\ Fail("smp")
       \/ /\ good /\ stage = "smp"
          /\ topology' = cpus /\ cells' = found /\ stage' = "ram"
          /\ UNCHANGED <<tree, error, map, managed, in_use, ram_pages>>

-----------------------------------------------------------------------------

\* Each pair of address and size as a region, inserted into the map.
InsertPairs(m, pairs, ins(_, _)) ==
    TryFold(LAMBDA acc, p : IF RegionOf(p) = Err THEN Err ELSE ins(acc, RegionOf(p)), m, pairs)

discover_ram ==
    LET filled == InsertPairs(empty, RamEntries, insert_ram)
    IN IF filled = empty THEN Err ELSE filled

\* On a BCM2711 the RAM below the limit that the tree hides is firmware's.
discover_bcm2711_firmware_carveout(m) ==
    LET low == {m.ram[i].end : i \in {k \in DOMAIN m.ram : m.ram[k].start = 0}}
        end == CHOOSE e \in low : \A f \in low : f <= e
        carveout == from_bounds(end, LowLimit)
        with == insert_ram(m, carveout)
    IN IF ~tree.bcm2711 THEN m
       ELSE IF low = {} THEN Err
       ELSE IF end >= LowLimit THEN m
       ELSE IF with = Err THEN Err ELSE insert_reserved(with, carveout)

\* One enabled node of /reserved-memory: a fixed region, or every range in
\* which a dynamic one may be placed.
reserve_node(m, n) ==
    IF n.status = "disabled" THEN m
    ELSE IF n.status = "bad" \/ (n.no_map /\ n.reusable) \/ n.fixup THEN Err
    ELSE IF n.reg # Err THEN InsertPairs(m, n.reg, insert_reserved)
    ELSE IF n.size = 0 \/ ~n.aligned \/ n.ranges = <<>> THEN Err
    ELSE InsertPairs(m, n.ranges, insert_reserved)

\* page_rounded_region of the live device tree.
page_rounded_region(start, size) ==
    IF start + size > MaxAddr \/ align_up(start + size) = Err THEN Err
    ELSE from_bounds(align_down(start), align_up(start + size))

dtb_region == page_rounded_region(tree.dtb[1], tree.dtb[2])

discover_reservations(m) ==
    LET block == InsertPairs(m, tree.memreserve, insert_reserved)
        nodes == IF block = Err THEN Err ELSE TryFold(reserve_node, block, tree.reserved)
        dtb == IF nodes = Err \/ dtb_region = Err THEN Err ELSE insert_reserved(nodes, dtb_region)
    IN IF dtb = Err THEN Err ELSE insert_reserved(dtb, RegionOf(tree.image))

discover_mmio(m) == IF tree.soc = Err THEN Err ELSE InsertPairs(m, tree.soc, insert_mmio)

\* discover_memory_map, then what boot.rs adds to it before it is published.
DiscoverRam == Fill("ram", discover_ram, "carveout")
DiscoverCarveout == Fill("carveout", discover_bcm2711_firmware_carveout(map), "reservations")
DiscoverReservations == Fill("reservations", discover_reservations(map), "mmio")
DiscoverMmio == Fill("mmio", discover_mmio(map), "finalize")
Finalize == Fill("finalize", finalize(map), "linux")

linux_image_pages == new_aligned(tree.linux[1], tree.linux[2])

ReserveLinuxImage ==
    LET with == IF linux_image_pages = Err THEN Err ELSE insert_reserved(map, linux_image_pages)
    IN Fill("linux", IF with = Err THEN Err ELSE finalize(with), "verify")

verify_reserved_range(r) ==
    /\ \E i \in DOMAIN map.reserved : contains_region(map.reserved[i], r)
    /\ \A i \in DOMAIN map.usable : ~overlaps(map.usable[i], r)

verify_memory_map ==
    /\ \A i \in DOMAIN tree.memreserve :
          verify_reserved_range(RegionOf(tree.memreserve[i]))
    /\ \A i \in DOMAIN cells : verify_reserved_range(cells[i])

VerifyMemoryMap == Fill("verify", IF verify_memory_map THEN map ELSE Err, "allocator")

-----------------------------------------------------------------------------

\* count_pages: the difference of the rounded bounds is a word, and wraps for
\* a region that covers no whole page; the sum is checked.
count_pages ==
    LET size(r) == ((align_down(r.end) - align_up(r.start)) % (MaxAddr + 1)) \div PageSize
    IN TryFold(LAMBDA n, r : IF align_up(r.start) = Err \/ align_down(r.end) > Aperture * PageSize
                                \/ n + size(r) > MaxAddr
                             THEN Err ELSE n + size(r),
               0, map.ram)

\* Mutant: a page that a region covers in part is managed too.
mark_managed_touched == UNION {{a \div PageSize : a \in Span(map.usable[i])} : i \in DOMAIN map.usable}

mark_managed == UNION {WholePages(map.usable[i]) : i \in DOMAIN map.usable}

\* initialize_allocator_after_takeover: new marks the usable RAM managed and
\* in use, releases it, and the live device tree must not be allocatable.
InitializeAllocator ==
    LET dtb == new_aligned(tree.dtb[1], tree.dtb[2])
        pages == IF dtb = Err THEN {} ELSE WholePages(dtb)
        good == count_pages # Err /\ dtb # Err /\ \A p \in pages : p < Aperture
        stop == IF ~good THEN "allocator"
                ELSE IF pages \cap mark_managed # {} THEN "dtb allocatable" ELSE "none"
    IN /\ stage = "allocator" /\ error' = stop
       /\ stage' = IF stop = "none" THEN "first use" ELSE "failed"
       /\ managed' = IF good THEN mark_managed ELSE managed
       /\ ram_pages' = IF stop = "none" THEN count_pages ELSE ram_pages
       /\ in_use' = {}
       /\ UNCHANGED <<tree, topology, cells, map>>

\* from_existing, which every use of the allocator passes through.
from_existing ==
    /\ ram_pages <= Aperture
    /\ Cardinality(managed) <= ram_pages /\ Cardinality(in_use) <= Cardinality(managed)

FirstUse == Fill("first use", IF from_existing THEN map ELSE Err, "ready")

Stopped == stage \in {"ready", "failed"} /\ UNCHANGED vars

Next ==
    \/ Discover \/ DiscoverRam \/ DiscoverCarveout \/ DiscoverReservations \/ DiscoverMmio
    \/ Finalize \/ ReserveLinuxImage \/ VerifyMemoryMap \/ InitializeAllocator \/ FirstUse
    \/ Stopped

Spec == Init /\ [][Next]_vars

-----------------------------------------------------------------------------
(* What the tree describes, as sets of addresses. *)

PairSpan(pair) == pair[1] .. (pair[1] + pair[2] - 1)
PairSpans(pairs) == UNION {PairSpan(pairs[i]) : i \in DOMAIN pairs}
PageSpan(p) == (p * PageSize) .. ((p + 1) * PageSize - 1)
RoundedSpan(pair) == UNION {PageSpan(a \div PageSize) : a \in PairSpan(pair)}

DescribedRam == PairSpans(RamEntries)

\* What lies below the limit, above the RAM that begins at address 0.
Carveout == IF tree.bcm2711 THEN {a \in 0 .. (LowLimit - 1) : ~(0 .. a \subseteq DescribedRam)} ELSE {}

Described == UNION {IF n.reg = Err THEN PairSpans(n.ranges) ELSE PairSpans(n.reg) :
                    n \in {m \in Range(tree.reserved) : m.status = "okay"}}

Excluded ==
    PairSpans(tree.memreserve) \cup Described \cup Carveout
    \cup RoundedSpan(tree.dtb) \cup PairSpan(tree.image) \cup RoundedSpan(tree.linux)

Complete == stage \in {"verify", "allocator", "first use", "ready"}

\* The lists of the memory map are sorted and merged after every insertion
\* (insert_sorted_merged), and once complete the map is exact: RAM is what the
\* tree describes with the hidden carve-out, usable RAM is RAM without every
\* reservation, whatever the overlaps and the order of the entries.
MapIsExact ==
    /\ \A list \in {map.ram, map.reserved, map.mmio, map.usable} : Normal(list)
    /\ Complete =>
          /\ Spans(map.ram) = DescribedRam \cup Carveout
          /\ Spans(map.usable) = Spans(map.ram) \ Excluded
          /\ Spans(map.usable) \cap Spans(map.mmio) = {}

\* An allocator that can be used manages exactly the whole pages of usable RAM
\* (PageAllocator::new), counts RAM correctly although count_pages may wrap,
\* and never owns a byte of the device tree or of a release cell: the checks of
\* verify_memory_map and of the live device tree cannot be what stops the boot.
AllocatorIsExact ==
    /\ error \notin {"verify", "dtb allocatable"}
    /\ stage = "ready" =>
          /\ managed = {p \in 0 .. (Aperture - 1) : PageSpan(p) \subseteq Spans(map.usable)}
          /\ ram_pages = Cardinality({p \in 0 .. (Aperture - 1) : PageSpan(p) \subseteq Spans(map.ram)})
          /\ \A p \in managed : PageSpan(p) \cap (RoundedSpan(tree.dtb) \cup Spans(cells)) = {}

\* The topology does not depend on the order of the nodes in the tree (the sort in
\* discover_cpu_topology is by affinity): the boot CPU is first, every
\* affinity occurs once, and the enabled CPUs are numbered without a gap.
TopologyIsCanonical ==
    stage = "ram" =>
        LET ids == {topology[i].id : i \in DOMAIN topology} \ {NoId}
        IN /\ topology[1].affinity = tree.boot /\ topology[1].id = 0
           /\ IsInjective([i \in DOMAIN topology |-> topology[i].affinity])
           /\ ids = 0 .. (Len(SelectSeq(topology, LAMBDA c : c.enabled)) - 1)
           /\ \A p \in Permutations(DOMAIN tree.cpus) :
                 topology = discover_cpu_topology(
                    [tree EXCEPT !.cpus = [i \in DOMAIN tree.cpus |-> tree.cpus[p[i]]]],
                    tree.boot, CellAddresses, Err)

=============================================================================
