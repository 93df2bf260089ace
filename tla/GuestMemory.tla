---------------------------- MODULE GuestMemory ----------------------------
(***************************************************************************)
(* src/vmctl.rs: struct VmCtl, the memory of one virtual machine.  The VM  *)
(* owns physical pages (its regions and its stage-2 tables), maps them at  *)
(* guest addresses by building a three-level table one page at a time, is  *)
(* activated, runs, and gives everything back.                             *)
(*                                                                         *)
(* Everything the VM does runs on CPU0; the calls on the allocator are     *)
(* atomic.  The host's own pages (heap, stacks, scratch pages) come from   *)
(* the same allocator, but none is taken while a VM exists (run_guest      *)
(* compares the allocator's statistics around it).  Any error returns to   *)
(* run_guest, which tears the VM down.                                     *)
(***************************************************************************)
EXTENDS PageAllocator

CONSTANTS
    Backed,         \* usages with guest address and physical pages (GuestRam, ...)
    Fanout,         \* entries of a table (512)
    MaxGuestPages,  \* MAX_GUEST_MEM_PAGES
    MaxRegion,      \* bound: pages of a region
    RegionIpas,     \* bound: guest pages a region may start at
    DeviceIpas,     \* guest pages a device page may be mapped at
    HostBound,      \* bound: pages the host takes
    None            \* no region, no page, no descriptor, no job

ASSUME FanoutAssumption == Fanout \in Nat \ {0}
ASSUME UsageAssumption == "Guard" \notin Backed
ASSUME BoundsAssumption == MaxRegion \in Nat /\ MaxGuestPages \in Nat /\ HostBound \in Nat

VARIABLES
    vm,         \* where run_guest is
    region,     \* vm_mem: the region of each usage
    root,       \* the first page of the page-table entry of vm_mem
    tables,     \* all its pages
    content,    \* what each physical page holds, read as a table
    job,        \* the map call in progress
    tlb,        \* a guest translation the CPU caches for this VMID
    host,       \* pages of the host
    initial     \* in_use_pages when the VM was created

vars == <<allocator, vm, region, root, tables, content, job, tlb, host, initial>>

Guard == "Guard"
Usages == Backed \cup {Guard}
Index == 0 .. (Fanout - 1)
Ipas == 0 .. (Fanout * Fanout * Fanout - 1)
DevicePa == Top
Sizes == 0 .. MaxRegion

\* A descriptor is the page it names and its attributes.
Descriptors == (Pages \cup {DevicePa}) \X {"table", "ram", "device"}

ASSUME IpaAssumption == RegionIpas \subseteq Ipas /\ DeviceIpas \subseteq Ipas
ASSUME NoneAssumption == None \notin Nat \cup Descriptors \cup [ipa : Ipas, size : Sizes, pa : Pages]

Empty == [i \in Index |-> None]

\* Bytes a guest wrote, read as a table: an entry that would lead to page 0.
Junk == [i \in Index |-> <<0, "table">>]

l1_index(ipa) == ipa \div (Fanout * Fanout)
l2_index(ipa) == (ipa \div Fanout) % Fanout
l3_index(ipa) == ipa % Fanout

IndexAt(level, ipa) ==
    CASE level = 1 -> l1_index(ipa)
      [] level = 2 -> l2_index(ipa)
      [] level = 3 -> l3_index(ipa)

Present(u) == region[u] # None
IpaRange(u) == region[u].ipa .. (region[u].ipa + region[u].size - 1)
Backing(u) == region[u].pa .. (region[u].pa + region[u].size - 1)

\* Every page of the VM, and how many vm_mem counts.
RegionPages == UNION {Backing(u) : u \in {v \in Backed : Present(v)}}
VmPages == RegionPages \cup tables
allocated_physical_pages == Cardinality(RegionPages) + Cardinality(tables)

\* The walk of the hardware from the root: the leaf for a guest page, or None.
Child(page, i) == IF page \in Pages /\ content[page][i] # None THEN content[page][i][1] ELSE None

Walk(ipa) ==
    LET l2 == Child(root, l1_index(ipa))
        l3 == Child(l2, l2_index(ipa))
    IN Child(l3, l3_index(ipa))

NoRegions == [u \in Usages |-> None]

Init ==
    /\ AllocatorInit
    /\ vm = "none"
    /\ region = NoRegions
    /\ root = None /\ tables = {}
    /\ content = [p \in Pages |-> Junk]
    /\ job = None
    /\ tlb = {}
    /\ host = {}
    /\ initial = 0

-----------------------------------------------------------------------------
(* The host's own use of the allocator, while there is no VM.              *)

HostAllocates ==
    /\ vm = "none"
    /\ Cardinality(host) < HostBound
    /\ \E p \in Pages :
        /\ allocate_high(p) \/ allocate_contiguous(1, p)
        /\ host' = host \cup {p}
    /\ UNCHANGED <<vm, region, root, tables, content, job, tlb, initial>>

HostFrees ==
    /\ vm = "none"
    /\ \E p \in host : free(p) /\ host' = host \ {p}
    /\ UNCHANGED <<vm, region, root, tables, content, job, tlb, initial>>

-----------------------------------------------------------------------------
(* run_guest: VmCtl::new after the statistics are taken.                   *)

new ==
    /\ vm = "none"
    /\ vm' = "built"
    /\ initial' = in_use_pages
    /\ UNCHANGED <<allocator, region, root, tables, content, job, tlb, host>>

\* Between calls of run_linux_vm.
Ready == vm = "built" /\ job = None

\* An error: run_linux_vm returns it, nothing else has changed.
Fails ==
    /\ vm' = "failed"
    /\ job' = None
    /\ UNCHANGED <<allocator, region, root, tables, content, tlb, host, initial>>

validate_ipa_range(ipa, size) ==
    /\ size # 0
    /\ ipa + size - 1 \in Ipas
    /\ \A u \in Usages : Present(u) => IpaRange(u) \cap (ipa .. (ipa + size - 1)) = {}

WithinLimit(n) == allocated_physical_pages + n <= MaxGuestPages

\* Mutant: a page keeps what its last owner left in it.
LeaveContent(pages) == UNCHANGED content

\* write_bytes(.., 0, ..) over new pages.
Zero(pages) == content' = [p \in Pages |-> IF p \in pages THEN Empty ELSE content[p]]

\* vm_mem_alloc of a usage with guest addresses and physical pages.
AllocBacked(u, ipa, size) ==
    /\ ~Present(u)
    /\ validate_ipa_range(ipa, size)
    /\ WithinLimit(size)
    /\ \E s \in Pages :
        /\ allocate_contiguous(size, s)
        /\ Zero(s .. (s + size - 1))
        /\ region' = [region EXCEPT ![u] = [ipa |-> ipa, size |-> size, pa |-> s]]
    /\ UNCHANGED <<vm, root, tables, job, tlb, host, initial>>

\* vm_mem_alloc of a guard: guest addresses without pages.
AllocGuard(ipa, size) ==
    /\ ~Present(Guard)
    /\ validate_ipa_range(ipa, size)
    /\ region' = [region EXCEPT ![Guard] = [ipa |-> ipa, size |-> size, pa |-> 0]]
    /\ UNCHANGED <<allocator, vm, root, tables, content, job, tlb, host, initial>>

\* vm_mem_alloc of the page-table entry: its pages, the first of them the root.
AllocTables(size) ==
    /\ tables = {}
    /\ WithinLimit(size)
    /\ \E s \in Pages :
        /\ allocate_contiguous(size, s)
        /\ Zero(s .. (s + size - 1))
        /\ root' = s
        /\ tables' = s .. (s + size - 1)
    /\ UNCHANGED <<vm, region, job, tlb, host, initial>>

\* The errors of vm_mem_alloc.
AllocFails(u, ipa, size) ==
    /\ \/ u \in Usages /\ (Present(u) \/ ~validate_ipa_range(ipa, size))
       \/ u \notin Usages /\ tables # {}
       \/ u # Guard /\ (~WithinLimit(size) \/ Exhausted(size))
    /\ Fails

vm_mem_alloc ==
    /\ Ready
    /\ \/ \E ipa \in RegionIpas, size \in Sizes :
            \/ \E u \in Backed : AllocBacked(u, ipa, size) \/ AllocFails(u, ipa, size)
            \/ AllocGuard(ipa, size) \/ AllocFails(Guard, ipa, size)
       \/ \E size \in Sizes : AllocTables(size) \/ AllocFails("GuestStage2PageTable", 0, size)
       \/ Fails    \* an address that is missing, or given for the tables

-----------------------------------------------------------------------------
(* map and map_external_device: one map_l3_page for each page in turn.     *)

\* map_l3_page starts at the root; without one it is an error.
StartMap(ipa, pa, left, attr) ==
    /\ root # None
    /\ job' = [ipa |-> ipa, pa |-> pa, left |-> left, attr |-> attr, level |-> 1, table |-> root]
    /\ UNCHANGED <<allocator, vm, region, root, tables, content, tlb, host, initial>>

map ==
    /\ Ready
    /\ \E u \in Usages :
        \/ /\ u \in Backed /\ Present(u)
           /\ StartMap(region[u].ipa, region[u].pa, region[u].size, "ram")
        \/ /\ u = Guard \/ ~Present(u) \/ root = None
           /\ Fails

map_external_device ==
    /\ Ready
    /\ \/ \E ipa \in DeviceIpas : StartMap(ipa, DevicePa, 1, "device")
       \/ root = None /\ Fails

Entry == content[job.table][IndexAt(job.level, job.ipa)]

\* A table entry that is present leads to the next level.
Descend ==
    /\ job # None
    /\ job.level < 3
    /\ Entry # None
    /\ job' = [job EXCEPT !.level = @ + 1, !.table = Entry[1]]
    /\ UNCHANGED <<allocator, vm, region, root, tables, content, tlb, host, initial>>

\* Mutant: the new table page is not recorded in vm_mem.
ForgetTable(p) == UNCHANGED tables

\* pt.pa.push(phy)
TrackTable(p) == tables' = tables \cup {p}

\* vm_mem_alloc_sub_guest_stage2_page_table: a zeroed page, recorded in vm_mem
\* before the entry that leads to it is written.
AddTable ==
    /\ job # None
    /\ job.level < 3
    /\ Entry = None
    /\ WithinLimit(1)
    /\ \E p \in Pages :
        /\ allocate_contiguous(1, p)
        /\ TrackTable(p)
        /\ content' = [content EXCEPT ![p] = Empty,
                           ![job.table][IndexAt(job.level, job.ipa)] = <<p, "table">>]
        /\ job' = [job EXCEPT !.level = @ + 1, !.table = p]
    /\ UNCHANGED <<vm, region, root, tlb, host, initial>>

\* TableExhausted: the pages already taken stay in vm_mem.
NoTable ==
    /\ job # None
    /\ job.level < 3
    /\ Entry = None
    /\ ~WithinLimit(1) \/ Exhausted(1)
    /\ Fails

\* The next page of the range, or the end of the call.
NextPage ==
    IF job.left = 1 THEN None
    ELSE [job EXCEPT !.ipa = @ + 1, !.pa = @ + 1, !.left = @ - 1, !.level = 1, !.table = root]

\* Mutant: an entry that is present is overwritten.
OverwriteLeaf ==
    /\ job # None
    /\ job.level = 3
    /\ content' = [content EXCEPT ![job.table][IndexAt(3, job.ipa)] = <<job.pa, job.attr>>]
    /\ job' = NextPage
    /\ UNCHANGED <<allocator, vm, region, root, tables, tlb, host, initial>>

\* The leaf is written where there is none; the same leaf again is accepted.
InstallLeaf ==
    /\ job # None
    /\ job.level = 3
    /\ Entry \in {None, <<job.pa, job.attr>>}
    /\ content' = [content EXCEPT ![job.table][IndexAt(3, job.ipa)] = <<job.pa, job.attr>>]
    /\ job' = NextPage
    /\ UNCHANGED <<allocator, vm, region, root, tables, tlb, host, initial>>

\* ConflictingEntry
Conflict ==
    /\ job # None
    /\ job.level = 3
    /\ Entry \notin {None, <<job.pa, job.attr>>}
    /\ Fails

-----------------------------------------------------------------------------
(* The guest.                                                              *)

\* activate_guest_stage2: what the TLB holds for this VMID is invalidated, then
\* stage 2 is switched on.
activate_guest_stage2 ==
    /\ Ready
    /\ root # None
    /\ vm' = "active"
    /\ tlb' = {}
    /\ UNCHANGED <<allocator, region, root, tables, content, job, host, initial>>

\* The guest touches an address: the hardware walks the tables, and may keep the
\* translation until it is invalidated.  The one kept here stands for any.
GuestTranslates ==
    /\ vm = "active"
    /\ \E ipa \in Ipas :
        /\ Walk(ipa) # None
        /\ tlb' = {<<ipa, Walk(ipa)>>}
    /\ UNCHANGED <<allocator, vm, region, root, tables, content, job, host, initial>>

\* It writes what it likes to a page it reaches, as long as the CPU still has
\* the translation and stage 2 is on.
GuestWrites ==
    /\ vm = "active"
    /\ \E e \in tlb :
        /\ e[2] \in Pages
        /\ content' = [content EXCEPT ![e[2]] = Junk]
    /\ UNCHANGED <<allocator, vm, region, root, tables, job, tlb, host, initial>>

\* Mutant: the VMID's translations are left in the TLB.
deactivate_without_invalidation ==
    /\ vm = "active"
    /\ vm' = "stopped"
    /\ UNCHANGED <<allocator, region, root, tables, content, job, tlb, host, initial>>

\* The run loop returns; deactivate_guest_stage2 invalidates the VMID while it
\* is still installed, then switches stage 2 off.
deactivate_guest_stage2 ==
    /\ vm = "active"
    /\ vm' = "stopped"
    /\ tlb' = {}
    /\ UNCHANGED <<allocator, region, root, tables, content, job, host, initial>>

\* release_all: every page is freed (an error would only be printed), vm_mem is
\* cleared.  What a freed page holds is of no use to anybody: junk.
release_all ==
    /\ vm \in {"built", "failed", "stopped"}
    /\ job = None
    /\ ClearBits({p \in VmPages : Freeable(p)})
    /\ region' = NoRegions
    /\ root' = None /\ tables' = {}
    /\ vm' = "released"
    /\ content' = [p \in Pages |-> IF p \in VmPages THEN Junk ELSE content[p]]
    /\ UNCHANGED <<job, tlb, host, initial>>

\* run_guest returns and VmCtl is dropped: release_all again, of nothing.
drop ==
    /\ vm = "released"
    /\ ClearBits({p \in VmPages : Freeable(p)})
    /\ vm' = "none"
    /\ UNCHANGED <<region, root, tables, content, job, tlb, host, initial>>

Next ==
    \/ HostAllocates \/ HostFrees
    \/ new \/ vm_mem_alloc \/ map \/ map_external_device
    \/ Descend \/ AddTable \/ NoTable \/ InstallLeaf \/ Conflict
    \/ activate_guest_stage2 \/ GuestTranslates \/ GuestWrites
    \/ deactivate_guest_stage2 \/ release_all \/ drop

Spec == Init /\ [][Next]_vars

-----------------------------------------------------------------------------
(* Properties.                                                             *)

TypeOK ==
    /\ in_use \subseteq Managed /\ in_use_pages \in Nat
    /\ vm \in {"none", "built", "failed", "active", "stopped", "released"}
    /\ region \in [Usages -> [ipa : Ipas, size : Sizes, pa : Pages] \cup {None}]
    /\ root \in Pages \cup {None} /\ tables \subseteq Pages
    /\ content \in [Pages -> [Index -> Descriptors \cup {None}]]
    /\ tlb \subseteq Ipas \X (Pages \cup {DevicePa})
    /\ host \subseteq Pages /\ initial \in Nat

\* The pages in use are exactly the host's and the VM's, no page has two
\* owners (two regions, a region and the tables, the VM and the host), and the
\* cached count is the number of them: no page leaks whichever call of a
\* mapping failed, and none is freed under another owner.  The VM's share stays
\* within MAX_GUEST_MEM_PAGES, and the assertion at the end of run_guest holds:
\* after teardown the count is what it was before the VM was created.
PagesAreAccountedFor ==
    /\ TypeOK
    /\ in_use = host \cup VmPages
    /\ host \cap VmPages = {}
    /\ RegionPages \cap tables = {}
    /\ \A u, v \in {w \in Backed : Present(w)} : u # v => Backing(u) \cap Backing(v) = {}
    /\ in_use_pages = Cardinality(in_use)
    /\ allocated_physical_pages <= MaxGuestPages
    /\ vm = "released" => in_use_pages = initial

\* However fragmented memory is, the scan of allocate_contiguous finds the lowest
\* run there is, or none.
ScanFindsLowestRun ==
    \A n \in 0 .. MaxRegion : Scan(n) = {s \in Runs(n) : \A t \in Runs(n) : s <= t}

\* What a walk of the tables may lead a guest page to: the page of the region
\* that backs it, at the same offset, or the device page.
Allowed(ipa, pa) ==
    \/ \E u \in Backed :
        /\ Present(u)
        /\ ipa \in IpaRange(u)
        /\ pa = region[u].pa + (ipa - region[u].ipa)
    \/ pa = DevicePa

\* A table is the child of one entry only, and the root of none: the tables are
\* a tree, so a leaf written for one guest address is the leaf of no other.
TableChildren ==
    {e \in tables \X Index : content[e[1]][e[2]] # None /\ content[e[1]][e[2]][2] = "table"}

TablesAreATree ==
    /\ \A e \in TableChildren : content[e[1]][e[2]][1] \in tables \ {root}
    /\ \A e, f \in TableChildren :
        e # f => content[e[1]][e[2]][1] # content[f[1]][f[2]][1]

\* At every point of building the tables, a walk from the root leads to a page
\* of the region that contains the guest address, at its offset: never to a
\* table, to a page of the host, to a page of a guard or of another region; and
\* the tables are a tree, whatever a recycled page held before.
WalksStayInside ==
    /\ TablesAreATree
    /\ root # None => \A ipa \in Ipas : Walk(ipa) # None => Allowed(ipa, Walk(ipa))

\* A translation the CPU may still use is one the tables still hold, and none
\* is left once the VM is not running: what release_all hands back cannot be
\* reached by a guest.
NoStaleTranslation ==
    /\ \A e \in tlb : Walk(e[1]) = e[2]
    /\ vm # "active" => tlb = {}

\* Once mapped, a guest page stays where it is until the VM is torn down: a
\* later map call, failed or not, never changes a leaf.
MappingsAreStable ==
    [][\A ipa \in Ipas : Walk(ipa) # None /\ root' # None => Walk(ipa)' = Walk(ipa)]_vars

=============================================================================
