------------------------- MODULE GuestMemoryProofs -------------------------
(***************************************************************************)
(* Proofs about the memory of a virtual machine, for every number of       *)
(* physical pages, table size, usage and bound.                            *)
(*                                                                         *)
(* Pages: the run the allocator hands out was owned by nobody, so the sets *)
(* of the host, of every region and of the tables stay apart, and the      *)
(* cached count follows their size (Owners).                               *)
(*                                                                         *)
(* Tables: there is a position for every page (Tree): the level of the     *)
(* table it holds, the indices that lead to it and the entry it hangs from.*)
(* An entry of a table at level 1 or 2 leads to a table one level down     *)
(* with that entry as its parent; an entry at level 3 is the page of every *)
(* guest address with its indices, and there is only one such address      *)
(* (IndicesAreExact).  A table is never a page of a region, so what the    *)
(* guest writes changes no table.                                          *)
(***************************************************************************)
EXTENDS GuestMemory, FiniteSetTheorems, TLAPS

-----------------------------------------------------------------------------
(* The inductive invariant. *)

Owners ==
    /\ in_use = host \cup VmPages
    /\ host \cap VmPages = {}
    /\ RegionPages \cap tables = {}
    /\ \A u, v \in {w \in Backed : Present(w)} : u # v => Backing(u) \cap Backing(v) = {}

Counts ==
    /\ in_use_pages = Cardinality(in_use)
    /\ allocated_physical_pages <= MaxGuestPages
    /\ vm # "none" => initial = Cardinality(host)

\* What the VM is at each step of run_guest.
Lifetime ==
    /\ vm \in {"none", "released"} => region = NoRegions /\ tables = {}
    /\ root = None => tables = {}
    /\ root # None => root \in tables
    /\ job # None => vm = "built"
    /\ vm # "active" => tlb = {}
    /\ \A u \in Usages : Present(u) => region[u].size # 0 /\ IpaRange(u) \subseteq Ipas

Position == [level : 1 .. 3, l1 : Index, l2 : Index, parent : Pages, slot : Index]

\* Entry i of the table p leads to a table one level down.
Link(pos, p, i) ==
    LET q == content[p][i][1]
    IN /\ content[p][i][2] = "table" /\ q \in tables
       /\ pos[q].level = pos[p].level + 1 /\ pos[q].parent = p /\ pos[q].slot = i
       /\ pos[p].level = 1 => pos[q].l1 = i
       /\ pos[p].level = 2 => pos[q].l1 = pos[p].l1 /\ pos[q].l2 = i

\* Entry i of the table p is the page of the guest addresses that lead there.
Leaf(pos, p, i) ==
    /\ content[p][i][2] # "table"
    /\ \A ipa \in Ipas :
        l1_index(ipa) = pos[p].l1 /\ l2_index(ipa) = pos[p].l2 /\ l3_index(ipa) = i =>
            Allowed(ipa, content[p][i][1])

Tree(pos) ==
    /\ root # None => pos[root].level = 1
    /\ \A p \in tables, i \in Index :
        content[p][i] # None => IF pos[p].level = 3 THEN Leaf(pos, p, i) ELSE Link(pos, p, i)

\* The page a map call works on, and what is left of its range.
JobSource ==
    \/ job.pa = DevicePa /\ job.left = 1
    \/ \E u \in Backed :
        /\ Present(u) /\ job.ipa \in IpaRange(u)
        /\ job.pa = region[u].pa + (job.ipa - region[u].ipa)
        /\ job.left = region[u].ipa + region[u].size - job.ipa

Jobs == [ipa : Ipas, pa : Pages \cup {DevicePa}, left : Nat \ {0}, attr : {"ram", "device"},
         level : 1 .. 3, table : Pages]

\* The table a map call is at is the one its address leads to.
JobInv(pos) ==
    job # None =>
        /\ job \in Jobs /\ root # None /\ job.table \in tables
        /\ pos[job.table].level = job.level
        /\ job.level # 1 => pos[job.table].l1 = l1_index(job.ipa)
        /\ job.level = 3 => pos[job.table].l2 = l2_index(job.ipa)
        /\ JobSource

Paths == \E pos \in [Pages -> Position] : Tree(pos) /\ JobInv(pos)

TlbInv == \A e \in tlb : Walk(e[1]) = e[2]

IInv == TypeOK /\ Owners /\ Counts /\ Lifetime /\ Paths /\ TlbInv

-----------------------------------------------------------------------------
(* Arithmetic on levels and ranges, stated without the records it is used on. *)

\* A descent stays within the three levels.
LEMMA Levels ==
    /\ 1 \in 1 .. 3 /\ 1 \in Nat \ {0} /\ 1 # 3 /\ 2 # 3 /\ 1 + 1 = 2 /\ 2 + 1 = 3
    /\ \A x \in {1, 2} : x + 1 \in 1 .. 3 /\ (x + 1 = 3 => x = 2)
    OBVIOUS

\* The first page of a range, and where it is mapped.
LEMMA RangeStart ==
    ASSUME NEW x \in Nat, NEW p \in Nat, NEW n \in Nat \ {0}
    PROVE  x \in x .. (x + n - 1) /\ p = p + (x - x) /\ n = x + n - x
    OBVIOUS

\* The page after one of a range that is not its last.
LEMMA RangeNext ==
    ASSUME NEW x \in Nat, NEW p \in Nat, NEW n \in Nat \ {0}, NEW a \in x .. (x + n - 1),
           x + n - a # 1
    PROVE  /\ a + 1 \in x .. (x + n - 1)
           /\ (p + (a - x)) + 1 \in p .. (p + n - 1)
           /\ (p + (a - x)) + 1 = p + ((a + 1) - x)
           /\ (x + n - a) - 1 = x + n - (a + 1)
           /\ (x + n - a) - 1 \in Nat \ {0}
    OBVIOUS

\* The entries that lead to a table, by table and index.
LEMMA ChildParts ==
    ASSUME NEW e \in TableChildren
    PROVE  \E p \in tables, i \in Index : e = <<p, i>> /\ content[p][i] # None /\ content[p][i][2] = "table"
    BY DEF TableChildren

-----------------------------------------------------------------------------
(* Indices. *)

\* Division with remainder.
LEMMA DivRem ==
    ASSUME NEW a \in Nat, NEW F \in Nat \ {0}
    PROVE  /\ a \div F \in Nat /\ a % F \in 0 .. (F - 1)
           /\ a = F * (a \div F) + (a % F)
<1>1. a % F = a - F * (a \div F)
    OBVIOUS
<1>2. a \div F \in Int /\ a % F \in 0 .. (F - 1)
    OBVIOUS
<1>3. a = F * (a \div F) + (a % F)
    BY <1>1, <1>2
<1>4. ASSUME NEW q \in Int, NEW r \in 0 .. (F - 1), a = F * q + r PROVE q \in Nat
    BY <1>4
<1>5. QED
    BY <1>2, <1>3, <1>4

\* The quotient is determined.
LEMMA Quotient ==
    ASSUME NEW a \in Nat, NEW F \in Nat \ {0}, NEW q \in Int, NEW r \in Int,
           a = F * q + r, 0 <= r, r < F
    PROVE  a \div F = q
    OBVIOUS

\* Two divisions are one.
LEMMA DivDiv ==
    ASSUME NEW a \in Nat, NEW F \in Nat \ {0}
    PROVE  (a \div F) \div F = a \div (F * F)
<1> DEFINE d == (a \div F) \div F
<1> DEFINE m == (a \div F) % F
<1> DEFINE r == a % F
<1>1. a = F * (F * d + m) + r /\ d \in Nat /\ m \in 0 .. (F - 1) /\ r \in 0 .. (F - 1)
    BY DivRem, Zenon
<1> HIDE DEF d, m, r
<1>2. a = (F * F) * d + (F * m + r)
    BY <1>1
<1>3. F * m + r >= 0 /\ F * m <= F * (F - 1)
    BY <1>1
<1>4. F * m + r < F * F
    BY <1>1, <1>3
<1>5. F * F \in Nat \ {0} /\ F * m + r \in Int
    BY <1>1
<1>6. a \div (F * F) = d
    BY <1>1, <1>2, <1>3, <1>4, <1>5, Quotient
<1>7. QED
    BY <1>6 DEF d

\* The three indices of a guest page are entries of a table.
LEMMA IndexTypes ==
    ASSUME NEW ipa \in Ipas
    PROVE  l1_index(ipa) \in Index /\ l2_index(ipa) \in Index /\ l3_index(ipa) \in Index
<1>1. ipa \in Nat /\ Fanout \in Nat \ {0} /\ ipa < Fanout * Fanout * Fanout
    BY FanoutAssumption DEF Ipas
<1>2. l3_index(ipa) \in Index
    BY <1>1, DivRem DEF l3_index, Index
<1>3. ipa \div Fanout \in Nat
    BY <1>1, DivRem, Zenon
<1>4. l2_index(ipa) \in Index
    BY <1>1, <1>3, DivRem DEF l2_index, Index
<1>5. l1_index(ipa) \in Index
  <2> DEFINE S == Fanout * Fanout
  <2>1. S \in Nat \ {0} /\ ipa < S * Fanout
      BY <1>1
  <2> HIDE DEF S
  <2>2. ipa \div S \in Nat /\ S * (ipa \div S) <= ipa
    <3>1. /\ ipa \div S \in Nat /\ ipa % S \in 0 .. (S - 1)
          /\ ipa = S * (ipa \div S) + (ipa % S)
        BY <1>1, <2>1, DivRem, Zenon
    <3>2. \A q \in Nat, m \in 0 .. (S - 1) : ipa = S * q + m => S * q <= ipa
        BY <1>1, <2>1
    <3>3. QED
        BY <3>1, <3>2
  <2>3. \A q \in Nat : S * q < S * Fanout => q < Fanout
      BY <1>1, <2>1
  <2>4. ipa \div S < Fanout
      BY <1>1, <2>1, <2>2, <2>3
  <2>5. QED
      BY <1>1, <2>2, <2>4 DEF S, l1_index, Index
<1>6. QED
    BY <1>2, <1>4, <1>5

\* No two guest pages have the same indices (l1_index, l2_index, l3_index).
LEMMA IndicesAreExact ==
    ASSUME NEW a \in Ipas, NEW b \in Ipas,
           l1_index(a) = l1_index(b), l2_index(a) = l2_index(b), l3_index(a) = l3_index(b)
    PROVE  a = b
<1>1. a \in Nat /\ b \in Nat /\ Fanout \in Nat \ {0}
    BY FanoutAssumption DEF Ipas
<1>2. \A x \in Nat : /\ x \div Fanout \in Nat
                     /\ x = Fanout * (x \div Fanout) + (x % Fanout)
                     /\ x \div Fanout =
                            Fanout * (x \div (Fanout * Fanout)) + ((x \div Fanout) % Fanout)
    BY <1>1, DivRem, DivDiv, Zenon
<1>3. a \div Fanout = b \div Fanout
    BY <1>1, <1>2, Zenon DEF l1_index, l2_index
<1>4. QED
    BY <1>1, <1>2, <1>3, Zenon DEF l3_index

-----------------------------------------------------------------------------
(* Pages and their number. *)

\* The pages of a VM, page by page.
LEMMA RegionMember ==
    \A x : x \in RegionPages <=> \E u \in Backed : Present(u) /\ x \in Backing(u)
    BY DEF RegionPages

\* Every set of pages is finite.
LEMMA PagesFinite ==
    /\ IsFiniteSet(Pages)
    /\ \A S \in SUBSET Pages : IsFiniteSet(S) /\ Cardinality(S) \in Nat
<1>1. IsFiniteSet(Pages)
    BY ApertureAssumption, FS_Interval DEF Pages
<1>2. QED
    BY <1>1, FS_Subset, FS_CardinalityType

\* set_bit counts the pages it marks.
LEMMA CountAdded ==
    ASSUME in_use \subseteq Pages, in_use_pages = Cardinality(in_use),
           NEW S \in SUBSET Pages, S \cap in_use = {}, SetBits(S)
    PROVE  in_use' = in_use \cup S /\ in_use_pages' = Cardinality(in_use')
<1>1. in_use' = in_use \cup S /\ in_use_pages' = in_use_pages + Cardinality(S)
  <2>1. S \ in_use = S
      OBVIOUS
  <2>2. QED
      BY <2>1 DEF SetBits
<1>2. IsFiniteSet(S) /\ IsFiniteSet(in_use) /\ Cardinality(S) \in Nat /\ Cardinality(in_use) \in Nat
    BY PagesFinite
<1>3. Cardinality(in_use \cup S) = Cardinality(in_use) + Cardinality(S) - Cardinality(in_use \cap S)
    BY <1>2, FS_Union
<1>4. Cardinality(in_use \cup S) = Cardinality(in_use) + Cardinality(S)
  <2>1. in_use \cap S = {}
      OBVIOUS
  <2>2. QED
      BY <1>2, <1>3, <2>1, FS_EmptySet
<1>5. QED
    BY <1>1, <1>4

\* ... and those it clears.
LEMMA CountRemoved ==
    ASSUME in_use \subseteq Pages, in_use_pages = Cardinality(in_use),
           NEW S \in SUBSET in_use, ClearBits(S)
    PROVE  in_use' = in_use \ S /\ in_use_pages' = Cardinality(in_use')
<1> DEFINE R == in_use \ S
<1>1. in_use' = R /\ in_use_pages' = in_use_pages - Cardinality(S)
  <2>1. S \cap in_use = S
      OBVIOUS
  <2>2. QED
      BY <2>1 DEF ClearBits
<1>2. S \in SUBSET Pages /\ R \in SUBSET Pages /\ R \cup S = in_use /\ R \cap S = {}
    OBVIOUS
<1> HIDE DEF R
<1>3. IsFiniteSet(S) /\ IsFiniteSet(R) /\ Cardinality(S) \in Nat /\ Cardinality(R) \in Nat
    BY <1>2, PagesFinite
<1>4. Cardinality(R \cup S) = Cardinality(R) + Cardinality(S) - Cardinality(R \cap S)
    BY <1>3, FS_Union
<1>5. Cardinality(in_use) = Cardinality(R) + Cardinality(S)
    BY <1>2, <1>3, <1>4, FS_EmptySet
<1>6. QED
    BY <1>1, <1>3, <1>5 DEF R

\* allocate_contiguous takes a run that nobody owns.
LEMMA FreshRun ==
    ASSUME NEW n \in Nat, NEW s \in Pages, allocate_contiguous(n, s)
    PROVE  /\ n # 0 /\ s .. (s + n - 1) \subseteq Managed /\ s .. (s + n - 1) \subseteq Pages
           /\ (s .. (s + n - 1)) \cap in_use = {} /\ s \in s .. (s + n - 1)
           /\ SetBits(s .. (s + n - 1)) /\ Cardinality(s .. (s + n - 1)) = n
<1>1. n # 0 /\ s .. (s + n - 1) \subseteq Unused /\ SetBits(s .. (s + n - 1))
    BY DEF allocate_contiguous, Runs
<1>2. s \in Nat
    BY ApertureAssumption DEF Pages
<1>3. Cardinality(s .. (s + n - 1)) = n
    BY <1>1, <1>2, FS_Interval
<1>4. QED
    BY <1>1, <1>2, <1>3, ApertureAssumption DEF Unused, Pages

\* A single page.
LEMMA FreshPage ==
    ASSUME NEW p \in Pages, allocate_high(p) \/ allocate_contiguous(1, p)
    PROVE  p \in Managed /\ p \notin in_use /\ SetBits({p})
<1>1. CASE allocate_high(p)
    BY <1>1 DEF allocate_high, Unused
<1>2. CASE allocate_contiguous(1, p)
  <2>1. p .. (p + 1 - 1) = {p}
      BY ApertureAssumption DEF Pages
  <2>2. QED
      BY <1>2, <2>1, FreshRun, Zenon
<1>3. QED
    BY <1>1, <1>2

-----------------------------------------------------------------------------
(* The steps of the allocator, the host and the VM. *)

\* Between the calls that build the VM, and inside one of them.
Building == Ready \/ job # None

\* The steps, with the failures of all calls together.
LEMMA Steps ==
    ASSUME [Next]_vars
    PROVE  \/ HostAllocates \/ HostFrees \/ new
           \/ Building /\ Fails
           \/ Ready /\ \E u \in Backed, ipa \in RegionIpas, size \in Sizes : AllocBacked(u, ipa, size)
           \/ Ready /\ \E ipa \in RegionIpas, size \in Sizes : AllocGuard(ipa, size)
           \/ Ready /\ \E size \in Sizes : AllocTables(size)
           \/ /\ Ready
              /\ \E u \in Backed : Present(u) /\ StartMap(region[u].ipa, region[u].pa, region[u].size, "ram")
           \/ Ready /\ \E ipa \in DeviceIpas : StartMap(ipa, DevicePa, 1, "device")
           \/ Descend \/ AddTable \/ InstallLeaf
           \/ activate_guest_stage2 \/ GuestTranslates \/ GuestWrites \/ deactivate_guest_stage2
           \/ release_all \/ drop \/ UNCHANGED vars
<1>1. CASE vm_mem_alloc
    BY <1>1 DEF vm_mem_alloc, AllocFails, Building
<1>2. CASE map
    BY <1>2 DEF map, Building
<1>3. CASE map_external_device
    BY <1>3 DEF map_external_device, Building
<1>4. CASE NoTable \/ Conflict
    BY <1>4 DEF NoTable, Conflict, Building
<1>5. QED
    BY <1>1, <1>2, <1>3, <1>4, Zenon DEF Next

\* Steps that leave the pages and their owners alone.
SamePages == UNCHANGED <<allocator, region, root, tables, host>>

\* All but the allocations, the frees and teardown.
LEMMA QuietSteps ==
    ASSUME \/ new \/ Fails \/ Descend \/ InstallLeaf
           \/ activate_guest_stage2 \/ GuestTranslates \/ GuestWrites \/ deactivate_guest_stage2
           \/ \E u \in Backed : StartMap(region[u].ipa, region[u].pa, region[u].size, "ram")
           \/ \E ipa \in DeviceIpas : StartMap(ipa, DevicePa, 1, "device")
           \/ UNCHANGED vars
    PROVE  SamePages
    BY DEF new, Fails, Descend, InstallLeaf, activate_guest_stage2, GuestTranslates, GuestWrites,
       deactivate_guest_stage2, StartMap, vars, SamePages

\* The regions with pages decide what belongs to the VM and what it may reach.
LEMMA SameRegions ==
    ASSUME \A u \in Backed : region'[u] = region[u]
    PROVE  /\ RegionPages' = RegionPages
           /\ \A u \in Backed : /\ Present(u)' <=> Present(u)
                                /\ Backing(u)' = Backing(u) /\ IpaRange(u)' = IpaRange(u)
           /\ \A ipa, pa : Allowed(ipa, pa)' <=> Allowed(ipa, pa)
<1>1. \A u \in Backed : /\ Present(u)' <=> Present(u)
                        /\ Backing(u)' = Backing(u) /\ IpaRange(u)' = IpaRange(u)
    BY DEF Present, Backing, IpaRange
<1>2. \A x : x \in RegionPages' <=> x \in RegionPages
    BY <1>1 DEF RegionPages
<1>3. \A ipa, pa : Allowed(ipa, pa)' <=> Allowed(ipa, pa)
    BY <1>1 DEF Allowed
<1>4. QED
    BY <1>1, <1>2, <1>3

\* A new region adds its pages.
LEMMA NewRegion ==
    ASSUME TypeOK, NEW u \in Backed, NEW ipa \in RegionIpas, NEW size \in Sizes,
           AllocBacked(u, ipa, size)
    PROVE  \E s \in Pages :
               LET run == s .. (s + size - 1)
               IN /\ allocate_contiguous(size, s) /\ Zero(run)
                  /\ region' = [region EXCEPT ![u] = [ipa |-> ipa, size |-> size, pa |-> s]]
                  /\ Present(u)' /\ Backing(u)' = run /\ IpaRange(u)' = ipa .. (ipa + size - 1)
                  /\ \A v \in Usages \ {u} : region'[v] = region[v]
                  /\ \A v \in Backed \ {u} : (Present(v)' <=> Present(v)) /\ Backing(v)' = Backing(v)
                  /\ ~Present(u) /\ RegionPages' = RegionPages \cup run
<1>1. PICK s \in Pages : /\ allocate_contiguous(size, s) /\ Zero(s .. (s + size - 1))
                         /\ region' = [region EXCEPT ![u] = [ipa |-> ipa, size |-> size, pa |-> s]]
    BY Zenon DEF AllocBacked
<1> DEFINE run == s .. (s + size - 1)
<1>2. DOMAIN region = Usages /\ u \in Usages
    BY DEF TypeOK, Usages
<1>3. region'[u] = [ipa |-> ipa, size |-> size, pa |-> s] /\ \A v \in Usages \ {u} : region'[v] = region[v]
    BY <1>1, <1>2
<1>4. [ipa |-> ipa, size |-> size, pa |-> s] # None
  <2>1. [ipa |-> ipa, size |-> size, pa |-> s] \in [ipa : Ipas, size : Sizes, pa : Pages]
      BY IpaAssumption
  <2>2. QED
      BY <2>1, NoneAssumption
<1>5. Present(u)' /\ Backing(u)' = run /\ IpaRange(u)' = ipa .. (ipa + size - 1)
    BY <1>3, <1>4 DEF Present, Backing, IpaRange
<1>6. \A v \in Backed \ {u} : (Present(v)' <=> Present(v)) /\ Backing(v)' = Backing(v)
    BY <1>3 DEF Present, Backing, Usages
<1>7. ~Present(u)
    BY DEF AllocBacked
<1>8. \A x : x \in RegionPages' <=> x \in RegionPages \cup run
  <2>1. \A x : x \in RegionPages' <=> \E v \in Backed : Present(v)' /\ x \in Backing(v)'
      BY DEF RegionPages
  <2>2. ASSUME NEW x, NEW v \in Backed, Present(v)', x \in Backing(v)' PROVE x \in RegionPages \cup run
      BY <1>5, <1>6, <2>2, RegionMember, Zenon
  <2>3. ASSUME NEW x, x \in RegionPages \cup run PROVE \E v \in Backed : Present(v)' /\ x \in Backing(v)'
      BY <1>5, <1>6, <1>7, <2>3, RegionMember, Zenon
  <2>4. QED
      BY <2>1, <2>2, <2>3
<1>9. RegionPages' = RegionPages \cup run
    BY <1>8
<1>10. QED
    BY <1>1, <1>3, <1>5, <1>6, <1>7, <1>9, Zenon

\* A guard adds none.
LEMMA NewGuard ==
    ASSUME TypeOK, NEW ipa \in RegionIpas, NEW size \in Sizes, AllocGuard(ipa, size)
    PROVE  \A u \in Backed : region'[u] = region[u]
    BY UsageAssumption DEF TypeOK, AllocGuard, Guard, Usages

\* Teardown frees exactly the pages of the VM.
LEMMA FreesVmPages ==
    ASSUME TypeOK, Owners
    PROVE  {p \in VmPages : Freeable(p)} = VmPages /\ VmPages \subseteq in_use
    BY DEF TypeOK, Owners, Freeable

\* Without regions and tables there are no pages.
LEMMA NoPages ==
    ASSUME region = NoRegions, tables = {}
    PROVE  RegionPages = {} /\ VmPages = {} /\ \A u \in Backed : ~Present(u)
    BY DEF NoRegions, RegionPages, VmPages, Present, Usages

\* No page gets a second owner, and none is in use without one.
LEMMA OwnersStep == IInv /\ [Next]_vars => Owners'
<1> SUFFICES ASSUME IInv, [Next]_vars PROVE Owners'
    OBVIOUS
<1> USE DEF IInv
<1>1. CASE SamePages
  <2>1. /\ UNCHANGED <<in_use, host, tables>> /\ RegionPages' = RegionPages
        /\ \A u \in Backed : (Present(u)' <=> Present(u)) /\ Backing(u)' = Backing(u)
      BY <1>1, SameRegions DEF SamePages, allocator
  <2>2. QED
      BY <2>1 DEF Owners, VmPages
<1>2. CASE HostAllocates
  <2>1. /\ vm = "none" /\ UNCHANGED <<region, tables>>
        /\ \E p \in Pages : (allocate_high(p) \/ allocate_contiguous(1, p)) /\ host' = host \cup {p}
      BY <1>2 DEF HostAllocates
  <2>2. PICK p \in Pages : p \notin in_use /\ in_use' = in_use \cup {p} /\ host' = host \cup {p}
      BY <2>1, FreshPage, Zenon DEF SetBits
  <2>3. region' = NoRegions /\ tables' = {} /\ VmPages = {}
      BY <2>1, NoPages DEF Lifetime
  <2>4. RegionPages' = {} /\ VmPages' = {} /\ \A u \in Backed : ~Present(u)'
      BY <2>3 DEF NoRegions, RegionPages, VmPages, Present, Usages
  <2>5. QED
      BY <2>2, <2>3, <2>4 DEF Owners
<1>3. CASE HostFrees
  <2>1. PICK p \in host : in_use' = in_use \ {p} /\ host' = host \ {p}
      BY <1>3 DEF HostFrees, free, ClearBits
  <2>2. UNCHANGED <<region, tables>> /\ region' = NoRegions /\ tables' = {} /\ VmPages = {}
      BY <1>3, NoPages DEF HostFrees, Lifetime
  <2>3. RegionPages' = {} /\ VmPages' = {} /\ \A u \in Backed : ~Present(u)'
      BY <2>2 DEF NoRegions, RegionPages, VmPages, Present, Usages
  <2>4. QED
      BY <2>1, <2>2, <2>3 DEF Owners
<1>4. ASSUME NEW u \in Backed, NEW ipa \in RegionIpas, NEW size \in Sizes, AllocBacked(u, ipa, size)
      PROVE  Owners'
  <2>1. PICK s \in Pages :
            LET run == s .. (s + size - 1)
            IN /\ allocate_contiguous(size, s)
               /\ Present(u)' /\ Backing(u)' = run
               /\ \A v \in Backed \ {u} : (Present(v)' <=> Present(v)) /\ Backing(v)' = Backing(v)
               /\ ~Present(u) /\ RegionPages' = RegionPages \cup run
      BY <1>4, NewRegion
  <2> DEFINE run == s .. (s + size - 1)
  <2>2. run \cap in_use = {} /\ in_use' = in_use \cup run
    <3>1. size \in Nat
        BY BoundsAssumption DEF Sizes
    <3>2. run \cap in_use = {} /\ SetBits(run)
        BY <2>1, <3>1, FreshRun
    <3>3. QED
        BY <3>2 DEF SetBits
  <2>3. UNCHANGED <<tables, host>>
      BY <1>4 DEF AllocBacked
  <2>4. \A v \in Backed : Present(v) => Backing(v) \subseteq in_use
      BY RegionMember DEF Owners, VmPages
  <2> HIDE DEF run
  <2>5. Backing(u)' = run /\ RegionPages' = RegionPages \cup run
      BY <2>1 DEF run
  <2>6. \A v, w \in {x \in Backed : Present(x)'} : v # w => Backing(v)' \cap Backing(w)' = {}
      BY <2>1, <2>2, <2>4, <2>5 DEF Owners
  <2>7. QED
      BY <2>2, <2>3, <2>5, <2>6 DEF Owners, VmPages
<1>5. ASSUME NEW ipa \in RegionIpas, NEW size \in Sizes, AllocGuard(ipa, size) PROVE Owners'
  <2>1. /\ UNCHANGED <<in_use, host, tables>> /\ RegionPages' = RegionPages
        /\ \A u \in Backed : (Present(u)' <=> Present(u)) /\ Backing(u)' = Backing(u)
      BY <1>5, NewGuard, SameRegions, Zenon DEF AllocGuard, allocator
  <2>2. QED
      BY <2>1 DEF Owners, VmPages
<1>6. ASSUME NEW size \in Sizes, AllocTables(size) PROVE Owners'
  <2>1. PICK s \in Pages : allocate_contiguous(size, s) /\ tables' = s .. (s + size - 1)
      BY <1>6 DEF AllocTables
  <2>2. tables' \cap in_use = {} /\ in_use' = in_use \cup tables'
    <3>1. size \in Nat
        BY BoundsAssumption DEF Sizes
    <3>2. (s .. (s + size - 1)) \cap in_use = {} /\ SetBits(s .. (s + size - 1))
        BY <2>1, <3>1, FreshRun
    <3>3. QED
        BY <2>1, <3>2 DEF SetBits
  <2>3. /\ UNCHANGED <<region, host>> /\ tables = {} /\ RegionPages' = RegionPages
        /\ \A u \in Backed : (Present(u)' <=> Present(u)) /\ Backing(u)' = Backing(u)
      BY <1>6, SameRegions DEF AllocTables
  <2>4. QED
      BY <2>2, <2>3 DEF Owners, VmPages
<1>7. CASE AddTable
  <2>1. PICK p \in Pages : allocate_contiguous(1, p) /\ tables' = tables \cup {p}
      BY <1>7 DEF AddTable, TrackTable
  <2>2. p \notin in_use /\ in_use' = in_use \cup {p}
      BY <2>1, FreshPage, Zenon DEF SetBits
  <2>3. /\ UNCHANGED <<region, host>> /\ RegionPages' = RegionPages
        /\ \A u \in Backed : (Present(u)' <=> Present(u)) /\ Backing(u)' = Backing(u)
      BY <1>7, SameRegions DEF AddTable
  <2>4. QED
      BY <2>1, <2>2, <2>3 DEF Owners, VmPages
<1>8. CASE release_all \/ drop
  <2>1. /\ host' = host /\ in_use' = in_use \ VmPages /\ region' = NoRegions /\ tables' = {}
      BY <1>8, FreesVmPages DEF release_all, drop, ClearBits, Lifetime
  <2>2. RegionPages' = {} /\ VmPages' = {} /\ \A u \in Backed : ~Present(u)'
      BY <2>1 DEF NoRegions, RegionPages, VmPages, Present, Usages
  <2>3. QED
      BY <2>1, <2>2 DEF Owners
<1> HIDE DEF IInv
<1>9. QED
    BY <1>1, <1>2, <1>3, <1>4, <1>5, <1>6, <1>7, <1>8, Steps, QuietSteps, Zenon

\* The size of two disjoint sets of pages together.
LEMMA DisjointCount ==
    ASSUME NEW S \in SUBSET Pages, NEW T \in SUBSET Pages, S \cap T = {}
    PROVE  Cardinality(S \cup T) = Cardinality(S) + Cardinality(T)
<1>1. IsFiniteSet(S) /\ IsFiniteSet(T) /\ Cardinality(S) \in Nat /\ Cardinality(T) \in Nat
    BY PagesFinite
<1>2. Cardinality(S \cup T) = Cardinality(S) + Cardinality(T) - Cardinality(S \cap T)
    BY <1>1, FS_Union
<1>3. Cardinality(S \cap T) = 0
    BY FS_EmptySet
<1>4. QED
    BY <1>1, <1>2, <1>3

\* The sets of the invariant are sets of pages.
LEMMA SubsetsOfPages ==
    ASSUME TypeOK, Owners
    PROVE  /\ in_use \subseteq Pages /\ host \subseteq Pages /\ tables \subseteq Pages
           /\ RegionPages \subseteq Pages
           /\ Cardinality(RegionPages) \in Nat /\ Cardinality(tables) \in Nat
<1>1. in_use \subseteq Pages /\ host \subseteq Pages /\ tables \subseteq Pages
    BY ApertureAssumption DEF TypeOK, Pages
<1>2. RegionPages \subseteq Pages
    BY <1>1 DEF Owners, VmPages
<1>3. QED
    BY <1>1, <1>2, PagesFinite

\* The cached count, the VM's limit and the count at its creation.
LEMMA CountsStep == IInv /\ [Next]_vars => Counts'
<1> SUFFICES ASSUME IInv, [Next]_vars PROVE Counts'
    OBVIOUS
<1>a. TypeOK /\ Owners /\ Counts /\ Lifetime
    BY DEF IInv
<1>b. /\ in_use \subseteq Pages /\ host \subseteq Pages /\ tables \subseteq Pages
      /\ RegionPages \subseteq Pages
      /\ Cardinality(RegionPages) \in Nat /\ Cardinality(tables) \in Nat
    BY <1>a, SubsetsOfPages
<1>c. in_use_pages = Cardinality(in_use) /\ allocated_physical_pages <= MaxGuestPages
    BY <1>a DEF Counts
<1>d. MaxGuestPages \in Nat /\ MaxRegion \in Nat
    BY BoundsAssumption
<1>1. CASE SamePages /\ UNCHANGED <<vm, initial>>
  <2>1. RegionPages' = RegionPages
      BY <1>1, SameRegions DEF SamePages
  <2>2. QED
      BY <1>a, <1>1, <2>1 DEF Counts, SamePages, allocator, allocated_physical_pages
<1>2. CASE SamePages /\ UNCHANGED initial /\ vm # "none"
  <2>1. RegionPages' = RegionPages
      BY <1>2, SameRegions DEF SamePages
  <2>2. QED
      BY <1>a, <1>2, <2>1 DEF Counts, SamePages, allocator, allocated_physical_pages
<1>3. CASE new
  <2>1. SamePages /\ initial' = in_use_pages /\ vm = "none"
      BY <1>3, QuietSteps DEF new
  <2>2. RegionPages' = RegionPages /\ in_use = host
      BY <1>a, <2>1, SameRegions, NoPages DEF SamePages, Owners, Lifetime
  <2>3. QED
      BY <1>c, <2>1, <2>2 DEF Counts, SamePages, allocator, allocated_physical_pages
<1>4. CASE HostAllocates
  <2>1. PICK p \in Pages : allocate_high(p) \/ allocate_contiguous(1, p)
      BY <1>4 DEF HostAllocates
  <2>2. p \notin in_use /\ SetBits({p})
      BY <2>1, FreshPage
  <2>3. in_use_pages' = Cardinality(in_use')
      BY <1>b, <1>c, <2>2, CountAdded
  <2>4. vm = "none" /\ UNCHANGED <<vm, region, tables>>
      BY <1>4 DEF HostAllocates
  <2>5. RegionPages' = RegionPages
      BY <2>4, SameRegions
  <2>6. QED
      BY <1>c, <2>3, <2>4, <2>5 DEF Counts, allocated_physical_pages
<1>5. CASE HostFrees
  <2>1. PICK p \in host : free(p)
      BY <1>5 DEF HostFrees
  <2>2. {p} \in SUBSET in_use /\ ClearBits({p})
      BY <2>1 DEF free, Freeable
  <2>3. in_use_pages' = Cardinality(in_use')
      BY <1>b, <1>c, <2>2, CountRemoved
  <2>4. vm = "none" /\ UNCHANGED <<vm, region, tables>>
      BY <1>5 DEF HostFrees
  <2>5. RegionPages' = RegionPages
      BY <2>4, SameRegions
  <2>6. QED
      BY <1>c, <2>3, <2>4, <2>5 DEF Counts, allocated_physical_pages
<1>6. ASSUME NEW u \in Backed, NEW ipa \in RegionIpas, NEW size \in Sizes, AllocBacked(u, ipa, size)
      PROVE  Counts'
  <2>1. PICK s \in Pages : allocate_contiguous(size, s) /\ RegionPages' = RegionPages \cup (s .. (s + size - 1))
      BY <1>a, <1>6, NewRegion
  <2> DEFINE run == s .. (s + size - 1)
  <2>2. size \in Nat
      BY <1>d DEF Sizes
  <2>3. run \subseteq Pages /\ run \cap in_use = {} /\ SetBits(run) /\ Cardinality(run) = size
      BY <2>1, <2>2, FreshRun
  <2> HIDE DEF run
  <2>4. in_use_pages' = Cardinality(in_use')
      BY <1>b, <1>c, <2>3, CountAdded
  <2>5. RegionPages' = RegionPages \cup run /\ RegionPages \cap run = {}
      BY <1>a, <2>1, <2>3 DEF run, Owners, VmPages
  <2>6. Cardinality(RegionPages') = Cardinality(RegionPages) + size
      BY <1>b, <2>3, <2>5, DisjointCount
  <2>7. WithinLimit(size) /\ UNCHANGED <<vm, tables, host, initial>>
      BY <1>6 DEF AllocBacked
  <2>8. allocated_physical_pages' <= MaxGuestPages
      BY <1>b, <1>d, <2>2, <2>6, <2>7 DEF WithinLimit, allocated_physical_pages
  <2>9. QED
      BY <1>a, <2>4, <2>7, <2>8 DEF Counts
<1>7. ASSUME NEW ipa \in RegionIpas, NEW size \in Sizes, AllocGuard(ipa, size) PROVE Counts'
  <2>1. UNCHANGED <<allocator, vm, host, tables, initial>> /\ RegionPages' = RegionPages
      BY <1>a, <1>7, NewGuard, SameRegions, Zenon DEF AllocGuard
  <2>2. QED
      BY <1>a, <2>1 DEF Counts, allocator, allocated_physical_pages
<1>8. ASSUME NEW size \in Sizes, AllocTables(size) PROVE Counts'
  <2>1. PICK s \in Pages : allocate_contiguous(size, s) /\ tables' = s .. (s + size - 1)
      BY <1>8 DEF AllocTables
  <2>2. size \in Nat
      BY <1>d DEF Sizes
  <2>3. tables' \subseteq Pages /\ tables' \cap in_use = {} /\ SetBits(tables') /\ Cardinality(tables') = size
      BY <2>1, <2>2, FreshRun
  <2>4. in_use_pages' = Cardinality(in_use')
      BY <1>b, <1>c, <2>3, CountAdded
  <2>5. WithinLimit(size) /\ UNCHANGED <<vm, region, host, initial>> /\ tables = {}
      BY <1>8 DEF AllocTables
  <2>6. RegionPages' = RegionPages /\ Cardinality(tables) = 0
      BY <2>5, SameRegions, FS_EmptySet
  <2>7. allocated_physical_pages' <= MaxGuestPages
      BY <1>b, <1>d, <2>2, <2>3, <2>5, <2>6 DEF WithinLimit, allocated_physical_pages
  <2>8. QED
      BY <1>a, <2>4, <2>5, <2>7 DEF Counts
<1>9. CASE AddTable
  <2>1. PICK p \in Pages : allocate_contiguous(1, p) /\ tables' = tables \cup {p}
      BY <1>9 DEF AddTable, TrackTable
  <2>2. p \notin in_use /\ SetBits({p})
      BY <2>1, FreshPage
  <2>3. in_use_pages' = Cardinality(in_use')
      BY <1>b, <1>c, <2>2, CountAdded
  <2>4. p \notin tables
      BY <1>a, <2>2 DEF Owners, VmPages
  <2>5. Cardinality(tables') = Cardinality(tables) + 1
    <3>1. {p} \in SUBSET Pages /\ tables \cap {p} = {} /\ Cardinality({p}) = 1
        BY <2>4, FS_Singleton
    <3>2. Cardinality(tables \cup {p}) = Cardinality(tables) + Cardinality({p})
        BY <1>b, <3>1, DisjointCount
    <3>3. QED
        BY <2>1, <3>1, <3>2
  <2>6. WithinLimit(1) /\ UNCHANGED <<vm, region, host, initial>>
      BY <1>9 DEF AddTable
  <2>7. RegionPages' = RegionPages
      BY <2>6, SameRegions
  <2>8. allocated_physical_pages' <= MaxGuestPages
      BY <1>b, <1>d, <2>5, <2>6, <2>7 DEF WithinLimit, allocated_physical_pages
  <2>9. QED
      BY <1>a, <2>3, <2>6, <2>8 DEF Counts
<1>10. CASE release_all \/ drop
  <2>1. ClearBits(VmPages) /\ VmPages \in SUBSET in_use
      BY <1>a, <1>10, FreesVmPages DEF release_all, drop
  <2>2. in_use_pages' = Cardinality(in_use')
      BY <1>b, <1>c, <2>1, CountRemoved
  <2>3. region' = NoRegions /\ tables' = {} /\ UNCHANGED <<host, initial>> /\ vm # "none"
      BY <1>a, <1>10 DEF release_all, drop, Lifetime
  <2>4. RegionPages' = {}
      BY <2>3 DEF NoRegions, RegionPages, Present, Usages
  <2>5. allocated_physical_pages' <= MaxGuestPages
      BY <1>d, <2>3, <2>4, FS_EmptySet DEF allocated_physical_pages
  <2>6. QED
      BY <1>a, <2>2, <2>3, <2>5 DEF Counts
<1>11. ASSUME \/ Building /\ Fails
              \/ Descend \/ InstallLeaf
              \/ activate_guest_stage2 \/ GuestTranslates \/ GuestWrites \/ deactivate_guest_stage2
              \/ Ready /\ \E u \in Backed : StartMap(region[u].ipa, region[u].pa, region[u].size, "ram")
              \/ Ready /\ \E ipa \in DeviceIpas : StartMap(ipa, DevicePa, 1, "device")
              \/ UNCHANGED vars
       PROVE  Counts'
  <2>1. SamePages
      BY <1>11, QuietSteps
  <2>2. UNCHANGED initial /\ (UNCHANGED vm \/ vm # "none")
      BY <1>a, <1>11 DEF Building, Ready, Fails, Descend, InstallLeaf, activate_guest_stage2,
         GuestTranslates, GuestWrites, deactivate_guest_stage2, StartMap, vars, Lifetime
  <2>3. QED
      BY <1>1, <1>2, <2>1, <2>2
<1>12. QED
    BY <1>3, <1>4, <1>5, <1>6, <1>7, <1>8, <1>9, <1>10, <1>11, Steps

-----------------------------------------------------------------------------
(* Types and the life of the VM. *)

OwnerTypes ==
    /\ in_use \subseteq Managed /\ host \subseteq Pages
    /\ region \in [Usages -> [ipa : Ipas, size : Sizes, pa : Pages] \cup {None}]
    /\ root \in Pages \cup {None} /\ tables \subseteq Pages

ContentTypes == content \in [Pages -> [Index -> Descriptors \cup {None}]]

\* The types of the sets of pages and of the regions.
LEMMA OwnerTypesStep == IInv /\ [Next]_vars => OwnerTypes'
<1> SUFFICES ASSUME IInv, [Next]_vars PROVE OwnerTypes'
    OBVIOUS
<1>a. OwnerTypes
    BY DEF IInv, TypeOK, OwnerTypes
<1> USE DEF OwnerTypes
<1>1. CASE SamePages
    BY <1>a, <1>1 DEF SamePages, allocator
<1>2. CASE HostAllocates
  <2>1. PICK p \in Pages : (allocate_high(p) \/ allocate_contiguous(1, p)) /\ host' = host \cup {p}
      BY <1>2 DEF HostAllocates
  <2>2. p \in Managed /\ in_use' = in_use \cup {p}
      BY <2>1, FreshPage, Zenon DEF SetBits
  <2>3. QED
      BY <1>a, <1>2, <2>1, <2>2, Zenon DEF HostAllocates
<1>3. CASE HostFrees
    BY <1>a, <1>3, Zenon DEF HostFrees, free, ClearBits
<1>4. ASSUME NEW u \in Backed, NEW ipa \in RegionIpas, NEW size \in Sizes, AllocBacked(u, ipa, size)
      PROVE  OwnerTypes'
  <2>1. PICK s \in Pages : /\ allocate_contiguous(size, s)
                           /\ region' = [region EXCEPT ![u] = [ipa |-> ipa, size |-> size, pa |-> s]]
      BY <1>4, Zenon DEF AllocBacked
  <2>2. size \in Nat
      BY BoundsAssumption DEF Sizes
  <2>3. in_use' \subseteq Managed
    <3>1. s .. (s + size - 1) \subseteq Managed /\ SetBits(s .. (s + size - 1))
        BY <2>1, <2>2, FreshRun, Zenon
    <3>2. QED
        BY <1>a, <3>1, Zenon DEF SetBits
  <2>4. region' \in [Usages -> [ipa : Ipas, size : Sizes, pa : Pages] \cup {None}]
      BY <1>a, <2>1, IpaAssumption, Zenon DEF Usages
  <2>5. QED
      BY <1>a, <1>4, <2>3, <2>4, Zenon DEF AllocBacked
<1>5. ASSUME NEW ipa \in RegionIpas, NEW size \in Sizes, AllocGuard(ipa, size) PROVE OwnerTypes'
  <2>1. 0 \in Pages
      BY ApertureAssumption DEF Pages
  <2>2. region' \in [Usages -> [ipa : Ipas, size : Sizes, pa : Pages] \cup {None}]
      BY <1>a, <1>5, <2>1, IpaAssumption, Zenon DEF AllocGuard, Usages
  <2>3. QED
      BY <1>a, <1>5, <2>2, Zenon DEF AllocGuard, allocator
<1>6. ASSUME NEW size \in Sizes, AllocTables(size) PROVE OwnerTypes'
  <2>1. PICK s \in Pages : allocate_contiguous(size, s) /\ root' = s /\ tables' = s .. (s + size - 1)
      BY <1>6 DEF AllocTables
  <2>2. size \in Nat
      BY BoundsAssumption DEF Sizes
  <2>3. in_use' \subseteq Managed /\ tables' \subseteq Pages
    <3>1. tables' \subseteq Managed /\ tables' \subseteq Pages /\ SetBits(tables')
        BY <2>1, <2>2, FreshRun
    <3>2. QED
        BY <1>a, <3>1, Zenon DEF SetBits
  <2>4. QED
      BY <1>a, <1>6, <2>1, <2>3, Zenon DEF AllocTables
<1>7. CASE AddTable
  <2>1. PICK p \in Pages : allocate_contiguous(1, p) /\ tables' = tables \cup {p}
      BY <1>7 DEF AddTable, TrackTable
  <2>2. p \in Managed /\ in_use' = in_use \cup {p}
      BY <2>1, FreshPage, Zenon DEF SetBits
  <2>3. QED
      BY <1>a, <1>7, <2>1, <2>2 DEF AddTable
<1>8. CASE release_all \/ drop
    BY <1>a, <1>8, Zenon DEF release_all, drop, ClearBits, NoRegions
<1>9. QED
    BY <1>1, <1>2, <1>3, <1>4, <1>5, <1>6, <1>7, <1>8, Steps, QuietSteps, Zenon

\* The entry a map call looks at exists.
LEMMA JobEntry ==
    ASSUME IInv, job # None
    PROVE  /\ job \in Jobs /\ job.table \in Pages /\ job.table \in tables
           /\ IndexAt(job.level, job.ipa) \in Index
           /\ Entry \in Descriptors \cup {None}
<1>1. job \in Jobs /\ job.table \in tables
    BY DEF IInv, Paths, JobInv
<1>2. job.ipa \in Ipas /\ job.level \in 1 .. 3 /\ job.table \in Pages
    BY <1>1 DEF Jobs
<1>3. job.level = 1 \/ job.level = 2 \/ job.level = 3
    BY <1>2
<1>4. IndexAt(job.level, job.ipa) \in Index
    BY <1>2, <1>3, IndexTypes DEF IndexAt
<1>5. Entry \in Descriptors \cup {None}
    BY <1>2, <1>4, Zenon DEF IInv, TypeOK, Entry
<1>6. QED
    BY <1>1, <1>2, <1>4, <1>5

\* What the pages hold can always be read as a table.
LEMMA ContentTypesStep == IInv /\ [Next]_vars => ContentTypes'
<1> SUFFICES ASSUME IInv, [Next]_vars PROVE ContentTypes'
    OBVIOUS
<1>a. ContentTypes
    BY DEF IInv, TypeOK, ContentTypes
<1>b. Empty \in [Index -> Descriptors \cup {None}] /\ Junk \in [Index -> Descriptors \cup {None}]
    BY ApertureAssumption DEF Empty, Junk, Descriptors, Pages
<1> USE <1>a DEF ContentTypes
<1>1. CASE UNCHANGED content
    BY <1>1
<1>2. ASSUME NEW S, Zero(S) PROVE ContentTypes'
    BY <1>b, <1>2 DEF Zero
<1>3. CASE AddTable
  <2>1. PICK p \in Pages :
            content' = [content EXCEPT ![p] = Empty,
                           ![job.table][IndexAt(job.level, job.ipa)] = <<p, "table">>]
      BY <1>3, Zenon DEF AddTable
  <2>2. job.table \in Pages /\ IndexAt(job.level, job.ipa) \in Index
      BY <1>3, JobEntry DEF AddTable
  <2>3. <<p, "table">> \in Descriptors
      BY DEF Descriptors
  <2>4. [content EXCEPT ![p] = Empty] \in [Pages -> [Index -> Descriptors \cup {None}]]
      BY <1>b
  <2>5. QED
      BY <2>1, <2>2, <2>3, <2>4
<1>4. CASE InstallLeaf
  <2>1. job \in Jobs /\ job.table \in Pages /\ IndexAt(3, job.ipa) \in Index
      BY <1>4, JobEntry, Zenon DEF InstallLeaf
  <2>2. <<job.pa, job.attr>> \in Descriptors
      BY <2>1 DEF Descriptors, Jobs
  <2>3. QED
      BY <1>4, <2>1, <2>2, Zenon DEF InstallLeaf
<1>5. CASE GuestWrites
    BY <1>b, <1>5 DEF GuestWrites
<1>6. CASE release_all
    BY <1>b, <1>6 DEF release_all
<1>7. CASE \/ HostAllocates \/ HostFrees \/ new \/ Fails \/ drop
           \/ Descend \/ activate_guest_stage2 \/ GuestTranslates \/ deactivate_guest_stage2
           \/ \E ipa \in RegionIpas, size \in Sizes : AllocGuard(ipa, size)
           \/ \E u \in Backed : StartMap(region[u].ipa, region[u].pa, region[u].size, "ram")
           \/ \E ipa \in DeviceIpas : StartMap(ipa, DevicePa, 1, "device")
           \/ UNCHANGED vars
    BY <1>1, <1>7 DEF HostAllocates, HostFrees, new, Fails, drop, Descend, activate_guest_stage2,
       GuestTranslates, deactivate_guest_stage2, AllocGuard, StartMap, vars
<1>8. CASE \/ \E u \in Backed, ipa \in RegionIpas, size \in Sizes : AllocBacked(u, ipa, size)
           \/ \E size \in Sizes : AllocTables(size)
    BY <1>2, <1>8, Zenon DEF AllocBacked, AllocTables
<1>9. QED
    BY <1>3, <1>4, <1>5, <1>6, <1>7, <1>8, Steps, Zenon

\* The life of the VM.
LEMMA LifetimeStep == IInv /\ [Next]_vars => Lifetime'
<1> SUFFICES ASSUME IInv, [Next]_vars PROVE Lifetime'
    OBVIOUS
<1>a. Lifetime /\ TypeOK
    BY DEF IInv
<1>b. None \notin Pages
    BY NoneAssumption, ApertureAssumption DEF Pages
<1>1. ASSUME UNCHANGED region
      PROVE  \A u \in Usages : Present(u)' => region'[u].size # 0 /\ IpaRange(u)' \subseteq Ipas
    BY <1>a, <1>1, Zenon DEF Lifetime, Present, IpaRange
<1>2. CASE UNCHANGED <<vm, region, root, tables, job, tlb>>
    BY <1>a, <1>1, <1>2, Zenon DEF Lifetime
<1>3. CASE new \/ (Building /\ Fails)
  <2>1. /\ UNCHANGED <<region, root, tables, tlb>> /\ vm \in {"none", "built"}
        /\ vm' \in {"built", "failed"} /\ job' = None
      BY <1>a, <1>3, Zenon DEF new, Fails, Building, Ready, Lifetime
  <2>2. QED
      BY <1>a, <1>1, <2>1, Zenon DEF Lifetime
<1>4. ASSUME NEW ipa \in RegionIpas, NEW size \in Sizes, NEW u \in Usages, NEW s \in Pages, Ready,
             validate_ipa_range(ipa, size), UNCHANGED <<vm, root, tables, job, tlb>>,
             region' = [region EXCEPT ![u] = [ipa |-> ipa, size |-> size, pa |-> s]]
      PROVE  Lifetime'
  <2>1. /\ region'[u] = [ipa |-> ipa, size |-> size, pa |-> s]
        /\ \A v \in Usages \ {u} : region'[v] = region[v]
      BY <1>a, <1>4, Zenon DEF TypeOK
  <2>2. size # 0 /\ ipa .. (ipa + size - 1) \subseteq Ipas
    <3>1. size # 0 /\ ipa + size - 1 \in Ipas /\ ipa \in Ipas /\ size \in Nat
        BY <1>4, IpaAssumption, BoundsAssumption DEF validate_ipa_range, Sizes
    <3>2. QED
        BY <3>1, FanoutAssumption DEF Ipas
  <2>3. \A v \in Usages : Present(v)' => region'[v].size # 0 /\ IpaRange(v)' \subseteq Ipas
      BY <1>a, <2>1, <2>2 DEF Lifetime, Present, IpaRange
  <2>4. QED
      BY <1>a, <1>4, <2>3, Zenon DEF Lifetime, Ready
<1>5. ASSUME NEW u \in Backed, NEW ipa \in RegionIpas, NEW size \in Sizes, Ready,
             AllocBacked(u, ipa, size)
      PROVE  Lifetime'
    BY <1>4, <1>5, Zenon DEF AllocBacked, Usages
<1>6. ASSUME NEW ipa \in RegionIpas, NEW size \in Sizes, Ready, AllocGuard(ipa, size)
      PROVE  Lifetime'
  <2>1. 0 \in Pages
      BY ApertureAssumption DEF Pages
  <2>2. QED
      BY <1>4, <1>6, <2>1, Zenon DEF AllocGuard, Usages
<1>7. ASSUME NEW size \in Sizes, Ready, AllocTables(size) PROVE Lifetime'
  <2>1. PICK s \in Pages : /\ allocate_contiguous(size, s)
                           /\ root' = s /\ tables' = s .. (s + size - 1)
      BY <1>7 DEF AllocTables
  <2>2. root' \in tables'
      BY <2>1, FreshRun, BoundsAssumption DEF Sizes
  <2>3. UNCHANGED <<vm, region, job, tlb>> /\ vm = "built" /\ root' # None
      BY <1>b, <1>7, <2>1 DEF AllocTables, Ready
  <2>4. QED
      BY <1>a, <1>1, <2>2, <2>3, Zenon DEF Lifetime
<1>8. CASE \/ Ready /\ \E u \in Backed : StartMap(region[u].ipa, region[u].pa, region[u].size, "ram")
           \/ Ready /\ \E ipa \in DeviceIpas : StartMap(ipa, DevicePa, 1, "device")
           \/ Descend \/ InstallLeaf
  <2>1. UNCHANGED <<vm, region, root, tables, tlb>> /\ vm = "built"
      BY <1>a, <1>8 DEF Ready, StartMap, Descend, InstallLeaf, Lifetime
  <2>2. QED
      BY <1>a, <1>1, <2>1, Zenon DEF Lifetime
<1>9. CASE AddTable
  <2>1. UNCHANGED <<vm, region, root, tlb>> /\ vm = "built" /\ tables \subseteq tables' /\ root \in tables
    <3>1. job # None /\ UNCHANGED <<vm, region, root, tlb>>
        BY <1>9 DEF AddTable
    <3>2. root \in tables /\ vm = "built"
        BY <1>a, <3>1, JobEntry DEF Lifetime
    <3>3. QED
        BY <1>9, <3>1, <3>2 DEF AddTable, TrackTable
  <2>2. root # None
      BY <1>a, <1>b, <2>1 DEF TypeOK
  <2>3. QED
      BY <1>a, <1>1, <2>1, <2>2, Zenon DEF Lifetime
<1>10. CASE activate_guest_stage2 \/ GuestTranslates \/ deactivate_guest_stage2
  <2>1. /\ UNCHANGED <<region, root, tables, job>> /\ job = None
        /\ vm' \in {"active", "stopped"} /\ (vm' # "active" => tlb' = {})
      BY <1>a, <1>10, Zenon DEF activate_guest_stage2, GuestTranslates, deactivate_guest_stage2, Ready,
         Lifetime
  <2>2. QED
      BY <1>a, <1>1, <2>1, Zenon DEF Lifetime
<1>11. CASE release_all \/ drop
  <2>1. /\ region' = NoRegions /\ tables' = {} /\ root' = None /\ job' = None /\ tlb' = {}
    <3>1. CASE release_all
        BY <1>a, <3>1, Zenon DEF release_all, Lifetime
    <3>2. CASE drop
        BY <1>a, <1>b, <3>2, Zenon DEF drop, Lifetime, TypeOK
    <3>3. QED
        BY <1>11, <3>1, <3>2
  <2>2. \A u \in Usages : ~Present(u)'
      BY <2>1 DEF Present, NoRegions
  <2>3. QED
      BY <2>1, <2>2 DEF Lifetime
<1>12. CASE HostAllocates \/ HostFrees \/ GuestWrites \/ UNCHANGED vars
    BY <1>2, <1>12, Zenon DEF HostAllocates, HostFrees, GuestWrites, vars
<1>13. QED
    BY <1>3, <1>5, <1>6, <1>7, <1>8, <1>9, <1>10, <1>11, <1>12, Steps, Zenon

-----------------------------------------------------------------------------
(* Walks. *)

\* None is no page and no device page.
LEMMA NoneIsNoPage == None \notin Pages /\ DevicePa \notin Pages /\ DevicePa # None
    BY NoneAssumption, ApertureAssumption DEF Pages, DevicePa

\* What a present entry of a table of the tree is.
LEMMA TreeEntry ==
    ASSUME NEW pos, Tree(pos), NEW p \in tables, NEW i \in Index, content[p][i] # None
    PROVE  IF pos[p].level = 3 THEN Leaf(pos, p, i) ELSE Link(pos, p, i)
    BY DEF Tree

\* A walk that finds a page passes through one table of each level, each at the
\* position of the address.
LEMMA WalkPath ==
    ASSUME TypeOK, Lifetime, NEW pos, Tree(pos), NEW ipa \in Ipas, Walk(ipa) # None
    PROVE  /\ root \in tables /\ content[root][l1_index(ipa)] # None
           /\ \E l2, l3 \in tables :
               /\ l2 = content[root][l1_index(ipa)][1]
               /\ content[l2][l2_index(ipa)] # None /\ l3 = content[l2][l2_index(ipa)][1]
               /\ content[l3][l3_index(ipa)] # None
               /\ Walk(ipa) = content[l3][l3_index(ipa)][1]
               /\ Leaf(pos, l3, l3_index(ipa))
               /\ pos[l3].l1 = l1_index(ipa) /\ pos[l3].l2 = l2_index(ipa)
<1> DEFINE i1 == l1_index(ipa)
<1> DEFINE i2 == l2_index(ipa)
<1> DEFINE i3 == l3_index(ipa)
<1> DEFINE l2 == Child(root, i1)
<1> DEFINE l3 == Child(l2, i2)
<1>1. i1 \in Index /\ i2 \in Index /\ i3 \in Index
    BY IndexTypes
<1>2. Child(l3, i3) # None /\ Walk(ipa) = Child(l3, i3)
    BY DEF Walk
<1> HIDE DEF i1, i2, i3, l2, l3
<1>3. l3 \in Pages /\ content[l3][i3] # None /\ Walk(ipa) = content[l3][i3][1]
    BY <1>2 DEF Child
<1>4. l3 = Child(l2, i2) /\ l2 = Child(root, i1)
    BY DEF l2, l3
<1>5. l2 \in Pages /\ content[l2][i2] # None /\ l3 = content[l2][i2][1]
    BY <1>3, <1>4, NoneIsNoPage, Zenon DEF Child
<1>6. root \in Pages /\ content[root][i1] # None /\ l2 = content[root][i1][1]
    BY <1>4, <1>5, NoneIsNoPage, Zenon DEF Child
<1>7. root \in tables /\ pos[root].level = 1
    BY <1>6, NoneIsNoPage, Zenon DEF Lifetime, Tree
<1>8. l2 \in tables /\ pos[l2].level = 2 /\ pos[l2].l1 = i1
  <2>1. Link(pos, root, i1)
      BY <1>1, <1>6, <1>7, TreeEntry, Levels, Zenon
  <2>2. QED
      BY <1>6, <1>7, <2>1, Levels, Zenon DEF Link
<1>9. l3 \in tables /\ pos[l3].level = 3 /\ pos[l3].l1 = i1 /\ pos[l3].l2 = i2
  <2>1. Link(pos, l2, i2)
      BY <1>1, <1>5, <1>8, TreeEntry, Levels, Zenon
  <2>2. QED
      BY <1>5, <1>8, <2>1, Levels, Zenon DEF Link
<1>10. Leaf(pos, l3, i3)
    BY <1>1, <1>3, <1>9, TreeEntry, Zenon
<1>11. QED
    BY <1>3, <1>5, <1>6, <1>7, <1>8, <1>9, <1>10, Zenon DEF i1, i2, i3

\* So it finds what the address may reach.
LEMMA WalkAllowed ==
    ASSUME TypeOK, Lifetime, Paths, NEW ipa \in Ipas, Walk(ipa) # None
    PROVE  Allowed(ipa, Walk(ipa))
<1>1. PICK pos \in [Pages -> Position] : Tree(pos)
    BY DEF Paths
<1>2. PICK l3 \in tables : /\ Walk(ipa) = content[l3][l3_index(ipa)][1]
                           /\ Leaf(pos, l3, l3_index(ipa))
                           /\ pos[l3].l1 = l1_index(ipa) /\ pos[l3].l2 = l2_index(ipa)
    BY <1>1, WalkPath, Zenon
<1>3. QED
    BY <1>2, Zenon DEF Leaf

\* The root stays, and so does every present entry of a table.
KeepsEntries ==
    /\ root' = root
    /\ \A p \in tables, i \in Index : content[p][i] # None => content'[p][i] = content[p][i]

\* A walk that finds a page finds it again while the entries are kept.
LEMMA WalkKept ==
    ASSUME TypeOK, Lifetime, Paths, KeepsEntries, NEW ipa \in Ipas, Walk(ipa) # None
    PROVE  Walk(ipa)' = Walk(ipa)
<1> DEFINE i1 == l1_index(ipa)
<1> DEFINE i2 == l2_index(ipa)
<1> DEFINE i3 == l3_index(ipa)
<1>1. i1 \in Index /\ i2 \in Index /\ i3 \in Index
    BY IndexTypes
<1>2. PICK pos \in [Pages -> Position] : Tree(pos)
    BY DEF Paths
<1>3. root \in tables /\ content[root][i1] # None
    BY <1>2, WalkPath, Zenon
<1>4. PICK l2, l3 \in tables :
          /\ l2 = content[root][i1][1]
          /\ content[l2][i2] # None /\ l3 = content[l2][i2][1]
          /\ content[l3][i3] # None /\ Walk(ipa) = content[l3][i3][1]
    BY <1>2, WalkPath, Zenon
<1>5. Walk(ipa)' = Child(Child(Child(root, i1), i2), i3)'
    BY DEF Walk
<1> HIDE DEF i1, i2, i3
<1>6. root \in Pages /\ l2 \in Pages /\ l3 \in Pages
    BY <1>3, <1>4, Zenon DEF TypeOK
<1>7. /\ content'[root][i1] = content[root][i1] /\ content'[l2][i2] = content[l2][i2]
      /\ content'[l3][i3] = content[l3][i3] /\ root' = root
    BY <1>1, <1>3, <1>4, Zenon DEF KeepsEntries
<1>8. Child(root, i1)' = l2
    BY <1>3, <1>4, <1>6, <1>7, Zenon DEF Child
<1>9. Child(Child(root, i1), i2)' = l3
  <2>1. Child(Child(root, i1), i2)' =
            IF l2 \in Pages /\ content'[l2][i2] # None THEN content'[l2][i2][1] ELSE None
      BY <1>8, Zenon DEF Child
  <2>2. QED
      BY <1>4, <1>6, <1>7, <2>1, Zenon
<1>10. Child(Child(Child(root, i1), i2), i3)' =
           IF l3 \in Pages /\ content'[l3][i3] # None THEN content'[l3][i3][1] ELSE None
    BY <1>9, Zenon DEF Child
<1>11. QED
    BY <1>4, <1>5, <1>6, <1>7, <1>10, Zenon

\* A page the guest reaches is a page of a region, so it is no table.
LEMMA GuestReachesNoTable ==
    ASSUME IInv, NEW e \in tlb, e[2] \in Pages
    PROVE  e[2] \notin tables
<1>1. Walk(e[1]) = e[2] /\ e[1] \in Ipas
    BY Zenon DEF IInv, TlbInv, TypeOK
<1>2. Allowed(e[1], e[2])
    BY <1>1, WalkAllowed, NoneIsNoPage DEF IInv
<1>3. PICK u \in Backed : /\ Present(u) /\ e[1] \in IpaRange(u)
                          /\ e[2] = region[u].pa + (e[1] - region[u].ipa)
    BY <1>2, NoneIsNoPage DEF Allowed
<1>4. region[u].pa \in Int /\ region[u].ipa \in Int /\ region[u].size \in Int /\ e[1] \in Int
  <2>1. region[u] \in [ipa : Ipas, size : Sizes, pa : Pages]
      BY <1>3, Zenon DEF IInv, TypeOK, Present, Usages
  <2>2. QED
      BY <1>1, <2>1, FanoutAssumption, ApertureAssumption, BoundsAssumption DEF Ipas, Sizes, Pages
<1>5. e[2] \in Backing(u)
    BY <1>3, <1>4 DEF Backing, IpaRange
<1>6. QED
    BY <1>3, <1>5, RegionMember, Zenon DEF IInv, Owners

\* Newly allocated pages were no tables.
LEMMA FreshIsNoTable ==
    ASSUME Owners, NEW S, S \cap in_use = {}
    PROVE  S \cap tables = {} /\ S \cap RegionPages = {}
    BY DEF Owners, VmPages

\* What a new table page and the entry that leads to it change.
LEMMA AddedTable ==
    ASSUME IInv, AddTable
    PROVE  \E p \in Pages :
               /\ p \notin in_use /\ p \notin tables /\ tables' = tables \cup {p}
               /\ job' = [job EXCEPT !.level = @ + 1, !.table = p]
               /\ content'[p] = Empty
               /\ content'[job.table][IndexAt(job.level, job.ipa)] = <<p, "table">>
               /\ \A q \in tables, i \in Index :
                   q # job.table \/ i # IndexAt(job.level, job.ipa) => content'[q][i] = content[q][i]
<1> DEFINE t == job.table
<1> DEFINE k == IndexAt(job.level, job.ipa)
<1>1. PICK p \in Pages :
          /\ allocate_contiguous(1, p) /\ TrackTable(p)
          /\ content' = [content EXCEPT ![p] = Empty, ![t][k] = <<p, "table">>]
          /\ job' = [job EXCEPT !.level = @ + 1, !.table = p]
    BY Zenon DEF AddTable
<1>2. t \in tables /\ k \in Index /\ t \in Pages
    BY JobEntry DEF AddTable
<1> HIDE DEF t, k
<1>3. p \notin in_use /\ p \notin tables
  <2>1. p \notin in_use
      BY <1>1, FreshPage, Zenon
  <2>2. QED
      BY <2>1 DEF IInv, Owners, VmPages
<1>4. tables' = tables \cup {p}
    BY <1>1 DEF TrackTable
<1> DEFINE C == [content EXCEPT ![p] = Empty]
<1>5. C \in [Pages -> [Index -> Descriptors \cup {None}]] /\ C[p] = Empty
      /\ \A q \in tables : C[q] = content[q]
  <2>1. Empty \in [Index -> Descriptors \cup {None}] /\ tables \subseteq Pages
        /\ content \in [Pages -> [Index -> Descriptors \cup {None}]]
      BY Zenon DEF Empty, IInv, TypeOK
  <2>2. QED
      BY <1>3, <2>1
<1>6. content' = [C EXCEPT ![t][k] = <<p, "table">>]
    BY <1>1 DEF C
<1> HIDE DEF C
<1>7. /\ content'[p] = Empty /\ content'[t][k] = <<p, "table">>
      /\ \A q \in tables, i \in Index : q # t \/ i # k => content'[q][i] = C[q][i]
  <2>1. tables \subseteq Pages /\ p # t
      BY <1>2, <1>3, Zenon DEF IInv, TypeOK
  <2>2. QED
      BY <1>2, <1>5, <1>6, <2>1, Zenon
<1>8. QED
    BY <1>1, <1>3, <1>4, <1>5, <1>7, Zenon DEF t, k

\* What a leaf changes.
LEMMA InstalledLeaf ==
    ASSUME IInv, InstallLeaf
    PROVE  /\ job \in Jobs /\ job.table \in tables /\ l3_index(job.ipa) \in Index
           /\ content'[job.table][l3_index(job.ipa)] = <<job.pa, job.attr>>
           /\ content[job.table][l3_index(job.ipa)] \in {None, <<job.pa, job.attr>>}
           /\ \A q \in tables, i \in Index :
               q # job.table \/ i # l3_index(job.ipa) => content'[q][i] = content[q][i]
<1> DEFINE k == l3_index(job.ipa)
<1>1. job # None /\ job.level = 3 /\ IndexAt(3, job.ipa) = k
    BY DEF InstallLeaf, IndexAt
<1>2. job \in Jobs /\ job.table \in tables /\ job.table \in Pages /\ k \in Index
    BY <1>1, JobEntry
<1>3. content[job.table][k] \in {None, <<job.pa, job.attr>>}
    BY <1>1, Zenon DEF InstallLeaf, Entry
<1>4. content' = [content EXCEPT ![job.table][k] = <<job.pa, job.attr>>]
    BY <1>1, Zenon DEF InstallLeaf
<1>5. content \in [Pages -> [Index -> Descriptors \cup {None}]] /\ tables \subseteq Pages
    BY Zenon DEF IInv, TypeOK
<1> HIDE DEF k
<1>6. /\ content'[job.table][k] = <<job.pa, job.attr>>
      /\ \A q \in tables, i \in Index : q # job.table \/ i # k => content'[q][i] = content[q][i]
    BY <1>2, <1>4, <1>5
<1>7. QED
    BY <1>2, <1>3, <1>6, Zenon DEF k

\* Steps that change no table at all.
SameTables == root' = root /\ tables' = tables /\ \A p \in tables : content'[p] = content[p]

\* The other steps build or give back the tables.
LEMMA TableSteps ==
    ASSUME IInv, [Next]_vars
    PROVE  \/ SameTables \/ AddTable \/ InstallLeaf \/ release_all
           \/ Ready /\ \E size \in Sizes : AllocTables(size)
<1>1. CASE UNCHANGED <<root, tables, content>>
    BY <1>1 DEF SameTables
<1>2. ASSUME NEW u \in Backed, NEW ipa \in RegionIpas, NEW size \in Sizes, AllocBacked(u, ipa, size)
      PROVE  SameTables
  <2>1. PICK s \in Pages : allocate_contiguous(size, s) /\ Zero(s .. (s + size - 1))
      BY <1>2, Zenon DEF AllocBacked
  <2>2. size \in Nat
      BY BoundsAssumption DEF Sizes
  <2>3. (s .. (s + size - 1)) \cap in_use = {}
      BY <2>1, <2>2, FreshRun, Zenon
  <2>4. (s .. (s + size - 1)) \cap tables = {} /\ tables \subseteq Pages
      BY <2>3, FreshIsNoTable, Zenon DEF IInv, TypeOK
  <2>5. \A p \in tables : content'[p] = content[p]
      BY <2>1, <2>4 DEF Zero
  <2>6. QED
      BY <1>2, <2>5, Zenon DEF AllocBacked, SameTables
<1>3. CASE GuestWrites
  <2>1. PICK e \in tlb : e[2] \in Pages /\ content' = [content EXCEPT ![e[2]] = Junk]
      BY <1>3, Zenon DEF GuestWrites
  <2>2. e[2] \notin tables /\ tables \subseteq Pages /\ DOMAIN content = Pages
      BY <2>1, GuestReachesNoTable, Zenon DEF IInv, TypeOK
  <2>3. QED
      BY <1>3, <2>1, <2>2 DEF GuestWrites, SameTables
<1>4. CASE \/ HostAllocates \/ HostFrees \/ new \/ Fails \/ drop
           \/ Descend \/ activate_guest_stage2 \/ GuestTranslates \/ deactivate_guest_stage2
           \/ \E ipa \in RegionIpas, size \in Sizes : AllocGuard(ipa, size)
           \/ \E u \in Backed : StartMap(region[u].ipa, region[u].pa, region[u].size, "ram")
           \/ \E ipa \in DeviceIpas : StartMap(ipa, DevicePa, 1, "device")
           \/ UNCHANGED vars
    BY <1>1, <1>4, Zenon DEF HostAllocates, HostFrees, new, Fails, drop, Descend, activate_guest_stage2,
       GuestTranslates, deactivate_guest_stage2, AllocGuard, StartMap, vars
<1>5. QED
    BY <1>2, <1>3, <1>4, Steps, Zenon

\* No step but teardown changes a present entry of a table.
LEMMA EntriesKept ==
    ASSUME IInv, [Next]_vars
    PROVE  KeepsEntries \/ release_all \/ root = None
<1>1. CASE SameTables
    BY <1>1 DEF SameTables, KeepsEntries
<1>2. CASE AddTable
  <2>1. root' = root /\ content[job.table][IndexAt(job.level, job.ipa)] = None
      BY <1>2 DEF AddTable, Entry
  <2>2. \A q \in tables, i \in Index :
            q # job.table \/ i # IndexAt(job.level, job.ipa) => content'[q][i] = content[q][i]
      BY <1>2, AddedTable, Zenon
  <2>3. QED
      BY <2>1, <2>2, Zenon DEF KeepsEntries
<1>3. CASE InstallLeaf
  <2>1. root' = root
      BY <1>3 DEF InstallLeaf
  <2>2. QED
      BY <1>3, <2>1, InstalledLeaf, Zenon DEF KeepsEntries
<1>4. ASSUME NEW size \in Sizes, AllocTables(size) PROVE root = None
    BY <1>4, Zenon DEF AllocTables, IInv, Lifetime
<1>5. QED
    BY <1>1, <1>2, <1>3, <1>4, TableSteps

\* Without a root nothing is found.
LEMMA NoRoot == root = None => \A ipa : Walk(ipa) = None
    BY NoneIsNoPage, Zenon DEF Walk, Child

\* The translations the CPU keeps.
LEMMA TlbStep == IInv /\ [Next]_vars => TlbInv' /\ tlb' \subseteq Ipas \X (Pages \cup {DevicePa})
<1> SUFFICES ASSUME IInv, [Next]_vars PROVE TlbInv' /\ tlb' \subseteq Ipas \X (Pages \cup {DevicePa})
    OBVIOUS
<1>1. CASE tlb' = {}
    BY <1>1 DEF TlbInv
<1>2. CASE UNCHANGED tlb /\ ~release_all
  <2>1. ASSUME NEW e \in tlb PROVE Walk(e[1])' = e[2]
    <3>1. e[1] \in Ipas /\ e[2] # None /\ Walk(e[1]) = e[2]
        BY NoneIsNoPage, Zenon DEF IInv, TypeOK, TlbInv
    <3>2. root # None
        BY <3>1, NoRoot
    <3>3. KeepsEntries
        BY <1>2, <3>2, EntriesKept
    <3>4. QED
        BY <3>1, <3>3, WalkKept DEF IInv
  <2>2. QED
      BY <1>2, <2>1, Zenon DEF TlbInv, IInv, TypeOK
<1>3. CASE release_all
  <2>1. tlb' = {}
      BY <1>3, Zenon DEF release_all, IInv, Lifetime
  <2>2. QED
      BY <1>1, <2>1
<1>4. CASE GuestTranslates
  <2>1. PICK ipa \in Ipas : Walk(ipa) # None /\ tlb' = {<<ipa, Walk(ipa)>>}
      BY <1>4 DEF GuestTranslates
  <2>2. KeepsEntries
      BY <1>4 DEF GuestTranslates, KeepsEntries
  <2>3. Walk(ipa)' = Walk(ipa)
      BY <2>1, <2>2, WalkKept DEF IInv
  <2>4. Walk(ipa) \in Pages \cup {DevicePa}
    <3>1. PICK pos \in [Pages -> Position] : Tree(pos)
        BY DEF IInv, Paths
    <3>2. PICK p \in tables : /\ content[p][l3_index(ipa)] # None
                              /\ Walk(ipa) = content[p][l3_index(ipa)][1]
        BY <2>1, <3>1, WalkPath, Zenon DEF IInv
    <3>3. content[p][l3_index(ipa)] \in Descriptors
      <4>1. tables \subseteq Pages /\ content \in [Pages -> [Index -> Descriptors \cup {None}]]
          BY Zenon DEF IInv, TypeOK
      <4>2. QED
          BY <3>2, <4>1, IndexTypes, Zenon
    <3>4. QED
        BY <3>2, <3>3, Zenon DEF Descriptors
  <2>5. QED
      BY <2>1, <2>3, <2>4 DEF TlbInv
<1>5. CASE activate_guest_stage2 \/ deactivate_guest_stage2
    BY <1>1, <1>5, Zenon DEF activate_guest_stage2, deactivate_guest_stage2
<1>6. QED
  <2>1. UNCHANGED tlb \/ GuestTranslates \/ activate_guest_stage2 \/ deactivate_guest_stage2
      BY Steps, Zenon DEF HostAllocates, HostFrees, new, Fails, AllocBacked, AllocGuard, AllocTables,
         StartMap, Descend, AddTable, InstallLeaf, GuestWrites, release_all, drop, vars
  <2>2. QED
      BY <1>2, <1>3, <1>4, <1>5, <2>1

-----------------------------------------------------------------------------
(* The tree and the map call in progress. *)

\* The regions that are there stay.
KeepsRegions == \A u \in Backed : Present(u) => region'[u] = region[u]

\* What an address may reach it still may.
LEMMA AllowedKept ==
    ASSUME KeepsRegions, NEW ipa, NEW pa, Allowed(ipa, pa)
    PROVE  Allowed(ipa, pa)'
<1>1. CASE pa = DevicePa
    BY <1>1 DEF Allowed
<1>2. ASSUME NEW u \in Backed, Present(u), ipa \in IpaRange(u),
             pa = region[u].pa + (ipa - region[u].ipa)
      PROVE  Allowed(ipa, pa)'
  <2>1. region'[u] = region[u]
      BY <1>2, Zenon DEF KeepsRegions
  <2>2. Present(u)' /\ IpaRange(u)' = IpaRange(u)
      BY <1>2, <2>1, Zenon DEF Present, IpaRange
  <2>3. QED
      BY <1>2, <2>1, <2>2, Zenon DEF Allowed
<1>3. QED
    BY <1>1, <1>2, Zenon DEF Allowed

\* An entry that stays keeps its meaning.
LEMMA LeafKept ==
    ASSUME KeepsRegions, NEW pos, NEW pos2, NEW p, NEW i, Leaf(pos, p, i),
           content'[p][i] = content[p][i], pos2[p] = pos[p]
    PROVE  Leaf(pos2, p, i)'
    BY AllowedKept, Zenon DEF Leaf

\* A step that changes no table leaves the tree.
LEMMA TreeKept ==
    ASSUME SameTables, KeepsRegions, NEW pos, Tree(pos)
    PROVE  Tree(pos)'
<1>1. root' # None => pos[root'].level = 1
    BY Zenon DEF SameTables, Tree
<1>2. ASSUME NEW p \in tables', NEW i \in Index, content'[p][i] # None
      PROVE  IF pos[p].level = 3 THEN Leaf(pos, p, i)' ELSE Link(pos, p, i)'
  <2>1. p \in tables /\ tables' = tables /\ content'[p][i] = content[p][i]
      BY <1>2, Zenon DEF SameTables
  <2>2. IF pos[p].level = 3 THEN Leaf(pos, p, i) ELSE Link(pos, p, i)
      BY <1>2, <2>1, TreeEntry, Zenon
  <2>3. Leaf(pos, p, i) => Leaf(pos, p, i)'
      BY <2>1, LeafKept, Zenon
  <2>4. Link(pos, p, i) => Link(pos, p, i)'
      BY <2>1, Zenon DEF Link
  <2>5. QED
      BY <2>2, <2>3, <2>4, Zenon
<1>3. QED
    BY <1>1, <1>2, Zenon DEF Tree

\* A region as a source of pages: its pages are pages, its addresses addresses.
LEMMA RegionTypes ==
    ASSUME IInv, NEW u \in Backed, Present(u)
    PROVE  /\ region[u].ipa \in Nat /\ region[u].pa \in Nat /\ region[u].size \in Nat \ {0}
           /\ IpaRange(u) \subseteq Ipas /\ Backing(u) \subseteq Pages
<1>1. region[u] \in [ipa : Ipas, size : Sizes, pa : Pages]
    BY Zenon DEF IInv, TypeOK, Present, Usages
<1>2. region[u].ipa \in Nat /\ region[u].pa \in Nat /\ region[u].size \in Nat
    BY <1>1, FanoutAssumption, ApertureAssumption, BoundsAssumption DEF Ipas, Sizes, Pages
<1>3. region[u].size # 0 /\ IpaRange(u) \subseteq Ipas
    BY DEF IInv, Lifetime, Usages
<1>4. Backing(u) \subseteq Pages
    BY RegionMember, SubsetsOfPages DEF IInv
<1>5. QED
    BY <1>2, <1>3, <1>4, Zenon

\* The source of a job: what it maps next is allowed.
LEMMA JobAllowed ==
    ASSUME JobSource
    PROVE  Allowed(job.ipa, job.pa)
    BY DEF JobSource, Allowed

\* A job that goes on to the next page of its range.
LEMMA NextJob ==
    ASSUME IInv, job \in Jobs, JobSource, root \in tables, job' = NextPage, job' # None,
           UNCHANGED region
    PROVE  job' \in Jobs /\ JobSource' /\ job'.table = root /\ job'.level = 1
<1>1. /\ job.left # 1
      /\ job' = [job EXCEPT !.ipa = @ + 1, !.pa = @ + 1, !.left = @ - 1, !.level = 1, !.table = root]
    BY DEF NextPage
<1>2. PICK u \in Backed :
          /\ Present(u) /\ job.ipa \in IpaRange(u)
          /\ job.pa = region[u].pa + (job.ipa - region[u].ipa)
          /\ job.left = region[u].ipa + region[u].size - job.ipa
    BY <1>1 DEF JobSource
<1>3. /\ region[u].ipa \in Nat /\ region[u].pa \in Nat /\ region[u].size \in Nat \ {0}
      /\ IpaRange(u) \subseteq Ipas /\ Backing(u) \subseteq Pages
    BY <1>2, RegionTypes, Zenon
<1>4. region[u].ipa + region[u].size - job.ipa # 1
    BY <1>1, <1>2, Zenon
<1>5. /\ job.ipa + 1 \in IpaRange(u) /\ job.pa + 1 \in Backing(u)
      /\ job.pa + 1 = region[u].pa + ((job.ipa + 1) - region[u].ipa)
      /\ job.left - 1 = region[u].ipa + region[u].size - (job.ipa + 1)
      /\ job.left - 1 \in Nat \ {0}
  <2> DEFINE x == region[u].ipa
  <2> DEFINE p == region[u].pa
  <2> DEFINE n == region[u].size
  <2>1. /\ x \in Nat /\ p \in Nat /\ n \in Nat \ {0} /\ job.ipa \in x .. (x + n - 1)
        /\ x + n - job.ipa # 1
      BY <1>2, <1>3, <1>4, Zenon DEF IpaRange
  <2>2. /\ IpaRange(u) = x .. (x + n - 1) /\ Backing(u) = p .. (p + n - 1)
        /\ job.pa = p + (job.ipa - x) /\ job.left = x + n - job.ipa
      BY <1>2, Zenon DEF IpaRange, Backing
  <2> HIDE DEF x, p, n
  <2>3. /\ job.ipa + 1 \in x .. (x + n - 1)
        /\ (p + (job.ipa - x)) + 1 \in p .. (p + n - 1)
        /\ (p + (job.ipa - x)) + 1 = p + ((job.ipa + 1) - x)
        /\ (x + n - job.ipa) - 1 = x + n - (job.ipa + 1)
        /\ (x + n - job.ipa) - 1 \in Nat \ {0}
      BY <2>1, RangeNext, Zenon
  <2>4. QED
      BY <2>2, <2>3, Zenon DEF x, p, n
<1>6. /\ job'.ipa = job.ipa + 1 /\ job'.pa = job.pa + 1 /\ job'.left = job.left - 1
      /\ job'.level = 1 /\ job'.table = root
    BY <1>1 DEF Jobs
<1>7. job' \in Jobs
  <2>1. /\ job.ipa + 1 \in Ipas /\ job.pa + 1 \in Pages /\ job.left - 1 \in Nat \ {0}
        /\ 1 \in 1 .. 3 /\ root \in Pages
    <3>1. tables \subseteq Pages
        BY Zenon DEF IInv, TypeOK
    <3>2. QED
        BY <1>3, <1>5, <3>1, Levels, Zenon
  <2>2. QED
      BY <1>1, <2>1, Zenon DEF Jobs
<1>8. JobSource'
  <2>1. Present(u)' /\ IpaRange(u)' = IpaRange(u)
      BY <1>2, Zenon DEF Present, IpaRange
  <2>2. /\ Present(u)' /\ job'.ipa \in IpaRange(u)'
        /\ job'.pa = region'[u].pa + (job'.ipa - region'[u].ipa)
        /\ job'.left = region'[u].ipa + region'[u].size - job'.ipa
    <3>1. job'.ipa \in IpaRange(u)'
        BY <1>5, <1>6, <2>1, Zenon
    <3>2. region'[u] = region[u]
        BY Zenon
    <3>3. job'.pa = region'[u].pa + (job'.ipa - region'[u].ipa)
        BY <1>5, <1>6, <3>2, Zenon
    <3>4. job'.left = region'[u].ipa + region'[u].size - job'.ipa
        BY <1>5, <1>6, <3>2, Zenon
    <3>5. QED
        BY <2>1, <3>1, <3>3, <3>4, Zenon
  <2>3. QED
      BY <2>2, Zenon DEF JobSource
<1>9. QED
    BY <1>6, <1>7, <1>8

\* AddTable extends the tree by one table.
LEMMA AddTablePaths ==
    ASSUME IInv, AddTable
    PROVE  Paths'
<1>1. PICK pos \in [Pages -> Position] : Tree(pos) /\ JobInv(pos)
    BY DEF IInv, Paths
<1>0. PICK t, k : t = job.table /\ k = IndexAt(job.level, job.ipa)
    OBVIOUS
<1>2. PICK p \in Pages :
          /\ p \notin tables /\ tables' = tables \cup {p}
          /\ job' = [job EXCEPT !.level = @ + 1, !.table = p]
          /\ content'[p] = Empty /\ content'[t][k] = <<p, "table">>
          /\ \A q \in tables, i \in Index : q # t \/ i # k => content'[q][i] = content[q][i]
    BY <1>0, AddedTable, Zenon
<1>3. /\ job # None /\ job.level < 3 /\ UNCHANGED <<region, root>>
    BY DEF AddTable
<1>4. /\ job \in Jobs /\ t \in tables /\ k \in Index /\ t \in Pages
    BY <1>0, <1>3, JobEntry
<1>5. job.level \in {1, 2} /\ job.ipa \in Ipas
    BY <1>3, <1>4 DEF Jobs
<1>6. /\ job.level = 1 => k = l1_index(job.ipa)
      /\ job.level = 2 => k = l2_index(job.ipa)
    BY <1>0 DEF IndexAt
<1>7. /\ root # None /\ pos[t].level = job.level /\ JobSource
      /\ job.level = 2 => pos[t].l1 = l1_index(job.ipa)
    BY <1>0, <1>1, <1>3, <1>5 DEF JobInv
<1> DEFINE here == [level |-> job.level + 1, l1 |-> l1_index(job.ipa), l2 |-> l2_index(job.ipa),
                    parent |-> t, slot |-> k]
<1>8. here \in Position
  <2>1. job.level + 1 \in 1 .. 3 /\ l1_index(job.ipa) \in Index /\ l2_index(job.ipa) \in Index
      BY <1>5, IndexTypes
  <2>2. QED
      BY <1>4, <2>1, Zenon DEF Position
<1>9. PICK pos2 \in [Pages -> Position] : pos2[p] = here /\ \A q \in tables : pos2[q] = pos[q]
  <2>1. tables \subseteq Pages
      BY Zenon DEF IInv, TypeOK
  <2> DEFINE f == [pos EXCEPT ![p] = here]
  <2>2. f \in [Pages -> Position] /\ f[p] = here /\ \A q \in tables : f[q] = pos[q]
    <3> HIDE DEF here
    <3> QED
        BY <1>2, <1>8, <2>1
  <2>3. QED
      BY <2>2, Zenon
<1>10. /\ here.level = job.level + 1 /\ here.l1 = l1_index(job.ipa) /\ here.l2 = l2_index(job.ipa)
       /\ here.parent = t /\ here.slot = k
    BY Zenon
<1> HIDE DEF here
<1>11. KeepsRegions
    BY <1>3 DEF KeepsRegions
<1>12. ASSUME NEW q \in tables', NEW i \in Index, content'[q][i] # None
       PROVE  IF pos2[q].level = 3 THEN Leaf(pos2, q, i)' ELSE Link(pos2, q, i)'
  <2>1. q # p /\ q \in tables /\ pos2[q] = pos[q]
    <3>1. content'[p][i] = None
        BY <1>2 DEF Empty
    <3>2. QED
        BY <1>2, <1>9, <1>12, <3>1
  <2>2. CASE q = t /\ i = k
    <3>1. content'[q][i][1] = p /\ content'[q][i][2] = "table" /\ p \in tables'
        BY <1>2, <2>2
    <3>2. pos2[q].level = job.level /\ pos2[q].level # 3
        BY <1>5, <1>7, <2>1, <2>2
    <3>3. /\ pos2[p].level = pos2[q].level + 1 /\ pos2[p].parent = q /\ pos2[p].slot = i
          /\ pos2[q].level = 1 => pos2[p].l1 = i
          /\ pos2[q].level = 2 => pos2[p].l1 = pos2[q].l1 /\ pos2[p].l2 = i
        BY <1>6, <1>7, <1>9, <1>10, <2>1, <2>2, <3>2, Zenon
    <3>4. Link(pos2, q, i)'
        BY <3>1, <3>3, Zenon DEF Link
    <3>5. QED
        BY <3>2, <3>4
  <2>3. CASE q # t \/ i # k
    <3>1. content'[q][i] = content[q][i]
        BY <1>2, <2>1, <2>3
    <3>2. IF pos[q].level = 3 THEN Leaf(pos, q, i) ELSE Link(pos, q, i)
        BY <1>1, <1>12, <2>1, <3>1, TreeEntry, Zenon
    <3>3. Leaf(pos, q, i) => Leaf(pos2, q, i)'
        BY <1>11, <2>1, <3>1, LeafKept, Zenon
    <3>4. ASSUME Link(pos, q, i) PROVE Link(pos2, q, i)'
      <4>1. content[q][i][1] \in tables
          BY <3>4, Zenon DEF Link
      <4>2. pos2[content[q][i][1]] = pos[content[q][i][1]] /\ content[q][i][1] \in tables'
          BY <1>2, <1>9, <4>1
      <4>3. QED
          BY <2>1, <3>1, <3>4, <4>2, Zenon DEF Link
    <3>5. QED
        BY <2>1, <3>2, <3>3, <3>4
  <2>4. QED
      BY <2>2, <2>3
<1>13. Tree(pos2)'
  <2>1. root' # None => pos2[root'].level = 1
      BY <1>1, <1>3, <1>9, Zenon DEF Tree, IInv, Lifetime
  <2>2. QED
      BY <1>12, <2>1, Zenon DEF Tree
<1>14. JobInv(pos2)'
  <2>1. /\ job'.level = job.level + 1 /\ job'.table = p /\ job'.ipa = job.ipa
        /\ job'.pa = job.pa /\ job'.left = job.left
      BY <1>2, <1>4 DEF Jobs
  <2>2. job' \in Jobs
    <3>1. job.level + 1 \in 1 .. 3
        BY <1>5
    <3>2. QED
        BY <1>2, <1>4, <3>1, Zenon DEF Jobs
  <2>3. JobSource'
      BY <1>3, <1>7, <2>1, Zenon DEF JobSource, Present, IpaRange
  <2>4. p \in tables' /\ root' # None
      BY <1>2, <1>3, <1>7
  <2>5. /\ pos2[p].level = job'.level /\ pos2[p].l1 = l1_index(job'.ipa)
        /\ pos2[p].l2 = l2_index(job'.ipa)
      BY <1>9, <1>10, <2>1, Zenon
  <2>6. QED
      BY <2>1, <2>2, <2>3, <2>4, <2>5, Zenon DEF JobInv
<1>15. QED
    BY <1>9, <1>13, <1>14 DEF Paths

\* InstallLeaf writes the leaf of one address only.
LEMMA InstallLeafPaths ==
    ASSUME IInv, InstallLeaf
    PROVE  Paths'
<1>1. PICK pos \in [Pages -> Position] : Tree(pos) /\ JobInv(pos)
    BY DEF IInv, Paths
<1>0. PICK t, a, b, k, c : t = job.table /\ a = job.ipa /\ b = job.pa /\ k = l3_index(a) /\ c = job.attr
    OBVIOUS
<1>2. /\ job \in Jobs /\ t \in tables /\ k \in Index
      /\ content'[t][k] = <<b, c>> /\ c \in {"ram", "device"} /\ a \in Ipas
      /\ \A q \in tables, i \in Index : q # t \/ i # k => content'[q][i] = content[q][i]
    BY <1>0, InstalledLeaf, Zenon DEF Jobs
<1>3. job # None /\ job.level = 3 /\ UNCHANGED <<region, root, tables>> /\ job' = NextPage
    BY DEF InstallLeaf
<1>4. /\ root # None /\ pos[t].level = 3 /\ JobSource
      /\ pos[t].l1 = l1_index(a) /\ pos[t].l2 = l2_index(a)
    BY <1>0, <1>1, <1>3 DEF JobInv
<1>5. KeepsRegions
    BY <1>3 DEF KeepsRegions
<1>6. Leaf(pos, t, k)'
  <2>1. content'[t][k][1] = b /\ content'[t][k][2] # "table"
      BY <1>2
  <2>2. Allowed(a, b)'
    <3>1. Allowed(a, b)
        BY <1>0, <1>4, JobAllowed
    <3>2. QED
        BY <1>5, <3>1, AllowedKept
  <2>3. ASSUME NEW ipa \in Ipas, l1_index(ipa) = pos[t].l1, l2_index(ipa) = pos[t].l2, l3_index(ipa) = k
        PROVE  ipa = a
    <3>1. l1_index(ipa) = l1_index(a) /\ l2_index(ipa) = l2_index(a) /\ l3_index(ipa) = l3_index(a) /\ a \in Ipas
        BY <1>0, <1>2, <1>4, <2>3, Zenon
    <3>2. QED
        BY <2>3, <3>1, IndicesAreExact, Zenon
  <2>4. QED
      BY <2>1, <2>2, <2>3, Zenon DEF Leaf
<1>7. ASSUME NEW q \in tables', NEW i \in Index, content'[q][i] # None
      PROVE  IF pos[q].level = 3 THEN Leaf(pos, q, i)' ELSE Link(pos, q, i)'
  <2>1. CASE q = t /\ i = k
      BY <1>4, <1>6, <2>1
  <2>2. CASE q # t \/ i # k
    <3>1. q \in tables /\ content'[q][i] = content[q][i]
        BY <1>2, <1>3, <1>7, <2>2, Zenon
    <3>2. IF pos[q].level = 3 THEN Leaf(pos, q, i) ELSE Link(pos, q, i)
        BY <1>1, <1>7, <3>1, TreeEntry, Zenon
    <3>3. Leaf(pos, q, i) => Leaf(pos, q, i)'
        BY <1>5, <3>1, LeafKept, Zenon
    <3>4. Link(pos, q, i) => Link(pos, q, i)'
        BY <1>3, <3>1, Zenon DEF Link
    <3>5. QED
        BY <3>2, <3>3, <3>4
  <2>3. QED
      BY <2>1, <2>2
<1>8. root' # None /\ root' \in tables' /\ pos[root'].level = 1
    BY <1>1, <1>3, <1>4, Zenon DEF Tree, IInv, Lifetime
<1>9. Tree(pos)'
    BY <1>7, <1>8, Zenon DEF Tree
<1>10. JobInv(pos)'
  <2>1. ASSUME job' # None
        PROVE  job' \in Jobs /\ JobSource' /\ job'.table = root /\ job'.level = 1
      BY <1>2, <1>3, <1>4, <1>8, <2>1, NextJob, Zenon
  <2>2. QED
      BY <1>3, <1>8, <2>1 DEF JobInv
<1>11. QED
    BY <1>9, <1>10 DEF Paths

\* A map call starts at the root.
LEMMA StartMapPaths ==
    ASSUME IInv, NEW pos, Tree(pos),
           \/ \E u \in Backed : Present(u) /\ StartMap(region[u].ipa, region[u].pa, region[u].size, "ram")
           \/ \E ipa \in DeviceIpas : StartMap(ipa, DevicePa, 1, "device")
    PROVE  JobInv(pos)'
<1>1. /\ root # None /\ root \in tables /\ root \in Pages /\ pos[root].level = 1
      /\ UNCHANGED <<region, root, tables>>
    BY Zenon DEF StartMap, IInv, Lifetime, TypeOK, Tree
<1>2. ASSUME NEW ipa \in Ipas, NEW pa \in Pages \cup {DevicePa}, NEW left \in Nat \ {0},
             NEW attr \in {"ram", "device"}, StartMap(ipa, pa, left, attr)
      PROVE  /\ job' \in Jobs /\ job'.ipa = ipa /\ job'.pa = pa /\ job'.left = left
             /\ job'.level = 1 /\ job'.table = root
  <2>1. job' = [ipa |-> ipa, pa |-> pa, left |-> left, attr |-> attr, level |-> 1, table |-> root]
      BY <1>2, Zenon DEF StartMap
  <2>2. QED
      BY <1>1, <1>2, <2>1, Levels, Zenon DEF Jobs
<1>3. job' \in Jobs /\ job'.level = 1 /\ job'.table = root /\ JobSource'
  <2>1. ASSUME NEW u \in Backed, Present(u), StartMap(region[u].ipa, region[u].pa, region[u].size, "ram")
        PROVE  job' \in Jobs /\ job'.level = 1 /\ job'.table = root /\ JobSource'
    <3>1. /\ region[u].ipa \in Nat /\ region[u].pa \in Nat /\ region[u].size \in Nat \ {0}
          /\ IpaRange(u) \subseteq Ipas /\ Backing(u) \subseteq Pages
        BY <2>1, RegionTypes, Zenon
    <3>2. region[u].ipa \in IpaRange(u) /\ region[u].pa \in Backing(u)
        BY <3>1, RangeStart, Zenon DEF IpaRange, Backing
    <3>3. /\ job' \in Jobs /\ job'.ipa = region[u].ipa /\ job'.pa = region[u].pa
          /\ job'.left = region[u].size /\ job'.level = 1 /\ job'.table = root
        BY <1>2, <2>1, <3>1, <3>2, Zenon
    <3>4. Present(u)' /\ IpaRange(u)' = IpaRange(u) /\ region'[u] = region[u]
        BY <1>1, <2>1, Zenon DEF Present, IpaRange
    <3>5. /\ Present(u)' /\ job'.ipa \in IpaRange(u)'
          /\ job'.pa = region'[u].pa + (job'.ipa - region'[u].ipa)
          /\ job'.left = region'[u].ipa + region'[u].size - job'.ipa
      <4>1. /\ region[u].pa = region[u].pa + (region[u].ipa - region[u].ipa)
            /\ region[u].size = region[u].ipa + region[u].size - region[u].ipa
          BY <3>1, RangeStart, Zenon
      <4>2. QED
          BY <3>2, <3>3, <3>4, <4>1, Zenon
    <3>6. JobSource'
        BY <3>5, Zenon DEF JobSource
    <3>7. QED
        BY <3>3, <3>6, Zenon
  <2>2. ASSUME NEW ipa \in DeviceIpas, StartMap(ipa, DevicePa, 1, "device")
        PROVE  job' \in Jobs /\ job'.level = 1 /\ job'.table = root /\ JobSource'
    <3>1. /\ job' \in Jobs /\ job'.pa = DevicePa /\ job'.left = 1
          /\ job'.level = 1 /\ job'.table = root
        BY <1>2, <2>2, IpaAssumption, Levels, Zenon
    <3>2. QED
        BY <3>1, Zenon DEF JobSource, DevicePa
  <2>3. QED
      BY <2>1, <2>2, Zenon
<1>4. QED
    BY <1>1, <1>3 DEF JobInv

\* A present entry of a table leads the call to the table one level down.
LEMMA DescendPaths ==
    ASSUME IInv, NEW pos, Tree(pos), JobInv(pos), Descend
    PROVE  JobInv(pos)'
<1>0. PICK t, k, q : t = job.table /\ k = IndexAt(job.level, job.ipa) /\ q = Entry[1]
    OBVIOUS
<1>1. /\ job # None /\ job.level < 3 /\ content[t][k] # None /\ q = content[t][k][1]
      /\ job' = [job EXCEPT !.level = @ + 1, !.table = q]
      /\ UNCHANGED <<region, root, tables>>
    BY <1>0 DEF Descend, Entry
<1>2. job \in Jobs /\ t \in tables /\ k \in Index
    BY <1>0, <1>1, JobEntry
<1>3. job.level \in {1, 2}
    BY <1>1, <1>2 DEF Jobs
<1>4. /\ root # None /\ pos[t].level = job.level /\ JobSource
      /\ job.level = 2 => pos[t].l1 = l1_index(job.ipa)
    BY <1>0, <1>1, <1>3 DEF JobInv
<1>5. Link(pos, t, k)
    BY <1>1, <1>2, <1>3, <1>4, TreeEntry
<1>6. /\ job.level = 1 => k = l1_index(job.ipa)
      /\ job.level = 2 => k = l2_index(job.ipa)
    BY <1>0 DEF IndexAt
<1>7. /\ q \in tables /\ pos[q].level = job.level + 1 /\ pos[q].l1 = l1_index(job.ipa)
      /\ job.level = 2 => pos[q].l2 = l2_index(job.ipa)
    BY <1>1, <1>3, <1>4, <1>5, <1>6, Zenon DEF Link
<1>8. /\ job'.level = job.level + 1 /\ job'.table = q /\ job'.ipa = job.ipa
      /\ job'.pa = job.pa /\ job'.left = job.left
    BY <1>1, <1>2 DEF Jobs
<1>9. job' \in Jobs
  <2>1. job.level + 1 \in 1 .. 3 /\ q \in Pages
    <3>1. tables \subseteq Pages
        BY Zenon DEF IInv, TypeOK
    <3>2. QED
        BY <1>3, <1>7, <3>1, Levels, Zenon
  <2>2. QED
      BY <1>1, <1>2, <2>1, Zenon DEF Jobs
<1>10. JobSource'
    BY <1>1, <1>4, <1>8 DEF JobSource, Present, IpaRange
<1>11. job'.level = 3 => job.level = 2
    BY <1>3, <1>8, Levels, Zenon
<1>12. /\ root' # None /\ job'.table \in tables' /\ pos[job'.table].level = job'.level
       /\ pos[job'.table].l1 = l1_index(job'.ipa)
       /\ job'.level = 3 => pos[job'.table].l2 = l2_index(job'.ipa)
  <2>1. root' = root /\ tables' = tables
      BY <1>1
  <2>2. root' # None /\ q \in tables'
      BY <1>4, <1>7, <2>1, Zenon
  <2>3. QED
      BY <1>7, <1>8, <1>11, <2>2, Zenon
<1>13. QED
    BY <1>9, <1>10, <1>12, Zenon DEF JobInv

\* New tables are empty, and all of them roots as far as the tree goes.
LEMMA AllocTablesPaths ==
    ASSUME IInv, NEW size \in Sizes, Ready, AllocTables(size)
    PROVE  Paths'
<1>1. PICK s \in Pages : /\ allocate_contiguous(size, s) /\ Zero(s .. (s + size - 1))
                         /\ root' = s /\ tables' = s .. (s + size - 1)
    BY DEF AllocTables
<1>2. s .. (s + size - 1) \subseteq Pages
    BY <1>1, FreshRun, BoundsAssumption DEF Sizes
<1>3. \A p \in tables', i \in Index : content'[p][i] = None
    BY <1>1, <1>2, Zenon DEF Zero, Empty
<1> DEFINE first == [level |-> 1, l1 |-> 0, l2 |-> 0, parent |-> 0, slot |-> 0]
<1> DEFINE pos == [p \in Pages |-> first]
<1>4. first \in Position /\ first.level = 1
    BY FanoutAssumption, ApertureAssumption DEF Position, Index, Pages
<1> HIDE DEF first
<1>5. pos \in [Pages -> Position] /\ pos[root'].level = 1
    BY <1>1, <1>4
<1> HIDE DEF pos
<1>6. Tree(pos)'
  <2>1. root' # None => pos[root'].level = 1
      BY <1>5
  <2>2. QED
      BY <1>3, <2>1, Zenon DEF Tree
<1>7. job' = None
    BY DEF AllocTables, Ready
<1>8. JobInv(pos)'
    BY <1>7, Zenon DEF JobInv
<1>9. QED
    BY <1>5, <1>6, <1>8 DEF Paths

\* The tree and the call that builds it, in every step.
LEMMA PathsStep == IInv /\ [Next]_vars => Paths'
<1> SUFFICES ASSUME IInv, [Next]_vars PROVE Paths'
    OBVIOUS
<1>1. PICK pos \in [Pages -> Position] : Tree(pos) /\ JobInv(pos)
    BY DEF IInv, Paths
<1>2. ASSUME SameTables, KeepsRegions, JobInv(pos)' PROVE Paths'
    BY <1>1, <1>2, TreeKept DEF Paths
<1>3. UNCHANGED region => KeepsRegions
    BY DEF KeepsRegions
<1>4. job' = None => JobInv(pos)'
    BY DEF JobInv
<1>5. ASSUME UNCHANGED <<region, job>>, SameTables PROVE Paths'
  <2>1. JobSource => JobSource'
      BY <1>5, Zenon DEF JobSource, Present, IpaRange
  <2>2. JobInv(pos)'
      BY <1>1, <1>5, <2>1, Zenon DEF JobInv, SameTables
  <2>3. QED
      BY <1>2, <1>3, <1>5, <2>2
<1>6. CASE release_all
  <2>1. root' = None /\ tables' = {} /\ job' = None
      BY <1>6 DEF release_all
  <2>2. Tree(pos)'
      BY <2>1 DEF Tree
  <2>3. QED
      BY <1>1, <1>4, <2>1, <2>2 DEF Paths
<1>7. CASE AddTable \/ InstallLeaf \/ (Ready /\ \E size \in Sizes : AllocTables(size))
    BY <1>7, AddTablePaths, InstallLeafPaths, AllocTablesPaths
<1>8. CASE SameTables
  <2>1. CASE Fails
      BY <1>2, <1>3, <1>4, <1>8, <2>1 DEF Fails
  <2>2. ASSUME NEW u \in Backed, NEW ipa \in RegionIpas, NEW size \in Sizes, Ready,
               AllocBacked(u, ipa, size)
        PROVE  Paths'
    <3>1. ~Present(u) /\ \A v \in Usages \ {u} : region'[v] = region[v]
        BY <2>2, NewRegion, Zenon DEF IInv
    <3>2. KeepsRegions /\ job' = None
        BY <2>2, <3>1, Zenon DEF KeepsRegions, AllocBacked, Ready, Usages
    <3>3. QED
        BY <1>2, <1>4, <1>8, <3>2
  <2>3. ASSUME NEW ipa \in RegionIpas, NEW size \in Sizes, Ready, AllocGuard(ipa, size)
        PROVE  Paths'
    <3>1. KeepsRegions
        BY <2>3, NewGuard DEF IInv, KeepsRegions
    <3>2. job' = None
        BY <2>3 DEF AllocGuard, Ready
    <3>3. QED
        BY <1>2, <1>4, <1>8, <3>1, <3>2
  <2>4. CASE \/ \E u \in Backed : Present(u) /\ StartMap(region[u].ipa, region[u].pa, region[u].size, "ram")
             \/ \E ipa \in DeviceIpas : StartMap(ipa, DevicePa, 1, "device")
    <3>1. UNCHANGED region
        BY <2>4, Zenon DEF StartMap
    <3>2. QED
        BY <1>1, <1>2, <1>3, <1>8, <2>4, <3>1, StartMapPaths, Zenon
  <2>5. CASE Descend
    <3>1. UNCHANGED region
        BY <2>5 DEF Descend
    <3>2. QED
        BY <1>1, <1>2, <1>3, <1>8, <2>5, <3>1, DescendPaths
  <2>6. CASE \/ HostAllocates \/ HostFrees \/ new \/ drop \/ activate_guest_stage2
             \/ GuestTranslates \/ GuestWrites \/ deactivate_guest_stage2 \/ UNCHANGED vars
    <3>1. UNCHANGED <<region, job>>
        BY <2>6, Zenon DEF HostAllocates, HostFrees, new, drop, activate_guest_stage2, GuestTranslates,
           GuestWrites, deactivate_guest_stage2, vars
    <3>2. QED
        BY <1>5, <1>8, <3>1
  <2>7. QED
      BY <1>6, <1>7, <2>1, <2>2, <2>3, <2>4, <2>5, <2>6, Steps, Zenon
<1>9. QED
    BY <1>6, <1>7, <1>8, TableSteps

-----------------------------------------------------------------------------
(* The theorems. *)

\* The invariant holds before there is a VM.
LEMMA InitIInv == Init => IInv
<1> SUFFICES ASSUME Init PROVE IInv
    OBVIOUS
<1>1. /\ in_use = {} /\ in_use_pages = 0 /\ vm = "none" /\ region = NoRegions /\ root = None
      /\ tables = {} /\ content = [p \in Pages |-> Junk] /\ job = None /\ tlb = {} /\ host = {}
      /\ initial = 0
    BY DEF Init, AllocatorInit
<1>2. TypeOK
  <2>1. Junk \in [Index -> Descriptors \cup {None}]
      BY ApertureAssumption DEF Junk, Descriptors, Pages
  <2>2. QED
      BY <1>1, <2>1, Zenon DEF TypeOK, NoRegions
<1>3. RegionPages = {} /\ VmPages = {} /\ \A u \in Backed : ~Present(u)
    BY <1>1, NoPages
<1>4. Owners
    BY <1>1, <1>3 DEF Owners
<1>5. Counts
  <2>1. Cardinality({}) = 0
      BY FS_EmptySet
  <2>2. QED
      BY <1>1, <1>3, <2>1, BoundsAssumption DEF Counts, allocated_physical_pages
<1>6. Lifetime
    BY <1>1 DEF Lifetime, Present, NoRegions
<1>7. Paths
  <2> DEFINE first == [level |-> 1, l1 |-> 0, l2 |-> 0, parent |-> 0, slot |-> 0]
  <2> DEFINE pos == [p \in Pages |-> first]
  <2>1. first \in Position
      BY FanoutAssumption, ApertureAssumption DEF Position, Index, Pages
  <2>2. pos \in [Pages -> Position]
      BY <2>1
  <2> HIDE DEF pos
  <2>3. Tree(pos) /\ JobInv(pos)
      BY <1>1, Zenon DEF Tree, JobInv
  <2>4. QED
      BY <2>2, <2>3 DEF Paths
<1>8. TlbInv
    BY <1>1 DEF TlbInv
<1>9. QED
    BY <1>2, <1>4, <1>5, <1>6, <1>7, <1>8 DEF IInv

\* Every step keeps it.
LEMMA NextIInv == IInv /\ [Next]_vars => IInv'
<1> SUFFICES ASSUME IInv, [Next]_vars PROVE IInv'
    OBVIOUS
<1>1. OwnerTypes' /\ ContentTypes' /\ Owners' /\ Counts'
    BY OwnerTypesStep, ContentTypesStep, OwnersStep, CountsStep
<1>2. in_use_pages' \in Nat
  <2>1. in_use' \subseteq Pages /\ in_use_pages' = Cardinality(in_use')
      BY <1>1, ApertureAssumption, Zenon DEF OwnerTypes, Counts, Pages
  <2>2. QED
      BY <2>1, PagesFinite
<1>3. vm' \in {"none", "built", "failed", "active", "stopped", "released"}
  <2>1. vm \in {"none", "built", "failed", "active", "stopped", "released"}
      BY Zenon DEF IInv, TypeOK
  <2>2. QED
      BY <2>1, Steps, Zenon DEF HostAllocates, HostFrees, new, Fails, AllocBacked, AllocGuard,
         AllocTables, StartMap, Descend, AddTable, InstallLeaf, activate_guest_stage2,
         GuestTranslates, GuestWrites, deactivate_guest_stage2, release_all, drop, vars
<1>4. initial' \in Nat
  <2>1. initial \in Nat /\ in_use_pages \in Nat
      BY Zenon DEF IInv, TypeOK
  <2>2. QED
      BY <2>1, Steps, Zenon DEF HostAllocates, HostFrees, new, Fails, AllocBacked, AllocGuard,
         AllocTables, StartMap, Descend, AddTable, InstallLeaf, activate_guest_stage2,
         GuestTranslates, GuestWrites, deactivate_guest_stage2, release_all, drop, vars
<1>5. tlb' \subseteq Ipas \X (Pages \cup {DevicePa}) /\ TlbInv'
    BY TlbStep
<1>6. TypeOK'
    BY <1>1, <1>2, <1>3, <1>4, <1>5, Zenon DEF TypeOK, OwnerTypes, ContentTypes
<1>7. QED
    BY <1>1, <1>5, <1>6, LifetimeStep, PathsStep DEF IInv

\* The invariant of the VM's memory: every page has one owner and is counted,
\* the tables are a tree of three levels whose leaves are the pages of the
\* addresses that lead to them, the map call in progress (map_l3_page) is where
\* its address leads, and the TLB holds what the tables hold.
THEOREM MemoryInvariant == Spec => []IInv
    BY InitIInv, NextIInv, PTL DEF Spec

\* The allocator's bitmap and cached count, vm_mem and the host agree on every
\* page whatever call of vm_mem_alloc or map fails and wherever it does, and after
\* release_all the count is the one taken before the VM was created: the
\* assertion at the end of run_guest.
THEOREM PagesAlwaysAccountedFor == Spec => []PagesAreAccountedFor
<1>1. IInv => PagesAreAccountedFor
  <2> SUFFICES ASSUME IInv PROVE PagesAreAccountedFor
      OBVIOUS
  <2>1. TypeOK /\ Owners /\ Counts /\ Lifetime
      BY DEF IInv
  <2>2. vm = "released" => in_use_pages = initial
    <3> HAVE vm = "released"
    <3>1. VmPages = {}
        BY <2>1, NoPages, Zenon DEF Lifetime
    <3>2. in_use = host
        BY <2>1, <3>1 DEF Owners
    <3>3. QED
        BY <2>1, <3>2 DEF Counts
  <2>3. QED
      BY <2>1, <2>2, Zenon DEF PagesAreAccountedFor, Owners, Counts
<1>2. QED
    BY <1>1, MemoryInvariant, PTL

\* At every point of building the tables (map_l3_page), for every table size and
\* every range, the tables are a tree and a walk from the root leads an address to
\* the page that backs it, or to the device page.
THEOREM WalksAlwaysStayInside == Spec => []WalksStayInside
<1>1. IInv => WalksStayInside
  <2> SUFFICES ASSUME IInv PROVE WalksStayInside
      OBVIOUS
  <2>1. \A ipa \in Ipas : Walk(ipa) # None => Allowed(ipa, Walk(ipa))
      BY WalkAllowed DEF IInv
  <2>2. PICK pos \in [Pages -> Position] : Tree(pos)
      BY DEF IInv, Paths
  <2>3. ASSUME NEW e \in TableChildren
        PROVE  /\ content[e[1]][e[2]][1] \in tables \ {root}
               /\ e = <<pos[content[e[1]][e[2]][1]].parent, pos[content[e[1]][e[2]][1]].slot>>
    <3>1. PICK p \in tables, i \in Index : /\ e = <<p, i>> /\ content[p][i] # None
                                           /\ content[p][i][2] = "table"
        BY <2>3, ChildParts, Zenon
    <3>2. Link(pos, p, i)
        BY <2>2, <3>1, TreeEntry, Zenon DEF Leaf
    <3>3. pos[p].level \in 1 .. 3
        BY <2>2, Zenon DEF Position, IInv, TypeOK
    <3>4. content[p][i][1] # root
      <4>1. root \in tables => pos[root].level = 1
          BY <2>2, NoneIsNoPage, Zenon DEF Tree, IInv, TypeOK
      <4>2. content[p][i][1] \in tables /\ pos[content[p][i][1]].level = pos[p].level + 1
          BY <3>2, Zenon DEF Link
      <4>3. pos[p].level + 1 # 1
          BY <3>3
      <4>4. QED
          BY <4>1, <4>2, <4>3, Zenon
    <3>5. QED
        BY <3>1, <3>2, <3>4, Zenon DEF Link
  <2>4. TablesAreATree
      BY <2>3, Zenon DEF TablesAreATree
  <2>5. QED
      BY <2>1, <2>4 DEF WalksStayInside
<1>2. QED
    BY <1>1, MemoryInvariant, PTL

\* Every translation the CPU keeps is one the tables hold, and none is left once
\* deactivate_guest_stage2 has run: release_all frees pages no guest can reach.
THEOREM TranslationsNeverStale == Spec => []NoStaleTranslation
<1>1. IInv => NoStaleTranslation
    BY Zenon DEF IInv, TlbInv, Lifetime, NoStaleTranslation
<1>2. QED
    BY <1>1, MemoryInvariant, PTL

\* map_l3_page never changes a leaf that is there, nor what leads to it: a guest
\* page stays where it is until the tables are given back.
THEOREM MappingsStayPut == Spec => MappingsAreStable
<1>1. IInv /\ [Next]_vars =>
          [\A ipa \in Ipas : Walk(ipa) # None /\ root' # None => Walk(ipa)' = Walk(ipa)]_vars
  <2> SUFFICES ASSUME IInv, [Next]_vars, NEW ipa \in Ipas, Walk(ipa) # None, root' # None
               PROVE  Walk(ipa)' = Walk(ipa)
      OBVIOUS
  <2>1. root # None
      BY NoRoot
  <2>2. ~release_all
      BY Zenon DEF release_all
  <2>3. KeepsEntries
      BY <2>1, <2>2, EntriesKept
  <2>4. QED
      BY <2>3, WalkKept DEF IInv
<1>2. QED
    BY <1>1, MemoryInvariant, PTL DEF Spec, MappingsAreStable

-----------------------------------------------------------------------------
(* The scan of allocate_contiguous.  The library's induction theorems take *)
(* an operator, so induction is taken from the well-founded order: a set   *)
(* with zero and every successor holds every natural.                      *)

\* Induction over the naturals, for a set in place of a predicate: the loop of
\* allocate_contiguous visits page after page.
LEMMA SetInduction ==
    ASSUME NEW S, 0 \in S, \A n \in Nat : n \in S => n + 1 \in S
    PROVE  Nat \subseteq S
<1> DEFINE R == {ss \in Nat \X Nat : ss[1] < ss[2]}
<1> DEFINE T == Nat \ S
<1>1. IsWellFoundedOn(R, Nat)
    BY NatLessThanWellFounded DEF OpToRel
<1> SUFFICES ASSUME T # {} PROVE FALSE
    OBVIOUS
<1> HIDE DEF R
<1>2. PICK x \in T : \A y \in T : ~(<<y, x>> \in R)
  <2>1. T \subseteq Nat
      OBVIOUS
  <2> HIDE DEF T
  <2>2. QED
      BY <1>1, <2>1, WFMin, Zenon
<1>3. x \in Nat /\ x # 0 /\ x - 1 \in Nat /\ (x - 1) + 1 = x
    OBVIOUS
<1>4. <<x - 1, x>> \in R
    BY <1>3 DEF R
<1>5. x - 1 \in T
    BY <1>3
<1>6. QED
    BY <1>2, <1>4, <1>5

\* The value of a loop before each of its m iterations, where F gives the next
\* value from the last one and the number of the iteration.
IsHistory(T, base, m, F, g) ==
    g \in [0 .. m -> T] /\ g[0] = base /\ \A i \in 1 .. m : g[i] = F[<<g[i - 1], i>>]

\* A loop of m iterations has a history, like the scan of allocate_contiguous.
LEMMA History ==
    ASSUME NEW T, NEW base \in T, NEW m \in Nat, NEW F \in [T \X Nat -> T]
    PROVE  \E g : IsHistory(T, base, m, F, g)
<1> DEFINE Is(k, g) == g[0] = base /\ \A i \in 1 .. k : g[i] = F[<<g[i - 1], i>>]
<1> DEFINE S == {k \in Nat : \E g \in [0 .. k -> T] : Is(k, g)}
<1>1. 0 \in S
  <2>1. [i \in 0 .. 0 |-> base] \in [0 .. 0 -> T] /\ Is(0, [i \in 0 .. 0 |-> base])
      OBVIOUS
  <2>2. QED
      BY <2>1
<1>2. ASSUME NEW k \in Nat, k \in S
      PROVE  k + 1 \in S
  <2>1. PICK g \in [0 .. k -> T] : Is(k, g)
      BY <1>2
  <2> DEFINE h == [i \in 0 .. (k + 1) |-> IF i <= k THEN g[i] ELSE F[<<g[k], k + 1>>]]
  <2>2. h \in [0 .. (k + 1) -> T]
    <3>1. F[<<g[k], k + 1>>] \in T
      <4>1. g[k] \in T /\ k + 1 \in Nat
          OBVIOUS
      <4>2. <<g[k], k + 1>> \in T \X Nat
          BY <4>1
      <4>3. QED
          BY <4>2
    <3>2. \A i \in 0 .. (k + 1) : i <= k => g[i] \in T
        OBVIOUS
    <3>3. QED
        BY <3>1, <3>2
  <2>3. Is(k + 1, h)
    <3>1. h[0] = base
        BY <2>1
    <3>2. ASSUME NEW i \in 1 .. (k + 1)
          PROVE  h[i] = F[<<h[i - 1], i>>]
      <4>1. h[i - 1] = g[i - 1]
          OBVIOUS
      <4>2. CASE i <= k
        <5>1. h[i] = g[i] /\ i \in 1 .. k
            BY <4>2
        <5>2. QED
            BY <2>1, <4>1, <5>1
      <4>3. CASE i = k + 1
        <5>1. h[i] = F[<<g[k], k + 1>>] /\ i - 1 = k
            BY <4>3
        <5>2. QED
            BY <4>1, <4>3, <5>1
      <4>4. QED
          BY <4>2, <4>3
    <3>3. QED
        BY <3>1, <3>2, Zenon
  <2>4. k + 1 \in Nat /\ \E f \in [0 .. (k + 1) -> T] : Is(k + 1, f)
    <3> HIDE DEF h, Is
    <3>1. QED
        BY <2>2, <2>3
  <2>5. QED
    <3> HIDE DEF h, Is
    <3>1. QED
        BY <2>4
<1>3. Nat \subseteq S
  <2> HIDE DEF S
  <2>1. QED
      BY <1>1, <1>2, SetInduction
<1>4. QED
    BY <1>3 DEF IsHistory

\* The scan after i pages: a full run is the lowest; a run that is not full
\* reaches the page before i, and no run of n unused pages begins before it.
ScanInv(n, i, r) ==
    /\ r.len <= n
    /\ r.len = n => r.start \in Runs(n) /\ \A t \in Runs(n) : r.start <= t
    /\ r.len # n =>
          /\ r.len <= i /\ (i - r.len) .. (i - 1) \subseteq Unused
          /\ r.len # 0 => r.start = i - r.len
          /\ \A t \in Runs(n) : i - r.len <= t

\* One page of the scan of allocate_contiguous.
ScanStep(n, r, i) ==
    IF r.len = n THEN r
    ELSE IF i - 1 \notin Unused THEN [r EXCEPT !.len = 0]
    ELSE [start |-> IF r.len = 0 THEN i - 1 ELSE r.start, len |-> r.len + 1]

\* The scan of allocate_contiguous keeps its invariant, page after page.
LEMMA ScanStepInv ==
    ASSUME NEW n \in Nat \ {0}, NEW i \in 1 .. Top, NEW r \in [start : Nat, len : Nat],
           ScanInv(n, i - 1, r)
    PROVE  ScanInv(n, i, ScanStep(n, r, i))
<1> DEFINE s == ScanStep(n, r, i)
<1>1. CASE r.len = n
    BY <1>1 DEF ScanInv, ScanStep
<1> SUFFICES ASSUME r.len # n PROVE ScanInv(n, i, s)
    BY <1>1
<1>2. /\ r.len < n /\ r.len <= i - 1 /\ ((i - 1) - r.len) .. ((i - 1) - 1) \subseteq Unused
      /\ r.len # 0 => r.start = (i - 1) - r.len
      /\ \A t \in Runs(n) : (i - 1) - r.len <= t
    BY DEF ScanInv
<1>3. \A t \in Runs(n) : t \in Nat /\ t .. (t + n - 1) \subseteq Unused
    BY ApertureAssumption DEF Runs, Pages
<1>4. CASE i - 1 \notin Unused
  <2>1. s.len = 0
      BY <1>4 DEF ScanStep
  <2>2. \A t \in Runs(n) : i <= t
    <3> SUFFICES ASSUME NEW t \in Runs(n), t < i PROVE FALSE
        BY <1>3
    <3>1. i - 1 \in t .. (t + n - 1)
        BY <1>2, <1>3
    <3>2. QED
        BY <1>3, <1>4, <3>1
  <2>3. 0 <= n /\ 0 <= i /\ i - 0 = i /\ i .. (i - 1) = {}
      OBVIOUS
  <2>4. QED
      BY <2>1, <2>2, <2>3, Zenon DEF ScanInv
<1>5. CASE i - 1 \in Unused
  <2>1. s.start = i - (r.len + 1) /\ s.len = r.len + 1
      BY <1>2, <1>5 DEF ScanStep
  <2>2. (i - (r.len + 1)) .. (i - 1) \subseteq Unused
    <3> SUFFICES ASSUME NEW x \in (i - (r.len + 1)) .. (i - 1) PROVE x \in Unused
        OBVIOUS
    <3>1. x = i - 1 \/ x \in ((i - 1) - r.len) .. ((i - 1) - 1)
        OBVIOUS
    <3>2. QED
        BY <1>2, <1>5, <3>1
  <2>3. \A t \in Runs(n) : i - (r.len + 1) <= t
      BY <1>2, <1>3
  <2>4. CASE r.len + 1 = n
    <3>1. i - n \in Pages
        BY <1>2, <2>4, ApertureAssumption DEF Pages
    <3>2. (i - n) .. ((i - n) + n - 1) \subseteq Unused
      <4>1. (i - n) + n - 1 = i - 1
          OBVIOUS
      <4>2. QED
          BY <2>2, <2>4, <4>1
    <3>3. i - n \in Runs(n)
        BY <3>1, <3>2 DEF Runs
    <3>4. n <= n
        OBVIOUS
    <3>5. QED
        BY <2>1, <2>3, <2>4, <3>3, <3>4, Zenon DEF ScanInv
  <2>5. CASE r.len + 1 # n
    <3>1. r.len + 1 <= n /\ r.len + 1 <= i
        BY <1>2
    <3>2. QED
        BY <2>1, <2>2, <2>3, <2>5, <3>1, Zenon DEF ScanInv
  <2>6. QED
      BY <2>4, <2>5
<1>6. QED
    BY <1>4, <1>5

\* For every bitmap and every length, the scan of allocate_contiguous returns the
\* lowest run of unused pages, and nothing when there is none.
LEMMA ScanIsExact ==
    ASSUME NEW n \in Nat
    PROVE  Scan(n) = {s \in Runs(n) : \A t \in Runs(n) : s <= t}
<1>1. CASE n = 0
    BY <1>1, Zenon DEF Scan, Runs
<1> SUFFICES ASSUME n # 0 PROVE Scan(n) = {s \in Runs(n) : \A t \in Runs(n) : s <= t}
    BY <1>1
<1> DEFINE T == [start : Nat, len : Nat]
           base == [start |-> 0, len |-> 0]
           Body(g, i) == IF i = 0 THEN base ELSE ScanStep(n, g[i - 1], i)
           F == [x \in T \X Nat |-> IF x[2] = 0 THEN base ELSE ScanStep(n, x[1], x[2])]
<1>2. F \in [T \X Nat -> T]
    BY DEF ScanStep
<1>3. PICK g : IsHistory(T, base, Top, F, g)
  <2>1. base \in T /\ Top \in Nat
      BY ApertureAssumption
  <2> HIDE DEF F, T, base
  <2>2. QED
      BY <1>2, <2>1, History, Zenon
<1>4. \A i \in 1 .. Top : g[i] = ScanStep(n, g[i - 1], i)
  <2> SUFFICES ASSUME NEW i \in 1 .. Top PROVE g[i] = ScanStep(n, g[i - 1], i)
      OBVIOUS
  <2>1. <<g[i - 1], i>> \in T \X Nat /\ i # 0
    <3>1. i - 1 \in 0 .. Top /\ i \in Nat /\ i # 0
        BY ApertureAssumption
    <3>2. g \in [0 .. Top -> T]
        BY <1>3, Zenon DEF IsHistory
    <3>3. g[i - 1] \in T
        BY <3>1, <3>2, Zenon
    <3>4. QED
        BY <3>1, <3>3, Zenon
  <2>2. g[i] = F[<<g[i - 1], i>>]
      BY <1>3 DEF IsHistory
  <2>3. QED
      BY <2>1, <2>2
<1>5. g = [i \in 0 .. Top |-> Body(g, i)]
    BY <1>3, <1>4, ApertureAssumption DEF IsHistory
<1> DEFINE run == CHOOSE f : f = [i \in 0 .. Top |-> Body(f, i)]
<1>6. run = [i \in 0 .. Top |-> Body(run, i)]
    BY <1>5
<1>7. Scan(n) = IF n # 0 /\ run[Top].len = n THEN {run[Top].start} ELSE {}
    BY DEF Scan, ScanStep
<1> HIDE DEF run
<1> DEFINE S == {k \in Nat : k <= Top => run[k] \in T /\ ScanInv(n, k, run[k])}
<1>8. 0 \in S
  <2>1. run[0] = base
      BY <1>6, ApertureAssumption
  <2>2. ScanInv(n, 0, base)
      BY ApertureAssumption DEF ScanInv, Runs, Pages
  <2>3. QED
      BY <2>1, <2>2
<1>9. ASSUME NEW k \in Nat, k \in S
      PROVE  k + 1 \in S
  <2> SUFFICES ASSUME k + 1 <= Top PROVE run[k + 1] \in T /\ ScanInv(n, k + 1, run[k + 1])
      OBVIOUS
  <2>1. run[k] \in T /\ ScanInv(n, k, run[k]) /\ k + 1 \in 1 .. Top /\ (k + 1) - 1 = k
      BY <1>9, ApertureAssumption
  <2>2. run[k + 1] = ScanStep(n, run[k], k + 1)
    <3>1. k + 1 \in 0 .. Top /\ k + 1 # 0
        BY <2>1
    <3>2. run[k + 1] = Body(run, k + 1)
        BY <1>6, <3>1
    <3>3. QED
        BY <2>1, <3>1, <3>2
  <2>3. ScanStep(n, run[k], k + 1) \in T
      BY <2>1 DEF ScanStep
  <2>4. ScanInv(n, k + 1, ScanStep(n, run[k], k + 1))
      BY <2>1, ScanStepInv
  <2>5. QED
      BY <2>2, <2>3, <2>4
<1>10. Nat \subseteq S
  <2> HIDE DEF S
  <2>1. QED
      BY <1>8, <1>9, SetInduction
<1>11. run[Top] \in T /\ ScanInv(n, Top, run[Top])
    BY <1>10, ApertureAssumption
<1>12. CASE run[Top].len = n
  <2>1. run[Top].start \in Runs(n) /\ \A t \in Runs(n) : run[Top].start <= t
      BY <1>11, <1>12 DEF ScanInv
  <2>2. \A s \in Runs(n) : (\A t \in Runs(n) : s <= t) => s = run[Top].start
    <3>1. \A s \in Runs(n) : s \in Int
        BY ApertureAssumption DEF Runs, Pages
    <3>2. run[Top].start \in Int
        BY <2>1, <3>1
    <3>3. QED
        BY <2>1, <3>1, <3>2
  <2>3. QED
      BY <1>7, <1>12, <2>1, <2>2
<1>13. CASE run[Top].len # n
  <2>1. Runs(n) = {}
    <3> SUFFICES ASSUME NEW t \in Runs(n) PROVE FALSE
        OBVIOUS
    <3>1. t \in Nat /\ Top - run[Top].len <= t /\ run[Top].len < n
      <4>1. run[Top].len <= n /\ Top - run[Top].len <= t
          BY <1>11, <1>13, Zenon DEF ScanInv
      <4>2. t \in Nat
          BY ApertureAssumption DEF Runs, Pages
      <4>3. run[Top].len \in Nat
          BY <1>11
      <4>4. QED
          BY <1>13, <4>1, <4>2, <4>3
    <3>2. t + n - 1 \in t .. (t + n - 1) /\ t + n - 1 >= Top
        BY <1>11, <3>1, ApertureAssumption
    <3>3. t + n - 1 \in Unused
        BY <3>2 DEF Runs
    <3>4. QED
        BY <3>2, <3>3, ApertureAssumption DEF Unused
  <2>2. QED
      BY <1>7, <1>13, <2>1
<1>14. QED
    BY <1>12, <1>13

\* However fragmented memory is, allocate_contiguous finds the lowest run there is,
\* for every aperture and every length.
THEOREM ScanAlwaysFindsLowestRun == Spec => []ScanFindsLowestRun
<1>1. ScanFindsLowestRun
  <2>1. \A n \in 0 .. MaxRegion : n \in Nat
      BY BoundsAssumption
  <2>2. QED
      BY <2>1, ScanIsExact, Zenon DEF ScanFindsLowestRun
<1>2. QED
    BY <1>1, PTL

=============================================================================
