--------------------------- MODULE PageAllocator ---------------------------
(***************************************************************************)
(* tvisor_util/page_allocator.rs: the physical page allocator.  Managed is *)
(* fixed once `new` has run; a managed page is in use or unused, and the   *)
(* number of pages in use is cached beside the bitmap.  Every call runs    *)
(* under the allocator's IRQ-save lock (mm.rs with_allocator), so each one *)
(* is a single step of the modules that use it.                            *)
(***************************************************************************)
EXTENDS Integers, FiniteSets

CONSTANTS
    Top,            \* pages of the physical aperture
    Managed         \* the pages of usable RAM, wholly covered by its regions

ASSUME ApertureAssumption == Top \in Nat \ {0} /\ Managed \subseteq 0 .. (Top - 1)

VARIABLES in_use, in_use_pages

allocator == <<in_use, in_use_pages>>

Pages == 0 .. (Top - 1)

Unused == Managed \ in_use

\* new: everything managed is marked in use, then the usable RAM is released.
AllocatorInit == in_use = {} /\ in_use_pages = 0

\* set_bit on each of a set of pages: a bit that already has the value is
\* skipped and leaves the cached count alone.
SetBits(pages) ==
    /\ in_use' = in_use \cup pages
    /\ in_use_pages' = in_use_pages + Cardinality(pages \ in_use)

ClearBits(pages) ==
    /\ in_use' = in_use \ pages
    /\ in_use_pages' = in_use_pages - Cardinality(pages \cap in_use)

\* The starts of the runs of n unused pages.
Runs(n) == {s \in Pages : n # 0 /\ s .. (s + n - 1) \subseteq Unused}

\* allocate_contiguous: the lowest run; with none (or n = 0), Exhausted.
allocate_contiguous(n, s) ==
    /\ s \in Runs(n)
    /\ \A t \in Runs(n) : s <= t
    /\ SetBits(s .. (s + n - 1))

Exhausted(n) == Runs(n) = {}

\* Mutant: a page in use does not end the run.
ScanAcross(n) ==
    LET run[i \in 0 .. Top] ==
            IF i = 0 THEN [start |-> 0, len |-> 0]
            ELSE IF run[i - 1].len = n \/ i - 1 \notin Unused THEN run[i - 1]
            ELSE [start |-> IF run[i - 1].len = 0 THEN i - 1 ELSE run[i - 1].start,
                  len |-> run[i - 1].len + 1]
    IN IF n # 0 /\ run[Top].len = n THEN {run[Top].start} ELSE {}

\* The scan of allocate_contiguous as the code writes it: run[i] is the run
\* that ends before page i; a full run stops the scan.
Scan(n) ==
    LET run[i \in 0 .. Top] ==
            IF i = 0 THEN [start |-> 0, len |-> 0]
            ELSE IF run[i - 1].len = n THEN run[i - 1]
            ELSE IF i - 1 \notin Unused THEN [run[i - 1] EXCEPT !.len = 0]
            ELSE [start |-> IF run[i - 1].len = 0 THEN i - 1 ELSE run[i - 1].start,
                  len |-> run[i - 1].len + 1]
    IN IF n # 0 /\ run[Top].len = n THEN {run[Top].start} ELSE {}

\* allocate_high: the highest unused page.
allocate_high(p) ==
    /\ p \in Unused
    /\ \A q \in Unused : q <= p
    /\ SetBits({p})

\* free refuses a reserved page and a page that is not in use.
Freeable(p) == p \in Managed /\ p \in in_use

free(p) == Freeable(p) /\ ClearBits({p})

=============================================================================
