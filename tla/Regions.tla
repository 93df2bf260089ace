------------------------------ MODULE Regions ------------------------------
(***************************************************************************)
(* tvisor_util/system_info.rs and page.rs: physical regions and alignment. *)
(* A region is its bounds, end excluded.  Addresses are words: the end of  *)
(* a region must itself be a word, so MaxAddr stands for u64::MAX.         *)
(***************************************************************************)
EXTENDS Integers, Sequences, SequencesExt

CONSTANTS
    MaxAddr,    \* the largest word
    PageSize,
    Err         \* the result of a call that fails

ASSUME RegionsAssumption == MaxAddr \in Nat /\ PageSize \in Nat \ {0} /\ (MaxAddr + 1) % PageSize = 0

Addresses == 0 .. MaxAddr
Region == [start : Nat, end : Nat]

\* The addresses a region, or a list of them, stands for.
Span(r) == r.start .. (r.end - 1)
Spans(list) == UNION {Span(list[i]) : i \in DOMAIN list}

new(start, size) ==
    IF size = 0 \/ start + size > MaxAddr THEN Err ELSE [start |-> start, end |-> start + size]

from_bounds(start, end) == IF end <= start THEN Err ELSE new(start, end - start)

align_down(a) == a - (a % PageSize)
align_up(a) == IF a + PageSize - 1 > MaxAddr THEN Err ELSE align_down(a + PageSize - 1)

\* new_aligned rounds outwards.
new_aligned(start, size) ==
    IF size = 0 \/ start + size > MaxAddr \/ align_up(start + size) = Err THEN Err
    ELSE [start |-> align_down(start), end |-> align_up(start + size)]

\* The pages a region covers wholly: the loops from align_up to align_down.
WholePages(r) ==
    {p \in 0 .. (r.end \div PageSize) : p * PageSize >= r.start /\ (p + 1) * PageSize <= r.end}

contains_region(r, other) == other.start >= r.start /\ other.end <= r.end
overlaps(r, other) == r.start < other.end /\ other.start < r.end
is_adjacent(r, other) == r.end = other.start \/ other.end = r.start
Touches(r, other) == overlaps(r, other) \/ is_adjacent(r, other)

\* FixedList: push and insert refuse a full list, whatever they are given.
push(list, x, capacity) == IF Len(list) >= capacity THEN Err ELSE Append(list, x)
insert(list, i, x, capacity) == IF Len(list) >= capacity THEN Err ELSE InsertAt(list, i, x)

\* A loop that stops at the first error.
TryFold(op(_, _), base, list) ==
    FoldLeft(LAMBDA acc, x : IF acc = Err THEN Err ELSE op(acc, x), base, list)

=============================================================================
