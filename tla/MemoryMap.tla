----------------------------- MODULE MemoryMap -----------------------------
(***************************************************************************)
(* tvisor_util/memory_map.rs: the classification of physical addresses.    *)
(* Every list is kept sorted and merged while it is filled; finalize       *)
(* computes the RAM that may be allocated.                                 *)
(***************************************************************************)
EXTENDS Regions

CONSTANTS MaxRam, MaxReserved, MaxMmio  \* capacities of the lists
MaxUsable == MaxRam + MaxReserved

empty == [ram |-> <<>>, reserved |-> <<>>, mmio |-> <<>>, usable |-> <<>>]

merge_regions(a, b) ==
    [start |-> IF a.start < b.start THEN a.start ELSE b.start,
     end |-> IF a.end > b.end THEN a.end ELSE b.end]

\* Mutant: the merged region swallows one successor only.
absorb_one(list, i) ==
    IF i < Len(list) /\ Touches(list[i], list[i + 1])
    THEN RemoveAt(ReplaceAt(list, i, merge_regions(list[i], list[i + 1])), i + 1)
    ELSE list

\* The region at i has grown: it swallows the successors it now touches.
absorb(list, i) ==
    LET f[l \in Seq(Region)] ==
            IF i < Len(l) /\ Touches(l[i], l[i + 1])
            THEN f[RemoveAt(ReplaceAt(l, i, merge_regions(l[i], l[i + 1])), i + 1)]
            ELSE l
    IN f[list]

insert_sorted_merged(list, region, capacity) ==
    LET index == CHOOSE i \in 0 .. Len(list) :
                    /\ \A k \in 1 .. i : list[k].start < region.start
                    /\ i = Len(list) \/ list[i + 1].start >= region.start
    IN IF index > 0 /\ Touches(list[index], region)
       THEN absorb(ReplaceAt(list, index, merge_regions(list[index], region)), index)
       ELSE IF index < Len(list) /\ Touches(list[index + 1], region)
       THEN absorb(ReplaceAt(list, index + 1, merge_regions(list[index + 1], region)), index + 1)
       ELSE insert(list, index + 1, region, capacity)

\* The insertions return Err, or the map with the list replaced.
insert_ram(map, region) ==
    LET list == insert_sorted_merged(map.ram, region, MaxRam)
    IN IF list = Err THEN Err ELSE [map EXCEPT !.ram = list]
insert_reserved(map, region) ==
    LET list == insert_sorted_merged(map.reserved, region, MaxReserved)
    IN IF list = Err THEN Err ELSE [map EXCEPT !.reserved = list]
insert_mmio(map, region) ==
    LET list == insert_sorted_merged(map.mmio, region, MaxMmio)
    IN IF list = Err THEN Err ELSE [map EXCEPT !.mmio = list]

\* One pass over the sorted reservations; the cursor is the first address
\* that is not yet decided, and ram.end when the rest is reserved.
subtract_all(ram, reserved) ==
    LET step(acc, r) ==
            IF r.end <= acc.cursor \/ r.start >= ram.end \/ acc.cursor >= ram.end THEN acc
            ELSE [cursor |-> IF r.end >= ram.end THEN ram.end ELSE r.end,
                  out |-> IF r.start > acc.cursor
                          THEN Append(acc.out, [start |-> acc.cursor, end |-> r.start]) ELSE acc.out]
        last == FoldLeft(step, [cursor |-> ram.start, out |-> <<>>], reserved)
    IN IF last.cursor < ram.end THEN Append(last.out, [start |-> last.cursor, end |-> ram.end])
       ELSE last.out

finalize(map) ==
    LET usable == FoldLeft(LAMBDA out, r : out \o subtract_all(r, map.reserved), <<>>, map.ram)
    IN IF (\E i \in DOMAIN map.ram, k \in DOMAIN map.mmio : overlaps(map.ram[i], map.mmio[k]))
          \/ Len(usable) > MaxUsable
       THEN Err
       ELSE [map EXCEPT !.usable = usable]

\* Sorted, with a gap before every next region.
Normal(list) == \A i \in 1 .. (Len(list) - 1) : list[i].end < list[i + 1].start

=============================================================================
