------------------------------- MODULE Stage1 -------------------------------
(***************************************************************************)
(* tvisor_util/el2_stage1_translation.rs: struct TableSet, the three-level *)
(* tables of the EL2 stage-1 regime in a fixed arena.  Addresses are page  *)
(* numbers; a table has Fanout entries, so a level-2 block is Fanout pages *)
(* and a level-1 block Fanout^2.  What an edit wrote before it failed      *)
(* stays written, so an edit returns the tables and whether it succeeded.  *)
(***************************************************************************)
EXTENDS Integers, Sequences, SequencesExt

CONSTANTS
    Fanout,     \* ENTRIES_PER_TABLE
    PaPages     \* pages below 2^pa_bits

ASSUME Stage1Assumption == Fanout \in Nat \ {0} /\ PaPages \in Nat

VaPages == Fanout^3
Zero == [kind |-> "zero"]
Table(i) == [kind |-> "table", index |-> i]

\* A leaf holds the page its block begins at; AF and shareability follow from
\* the type.
leaf_descriptor(pa, attr) == [kind |-> "leaf", pa |-> pa, attr |-> attr]

level_size(level) == Fanout^(3 - level)
index_for(level, va) == (va \div level_size(level)) % Fanout
aligned_for(va, pa, size) == va % size = 0 /\ pa % size = 0

Mapping(va, pa, size, attr) == [va |-> va, pa |-> pa, size |-> size, attr |-> attr]

zeroed == [i \in 0 .. (Fanout - 1) |-> Zero]

\* TableSet::new: the root is the first page of an arena of n pages.
TableSet(n) == [entries |-> [i \in 0 .. (n - 1) |-> zeroed], used |-> 1, limit |-> n]

validate_mapping(m) ==
    m.size # 0 /\ m.va + m.size <= VaPages /\ m.pa + m.size <= PaPages

\* map_leaf, first part: down to the table of the leaf's level, with new
\* tables where an entry is still zero.
Descend(set, level, va) ==
    LET step(acc, l) ==
            LET i == index_for(l, va)
                e == acc.set.entries[acc.table][i]
                child == acc.set.used
            IN IF ~acc.ok THEN acc
               ELSE IF e.kind = "table" THEN [acc EXCEPT !.table = e.index]
               ELSE IF e.kind = "leaf" \/ child = acc.set.limit THEN [acc EXCEPT !.ok = FALSE]
               ELSE [set |-> [acc.set EXCEPT !.entries[child] = zeroed,
                                             !.entries[acc.table][i] = Table(child),
                                             !.used = child + 1],
                     table |-> child, ok |-> TRUE]
    IN FoldLeft(step, [set |-> set, table |-> 0, ok |-> TRUE], [l \in 1 .. (level - 1) |-> l])

\* An entry in use is only written again with the same descriptor.
map_leaf(set, level, va, descriptor) ==
    LET at == Descend(set, level, va)
        i == index_for(level, va)
        good == at.ok /\ at.set.entries[at.table][i] \in {Zero, descriptor}
    IN [set |-> IF good THEN [at.set EXCEPT !.entries[at.table][i] = descriptor] ELSE at.set,
        ok |-> good]

\* Mutant: a block is used although less than a block remains.
leaf_level_greedy(m, done) ==
    IF aligned_for(m.va + done, m.pa + done, level_size(1)) /\ m.size - done >= level_size(1) THEN 1
    ELSE IF aligned_for(m.va + done, m.pa + done, level_size(2)) THEN 2 ELSE 3

\* The largest leaf that fits what is left of a mapping.
leaf_level(m, done) ==
    CHOOSE l \in 1 .. 3 :
        /\ \A k \in 1 .. l : 
              (aligned_for(m.va + done, m.pa + done, level_size(k)) /\ m.size - done >= level_size(k))
              <=> k = l

\* map: leaf after leaf until the mapping is complete or one fails.
map(set, m) ==
    LET leaves[done \in 0 .. (m.size + level_size(1))] ==
            IF done >= m.size THEN <<>>
            ELSE <<[level |-> leaf_level(m, done), at |-> done]>>
                 \o leaves[done + level_size(leaf_level(m, done))]
        step(acc, leaf) ==
            IF acc.ok THEN map_leaf(acc.set, leaf.level, m.va + leaf.at,
                                    leaf_descriptor(m.pa + leaf.at, m.attr))
            ELSE acc
    IN IF validate_mapping(m) THEN FoldLeft(step, [set |-> set, ok |-> TRUE], leaves[0])
       ELSE [set |-> set, ok |-> FALSE]

\* walk: Zero, or where the page goes and with which attributes.
walk(set, va) ==
    LET f[level \in 1 .. 3, table \in 0 .. (set.limit - 1)] ==
            LET e == set.entries[table][index_for(level, va)]
            IN IF e.kind = "table" THEN f[level + 1, e.index]
               ELSE IF e = Zero THEN Zero
               ELSE leaf_descriptor(e.pa + (va % level_size(level)), e.attr)
    IN f[1, 0]

\* The table and the index of the level-3 entry of a page.
LeafTable(set, va) == Descend(set, 3, va).table

=============================================================================
