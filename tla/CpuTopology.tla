---------------------------- MODULE CpuTopology ----------------------------
(***************************************************************************)
(* tvisor_util/cpu_topology.rs: the physical CPUs a device tree describes. *)
(* A node is what the code reads of it; "bad" stands for a property that   *)
(* does not parse and "none" for one that is absent.                       *)
(***************************************************************************)
EXTENDS Integers, Sequences, SequencesExt, TLC

CONSTANTS
    MaxCpus,        \* MAX_CPUS
    MaxAffinity,    \* larger values have bits outside MPIDR_AFFINITY_MASK
    NoId            \* the logical id of a disabled CPU

Bindings == {"arm,psci-1.0", "arm,psci-0.2", "arm,psci"}

\* discover_psci: "none", "bad", or the conduit of the only enabled node.
discover_psci(nodes) ==
    LET step(found, n) ==
            IF found = "bad" THEN "bad"
            ELSE IF n.compatible \notin Bindings THEN (IF n.name = "psci" THEN "bad" ELSE found)
            ELSE IF n.status = "disabled" THEN found
            ELSE IF n.status = "bad" \/ found # "none" \/ n.method \notin {"smc", "hvc"} THEN "bad"
            ELSE n.method
    IN FoldLeft(step, "none", nodes)

\* The startup method of a cpu node; cells are the addresses a release cell may
\* have, eight aligned bytes.
startup_method(node, psci, cells) ==
    CASE node.method = "none" -> [kind |-> "missing"]
      [] node.method = "psci" -> [kind |-> IF psci = "none" THEN "bad" ELSE "psci"]
      [] node.method = "spin-table" ->
            IF node.release \in cells THEN [kind |-> "spin-table", release |-> node.release]
            ELSE [kind |-> "bad"]
      [] node.method = "bad" -> [kind |-> "bad"]
      [] OTHER -> [kind |-> "unsupported"]

is_duplicate(cpus, affinity) == \E i \in DOMAIN cpus : cpus[i].affinity = affinity

\* Mutant: the rest keeps the order of the device tree.
by_tree(cpus) == cpus

by_affinity(cpus) ==
    <<Head(cpus)>> \o SortSeq(Tail(cpus), LAMBDA a, b : a.affinity < b.affinity)

\* Logical ids count the enabled CPUs in their final order.
number(cpus) ==
    [i \in DOMAIN cpus |->
        [cpus[i] EXCEPT !.id =
            IF cpus[i].enabled
            THEN Len(SelectSeq(SubSeq(cpus, 1, i - 1), LAMBDA c : c.enabled))
            ELSE NoId]]

\* The loop over the children of /cpus; err is the result of a bad one.
collect(nodes, psci, cells, err) ==
    LET step(cpus, n) ==
            IF cpus = err THEN err
            ELSE IF n.type = "none" THEN (IF n.name = "cpu" THEN err ELSE cpus)
            ELSE IF n.type = "bad" THEN err
            ELSE IF n.type # "cpu" THEN cpus
            ELSE LET m == startup_method(n, psci, cells)
                 IN IF n.status = "bad" \/ n.reg > MaxAffinity
                       \/ is_duplicate(cpus, n.reg) \/ Len(cpus) = MaxCpus \/ m.kind = "bad"
                    THEN err
                    ELSE Append(cpus, [affinity |-> n.reg, enabled |-> n.status = "okay",
                                       id |-> NoId, startup |-> m])
    IN FoldLeft(step, <<>>, nodes)

\* discover_cpu_topology: the boot CPU first, then the others by affinity.
discover_cpu_topology(tree, boot, cells, err) ==
    LET psci == discover_psci(tree.roots)
        cpus == IF ~tree.cells \/ psci = "bad" THEN err
                ELSE collect(tree.cpus, psci, cells, err)
        boots == IF cpus = err THEN {}
                 ELSE {i \in DOMAIN cpus : cpus[i].enabled /\ cpus[i].affinity = boot}
    IN IF boots = {} THEN err
       ELSE LET b == CHOOSE i \in boots : \A k \in boots : i <= k
            IN number(by_affinity([cpus EXCEPT ![1] = cpus[b], ![b] = cpus[1]]))

=============================================================================
