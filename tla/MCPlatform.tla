----------------------------- MODULE MCPlatform -----------------------------
(* Platform for TLC: families of device trees, each varied in a few places. *)
EXTENDS Platform

Status == {"okay", "disabled", "bad"}
UpTo(S, n) == UNION {[1 .. k -> S] : k \in 0 .. n}

Memory(type, status, reg) == [type |-> type, status |-> status, reg |-> reg]
Cpu(type, name, status, reg, method, release) ==
    [type |-> type, name |-> name, status |-> status, reg |-> reg, method |-> method,
     release |-> release]
Reserved(status, reg, ranges) ==
    [status |-> status, no_map |-> FALSE, reusable |-> FALSE, fixup |-> FALSE, reg |-> reg,
     size |-> 4, aligned |-> TRUE, ranges |-> ranges]
Psci(compatible, name, status, method) ==
    [compatible |-> compatible, name |-> name, status |-> status, method |-> method]

Boot == Cpu("cpu", "cpu", "okay", 2, "spin-table", 0)

Base ==
    [memory |-> <<Memory("memory", "okay", <<<<0, 24>>>>)>>,
     memreserve |-> <<<<0, 4>>>>,
     reserved |-> <<>>, soc |-> <<<<28, 2>>>>, bcm2711 |-> FALSE,
     dtb |-> <<13, 2>>, image |-> <<16, 4>>, linux |-> <<21, 1>>,
     roots |-> <<>>, cells |-> TRUE, cpus |-> <<Boot>>, boot |-> 2, cellsZero |-> TRUE]

RamPairs == {<<0, 8>>, <<0, 16>>, <<6, 6>>, <<8, 8>>, <<17, 2>>, <<20, 4>>, <<20, 8>>, <<20, 12>>, <<4, 0>>}
ReservePairs == {<<0, 4>>, <<2, 4>>, <<4, 4>>, <<9, 3>>, <<11, 8>>}

\* RAM, reservation block and the firmware carve-out.
RamTrees ==
    {[Base EXCEPT !.memory = <<Memory("memory", "okay", r)>>, !.memreserve = Append(m, <<0, 4>>),
                  !.bcm2711 = b] :
        r \in UpTo(RamPairs, 2), m \in UpTo(ReservePairs, 2), b \in BOOLEAN}

\* Nodes that are disabled, of another type or malformed.
NodeTrees ==
    {[Base EXCEPT !.memory = <<Memory(t, s, <<<<0, 12>>>>), Memory("memory", "okay", <<<<8, 12>>>>)>>] :
        t \in {"memory", "other", "bad"}, s \in Status}
    \cup {[Base EXCEPT !.memory = <<Memory("memory", "okay", <<<<4, 20>>>>)>>, !.memreserve = <<<<4, 4>>>>,
                       !.cpus = <<[Boot EXCEPT !.release = 4]>>, !.bcm2711 = b] : b \in BOOLEAN}

\* Reserved memory, device tree, image, Linux source and devices.
GoodNodes ==
    {Reserved("okay", <<<<5, 2>>, <<8, 5>>>>, <<>>), Reserved("disabled", <<<<4, 4>>>>, <<>>),
     Reserved("okay", Err, <<<<7, 3>>, <<22, 2>>>>),
     [Reserved("okay", <<<<6, 2>>>>, <<>>) EXCEPT !.no_map = TRUE]}
BadNodes ==
    {Reserved("okay", Err, <<>>), Reserved("bad", Err, <<>>),
     [Reserved("okay", Err, <<<<7, 3>>>>) EXCEPT !.size = 0],
     [Reserved("okay", <<<<5, 2>>>>, <<>>) EXCEPT !.no_map = TRUE, !.reusable = TRUE]}

ReserveTrees ==
    {[Base EXCEPT !.memreserve = <<m, <<0, 4>>>>, !.reserved = n, !.soc = s, !.dtb = d, !.linux = l] :
        m \in ReservePairs, n \in UpTo(GoodNodes, 2) \cup UpTo(BadNodes, 1), s \in {<<>>, <<<<24, 4>>>>, <<<<26, 2>>, <<23, 3>>>>, Err},
        d \in {<<5, 2>>, <<13, 2>>, <<26, 3>>}, l \in {<<21, 1>>, <<10, 3>>, <<30, 1>>}}

\* The CPUs, PSCI nodes and release cells.
CpuNodes ==
    {Boot, Cpu("cpu", "cpu", "okay", 1, "spin-table", 0), Cpu("cpu", "cpu", "okay", 3, "spin-table", 2),
     Cpu("cpu", "cpu", "disabled", 0, "none", 0), Cpu("cpu", "cpu", "okay", 0, "psci", 0),
     Cpu("cpu", "cpu", "okay", 9, "spin-table", 0), Cpu("none", "idle-states", "okay", 0, "none", 0),
     Cpu("cpu", "cpu", "okay", 4, "spin-table", 1)}
PsciNodes ==
    {Psci("arm,psci-1.0", "psci", "okay", "smc"), Psci("arm,psci-0.2", "firmware", "disabled", "hvc"),
     Psci("other", "psci", "okay", "smc"), Psci("arm,psci", "psci", "okay", "other")}

CpuTrees ==
    {[Base EXCEPT !.cpus = c, !.roots = r] : c \in UpTo(CpuNodes, 3), r \in UpTo(PsciNodes, 1)}
    \cup {[Base EXCEPT !.cpus = c, !.roots = r, !.cellsZero = z, !.boot = b] :
            c \in UpTo(CpuNodes, 1), r \in UpTo(PsciNodes, 2), z \in BOOLEAN, b \in {2, 0}}
    \cup {[Base EXCEPT !.cpus = <<Boot>> \o c] : c \in [1 .. 3 -> CpuNodes]}

MCTrees == RamTrees \cup NodeTrees \cup ReserveTrees \cup CpuTrees
=============================================================================
