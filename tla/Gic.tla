-------------------------------- MODULE Gic --------------------------------
(***************************************************************************)
(* The physical GICv2 as tvisor takes it over (tvisor_util/gicv2.rs) and   *)
(* the CPUs' interfaces to it (management.rs): CPU0 sets up the            *)
(* distributor, every CPU its banked registers and its interface, and a    *)
(* CPU that is ready can be sent the management SGI.  The firmware decides *)
(* which interrupts the Non-secure view can reach, and what it left        *)
(* enabled; what it left wrong must stop the boot.                         *)
(***************************************************************************)
EXTENDS Integers, FiniteSets

CONSTANTS
    N,              \* the secondaries are 1 .. N
    Firmware        \* what firmware and hardware may present

ASSUME NAssumption == N \in Nat

CPUs == 0 .. N
Sgi == 1            \* MANAGEMENT_SGI
Timer == 27         \* VIRTUAL_TIMER_PPI
OtherPpi == 30      \* a PPI nobody claims
Private == {Sgi, Timer, OtherPpi}

\* local_target: all the banked fields together name one interface.
Fields(f, c) == UNION {f.fields[c][i] : i \in DOMAIN f.fields[c]}
IsTarget(mask) == Cardinality(mask) = 1

\* The target fields that a CPU reads name its own interface or are not read at all, and no two
\* CPUs have the same one.
ASSUME FirmwareAssumption ==
    \A f \in Firmware :
        /\ f.enabled \in [CPUs -> SUBSET Private]
        /\ \A c \in CPUs : IsTarget(Fields(f, c)) => Fields(f, c) = {f.interface[c]}
        /\ \A c, d \in CPUs : f.interface[c] = f.interface[d] => c = d

VARIABLES
    fw,                 \* the firmware's choices
    enabled, priority,  \* banked: ISENABLER and IPRIORITYR of each CPU
    spi,                \* the console's SPI in the distributor
    distributor,        \* GICD_CTLR.EnableGrp1
    interface,          \* GICC and GICH of each CPU
    ready, target,      \* CpuRuntime
    stage,              \* where a CPU is
    intended,           \* doorbells rung by logical id, not yet taken
    pending             \* the CPUs whose interface has the SGI pending

registers == <<enabled, priority, spi, distributor, interface>>
gic_vars == <<fw, registers, ready, target, stage, intended, pending>>

GicInit ==
    /\ fw \in Firmware
    /\ enabled = fw.enabled
    /\ priority = [c \in CPUs |-> [i \in Private |-> 0]]
    /\ spi = [enabled |-> fw.spi_enabled, priority |-> 0, target |-> {}, level |-> FALSE]
    /\ distributor = FALSE
    /\ interface = [c \in CPUs |-> [on |-> FALSE, eoimode |-> FALSE, pmr |-> 0, hcr |-> TRUE]]
    /\ ready = [c \in CPUs |-> FALSE] /\ target = [c \in CPUs |-> {}]
    /\ stage = [c \in CPUs |-> IF c = 0 THEN "distributor" ELSE "parked"]
    /\ intended = {} /\ pending = {}

-----------------------------------------------------------------------------
(* The Non-secure view of the registers. *)

\* Group-0 interrupts are RAZ/WI to Non-secure accesses.
Accessible(c, irq) == ~fw.security \/ irq \notin fw.group0[c]

num_interrupts == fw.lines

local_target(c) == Fields(fw, c)

enable_irq(c, irq) == IF Accessible(c, irq) THEN enabled[c] \cup {irq} ELSE enabled[c]
isenabler_get(c, irq) == irq \in enabled[c] /\ Accessible(c, irq)

\* configure_nonsecure_priority: reads back unless the view is RAZ/WI.
set_priority(c, irq, value) ==
    IF Accessible(c, irq) THEN [priority[c] EXCEPT ![irq] = value] ELSE priority[c]
PriorityOk(c, irq) == Accessible(c, irq)

-----------------------------------------------------------------------------

Stop(c) == stage' = [stage EXCEPT ![c] = "failed"]

\* gicd_disable_irq: no effect on an SPI the view cannot reach.
disable_spi(reached) == spi.enabled /\ ~reached

\* Its priority, its target and its trigger mode, when the view reaches it.
configure_spi(reached) ==
    IF reached THEN [priority |-> 128, target |-> local_target(0), level |-> TRUE]
    ELSE [priority |-> spi.priority, target |-> spi.target, level |-> spi.level]

\* initialize_boot: the target, then initialize_distributor.
InitializeDistributor ==
    LET valid == IsTarget(local_target(0)) /\ fw.spi \in 32 .. (num_interrupts - 1)
        reached == valid /\ ~(fw.security /\ fw.spi_group0)
        new == configure_spi(reached)
    IN /\ stage[0] = "distributor"
       /\ spi' = [enabled |-> disable_spi(reached), priority |-> new.priority,
                  target |-> new.target, level |-> new.level]
       /\ distributor' = (distributor \/ reached)
       /\ IF reached THEN stage' = [stage EXCEPT ![0] = "local"] ELSE Stop(0)
       /\ UNCHANGED <<fw, enabled, priority, interface, ready, target, intended, pending>>

\* Mutant: a secondary keeps what firmware enabled.
QuietUnchanged(c) == enabled[c]

\* A worker's PPIs are disabled before anything else.
Quiet(c) == IF c = 0 THEN enabled[c] ELSE enabled[c] \ {i \in Private : i >= 16 /\ Accessible(c, i)}

DuplicateTarget(c) == \E d \in CPUs \ {c} : ready[d] /\ target[d] = local_target(c)

\* initialize_cpu_interface and the rest of initialize_local.
InitializeLocal(c) ==
    LET valid == IsTarget(local_target(c)) /\ (fw.security => isenabler_get(c, Sgi))
        good == valid /\ PriorityOk(c, Sgi)
        set == Quiet(c) \cup (IF good THEN enable_irq(c, Sgi) \ enabled[c] ELSE {})
        usable == good /\ fw.eoimode /\ distributor /\ ~DuplicateTarget(c)
    IN /\ stage[c] = "local"
       /\ enabled' = [enabled EXCEPT ![c] = IF valid THEN set ELSE @]
       /\ priority' = [priority EXCEPT ![c] = IF valid THEN set_priority(c, Sgi, 64) ELSE @]
       /\ interface' = [interface EXCEPT ![c] =
                           [on |-> @.on \/ good, eoimode |-> @.eoimode \/ (good /\ fw.eoimode),
                            pmr |-> IF good THEN 255 ELSE @.pmr,
                            hcr |-> @.hcr /\ ~(valid /\ c # 0)]]
       /\ target' = [target EXCEPT ![c] = IF usable THEN local_target(c) ELSE @]
       /\ ready' = [ready EXCEPT ![c] = usable]
       /\ IF usable THEN stage' = [stage EXCEPT ![c] = "online"] ELSE Stop(c)
       /\ UNCHANGED <<fw, spi, distributor, intended, pending>>

\* activate_secondary: one worker after the other, while CPU0 is fine.
Activate(c) ==
    /\ stage[0] = "online" /\ stage[c] = "parked"
    /\ \A d \in 1 .. (c - 1) : stage[d] = "online"
    /\ stage' = [stage EXCEPT ![c] = "local"]
    /\ UNCHANGED <<fw, registers, ready, target, intended, pending>>

\* run_linux_vm: the timer and the console, on CPU0.
EnableGuestInterrupts ==
    /\ stage[0] = "online" /\ \A c \in CPUs : stage[c] = "online"
    /\ priority' = [priority EXCEPT ![0] = set_priority(0, Timer, 128)]
    /\ enabled' = [enabled EXCEPT ![0] = IF PriorityOk(0, Timer) THEN enable_irq(0, Timer) ELSE @]
    /\ spi' = [spi EXCEPT !.enabled = PriorityOk(0, Timer)]
    /\ IF PriorityOk(0, Timer) THEN stage' = [stage EXCEPT ![0] = "guest"] ELSE Stop(0)
    /\ UNCHANGED <<fw, distributor, interface, ready, target, intended, pending>>

-----------------------------------------------------------------------------
(* Interrupts. *)

Running(c) == stage[c] \in {"online", "guest"}

\* Mutant: the logical id is taken for the interface.
sgir_by_id(to) == {to}

\* management_sgir: the discovered target, never the logical id.
management_sgir(to) == target[to]

\* send_management: whoever has an interface named in the list.
Send(from, to) ==
    /\ Running(from) /\ from # to /\ ready[to] /\ to \notin intended
    /\ intended' = intended \cup {to}
    /\ pending' = pending \cup {c \in CPUs : fw.interface[c] \in management_sgir(to)}
    /\ UNCHANGED <<fw, registers, ready, target, stage>>

\* What the interface can signal: a PPI whenever its source asserts it, the
\* SGI while it is pending.
Signalled(c) ==
    IF distributor /\ interface[c].on
    THEN {i \in Private : /\ i \in enabled[c] /\ Accessible(c, i)
                          /\ priority[c][i] < interface[c].pmr /\ (i = Sgi => c \in pending)}
    ELSE {}

\* acknowledge and complete_host_interrupt of the SGI, where IRQs are unmasked.
Take(c) ==
    /\ Running(c) /\ Sgi \in Signalled(c)
    /\ pending' = pending \ {c}
    /\ intended' = intended \ {c}
    /\ UNCHANGED <<fw, registers, ready, target, stage>>

GicNext ==
    \/ InitializeDistributor \/ EnableGuestInterrupts
    \/ \E c \in CPUs :
          \/ InitializeLocal(c) \/ Activate(c) \/ Take(c)
          \/ \E d \in CPUs : Send(c, d)

GicSpec == GicInit /\ [][GicNext]_gic_vars

\* Unmasked CPUs take the SGI; its priority is above the others'.
Fairness == \A c \in CPUs : WF_gic_vars(InitializeLocal(c)) /\ WF_gic_vars(Take(c))
GicFairSpec == GicSpec /\ Fairness

-----------------------------------------------------------------------------

\* Whatever firmware left enabled, an interrupt that is signalled to a running
\* CPU has an owner there: a worker sees the management SGI only, CPU0 also
\* the timer and what firmware keeps there, and the console's SPI is enabled only
\* when it is level-sensitive and routed to CPU0 alone.
OnlyOwnedInterrupts ==
    /\ \A c \in CPUs : Running(c) =>
          Signalled(c) \subseteq ({Sgi} \cup (IF c = 0 THEN fw.enabled[0] \cup {Timer} ELSE {}))
    /\ \A c \in CPUs : (c # 0 /\ Running(c)) => ~interface[c].hcr
    /\ stage[0] \in {"local", "online"} => ~spi.enabled
    /\ stage[0] = "guest" => spi.level /\ spi.target = {fw.interface[0]}

\* The management SGI pends at a CPU only when its doorbell was rung (management_sgir uses the
\* discovered target, although interfaces are not numbered like the CPUs).
DoorbellsPendWhereMeant == pending \subseteq intended

\* A doorbell rung for a logical CPU that is ready is taken by that CPU, unless
\* it stops, and pends at no other (send_management).
DoorbellsArrive ==
    /\ \A c \in CPUs : (c \in intended) ~> (c \notin intended \/ ~Running(c))
    /\ [](pending \subseteq intended)

=============================================================================
