----------------------------- MODULE GuestLoop -----------------------------
(***************************************************************************)
(* src/guest.rs: run_vcpu_with_mmio, the loop in which CPU0 runs the Linux *)
(* vCPU.  Physical interrupts and trapped device accesses take CPU0 out of *)
(* the guest; the loop turns the virtual timer and the host console into   *)
(* virtual interrupts in list registers, and emulates the UART.            *)
(*                                                                         *)
(* CPU0's IRQs are masked outside the guest.  The GIC is the hardware's:   *)
(* acknowledging makes an interrupt active and raises the running          *)
(* priority; EOIR drops the priority only (EOImode 1); DIR, or the guest's *)
(* completion of a hardware-backed list register, deactivates.             *)
(***************************************************************************)
EXTENDS Pl011

CONSTANTS
    MaxReceived     \* bound: bytes that arrive at the host console

ASSUME BytesAssumption == MaxReceived \in Nat /\ Bytes = 1 .. MaxReceived

VARIABLES
    pc,         \* where CPU0 is
    timerLine,  \* the virtual timer's output is asserted
    console,    \* bytes in the host UART; its interrupt is level-triggered
    sgi,        \* a management SGI is pending
    other,      \* an interrupt nobody expects is pending
    active,     \* physical interrupts acknowledged and not deactivated
    running,    \* the one whose priority has not been dropped
    vgic,       \* the vCPU's saved list registers
    gich,       \* the hardware's list registers and enable bit
    arrived,    \* number of bytes that arrived so far
    accepted, delivered     \* history: bytes that entered the ring, were read

vars == <<pl011, pc, timerLine, console, sgi, other, active, running, vgic, gich, arrived,
          accepted, delivered>>

physical == <<timerLine, console, sgi, other, arrived>>
gic == <<active, running>>
history == <<accepted, delivered>>

Interrupts == {"timer", "console", "management", "other"}
LrStates == {"inactive", "pending", "active"}
None == "none"

Asserted(i) ==
    CASE i = "timer" -> timerLine
      [] i = "console" -> console # <<>>
      [] i = "management" -> sgi
      [] i = "other" -> other

\* What the GIC may hand to CPU0: nothing preempts a running priority.
Signalled == {i \in Interrupts \ active : Asserted(i) /\ running = None}

\* VirtualGicV2State::timer_in_flight, uart_in_flight.
in_flight(lr) == lr # "inactive"

Init ==
    /\ Pl011Init
    /\ pc = "top"
    /\ timerLine = FALSE /\ console = <<>> /\ sgi = FALSE /\ other = FALSE
    /\ active = {} /\ running = None
    /\ vgic = [timer |-> "inactive", uart |-> "inactive"]
    /\ gich = [timer |-> "inactive", uart |-> "inactive", enabled |-> FALSE]
    /\ arrived = 0 /\ accepted = <<>> /\ delivered = <<>>

-----------------------------------------------------------------------------
(* Devices.                                                                *)

TimerFires ==
    /\ ~timerLine
    /\ timerLine' = TRUE
    /\ UNCHANGED <<pl011, pc, console, sgi, other, arrived, gic, vgic, gich, history>>

\* The n-th byte is n, so that order and loss show.
ByteArrives ==
    /\ arrived < MaxReceived
    /\ arrived' = arrived + 1
    /\ console' = Append(console, arrived + 1)
    /\ UNCHANGED <<pl011, pc, timerLine, sgi, other, gic, vgic, gich, history>>

SgiArrives ==
    /\ ~sgi
    /\ sgi' = TRUE
    /\ UNCHANGED <<pl011, pc, timerLine, console, other, arrived, gic, vgic, gich, history>>

OtherArrives ==
    /\ ~other
    /\ other' = TRUE
    /\ UNCHANGED <<pl011, pc, timerLine, console, sgi, arrived, gic, vgic, gich, history>>

-----------------------------------------------------------------------------
(* The head of the loop.                                                   *)

\* Mutant: the check at the head of the loop is missing.
QueueUartNever(v) == v

\* queue_uart_spi when bytes wait, the guest wants to know, and the list
\* register is free.
QueueUart(v) ==
    IF rx_irq_pending /\ ~in_flight(v.uart) THEN [v EXCEPT !.uart = "pending"] ELSE v

\* guest_entry, restore_virtual_cpu, __vcpu_run
Enter ==
    /\ pc = "top"
    /\ pc' = "guest"
    /\ vgic' = QueueUart(vgic)
    /\ gich' = [timer |-> vgic'.timer, uart |-> vgic'.uart, enabled |-> TRUE]
    /\ UNCHANGED <<pl011, physical, gic, history>>

\* Mutant: only the interrupt that is being looked at is saved.
SaveUartOnly ==
    /\ vgic' = [vgic EXCEPT !.uart = gich.uart]
    /\ gich' = [gich EXCEPT !.enabled = FALSE]

\* save_virtual_cpu
SaveVirtualCpu ==
    /\ vgic' = [timer |-> gich.timer, uart |-> gich.uart]
    /\ gich' = [gich EXCEPT !.enabled = FALSE]

\* Vector 9: a physical interrupt ends the run of the guest.
ExitIrq ==
    /\ pc = "guest"
    /\ Signalled # {}
    /\ pc' = "irq"
    /\ SaveVirtualCpu
    /\ UNCHANGED <<pl011, physical, gic, history>>

\* The interrupt is withdrawn before EL2 reads GICC_IAR.
ExitWithdrawn ==
    /\ pc = "guest"
    /\ Signalled = {}
    /\ pc' = "irq"
    /\ SaveVirtualCpu
    /\ UNCHANGED <<pl011, physical, gic, history>>

-----------------------------------------------------------------------------
(* handle_irq                                                              *)

\* GICC_IAR; an SGI is no longer pending once it is acknowledged.
Acknowledge(i) ==
    /\ pc = "irq"
    /\ i \in Signalled
    /\ running' = i
    /\ active' = active \cup {i}
    /\ sgi' = (sgi /\ i # "management")
    /\ other' = (other /\ i # "other")
    /\ pc' = "handle"
    /\ UNCHANGED <<pl011, timerLine, console, arrived, vgic, gich, history>>

\* acknowledge returns None.
Spurious ==
    /\ pc = "irq"
    /\ Signalled = {}
    /\ pc' = "top"
    /\ UNCHANGED <<pl011, physical, gic, vgic, gich, history>>

\* end_interrupt
EndInterrupt == running' = None /\ UNCHANGED active

\* complete_host_interrupt: EOIR, then DIR.
CompleteHostInterrupt == running' = None /\ active' = active \ {running}

\* Mutant: the timer is completed like a host interrupt.
HandleTimerCompletely ==
    /\ pc = "handle" /\ running = "timer"
    /\ vgic' = IF in_flight(vgic.timer) THEN vgic ELSE [vgic EXCEPT !.timer = "pending"]
    /\ CompleteHostInterrupt
    /\ pc' = "top"
    /\ UNCHANGED <<pl011, physical, gich, history>>

\* queue_timer_ppi: a duplicate is only counted.  The priority is dropped; the
\* guest's completion deactivates the physical interrupt.
HandleTimer ==
    /\ pc = "handle" /\ running = "timer"
    /\ vgic' = IF in_flight(vgic.timer) THEN vgic ELSE [vgic EXCEPT !.timer = "pending"]
    /\ EndInterrupt
    /\ pc' = "top"
    /\ UNCHANGED <<pl011, physical, gich, history>>

\* Draining the host UART, byte by byte; a byte that finds the ring full is
\* dropped.
DrainByte ==
    /\ pc = "handle" /\ running = "console"
    /\ console # <<>>
    /\ console' = Tail(console)
    /\ \/ enqueue_rx(Head(console)) /\ accepted' = Append(accepted, Head(console))
       \/ rx_len = Capacity /\ UNCHANGED <<pl011, accepted>>
    /\ UNCHANGED <<pc, timerLine, sgi, other, arrived, gic, vgic, gich, delivered>>

HandleConsole ==
    /\ pc = "handle" /\ running = "console"
    /\ console = <<>>
    /\ pc' = "complete"
    /\ UNCHANGED <<pl011, physical, gic, vgic, gich, history>>

\* A byte may arrive between the last read and this.
CompleteConsole ==
    /\ pc = "complete"
    /\ CompleteHostInterrupt
    /\ pc' = "top"
    /\ UNCHANGED <<pl011, physical, vgic, gich, history>>

\* dispatch completes the interrupt; stop_if_requested may not return.
HandleManagement ==
    /\ pc = "handle" /\ running = "management"
    /\ CompleteHostInterrupt
    /\ pc' \in {"top", "stopped"}
    /\ UNCHANGED <<pl011, physical, vgic, gich, history>>

\* UnexpectedIrq: completed, and the run of the guest ends.
HandleOther ==
    /\ pc = "handle" /\ running = "other"
    /\ CompleteHostInterrupt
    /\ pc' = "ended"
    /\ UNCHANGED <<pl011, physical, vgic, gich, history>>

-----------------------------------------------------------------------------
(* The guest, and the exits of vector 8.                                   *)

\* It acknowledges a virtual interrupt at GICV.
GuestAcknowledges ==
    /\ pc = "guest"
    /\ \E i \in {"timer", "uart"} :
        /\ gich[i] = "pending"
        /\ gich' = [gich EXCEPT ![i] = "active"]
    /\ UNCHANGED <<pl011, pc, physical, gic, vgic, history>>

\* It completes one; the timer's list register is hardware-backed.
GuestCompletes ==
    /\ pc = "guest"
    /\ \E i \in {"timer", "uart"} :
        /\ gich[i] = "active"
        /\ gich' = [gich EXCEPT ![i] = "inactive"]
        /\ active' = IF i = "timer" THEN active \ {"timer"} ELSE active
    /\ UNCHANGED <<pl011, pc, physical, running, vgic, history>>

\* It programs the timer, which lowers the line.
GuestProgramsTimer ==
    /\ pc = "guest"
    /\ timerLine
    /\ timerLine' = FALSE
    /\ UNCHANGED <<pl011, pc, console, sgi, other, arrived, gic, vgic, gich, history>>

\* A trapped access is emulated and the loop goes round.
Trap ==
    /\ pc = "guest"
    /\ pc' = "top"
    /\ SaveVirtualCpu
    /\ UNCHANGED <<physical, gic>>

GuestReadsData ==
    /\ Trap
    /\ dequeue_rx
    /\ delivered' = Append(delivered, rx[rx_head])
    /\ UNCHANGED accepted

GuestWritesImsc ==
    /\ Trap
    /\ \E bit \in BOOLEAN : write_imsc(bit)
    /\ UNCHANGED history

\* Any other register, a data read of an empty ring, and a transmitted byte.
GuestTouchesDevice ==
    /\ Trap
    /\ UNCHANGED <<pl011, history>>

\* Another vector, another reason than a data abort, an address that is no
\* device, or a host console that does not take the byte: the run ends.
ExitUnexpected ==
    /\ pc = "guest"
    /\ pc' = "ended"
    /\ SaveVirtualCpu
    /\ UNCHANGED <<pl011, physical, gic, history>>

\* An access whose syndrome or width cannot be emulated is a panic.
EmulationPanics ==
    /\ pc = "guest"
    /\ pc' = "stopped"
    /\ SaveVirtualCpu
    /\ UNCHANGED <<pl011, physical, gic, history>>

Host ==
    \/ Enter \/ (\E i \in Interrupts : Acknowledge(i)) \/ Spurious \/ HandleTimer \/ DrainByte \/ HandleConsole
    \/ CompleteConsole \/ HandleManagement \/ HandleOther

Guest ==
    \/ GuestAcknowledges \/ GuestCompletes \/ GuestProgramsTimer
    \/ GuestReadsData \/ GuestWritesImsc \/ GuestTouchesDevice

Next ==
    \/ TimerFires \/ ByteArrives \/ SgiArrives \/ OtherArrives
    \/ Host \/ ExitIrq \/ ExitWithdrawn \/ Guest
    \/ ExitUnexpected \/ EmulationPanics

Spec == Init /\ [][Next]_vars

\* CPU0 runs; an interrupt that stays pending is taken from the guest although
\* the guest may leave for EL2 over and over, and is handed over in the end
\* although others come first (strong fairness: a pending interrupt is taken as
\* soon as the guest is entered, and management requests come from finite
\* scripts); the guest keeps its timer running and services its interrupts, the
\* timer's by programming it anew.
Fairness ==
    /\ WF_vars(Host)
    /\ SF_vars(ExitIrq)
    /\ SF_vars(Acknowledge("timer")) /\ SF_vars(Acknowledge("console"))
    /\ WF_vars(TimerFires)
    /\ SF_vars(GuestAcknowledges) /\ SF_vars(GuestCompletes)
    /\ SF_vars(gich.timer = "active" /\ GuestProgramsTimer)

FairSpec == Spec /\ Fairness

-----------------------------------------------------------------------------
(* Properties.                                                             *)

\* The list register of a virtual interrupt, wherever it is kept.
Lr(i) == IF pc = "guest" THEN gich[i] ELSE vgic[i]

Over == pc \in {"ended", "stopped"}

TypeOK ==
    /\ Pl011TypeOK
    /\ pc \in {"top", "guest", "irq", "handle", "complete", "ended", "stopped"}
    /\ timerLine \in BOOLEAN /\ sgi \in BOOLEAN /\ other \in BOOLEAN
    /\ active \subseteq Interrupts /\ running \in Interrupts \cup {None}
    /\ vgic \in [timer : LrStates, uart : LrStates]
    /\ gich \in [timer : LrStates, uart : LrStates, enabled : BOOLEAN]
    /\ arrived \in 0 .. MaxReceived
    /\ console \in Seq(Bytes) /\ accepted \in Seq(Bytes) /\ delivered \in Seq(Bytes)

\* The physical timer interrupt is active exactly while a timer list register is
\* in flight, over any number of exits: so handle_irq never meets a second timer
\* interrupt while one is in flight, and the timer is never left active with
\* nobody to deactivate it.
TimerHasOneOwner ==
    IF running = "timer" THEN ~in_flight(vgic.timer)
    ELSE "timer" \in active <=> in_flight(Lr("timer"))

\* When the guest runs, no priority is left raised and no host interrupt is left
\* active: neither would ever be signalled again.
NothingLeftActive == pc = "guest" => running = None /\ active \subseteq {"timer"}

\* Every acknowledged interrupt has one owner that completes it, over any number
\* of exits: the timer its list register, any other interrupt handle_irq before
\* the guest runs again.
InterruptsHaveOwners == TimerHasOneOwner /\ NothingLeftActive

\* The bytes the guest reads are the ones that entered the ring, in the order
\* they arrived, over any wrap of the ring; what is in between is in the ring.
BytesInOrder ==
    /\ accepted = delivered \o Queue
    /\ \A i, j \in DOMAIN accepted : i < j => accepted[i] < accepted[j]

\* Where CPU0 is decides which priority is raised and what is active.
Control ==
    /\ pc \in {"top", "guest", "irq", "ended", "stopped"} => running = None
    /\ pc = "handle" => running \in Interrupts
    /\ pc = "complete" => running = "console"
    /\ running # None => running \in active
    /\ active \subseteq {"timer", running}

\* Bytes wait in the host UART in the order of their arrival, after the accepted
\* ones.
Arrivals ==
    /\ \A i \in DOMAIN console : console[i] <= arrived
    /\ \A i, j \in DOMAIN console : i < j => console[i] < console[j]
    /\ \A i \in DOMAIN accepted : accepted[i] <= arrived
    /\ \A i \in DOMAIN accepted, j \in DOMAIN console : accepted[i] < console[j]

\* The inductive invariant: the control state of the loop, the timer's owner and
\* the bytes on their way.
IInv == TypeOK /\ Control /\ TimerHasOneOwner /\ Arrivals /\ BytesInOrder

\* A virtual interrupt in flight ends only when the guest completes it: exits,
\* other interrupts and emulated accesses neither drop nor repeat it.
InterruptsSurviveExits ==
    [][\A i \in {"timer", "uart"} :
        \/ Lr(i)' = Lr(i)
        \/ Lr(i) = "inactive" /\ Lr(i)' = "pending" /\ pc # "guest"
        \/ Lr(i) = "pending" /\ Lr(i)' = "active" /\ pc = "guest"
        \/ Lr(i) = "active" /\ Lr(i)' = "inactive" /\ pc = "guest"]_vars

\* No interrupt is stuck: bytes that wait while the guest wants receive interrupts
\* are announced to it, although the register may have been in flight when the
\* byte came and the guest's completion causes no exit; an asserted timer reaches
\* the guest; and the level-triggered console interrupt is always drained.
InterruptsAreServed ==
    /\ rx_irq_pending ~> (~rx_irq_pending \/ (pc = "guest" /\ in_flight(gich.uart)) \/ Over)
    /\ timerLine ~> (~timerLine \/ (pc = "guest" /\ in_flight(gich.timer)) \/ Over)
    /\ console # <<>> ~> (console = <<>> \/ Over)

=============================================================================
