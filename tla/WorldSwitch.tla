---------------------------- MODULE WorldSwitch ----------------------------
(***************************************************************************)
(* src/vcpu.rs: __vcpu_run and the exit handlers, the assembly that swaps  *)
(* CPU0's registers between EL2 and the guest, and what EL2 does with an   *)
(* exit before it runs the vCPU again.  An action is a block of the        *)
(* assembly.  x0, x1, x2, x3, x9 and x10 are the registers it works with,  *)
(* x19 stands for the other callee-saved ones, "q" for the vector file     *)
(* with FPCR and FPSR, "el1" for the EL1 registers and stack pointers,     *)
(* "timer" for the virtual timer's, "elr" for ELR and SPSR.                *)
(***************************************************************************)
EXTENDS Integers, Sequences

CONSTANTS
    MaxWrites,      \* bound: registers the guest changes
    MaxPc           \* bound: the last address an instruction can have

ASSUME BoundsAssumption == MaxWrites \in Nat /\ MaxPc \in Nat

Low == {"x0", "x1"}
High == {"x2", "x3", "x9", "x10", "x19"}
System == {"el1", "timer"}
Registers == Low \cup High \cup System \cup {"q", "elr"}
CalleeSaved == {"x19", "q"}

\* Values: what the guest starts with differs from register to register.
Junk == 0
Vcpu == 99          \* the address of the vCPU
NoVcpu == 98        \* a null pointer
Initial == [r \in Registers |->
    CASE r = "x0" -> 21 [] r = "x1" -> 22 [] r = "x2" -> 23 [] r = "x3" -> 24 [] r = "x9" -> 25
      [] r = "x10" -> 26 [] r = "x19" -> 27 [] r = "el1" -> 28 [] r = "timer" -> 29
      [] r = "q" -> 30 [] r = "elr" -> 0]
HostValues == {10, 11}
DeviceValue == 50

VARIABLES
    pc,             \* the block that runs next
    regs,           \* the CPU's registers
    vcpu, exit,     \* struct Vcpu: context and timer; the exit record
    stack,          \* the frames on the EL2 stack; sp is their number
    hostsp, active, \* what TPIDR_EL2 points at
    syndrome,       \* ESR_EL2, FAR_EL2 and HPFAR_EL2
    guest, host,    \* history: what the guest has in its registers, EL2 in its own
    writes          \* bound on the guest's changes

memory == <<vcpu, exit, stack, hostsp, active>>
history == <<guest, host, writes>>
vars == <<pc, regs, memory, syndrome, history>>

sp == Len(stack)
Frame == stack[sp]
Set(new) == regs' = [r \in Registers |-> IF r \in DOMAIN new THEN new[r] ELSE regs[r]]

\* An access to the vCPU, through the pointer in x0.
Loaded(R) == [r \in R |-> IF regs["x0"] = Vcpu THEN vcpu[r] ELSE Junk]
Store(R) == vcpu' = [r \in Registers |-> IF r \in R /\ regs["x0"] = Vcpu THEN regs[r] ELSE vcpu[r]]

Abort(ec, page, read, srt) == [ec |-> ec, page |-> page, offset |-> 1, read |-> read, srt |-> srt]
Syndromes ==
    {Abort("data_abort", 8, TRUE, "x1"), Abort("data_abort", 8, TRUE, "xzr"),
     Abort("data_abort", 8, FALSE, "x19"), Abort("data_abort", 9, TRUE, "x1"),
     Abort("instruction_abort", 8, TRUE, "x1"), Abort("hvc", 8, TRUE, "x1")}
NoSyndrome == Abort("none", 0, FALSE, "xzr")

\* Vcpu::new_linux
Init ==
    /\ pc = "el2"
    /\ regs = [r \in Registers |-> Junk]
    /\ vcpu = Initial /\ exit = [vector |-> 0, syndrome |-> NoSyndrome]
    /\ stack = <<>> /\ hostsp = 0 /\ active = NoVcpu
    /\ syndrome = NoSyndrome
    /\ guest = Initial /\ host = [r \in CalleeSaved |-> Junk] /\ writes = 0

-----------------------------------------------------------------------------
(* __vcpu_run *)

\* EL2 calls it, with any values in its registers.
Call ==
    /\ pc = "el2" /\ pc' = "save_host"
    /\ \E h \in [CalleeSaved -> HostValues] :
        /\ host' = h
        /\ regs' = [r \in Registers |-> IF r = "x0" THEN Vcpu
                                        ELSE IF r \in CalleeSaved THEN h[r] ELSE Junk]
    /\ UNCHANGED <<memory, syndrome, guest, writes>>

SaveHost ==
    /\ pc = "save_host" /\ pc' = "load_system"
    /\ stack' = Append(stack, [r \in CalleeSaved |-> regs[r]])
    /\ hostsp' = sp + 1
    /\ active' = regs["x0"]
    /\ Set([r \in {"x9", "x10"} |-> Junk])
    /\ UNCHANGED <<vcpu, exit, syndrome, history>>

LoadSystem ==
    /\ pc = "load_system" /\ pc' = "load_high"
    /\ Set([Loaded(System \cup {"q", "elr"} \cup {"x9"}) EXCEPT !["x9"] = Junk])
    /\ UNCHANGED <<memory, syndrome, history>>

LoadHigh ==
    /\ pc = "load_high" /\ pc' = "load_low"
    /\ Set(Loaded(High))
    /\ UNCHANGED <<memory, syndrome, history>>

\* x0 goes last, and then the exception return.
LoadLow ==
    /\ pc = "load_low" /\ pc' = "guest"
    /\ Set(Loaded(Low))
    /\ UNCHANGED <<memory, syndrome, history>>

-----------------------------------------------------------------------------
(* The guest. *)

GuestWrites ==
    /\ pc = "guest" /\ writes < MaxWrites
    /\ writes' = writes + 1
    /\ \E r \in Registers :
        LET value == IF r = "elr" THEN MaxPc - 1 ELSE Initial[r] + 40
        IN guest' = [guest EXCEPT ![r] = value] /\ regs' = [regs EXCEPT ![r] = value]
    /\ UNCHANGED <<pc, memory, syndrome, host>>

\* __vcpu_exit_handler is vector 8, __vcpu_irq_handler vector 9: x0 and x1 are
\* put aside to have registers to work with.
Exception(vector) ==
    /\ pc = "guest" /\ pc' = "exit_common"
    /\ IF vector = 8 THEN syndrome' \in Syndromes ELSE UNCHANGED syndrome
    /\ stack' = Append(stack, [x0 |-> regs["x0"], x1 |-> regs["x1"], vector |-> vector])
    /\ Set([x0 |-> vector])
    /\ UNCHANGED <<vcpu, exit, hostsp, active, history>>

-----------------------------------------------------------------------------
(* __vcpu_exit_common *)

\* .Lfatal_no_context when no vCPU is active; and the vector registers.
ExitCommon ==
    /\ pc = "exit_common"
    /\ IF active = NoVcpu
       THEN pc' = "fatal" /\ Set([x0 |-> active]) /\ UNCHANGED vcpu
       ELSE /\ pc' = "save_low"
            /\ vcpu' = [vcpu EXCEPT !["q"] = regs["q"]]
            /\ Set([x0 |-> active, x1 |-> Junk])
    /\ UNCHANGED <<exit, stack, hostsp, active, syndrome, history>>

\* Mutant: the vector is read before x3 is saved.
SaveLowLate ==
    /\ pc = "save_low" /\ pc' = "save_high"
    /\ vcpu' = [vcpu EXCEPT !["x0"] = Frame.x0, !["x1"] = Frame.x1, !["x2"] = regs["x2"],
                            !["x3"] = Frame.vector, !["x9"] = regs["x9"]]
    /\ Set([x1 |-> Frame.x0, x2 |-> Frame.x1, x3 |-> Frame.vector])
    /\ stack' = SubSeq(stack, 1, sp - 1)
    /\ UNCHANGED <<exit, hostsp, active, syndrome, history>>

\* x2 to x9, then x0 and x1 from the stack; x3 takes the vector.
SaveLow ==
    /\ pc = "save_low" /\ pc' = "save_high"
    /\ vcpu' = [vcpu EXCEPT !["x0"] = Frame.x0, !["x1"] = Frame.x1, !["x2"] = regs["x2"],
                            !["x3"] = regs["x3"], !["x9"] = regs["x9"]]
    /\ Set([x1 |-> Frame.x0, x2 |-> Frame.x1, x3 |-> Frame.vector])
    /\ stack' = SubSeq(stack, 1, sp - 1)
    /\ UNCHANGED <<exit, hostsp, active, syndrome, history>>

SaveHigh ==
    /\ pc = "save_high" /\ pc' = "record_exit"
    /\ Store({"x10", "x19", "elr"} \cup System)
    /\ Set([x1 |-> Junk])
    /\ UNCHANGED <<exit, stack, hostsp, active, syndrome, history>>

RecordExit ==
    /\ pc = "record_exit" /\ pc' = "restore_host"
    /\ exit' = [vector |-> regs["x3"], syndrome |-> syndrome]
    /\ Set([x2 |-> Junk])
    /\ UNCHANGED <<vcpu, stack, hostsp, active, syndrome, history>>

\* The stack is the one saved at entry; the vector is the result.
RestoreHost ==
    /\ pc = "restore_host" /\ pc' = "handle"
    /\ active' = NoVcpu
    /\ Set([x0 |-> regs["x3"], x9 |-> Junk, x10 |-> Junk,
            x19 |-> stack[hostsp]["x19"], q |-> stack[hostsp]["q"]])
    /\ stack' = SubSeq(stack, 1, hostsp - 1)
    /\ UNCHANGED <<vcpu, exit, hostsp, syndrome, history>>

-----------------------------------------------------------------------------
(* The exit, in EL2. *)

\* HPFAR_EL2 has the page, FAR_EL2 the offset.
PageSize == 4
fault_ipa(s) == s.page * PageSize + s.offset
decode_reason(s) == [kind |-> s.ec, ipa |-> fault_ipa(s)]
Device == (8 * PageSize) .. (9 * PageSize - 1)

\* Compiled code does what it likes with the registers.
Scrub == regs' = [r \in Registers |-> Junk]

\* An interrupt: the vCPU is run again.
HandleIrq ==
    /\ pc = "handle" /\ regs["x0"] = 9
    /\ pc' = "el2"
    /\ Scrub
    /\ UNCHANGED <<memory, syndrome, history>>

\* emulate_stage2_mmio: the register first, the program counter last; a program
\* counter that cannot advance is a panic.
Emulate ==
    LET s == exit.syndrome
        target == IF s.read /\ s.srt # "xzr" THEN {s.srt} ELSE {}
        After(context) == [r \in Registers |->
            IF r \in target THEN DeviceValue
            ELSE IF r = "elr" /\ context[r] < MaxPc THEN context[r] + 1 ELSE context[r]]
    IN /\ pc = "handle" /\ regs["x0"] = 8
       /\ decode_reason(s).kind = "data_abort" /\ decode_reason(s).ipa \in Device
       /\ vcpu' = After(vcpu)
       /\ guest' = After(guest)
       /\ pc' = IF vcpu["elr"] < MaxPc THEN "el2" ELSE "panic"
       /\ Scrub
       /\ UNCHANGED <<exit, stack, hostsp, active, syndrome, host, writes>>

\* Every other exit ends the run of the guest.
EndRun ==
    /\ pc = "handle" /\ regs["x0"] = 8
    /\ ~(decode_reason(exit.syndrome).kind = "data_abort" /\ decode_reason(exit.syndrome).ipa \in Device)
    /\ pc' = "ended"
    /\ UNCHANGED <<regs, memory, syndrome, history>>

Next ==
    \/ Call \/ SaveHost \/ LoadSystem \/ LoadHigh \/ LoadLow
    \/ GuestWrites \/ (\E v \in {8, 9} : Exception(v))
    \/ ExitCommon \/ SaveLow \/ SaveHigh \/ RecordExit \/ RestoreHost
    \/ HandleIrq \/ Emulate \/ EndRun

Spec == Init /\ [][Next]_vars

-----------------------------------------------------------------------------

\* A world switch is transparent to both sides, over any number of exits: the
\* guest runs with exactly the registers it had, but for the ones emulation
\* gave it; EL2 gets back its callee-saved registers, its vector file and its
\* stack; the vCPU holds the guest's registers whenever EL2 looks at it, with
\* the exit that really happened, and no vCPU is left active.
SwitchIsTransparent ==
    /\ pc = "guest" => regs = guest /\ active = Vcpu
    /\ pc \in {"el2", "handle", "ended"} => vcpu = guest /\ stack = <<>> /\ active = NoVcpu
    /\ pc = "handle" => /\ \A r \in CalleeSaved : regs[r] = host[r]
                        /\ exit.vector = regs["x0"] /\ regs["x0"] \in {8, 9}
                        /\ exit.vector = 8 => exit.syndrome = syndrome
    /\ pc # "fatal"

=============================================================================
