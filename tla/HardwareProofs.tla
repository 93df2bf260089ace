-------------------------- MODULE HardwareProofs --------------------------
(***************************************************************************)
(* The two places where the code takes over the hardware.                  *)
(*                                                                         *)
(* The world switch is transparent, for every number of guest writes and   *)
(* every last address.  The inductive invariant says, for each block of    *)
(* the assembly, where every register of the guest is at that moment: in   *)
(* the CPU, in the vCPU or in the frame on the stack, and that the host's  *)
(* frame lies below it.                                                    *)
(*                                                                         *)
(* The interrupt controller, for every number of CPUs and every firmware:  *)
(* the inductive invariant says what each CPU has enabled once it runs,    *)
(* that a ready CPU's recorded target is its interface, and how the        *)
(* console's SPI is routed.                                                *)
(***************************************************************************)
EXTENDS WorldSwitch, Gic, SequenceTheorems, TLAPS

\* EL2's registers, as __vcpu_run saved them.
HostFrame == [r \in CalleeSaved |-> host[r]]

\* What an exit handler puts on top of it.
ExitFrame(vector) == [x0 |-> guest["x0"], x1 |-> guest["x1"], vector |-> vector]

\* The registers of R still hold the guest's values.
Live(R) == \A r \in R : regs[r] = guest[r]

\* The vCPU has the guest's registers of R.
Saved(R) == \A r \in R : vcpu[r] = guest[r]

\* A vCPU runs: TPIDR_EL2 has it, and the stack pointer of EL2 is known.
Inside == active = Vcpu /\ hostsp = 1
Outside == active = NoVcpu /\ stack = <<>>

Shape ==
    /\ DOMAIN regs = Registers /\ DOMAIN vcpu = Registers /\ DOMAIN guest = Registers
    /\ regs = [r \in Registers |-> regs[r]]
    /\ vcpu = [r \in Registers |-> vcpu[r]]
    /\ guest = [r \in Registers |-> guest[r]]

EntryInv ==
    /\ pc = "el2" => Saved(Registers) /\ Outside
    /\ pc = "save_host" => /\ Saved(Registers) /\ Outside /\ regs["x0"] = Vcpu
                           /\ \A r \in CalleeSaved : regs[r] = host[r]
    /\ pc \in {"load_system", "load_high", "load_low"} =>
        /\ Saved(Registers) /\ Inside /\ regs["x0"] = Vcpu
        /\ stack = <<HostFrame>>
    /\ pc = "load_high" => Live(System \cup {"q", "elr"})
    /\ pc = "load_low" => Live(System \cup High \cup {"q", "elr"})
    /\ pc = "guest" => Live(Registers) /\ Inside /\ stack = <<HostFrame>>

ExitInv ==
    /\ pc = "exit_common" =>
        /\ Live(Registers \ {"x0"}) /\ Inside /\ regs["x0"] \in {8, 9}
        /\ stack = <<HostFrame, ExitFrame(regs["x0"])>>
    /\ pc = "save_low" =>
        /\ Live(Registers \ {"x0", "x1"}) /\ Saved({"q"}) /\ Inside /\ regs["x0"] = Vcpu
        /\ \E v \in {8, 9} : stack = <<HostFrame, ExitFrame(v)>>
    /\ pc = "save_high" =>
        /\ Live({"x10", "x19", "elr"} \cup System)
        /\ Saved({"q", "x0", "x1", "x2", "x3", "x9"}) /\ regs["x0"] = Vcpu
    /\ pc \in {"record_exit", "restore_host"} => Saved(Registers)
    /\ pc \in {"save_high", "record_exit", "restore_host"} =>
        /\ Inside /\ regs["x3"] \in {8, 9} /\ stack = <<HostFrame>>
    /\ pc = "restore_host" => exit.vector = regs["x3"] /\ exit.syndrome = syndrome

HandlerInv ==
    /\ pc \in {"handle", "ended"} => Saved(Registers) /\ Outside
    /\ pc = "handle" => /\ \A r \in CalleeSaved : regs[r] = host[r]
                        /\ exit.vector = regs["x0"] /\ regs["x0"] \in {8, 9}
                        /\ exit.syndrome = syndrome
    /\ pc # "fatal"

IInv == Shape /\ EntryInv /\ ExitInv /\ HandlerInv

\* The frames on the stack: pushing and popping one.
LEMMA Frames ==
    ASSUME NEW x, NEW y
    PROVE  /\ Append(<<>>, x) = <<x>> /\ Append(<<x>>, y) = <<x, y>>
           /\ SubSeq(<<x>>, 1, 0) = <<>> /\ SubSeq(<<x, y>>, 1, 1) = <<x>>
           /\ Len(<<>>) = 0 /\ Len(<<x>>) = 1 /\ Len(<<x, y>>) = 2
           /\ <<x>>[1] = x /\ <<x, y>>[2] = y
<1>1. Append(<<>>, x) = <<x>> /\ SubSeq(<<x>>, 1, 0) = <<>>
    OBVIOUS
<1>2. Len(<<>>) = 0 /\ Len(<<x>>) = 1 /\ <<x>>[1] = x
    OBVIOUS
<1>3. Len(<<x, y>>) = 2 /\ <<x, y>>[1] = x /\ <<x, y>>[2] = y
    OBVIOUS
<1>4. <<x>> \in Seq({x, y}) /\ <<x, y>> \in Seq({x, y})
    OBVIOUS
<1>5. Append(<<x>>, y) = <<x, y>>
  <2>1. /\ Append(<<x>>, y) \in Seq({x, y}) /\ Len(Append(<<x>>, y)) = 2
        /\ \A i \in 1 .. 2 : Append(<<x>>, y)[i] = <<x, y>>[i]
      BY <1>2, <1>3, <1>4, AppendProperties
  <2>2. QED
      BY <2>1, <1>3, <1>4, SeqEqual, Zenon
<1>6. SubSeq(<<x, y>>, 1, 1) = <<x>>
  <2>1. /\ SubSeq(<<x, y>>, 1, 1) \in Seq({x, y}) /\ Len(SubSeq(<<x, y>>, 1, 1)) = 1
        /\ SubSeq(<<x, y>>, 1, 1)[1] = x
      BY <1>3, SubSeqProperties
  <2>2. \A i \in 1 .. Len(SubSeq(<<x, y>>, 1, 1)) : SubSeq(<<x, y>>, 1, 1)[i] = <<x>>[i]
      BY <2>1, <1>2
  <2>3. QED
      BY <2>1, <2>2, <1>2, <1>4, SeqEqual, Zenon
<1>7. QED
    BY <1>1, <1>2, <1>3, <1>5, <1>6

\* The invariant holds before the first entry.
LEMMA InitIInv == Init => IInv
    BY Zenon DEF Init, IInv, Shape, EntryInv, ExitInv, HandlerInv, Saved, Outside, Initial

\* Every block of the assembly, the guest and EL2's handlers keep the invariant.
LEMMA NextIInv == IInv /\ [Next]_vars => IInv'
<1> SUFFICES ASSUME IInv, [Next]_vars PROVE IInv'
    OBVIOUS
<1> USE DEF IInv
<1>1. CASE Call
  <2>1. /\ pc' = "save_host" /\ vcpu' = vcpu /\ guest' = guest /\ stack' = stack /\ active' = active
        /\ pc = "el2"
      BY <1>1 DEF Call, memory
  <2>2. PICK h \in [CalleeSaved -> HostValues] :
            /\ host' = h
            /\ regs' = [r \in Registers |-> IF r = "x0" THEN Vcpu
                                            ELSE IF r \in CalleeSaved THEN h[r] ELSE Junk]
      BY <1>1 DEF Call
  <2>3. /\ Shape' /\ regs'["x0"] = Vcpu /\ \A r \in CalleeSaved : regs'[r] = host'[r]
      BY <2>1, <2>2 DEF Shape, Registers, CalleeSaved, Low, High
  <2>4. Saved(Registers)' /\ Outside'
      BY <2>1 DEF EntryInv, Saved, Outside
  <2>5. QED
      BY <2>1, <2>3, <2>4 DEF EntryInv, ExitInv, HandlerInv
<1>2. CASE SaveHost
  <2>1. /\ pc' = "load_system" /\ pc = "save_host" /\ vcpu' = vcpu /\ guest' = guest /\ host' = host
        /\ regs["x0"] = Vcpu /\ stack = <<>> /\ Saved(Registers)
        /\ \A r \in CalleeSaved : regs[r] = host[r]
      BY <1>2 DEF SaveHost, history, EntryInv, Outside
  <2>2. Shape' /\ regs'["x0"] = Vcpu
      BY <1>2, <2>1 DEF SaveHost, Set, Shape, Registers, Low, High
  <2>3. stack' = <<HostFrame'>>
    <3>1. [r \in CalleeSaved |-> regs[r]] = HostFrame'
        BY <2>1 DEF HostFrame
    <3>2. stack' = Append(<<>>, [r \in CalleeSaved |-> regs[r]])
        BY <1>2, <2>1 DEF SaveHost
    <3>3. QED
        BY <3>1, <3>2, Frames
  <2>4. Inside' /\ Saved(Registers)'
      BY <1>2, <2>1, Frames DEF SaveHost, Inside, sp, Saved
  <2>5. QED
      BY <2>1, <2>2, <2>3, <2>4 DEF EntryInv, ExitInv, HandlerInv
<1>3. CASE LoadSystem
  <2>1. /\ pc' = "load_high" /\ pc = "load_system" /\ UNCHANGED <<memory, history>>
        /\ regs["x0"] = Vcpu /\ Saved(Registers)
      BY <1>3 DEF LoadSystem, EntryInv
  <2>2. /\ Shape' /\ regs'["x0"] = Vcpu
        /\ \A r \in System \cup {"q", "elr"} : regs'[r] = vcpu[r]
      BY <1>3, <2>1 DEF LoadSystem, Set, Loaded, Shape, Registers, Low, High, System, memory, history
  <2>3. QED
      BY <2>1, <2>2 DEF EntryInv, ExitInv, HandlerInv, Live, Saved, Inside, HostFrame, memory,
         history, Registers
<1>4. CASE LoadHigh
  <2>1. /\ pc' = "load_low" /\ pc = "load_high" /\ UNCHANGED <<memory, history>>
        /\ regs["x0"] = Vcpu /\ Saved(Registers) /\ Live(System \cup {"q", "elr"})
      BY <1>4 DEF LoadHigh, EntryInv
  <2>2. /\ Shape' /\ regs'["x0"] = Vcpu
        /\ \A r \in High : regs'[r] = vcpu[r]
        /\ \A r \in System \cup {"q", "elr"} : regs'[r] = regs[r]
      BY <1>4, <2>1 DEF LoadHigh, Set, Loaded, Shape, Registers, Low, High, System, memory, history
  <2>3. QED
      BY <2>1, <2>2 DEF EntryInv, ExitInv, HandlerInv, Live, Saved, Inside, HostFrame, memory,
         history, Registers
<1>5. CASE LoadLow
  <2>1. /\ pc' = "guest" /\ pc = "load_low" /\ UNCHANGED <<memory, history>>
        /\ regs["x0"] = Vcpu /\ Saved(Registers) /\ Live(System \cup High \cup {"q", "elr"})
      BY <1>5 DEF LoadLow, EntryInv
  <2>2. /\ Shape'
        /\ \A r \in Low : regs'[r] = vcpu[r]
        /\ \A r \in System \cup High \cup {"q", "elr"} : regs'[r] = regs[r]
      BY <1>5, <2>1 DEF LoadLow, Set, Loaded, Shape, Registers, Low, High, System, memory, history
  <2>3. QED
      BY <2>1, <2>2 DEF EntryInv, ExitInv, HandlerInv, Live, Saved, Inside, HostFrame, memory,
         history, Registers
<1>6. CASE GuestWrites
  <2>1. /\ pc' = pc /\ pc = "guest" /\ UNCHANGED <<memory, host>> /\ Live(Registers)
      BY <1>6 DEF GuestWrites, EntryInv
  <2>2. PICK r \in Registers :
            LET value == IF r = "elr" THEN MaxPc - 1 ELSE Initial[r] + 40
            IN guest' = [guest EXCEPT ![r] = value] /\ regs' = [regs EXCEPT ![r] = value]
      BY <1>6, Zenon DEF GuestWrites
  <2>3. Shape' /\ Live(Registers)'
      BY <2>1, <2>2, Zenon DEF Shape, Live, memory
  <2>4. QED
      BY <2>1, <2>3 DEF EntryInv, ExitInv, HandlerInv, Inside, HostFrame, memory
<1>7. ASSUME NEW v \in {8, 9}, Exception(v) PROVE IInv'
  <2>1. /\ pc' = "exit_common" /\ pc = "guest" /\ UNCHANGED <<vcpu, exit, hostsp, active, history>>
        /\ Live(Registers) /\ Inside /\ stack = <<HostFrame>>
      BY <1>7 DEF Exception, EntryInv
  <2>2. /\ Shape' /\ regs'["x0"] = v
        /\ \A r \in Registers \ {"x0"} : regs'[r] = regs[r]
      BY <1>7, <2>1, Zenon DEF Exception, Set, Shape, history, Registers, Low
  <2>3. stack' = <<HostFrame', ExitFrame(regs["x0"])'>>
    <3>1. [x0 |-> regs["x0"], x1 |-> regs["x1"], vector |-> v] = ExitFrame(regs["x0"])'
        BY <2>1, <2>2 DEF ExitFrame, Live, Registers, Low, history
    <3>2. HostFrame' = HostFrame
        BY <2>1 DEF HostFrame, history
    <3>3. QED
        BY <1>7, <2>1, <3>1, <3>2, Frames DEF Exception
  <2>4. QED
      BY <2>1, <2>2, <2>3 DEF EntryInv, ExitInv, HandlerInv, Live, Inside, history
<1>8. CASE ExitCommon
  <2>1. /\ pc' = "save_low" /\ pc = "exit_common" /\ UNCHANGED <<stack, hostsp, active, history>>
        /\ Live(Registers \ {"x0"}) /\ Inside
        /\ regs["x0"] \in {8, 9} /\ stack = <<HostFrame, ExitFrame(regs["x0"])>>
        /\ vcpu' = [vcpu EXCEPT !["q"] = regs["q"]] /\ Set([x0 |-> active, x1 |-> Junk])
    <3>1. pc = "exit_common" /\ UNCHANGED <<stack, hostsp, active, history>>
        BY <1>8 DEF ExitCommon
    <3>2. /\ Live(Registers \ {"x0"}) /\ Inside
          /\ regs["x0"] \in {8, 9} /\ stack = <<HostFrame, ExitFrame(regs["x0"])>>
        BY <3>1 DEF ExitInv
    <3>3. active # NoVcpu
        BY <3>2 DEF Inside, Vcpu, NoVcpu
    <3>4. /\ pc' = "save_low" /\ vcpu' = [vcpu EXCEPT !["q"] = regs["q"]]
          /\ Set([x0 |-> active, x1 |-> Junk])
        BY <1>8, <3>3 DEF ExitCommon
    <3>5. QED
        BY <3>1, <3>2, <3>4
  <2>2. /\ Shape' /\ regs'["x0"] = Vcpu /\ vcpu'["q"] = guest["q"]
        /\ \A r \in Registers \ {"x0", "x1"} : regs'[r] = regs[r]
      BY <2>1, Zenon DEF Set, Shape, history, Registers, Low, Inside, Live
  <2>3. \E v \in {8, 9} : stack' = <<HostFrame', ExitFrame(v)'>>
      BY <2>1 DEF HostFrame, ExitFrame, history
  <2>4. QED
      BY <2>1, <2>2, <2>3, Zenon DEF EntryInv, ExitInv, HandlerInv, Live, Saved, Inside, history
<1>9. CASE SaveLow
  <2>1. /\ pc' = "save_high" /\ pc = "save_low" /\ UNCHANGED <<exit, hostsp, active, history>>
        /\ Live(Registers \ {"x0", "x1"}) /\ Saved({"q"}) /\ Inside /\ regs["x0"] = Vcpu
      BY <1>9 DEF SaveLow, ExitInv
  <2>2. PICK v \in {8, 9} : stack = <<HostFrame, ExitFrame(v)>>
      BY <2>1 DEF ExitInv
  <2>3. Frame = ExitFrame(v) /\ stack' = <<HostFrame>>
      BY <1>9, <2>2, Frames DEF SaveLow, Frame, sp
  <2>4. Frame.x0 = guest["x0"] /\ Frame.x1 = guest["x1"] /\ Frame.vector = v
      BY <2>3 DEF ExitFrame
  <2>5. /\ vcpu' = [vcpu EXCEPT !["x0"] = guest["x0"], !["x1"] = guest["x1"], !["x2"] = regs["x2"],
                                !["x3"] = regs["x3"], !["x9"] = regs["x9"]]
        /\ Set([x1 |-> guest["x0"], x2 |-> guest["x1"], x3 |-> v])
      BY <1>9, <2>4 DEF SaveLow
  <2>6. /\ Shape' /\ regs'["x0"] = Vcpu /\ regs'["x3"] = v
        /\ \A r \in {"x10", "x19", "elr"} \cup System : regs'[r] = guest[r]
      BY <2>1, <2>5, Zenon DEF Set, Shape, history, Registers, Low, High, System, Live
  <2>7. \A r \in {"q", "x0", "x1", "x2", "x3", "x9"} : vcpu'[r] = guest[r]
      BY <2>1, <2>5 DEF Shape, Registers, Low, High, Live, Saved
  <2>8. HostFrame' = HostFrame
      BY <2>1 DEF HostFrame, history
  <2>9. QED
      BY <2>1, <2>3, <2>6, <2>7, <2>8, Zenon DEF EntryInv, ExitInv, HandlerInv, Live, Saved, Inside,
         history
<1>10. CASE SaveHigh
  <2>1. /\ pc' = "record_exit" /\ pc = "save_high" /\ UNCHANGED <<exit, stack, hostsp, active, history>>
        /\ Live({"x10", "x19", "elr"} \cup System) /\ Saved({"q", "x0", "x1", "x2", "x3", "x9"})
        /\ regs["x0"] = Vcpu /\ regs["x3"] \in {8, 9} /\ Inside /\ stack = <<HostFrame>>
        /\ Store({"x10", "x19", "elr"} \cup System) /\ Set([x1 |-> Junk])
      BY <1>10 DEF SaveHigh, ExitInv
  <2>2. Shape' /\ regs'["x3"] = regs["x3"]
      BY <2>1, Zenon DEF Set, Store, Shape, history, Registers, High
  <2>3. Saved(Registers)'
      BY <2>1 DEF Store, Live, Saved, history, Registers, Low, High, System
  <2>4. QED
      BY <2>1, <2>2, <2>3, Zenon DEF EntryInv, ExitInv, HandlerInv, Inside, HostFrame, history
<1>11. CASE RecordExit
  <2>1. /\ pc' = "restore_host" /\ pc = "record_exit"
        /\ UNCHANGED <<vcpu, stack, hostsp, active, syndrome, history>>
        /\ Saved(Registers) /\ regs["x3"] \in {8, 9} /\ Inside /\ stack = <<HostFrame>>
        /\ exit' = [vector |-> regs["x3"], syndrome |-> syndrome] /\ Set([x2 |-> Junk])
      BY <1>11 DEF RecordExit, ExitInv
  <2>2. Shape' /\ regs'["x3"] = regs["x3"]
      BY <2>1 DEF Set, Shape, history, Registers, High
  <2>3. exit'.vector = regs'["x3"] /\ exit'.syndrome = syndrome'
      BY <2>1, <2>2
  <2>4. QED
      BY <2>1, <2>2, <2>3, Zenon DEF EntryInv, ExitInv, HandlerInv, Saved, Inside, HostFrame, history
<1>12. CASE RestoreHost
  <2>1. /\ pc' = "handle" /\ pc = "restore_host"
        /\ UNCHANGED <<vcpu, exit, hostsp, syndrome, history>>
        /\ Saved(Registers) /\ regs["x3"] \in {8, 9} /\ hostsp = 1 /\ stack = <<HostFrame>>
        /\ exit.vector = regs["x3"] /\ exit.syndrome = syndrome
      BY <1>12 DEF RestoreHost, ExitInv, Inside
  <2>2. stack[hostsp] = HostFrame /\ stack' = <<>> /\ active' = NoVcpu
      BY <1>12, <2>1, Frames DEF RestoreHost
  <2>3. Set([x0 |-> regs["x3"], x9 |-> Junk, x10 |-> Junk, x19 |-> host["x19"], q |-> host["q"]])
      BY <1>12, <2>2, Zenon DEF RestoreHost, HostFrame, CalleeSaved
  <2>4. /\ Shape' /\ regs'["x0"] = regs["x3"] /\ regs'["x19"] = host["x19"] /\ regs'["q"] = host["q"]
      BY <2>1, <2>3, Zenon DEF Set, Shape, history, Registers, Low, High
  <2>5. QED
      BY <2>1, <2>2, <2>4, Zenon DEF EntryInv, ExitInv, HandlerInv, Saved, Outside, CalleeSaved, history
<1>13. CASE HandleIrq
  <2>1. /\ pc' = "el2" /\ pc = "handle" /\ UNCHANGED <<memory, history>> /\ Scrub
      BY <1>13 DEF HandleIrq
  <2>2. Shape'
      BY <2>1 DEF Scrub, Shape, memory, history
  <2>3. QED
      BY <2>1, <2>2, Zenon DEF EntryInv, ExitInv, HandlerInv, Saved, Outside, memory, history
<1>14. CASE Emulate
  <2> DEFINE s == exit.syndrome
             loaded == IF s.read /\ s.srt # "xzr" THEN {s.srt} ELSE {}
             After(context) == [r \in Registers |->
                 IF r \in loaded THEN DeviceValue
                 ELSE IF r = "elr" /\ context[r] < MaxPc THEN context[r] + 1 ELSE context[r]]
  <2>1. /\ pc' \in {"el2", "panic"} /\ pc = "handle" /\ UNCHANGED <<stack, active>> /\ Scrub
        /\ vcpu' = After(vcpu) /\ guest' = After(guest)
      BY <1>14 DEF Emulate
  <2>2. vcpu = guest
      BY <2>1 DEF Shape, HandlerInv, Saved
  <2>3. Shape' /\ Saved(Registers)'
      BY <2>1, <2>2 DEF Scrub, Shape, Saved
  <2>4. QED
      BY <2>1, <2>3, Zenon DEF EntryInv, ExitInv, HandlerInv, Outside
<1>15. CASE EndRun
  <2>1. pc' = "ended" /\ pc = "handle" /\ UNCHANGED <<regs, memory, history>>
      BY <1>15 DEF EndRun
  <2>2. QED
      BY <2>1, Zenon DEF Shape, EntryInv, ExitInv, HandlerInv, Saved, Outside, memory, history
<1>16. CASE UNCHANGED vars
  <2>1. Shape' /\ HandlerInv'
      BY <1>16, Zenon DEF vars, memory, history, Shape, HandlerInv, Saved, Outside
  <2>2. EntryInv'
      BY <1>16 DEF vars, memory, history, EntryInv, Live, Saved, Inside, Outside, HostFrame
  <2>3. ExitInv'
      BY <1>16, Zenon DEF vars, memory, history, ExitInv, Live, Saved, Inside, HostFrame, ExitFrame
  <2>4. QED
      BY <2>1, <2>2, <2>3
<1>17. QED
    BY <1>1, <1>2, <1>3, <1>4, <1>5, <1>6, <1>7, <1>8, <1>9, <1>10, <1>11, <1>12, <1>13, <1>14,
       <1>15, <1>16 DEF Next

\* Where every register is, at every block.
THEOREM SwitchInvariant == Spec => []IInv
    BY InitIInv, NextIInv, PTL DEF Spec

\* The switch is transparent to the guest and to EL2, over any number of entries
\* and exits (__vcpu_run, __vcpu_exit_common, run_linux_vm).
THEOREM SwitchesAreTransparent == Spec => []SwitchIsTransparent
<1>1. IInv => SwitchIsTransparent
  <2> SUFFICES ASSUME IInv PROVE SwitchIsTransparent
      OBVIOUS
  <2>1. Live(Registers) => regs = guest
      BY DEF IInv, Shape, Live
  <2>2. Saved(Registers) => vcpu = guest
      BY DEF IInv, Shape, Saved
  <2>3. QED
      BY <2>1, <2>2 DEF IInv, EntryInv, HandlerInv, SwitchIsTransparent, Inside, Outside
<1>2. QED
    BY <1>1, SwitchInvariant, PTL

-----------------------------------------------------------------------------
(* The interrupt controller. *)

Stages == {"distributor", "parked", "local", "online", "guest", "failed"}

GicTypes ==
    /\ fw \in Firmware
    /\ stage \in [CPUs -> Stages]
    /\ enabled \in [CPUs -> SUBSET Private]
    /\ DOMAIN interface = CPUs /\ DOMAIN ready = CPUs /\ DOMAIN target = CPUs

\* What is enabled at a CPU, and the state that firmware left in its interface.
BankedInv(c) ==
    /\ c = 0 => enabled[c] \subseteq fw.enabled[0] \cup {Sgi, Timer}
    /\ c # 0 /\ Running(c) => /\ \A i \in enabled[c] : Accessible(c, i) => i = Sgi
                              /\ ~interface[c].hcr

\* The target that a ready CPU recorded is its interface.
TargetInv(c) == ready[c] => target[c] = {fw.interface[c]}

\* The console's SPI is configured before it is enabled.
ConsoleInv ==
    /\ stage[0] \in {"local", "online"} => ~spi.enabled
    /\ stage[0] \in {"local", "online", "guest"} => spi.level /\ spi.target = {fw.interface[0]}

GicInv ==
    /\ GicTypes
    /\ \A c \in CPUs : BankedInv(c) /\ TargetInv(c)
    /\ ConsoleInv
    /\ DoorbellsPendWhereMeant

\* CPU0 is a CPU, and of the private interrupts only the management SGI is below 16.
LEMMA GicConstants ==
    /\ 0 \in CPUs
    /\ Sgi \in Private /\ Timer \in Private
    /\ \A i \in Private : ~(i >= 16) => i = Sgi
    BY NAssumption DEF CPUs, Private, Sgi, Timer, OtherPpi

\* Of one CPU's facts, nothing changes when its registers and its stage stay.
LEMMA BankedKeeps ==
    ASSUME NEW c, BankedInv(c), TargetInv(c), fw' = fw, stage'[c] = stage[c],
           enabled'[c] = enabled[c], interface'[c] = interface[c], ready'[c] = ready[c],
           target'[c] = target[c]
    PROVE  BankedInv(c)' /\ TargetInv(c)'
    BY Zenon DEF BankedInv, TargetInv, Running, Accessible

\* Firmware's state, before anything is set up.
LEMMA InitGicInv == GicInit => GicInv
<1> SUFFICES ASSUME GicInit PROVE GicInv
    OBVIOUS
<1>1. fw \in Firmware /\ fw.enabled \in [CPUs -> SUBSET Private] /\ enabled = fw.enabled
    BY FirmwareAssumption, Zenon DEF GicInit
<1>2. /\ stage = [c \in CPUs |-> IF c = 0 THEN "distributor" ELSE "parked"]
      /\ ready = [c \in CPUs |-> FALSE] /\ DOMAIN target = CPUs /\ DOMAIN interface = CPUs
      /\ pending = {}
    BY Zenon DEF GicInit
<1>3. stage \in [CPUs -> Stages] /\ stage[0] = "distributor"
    BY <1>2, GicConstants, Zenon DEF Stages
<1>4. GicTypes
    BY <1>1, <1>2, <1>3, Zenon DEF GicTypes
<1>5. ASSUME NEW c \in CPUs PROVE BankedInv(c) /\ TargetInv(c)
    BY <1>1, <1>2, Zenon DEF BankedInv, TargetInv, Running
<1> QED
    BY <1>2, <1>3, <1>4, <1>5, Zenon DEF GicInv, ConsoleInv, DoorbellsPendWhereMeant

\* initialize_distributor: the SPI is off, level-sensitive and routed to CPU0, or the boot stops.
LEMMA DistributorStep ==
    ASSUME GicInv, InitializeDistributor
    PROVE  GicInv'
<1> DEFINE reached == /\ IsTarget(local_target(0)) /\ fw.spi \in 32 .. (num_interrupts - 1)
                      /\ ~(fw.security /\ fw.spi_group0)
<1>1. /\ stage[0] = "distributor"
      /\ stage' = [stage EXCEPT ![0] = IF reached THEN "local" ELSE "failed"]
      /\ UNCHANGED <<fw, enabled, interface, ready, target, intended, pending>>
    BY DEF InitializeDistributor, Stop
<1>s. reached => ~spi'.enabled /\ spi'.level /\ spi'.target = local_target(0)
    <2> SUFFICES ASSUME reached PROVE ~spi'.enabled /\ spi'.level /\ spi'.target = local_target(0)
        OBVIOUS
    <2> DEFINE new == configure_spi(reached)
    <2>1. spi' = [enabled |-> disable_spi(reached), priority |-> new.priority,
                  target |-> new.target, level |-> new.level]
        BY Zenon DEF InitializeDistributor
    <2>2. new = [priority |-> 128, target |-> local_target(0), level |-> TRUE]
        BY Zenon DEF configure_spi
    <2>3. ~disable_spi(reached)
        BY Zenon DEF disable_spi
    <2>4. spi'.enabled = disable_spi(reached) /\ spi'.level = new.level /\ spi'.target = new.target
        BY <2>1, Zenon
    <2> HIDE DEF new
    <2>5. new.level = TRUE /\ new.target = local_target(0)
        BY <2>2, Zenon
    <2> QED
        BY <2>3, <2>4, <2>5, Zenon
<1>2. reached => local_target(0) = {fw.interface[0]}
    BY FirmwareAssumption, GicConstants, Zenon DEF GicInv, GicTypes, local_target
<1>3. GicTypes /\ stage'[0] = (IF reached THEN "local" ELSE "failed")
      /\ \A c \in CPUs : c # 0 => stage'[c] = stage[c]
    BY <1>1, GicConstants, Zenon DEF GicInv, GicTypes
<1> HIDE DEF reached
<1>4. GicTypes'
    BY <1>1, <1>3, Zenon DEF GicTypes, Stages
<1>5. ConsoleInv'
    <2>1. CASE reached
        BY <1>1, <1>s, <1>2, <1>3, <2>1, Zenon DEF ConsoleInv
    <2>2. CASE ~reached
        <3>1. stage'[0] \notin {"local", "online", "guest"}
            BY <1>3, <2>2
        <3> QED
            BY <3>1, Zenon DEF ConsoleInv
    <2> QED
        BY <2>1, <2>2
<1>6. ASSUME NEW c \in CPUs PROVE BankedInv(c)' /\ TargetInv(c)'
    <2>1. BankedInv(c) /\ TargetInv(c)
        BY Zenon DEF GicInv
    <2>2. CASE c # 0
        BY <1>1, <1>3, <2>1, <2>2, BankedKeeps, Zenon
    <2>3. CASE c = 0
        BY <1>1, <2>1, <2>3, Zenon DEF BankedInv, TargetInv
    <2> QED
        BY <2>2, <2>3
<1> QED
    BY <1>1, <1>4, <1>5, <1>6, Zenon DEF GicInv, DoorbellsPendWhereMeant

\* initialize_local: a worker that is online has the management SGI and nothing else.
LEMMA LocalStep ==
    ASSUME GicInv, NEW c \in CPUs, InitializeLocal(c)
    PROVE  GicInv'
<1> DEFINE valid == IsTarget(local_target(c)) /\ (fw.security => isenabler_get(c, Sgi))
           good == valid /\ PriorityOk(c, Sgi)
           set == Quiet(c) \cup (IF good THEN enable_irq(c, Sgi) \ enabled[c] ELSE {})
           usable == good /\ fw.eoimode /\ distributor /\ ~DuplicateTarget(c)
<1>1. /\ stage[c] = "local"
      /\ enabled' = [enabled EXCEPT ![c] = IF valid THEN set ELSE enabled[c]]
      /\ target' = [target EXCEPT ![c] = IF usable THEN local_target(c) ELSE target[c]]
      /\ ready' = [ready EXCEPT ![c] = usable]
      /\ stage' = [stage EXCEPT ![c] = IF usable THEN "online" ELSE "failed"]
      /\ UNCHANGED <<fw, spi, intended, pending>>
    BY Zenon DEF InitializeLocal, Stop
<1>2. /\ \A d \in CPUs : d # c => interface'[d] = interface[d]
      /\ valid /\ c # 0 => ~interface'[c].hcr
      /\ DOMAIN interface' = CPUs
    <2> DEFINE new == [on |-> interface[c].on \/ good,
                       eoimode |-> interface[c].eoimode \/ (good /\ fw.eoimode),
                       pmr |-> IF good THEN 255 ELSE interface[c].pmr,
                       hcr |-> interface[c].hcr /\ ~(valid /\ c # 0)]
    <2>1. interface' = [interface EXCEPT ![c] = new]
        BY Zenon DEF InitializeLocal
    <2>2. new.hcr = (interface[c].hcr /\ ~(valid /\ c # 0))
        BY Zenon
    <2> HIDE DEF new
    <2>3. DOMAIN interface = CPUs
        BY Zenon DEF GicInv, GicTypes
    <2>4. interface'[c] = new
        BY <2>1, <2>3, Zenon
    <2> QED
        BY <2>1, <2>2, <2>3, <2>4, Zenon
<1>3. /\ fw \in Firmware /\ stage \in [CPUs -> Stages] /\ enabled \in [CPUs -> SUBSET Private]
      /\ DOMAIN ready = CPUs /\ DOMAIN target = CPUs
      /\ BankedInv(c) /\ TargetInv(c)
    BY Zenon DEF GicInv, GicTypes
<1>4. usable => valid /\ local_target(c) = {fw.interface[c]}
    BY <1>3, FirmwareAssumption, Zenon DEF local_target
<1>5. /\ set \subseteq enabled[c] \cup {Sgi}
      /\ c # 0 => \A i \in set : Accessible(c, i) => i = Sgi
    <2>1. enable_irq(c, Sgi) \subseteq enabled[c] \cup {Sgi}
        BY Zenon DEF enable_irq
    <2>2. Quiet(c) \subseteq enabled[c]
        BY Zenon DEF Quiet
    <2>3. c # 0 => \A i \in Quiet(c) : Accessible(c, i) => i = Sgi
        BY <1>3, GicConstants, Zenon DEF Quiet
    <2> QED
        BY <2>1, <2>2, <2>3, Zenon
<1> HIDE DEF set, usable, valid
<1>6. /\ stage'[c] = (IF usable THEN "online" ELSE "failed") /\ (ready'[c] <=> usable)
      /\ enabled'[c] = (IF valid THEN set ELSE enabled[c])
      /\ target'[c] = (IF usable THEN local_target(c) ELSE target[c])
      /\ \A d \in CPUs : d # c => /\ stage'[d] = stage[d] /\ ready'[d] = ready[d]
                                  /\ enabled'[d] = enabled[d] /\ target'[d] = target[d]
    BY <1>1, <1>3, Zenon
<1>7. GicTypes'
    <2>1. enabled' \in [CPUs -> SUBSET Private]
        <3>1. (IF valid THEN set ELSE enabled[c]) \in SUBSET Private
            BY <1>3, <1>5, GicConstants, Zenon
        <3> QED
            BY <1>1, <1>3, <3>1, Zenon
    <2>2. stage' \in [CPUs -> Stages]
        BY <1>1, <1>3, Zenon DEF Stages
    <2> QED
        BY <1>1, <1>2, <1>3, <2>1, <2>2, Zenon DEF GicTypes
<1>8. BankedInv(c)'
    <2>1. CASE c = 0
        BY <1>1, <1>3, <1>5, <1>6, <2>1, Zenon DEF BankedInv
    <2>2. CASE c # 0
        <3>1. Running(c)' => usable
            BY <1>6, Zenon DEF Running
        <3>2. usable => \A i \in enabled'[c] : Accessible(c, i) => i = Sgi
            BY <1>4, <1>5, <1>6, <2>2, Zenon
        <3>3. \A i : Accessible(c, i)' <=> Accessible(c, i)
            BY <1>1, Zenon DEF Accessible
        <3> QED
            BY <1>2, <1>4, <2>2, <3>1, <3>2, <3>3, Zenon DEF BankedInv
    <2> QED
        BY <2>1, <2>2
<1>9. TargetInv(c)'
    BY <1>1, <1>4, <1>6, Zenon DEF TargetInv
<1>10. ASSUME NEW d \in CPUs, d # c PROVE BankedInv(d)' /\ TargetInv(d)'
    <2>1. BankedInv(d) /\ TargetInv(d)
        BY Zenon DEF GicInv
    <2> QED
        BY <1>1, <1>2, <1>6, <1>10, <2>1, BankedKeeps, Zenon
<1>11. ConsoleInv'
    <2>1. ConsoleInv
        BY Zenon DEF GicInv
    <2>2. CASE c = 0
        BY <1>1, <1>6, <2>1, <2>2, Zenon DEF ConsoleInv
    <2>3. CASE c # 0
        BY <1>1, <1>6, <2>1, <2>3, GicConstants, Zenon DEF ConsoleInv
    <2> QED
        BY <2>2, <2>3
<1> QED
    BY <1>1, <1>7, <1>8, <1>9, <1>10, <1>11, Zenon DEF GicInv, DoorbellsPendWhereMeant

\* activate_secondary changes only where a worker is.
LEMMA ActivateStep ==
    ASSUME GicInv, NEW c \in CPUs, Activate(c)
    PROVE  GicInv'
<1>1. /\ stage[0] = "online" /\ stage[c] = "parked"
      /\ stage' = [stage EXCEPT ![c] = "local"]
      /\ UNCHANGED <<fw, enabled, spi, interface, ready, target, intended, pending>>
    BY Zenon DEF Activate, registers
<1>2. /\ GicTypes /\ ConsoleInv /\ stage \in [CPUs -> Stages] /\ c # 0
    BY <1>1, Zenon DEF GicInv, GicTypes
<1>3. stage'[c] = "local" /\ \A d \in CPUs : d # c => stage'[d] = stage[d]
    BY <1>1, <1>2, Zenon
<1>4. GicTypes'
    <2>1. stage' \in [CPUs -> Stages]
        BY <1>1, <1>2, Zenon DEF Stages
    <2> QED
        BY <1>1, <1>2, <2>1, Zenon DEF GicTypes
<1>5. ConsoleInv'
    BY <1>1, <1>2, <1>3, GicConstants, Zenon DEF ConsoleInv
<1>6. ASSUME NEW d \in CPUs PROVE BankedInv(d)' /\ TargetInv(d)'
    <2>1. BankedInv(d) /\ TargetInv(d)
        BY Zenon DEF GicInv
    <2>2. CASE d # c
        BY <1>1, <1>3, <2>1, <2>2, BankedKeeps, Zenon
    <2>3. CASE d = c
        BY <1>1, <1>2, <1>3, <2>1, <2>3, Zenon DEF BankedInv, TargetInv, Running
    <2> QED
        BY <2>2, <2>3
<1> QED
    BY <1>1, <1>4, <1>5, <1>6, Zenon DEF GicInv, DoorbellsPendWhereMeant

\* run_linux_vm adds the timer on CPU0 and enables the console's SPI.
LEMMA GuestInterruptsStep ==
    ASSUME GicInv, EnableGuestInterrupts
    PROVE  GicInv'
<1>1. /\ stage[0] = "online"
      /\ enabled' = [enabled EXCEPT ![0] = IF PriorityOk(0, Timer) THEN enable_irq(0, Timer) ELSE enabled[0]]
      /\ spi' = [spi EXCEPT !.enabled = PriorityOk(0, Timer)]
      /\ stage' = [stage EXCEPT ![0] = IF PriorityOk(0, Timer) THEN "guest" ELSE "failed"]
      /\ UNCHANGED <<fw, interface, ready, target, intended, pending>>
    BY DEF EnableGuestInterrupts, Stop
<1>2. /\ GicTypes /\ ConsoleInv /\ stage \in [CPUs -> Stages] /\ enabled \in [CPUs -> SUBSET Private]
      /\ BankedInv(0) /\ TargetInv(0)
    BY GicConstants, Zenon DEF GicInv, GicTypes
<1>3. spi'.level = spi.level /\ spi'.target = spi.target
    BY <1>1
<1>4. enable_irq(0, Timer) \subseteq enabled[0] \cup {Timer}
    BY Zenon DEF enable_irq
<1>5. /\ stage'[0] = (IF PriorityOk(0, Timer) THEN "guest" ELSE "failed")
      /\ enabled'[0] \subseteq enabled[0] \cup {Timer}
      /\ \A d \in CPUs : d # 0 => stage'[d] = stage[d] /\ enabled'[d] = enabled[d]
    BY <1>1, <1>2, <1>4, GicConstants, Zenon
<1>6. GicTypes'
    <2>1. stage' \in [CPUs -> Stages]
        BY <1>1, <1>2, Zenon DEF Stages
    <2>2. enabled' \in [CPUs -> SUBSET Private]
        <3>1. (IF PriorityOk(0, Timer) THEN enable_irq(0, Timer) ELSE enabled[0]) \in SUBSET Private
            BY <1>2, <1>4, GicConstants, Zenon
        <3> QED
            BY <1>1, <1>2, <3>1, Zenon
    <2> QED
        BY <1>1, <1>2, <2>1, <2>2, Zenon DEF GicTypes
<1>7. ConsoleInv'
    <2>1. stage[0] \in {"local", "online", "guest"} /\ stage'[0] \notin {"local", "online"}
        BY <1>1, <1>5
    <2> QED
        BY <1>1, <1>2, <1>3, <2>1, Zenon DEF ConsoleInv
<1>8. ASSUME NEW d \in CPUs PROVE BankedInv(d)' /\ TargetInv(d)'
    <2>1. BankedInv(d) /\ TargetInv(d)
        BY Zenon DEF GicInv
    <2>2. CASE d # 0
        BY <1>1, <1>5, <2>1, <2>2, BankedKeeps, Zenon
    <2>3. CASE d = 0
        BY <1>1, <1>5, <2>1, <2>3, Zenon DEF BankedInv, TargetInv
    <2> QED
        BY <2>2, <2>3
<1> QED
    BY <1>1, <1>6, <1>7, <1>8, Zenon DEF GicInv, DoorbellsPendWhereMeant

\* Sending and taking the SGI, and doing nothing: only doorbells change.
LEMMA DoorbellStep ==
    ASSUME GicInv, UNCHANGED <<fw, registers, ready, target, stage>>, pending' \subseteq intended'
    PROVE  GicInv'
<1>1. UNCHANGED <<fw, enabled, spi, interface, ready, target, stage>>
    BY Zenon DEF registers
<1>2. GicTypes' /\ ConsoleInv'
    BY <1>1, Zenon DEF GicInv, GicTypes, ConsoleInv
<1>3. ASSUME NEW d \in CPUs PROVE BankedInv(d)' /\ TargetInv(d)'
    <2>1. BankedInv(d) /\ TargetInv(d)
        BY Zenon DEF GicInv
    <2> QED
        BY <1>1, <2>1, BankedKeeps, Zenon
<1> QED
    BY <1>2, <1>3, Zenon DEF GicInv, DoorbellsPendWhereMeant

\* What CPU0 discovered of the interrupt controller, what each CPU has enabled and where a doorbell
\* pends form an inductive invariant (initialize_boot, initialize_local, send_management).
THEOREM GicInvariant == GicSpec => []GicInv
<1>1. ASSUME GicInv, [GicNext]_gic_vars PROVE GicInv'
    <2>1. CASE UNCHANGED gic_vars
        BY <1>1, <2>1, DoorbellStep, Zenon DEF gic_vars, GicInv, DoorbellsPendWhereMeant
    <2>2. ASSUME NEW c \in CPUs, NEW d \in CPUs, Send(c, d) PROVE GicInv'
        <3>1. target[d] = {fw.interface[d]} /\ fw \in Firmware
            BY <1>1, <2>2, Zenon DEF Send, GicInv, GicTypes, TargetInv
        <3>2. {k \in CPUs : fw.interface[k] \in management_sgir(d)} \subseteq {d}
            BY <3>1, FirmwareAssumption, Zenon DEF management_sgir
        <3>3. pending' \subseteq intended'
            BY <1>1, <2>2, <3>2, Zenon DEF Send, GicInv, DoorbellsPendWhereMeant
        <3> QED
            BY <1>1, <2>2, <3>3, DoorbellStep, Zenon DEF Send
    <2>3. ASSUME NEW c \in CPUs, Take(c) PROVE GicInv'
        <3>1. pending' \subseteq intended'
            BY <1>1, <2>3, Zenon DEF Take, GicInv, DoorbellsPendWhereMeant
        <3> QED
            BY <1>1, <2>3, <3>1, DoorbellStep, Zenon DEF Take
    <2> QED
        BY <1>1, <2>1, <2>2, <2>3, DistributorStep, LocalStep, ActivateStep, GuestInterruptsStep, Zenon
           DEF GicNext
<1> QED
    BY <1>1, InitGicInv, PTL DEF GicSpec

\* OnlyOwnedInterrupts: every interrupt that is signalled to a running CPU has an owner there, and
\* the console's SPI is enabled only when it goes to CPU0 (initialize_cpu_interface,
\* initialize_distributor).
THEOREM InterruptsAreOwned == GicSpec => []OnlyOwnedInterrupts
<1>1. ASSUME GicInv PROVE OnlyOwnedInterrupts
    <2>1. ASSUME NEW c \in CPUs, Running(c), NEW i \in Signalled(c)
          PROVE  i = Sgi \/ (c = 0 /\ i \in fw.enabled[0] \cup {Timer})
        <3>1. i \in enabled[c] /\ Accessible(c, i)
            BY <2>1, Zenon DEF Signalled
        <3> QED
            BY <1>1, <2>1, <3>1, Zenon DEF GicInv, BankedInv
    <2>2. ASSUME NEW c \in CPUs, Running(c)
          PROVE  Signalled(c) \subseteq ({Sgi} \cup (IF c = 0 THEN fw.enabled[0] \cup {Timer} ELSE {}))
        BY <2>1, <2>2, Zenon
    <2> QED
        BY <1>1, <2>2, Zenon DEF OnlyOwnedInterrupts, GicInv, BankedInv, ConsoleInv
<1> QED
    BY <1>1, GicInvariant, PTL

\* DoorbellsPendWhereMeant: the management SGI pends at no CPU that was not rung
\* (management_sgir), whatever the numbering of the interfaces.
THEOREM DoorbellsAreTargeted == GicSpec => []DoorbellsPendWhereMeant
<1>1. GicInv => DoorbellsPendWhereMeant
    BY Zenon DEF GicInv
<1> QED
    BY <1>1, GicInvariant, PTL

=============================================================================
