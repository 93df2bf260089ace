---------------------------- MODULE GuestLaunch ----------------------------
(***************************************************************************)
(* src/guest.rs run_guest with src/vmctl.rs run_linux_vm: CPU0 lays out    *)
(* and loads the Linux guest, describes it in a device tree, maps it,      *)
(* switches stage 2 on, runs it, and takes everything down again whatever  *)
(* happened.  Any step may be the one that fails.                          *)
(***************************************************************************)
EXTENDS LinuxBoot

CONSTANTS
    Inputs,         \* what firmware, hardware and the image present
    RamPa,          \* where the allocator finds contiguous guest RAM
    LineSize,       \* of the data cache
    TablePages,     \* tables a region needs below the root
    VmId,           \* 1
    Initrds         \* sizes of an initrd to lay out

Regions == [start : Nat, size : Nat]

ASSUME InputsAssumption ==
    /\ RamPa \in Nat /\ LineSize \in Nat \ {0} /\ TablePages \in Nat /\ Initrds \subseteq Nat
    /\ \A in \in Inputs :
        /\ in.image.len \in Nat /\ in.image.text_offset \in Nat /\ in.image.image_size \in Nat
        /\ in.ram \in Regions /\ in.gicv \in Regions
        /\ in.windows \in Seq(Regions) /\ Len(in.windows) = 3
        /\ in.dtb_bytes \in Nat /\ in.pages \in Nat

\* A device has no page of the RAM that the allocator hands out.
ASSUME DeviceAssumption ==
    \A in \in Inputs :
        \/ RamPa + in.ram.size <= align_down(in.gicv.start, PageSize)
        \/ align_down(in.gicv.start + in.gicv.size + PageSize - 1, PageSize) <= RamPa

Gicd(in) == in.windows[1]
Gicv(in) == in.windows[2]
Pl011(in) == in.windows[3]
ConsoleIrq == 33    \* VIRTUAL_PL011_IRQ

VARIABLES
    step, input,
    layout, mapping,        \* LinuxBootLayout, GuestDeviceMapping
    view, poc,              \* guest RAM as EL2 sees it, and beyond the caches
    dtb,                    \* the device tree in guest RAM
    in_use,                 \* pages taken from the allocator
    stage2,                 \* pairs of an address and what it translates to
    vm, vmid,               \* HCR_EL2.VM; the VMID in VTTBR_EL2, 0 when cleared
    tlb,                    \* cached translations, with their VMID
    need_deactivate

setup == <<input, layout, mapping>>
contents == <<view, poc, dtb>>
hardware == <<vm, vmid, tlb>>
launch_vars == <<step, setup, contents, in_use, stage2, hardware, need_deactivate>>

\* What a byte of RAM holds: byte i of the Image is i.
Old == 0 - 1
Zero == 0 - 2
Tree == 0 - 3

LaunchInit ==
    /\ input \in Inputs
    /\ step = "layout" /\ layout = Err /\ mapping = Err
    /\ view = <<>> /\ poc = <<>> /\ dtb = Err
    /\ in_use = 0 /\ stage2 = {}
    /\ vm = FALSE /\ vmid = 0
    /\ tlb \in {{}, {[vmid |-> VmId, ipa |-> input.ram.start, pa |-> 0]}}
    /\ need_deactivate = FALSE

Ram == Addresses(input.ram)
Fail == step' = "deactivate"
Free == input.pages - in_use

-----------------------------------------------------------------------------
(* run_linux_vm *)

DefaultForImage ==
    /\ step = "layout"
    /\ layout' = LinuxBootLayout(input.image, input.ram, 0)
    /\ IF layout' = Err THEN Fail ELSE step' = "interrupts"
    /\ UNCHANGED <<input, mapping, contents, in_use, stage2, hardware, need_deactivate>>

\* enable_virtual_timer_ppi and gicd_enable_irq
EnableInterrupts ==
    /\ step = "interrupts"
    /\ IF input.gic_ok THEN step' = "platform" ELSE Fail
    /\ UNCHANGED <<setup, contents, in_use, stage2, hardware, need_deactivate>>

PlacePlatform ==
    /\ step = "platform"
    /\ mapping' = IF validate(<<input.ram>> \o input.windows)
                  THEN map_device_into_window(Gicv(input), input.gicv) ELSE Err
    /\ IF mapping' = Err THEN Fail ELSE step' = "ram"
    /\ UNCHANGED <<input, layout, contents, in_use, stage2, hardware, need_deactivate>>

\* vm_mem_alloc(GuestRam): zeroed, through the cache.
AllocateRam ==
    LET pages == input.ram.size \div PageSize
    IN /\ step = "ram"
       /\ IF pages <= Free
          THEN /\ step' = "load"
               /\ in_use' = in_use + pages
               /\ view' = [a \in Ram |-> Zero] /\ poc' = [a \in Ram |-> Old]
          ELSE Fail /\ UNCHANGED <<in_use, view, poc>>
       /\ UNCHANGED <<setup, dtb, stage2, hardware, need_deactivate>>

\* The bytes there are, and zeros up to the extent in the header.
LoadedImage(a, image, len) == IF a - image.start < len THEN a - image.start ELSE Zero

LoadImage ==
    /\ step = "load" /\ step' = "dtb"
    /\ view' = [a \in Ram |-> IF a \in Addresses(layout.image)
                              THEN LoadedImage(a, layout.image, input.image.len) ELSE view[a]]
    /\ UNCHANGED <<setup, poc, dtb, in_use, stage2, hardware, need_deactivate>>

GuestFdtConfig ==
    [memory |-> <<input.ram>>, pl011 |-> [region |-> Pl011(input), interrupt |-> ConsoleIrq],
     distributor |-> Gicd(input),
     cpu_interface |-> Region(mapping.device_ipa, mapping.device.size)]

BuildDtb ==
    /\ step = "dtb"
    /\ dtb' = build_guest_dtb(GuestFdtConfig, input.dtb_bytes)
    /\ IF dtb' = Err THEN Fail /\ UNCHANGED view
       ELSE /\ step' = "clean"
            /\ view' = [a \in Ram |-> IF a \in Addresses(Region(layout.dtb.start, input.dtb_bytes))
                                      THEN Tree ELSE view[a]]
    /\ UNCHANGED <<setup, poc, in_use, stage2, hardware, need_deactivate>>

\* Mutant: starts at the line after the first address.
clean_dcache_poc_inside(start, end) == {a \in Ram : align_up(start, LineSize) <= a /\ a < end}

\* The lines from the one the range begins in to the one it ends in.
clean_dcache_poc(start, end) ==
    {a \in Ram : /\ align_down(start, LineSize) <= a
                 /\ align_down(a, LineSize) < end}

CleanCaches ==
    LET cleaned == clean_dcache_poc(layout.image.start, layout.image.start + layout.image.size)
                   \cup clean_dcache_poc(layout.dtb.start, layout.dtb.start + input.dtb_bytes)
    IN /\ step = "clean" /\ step' = "root"
       /\ poc' = [a \in Ram |-> IF a \in cleaned THEN view[a] ELSE poc[a]]
       /\ UNCHANGED <<setup, view, dtb, in_use, stage2, hardware, need_deactivate>>

\* vm_mem_alloc(GuestStage2PageTable)
AllocateRoot ==
    /\ step = "root"
    /\ IF Free > 0 THEN step' = "map" /\ in_use' = in_use + 1 ELSE Fail /\ UNCHANGED in_use
    /\ UNCHANGED <<setup, contents, stage2, hardware, need_deactivate>>

\* map and map_external_device take tables as they need them, and keep the ones
\* they got when there are no more.
MapRegion(start, pa, size, next) ==
    IF TablePages <= Free
    THEN /\ step' = next
         /\ in_use' = in_use + TablePages
         /\ stage2' = stage2 \cup {[ipa |-> start + i, pa |-> pa + i] : i \in 0 .. (size - 1)}
    ELSE Fail /\ in_use' = input.pages /\ UNCHANGED stage2

MapRam ==
    /\ step = "map"
    /\ MapRegion(input.ram.start, RamPa, input.ram.size, "device")
    /\ UNCHANGED <<setup, contents, hardware, need_deactivate>>

MapDevice ==
    /\ step = "device"
    /\ MapRegion(Gicv(input).start, mapping.mapped_pa, mapping.mapping_size, "registers")
    /\ UNCHANGED <<setup, contents, hardware, need_deactivate>>

\* guest_stage2_register_values
RegisterValues ==
    /\ step = "registers"
    /\ IF input.pa_range_ok THEN step' = "install" ELSE Fail
    /\ UNCHANGED <<setup, contents, in_use, stage2, hardware, need_deactivate>>

-----------------------------------------------------------------------------
(* activate_guest_stage2, the guest, deactivate_guest_stage2 *)

\* tlbi vmalls12e1is works on the VMID that is installed.
tlbi == {e \in tlb : e.vmid # vmid}

InstallContext ==
    /\ step = "install" /\ step' = "invalidate"
    /\ vmid' = VmId
    /\ UNCHANGED <<setup, contents, in_use, stage2, vm, tlb, need_deactivate>>

Invalidate ==
    /\ step = "invalidate" /\ step' = "guest"
    /\ tlb' = tlbi
    /\ vm' = TRUE /\ need_deactivate' = TRUE
    /\ UNCHANGED <<setup, contents, in_use, stage2, vmid>>

\* The hardware caches what the guest touches.
Walk ==
    /\ step = "guest"
    /\ tlb' = tlb \cup {[vmid |-> vmid, ipa |-> e.ipa, pa |-> e.pa] : e \in stage2}
    /\ tlb' # tlb
    /\ UNCHANGED <<step, setup, contents, in_use, stage2, vm, vmid, need_deactivate>>

\* An exit that is not resumed.
GuestExits ==
    /\ step = "guest" /\ step' = "deactivate"
    /\ UNCHANGED <<setup, contents, in_use, stage2, hardware, need_deactivate>>

\* Mutant: the VMID is cleared first.
deactivated_tlb_late == {e \in tlb : e.vmid # 0}

deactivated_tlb == tlbi

Deactivate ==
    /\ step = "deactivate" /\ step' = "release"
    /\ IF need_deactivate
       THEN tlb' = deactivated_tlb /\ vm' = FALSE /\ vmid' = 0
       ELSE UNCHANGED hardware
    /\ UNCHANGED <<setup, contents, in_use, stage2, need_deactivate>>

\* release_all; run_guest asserts that the allocator is where it was.
ReleaseAll ==
    /\ step = "release" /\ step' = "returned"
    /\ in_use' = 0 /\ stage2' = {}
    /\ UNCHANGED <<setup, contents, hardware, need_deactivate>>

LaunchNext ==
    \/ DefaultForImage \/ EnableInterrupts \/ PlacePlatform \/ AllocateRam \/ LoadImage
    \/ BuildDtb \/ CleanCaches \/ AllocateRoot \/ MapRam \/ MapDevice \/ RegisterValues
    \/ InstallContext \/ Invalidate \/ Walk \/ GuestExits \/ Deactivate \/ ReleaseAll

LaunchSpec == LaunchInit /\ [][LaunchNext]_launch_vars

-----------------------------------------------------------------------------

Disjoint(rs) == \A r, s \in rs : r # s => Addresses(r) \cap Addresses(s) = {}

\* An accepted layout, whatever the header and the initrd: all parts are inside
\* RAM and apart from each other.
LayoutIsSound(l) ==
    LET parts == {l.image, l.dtb, l.initrd}
    IN /\ Disjoint(parts)
       /\ \A r \in parts : Addresses(r) \subseteq Ram
       /\ Aligned(l.dtb.start, DtbAlign) /\ Aligned(l.initrd.start, PageSize)

\* When the guest is entered, with its caches off, it finds the Image with its
\* zeroed tail and the device tree where its registers point; the tree describes
\* what stage 2 does: the memory is mapped, one page to one page, the CPU
\* interface is the device, and the trapped devices and everything else fault.
GuestStartsAsDescribed ==
    /\ \A i \in Initrds : LET l == LinuxBootLayout(input.image, input.ram, i)
                          IN l = Err \/ LayoutIsSound(l)
    /\ step = "guest" =>
        /\ \A a \in Addresses(layout.image) :
              poc[a] = IF a - layout.pc < input.image.len THEN a - layout.pc ELSE Zero
        /\ \A i \in 0 .. (input.dtb_bytes - 1) : poc[layout.x0 + i] = Tree
        /\ \A i \in DOMAIN dtb.memory : \A a \in Addresses(dtb.memory[i]) :
              \E e \in stage2 : e.ipa = a
        /\ \A i \in 0 .. (input.gicv.size - 1) :
              [ipa |-> dtb.intc[2].start + i, pa |-> input.gicv.start + i] \in stage2
        /\ \A e, f \in stage2 : (e.ipa = f.ipa) <=> (e.pa = f.pa)
        /\ \A e \in stage2 : e.ipa \notin Addresses(dtb.intc[1]) \cup Addresses(dtb.serial)
        /\ \A e \in tlb : [ipa |-> e.ipa, pa |-> e.pa] \in stage2

\* Whatever fails, the pages go back to the allocator, and only when stage 2 is
\* off and no translation of theirs is cached.
NothingOutlivesTheGuest ==
    /\ step = "returned" => in_use = 0 /\ ~vm
    /\ (in_use = 0 /\ need_deactivate) => ~vm /\ tlb = {}

=============================================================================
