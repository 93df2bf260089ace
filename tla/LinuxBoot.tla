----------------------------- MODULE LinuxBoot -----------------------------
(***************************************************************************)
(* Where the guest's things go: the Linux Image, its device tree and an    *)
(* initrd in guest RAM (tvisor_util/linux_boot.rs), the devices in the     *)
(* guest's address map (guest_platform.rs), and the device tree that       *)
(* describes them (guest_fdt.rs).  Addresses are natural numbers below     *)
(* AddressLimit, the smallest number an address register does not hold.    *)
(***************************************************************************)
EXTENDS Integers, Sequences, FiniteSets

CONSTANTS
    PageSize, ImageAlign, DtbAlign,     \* 4 KiB, 2 MiB, 8
    HeaderSize, DtbCapacity,            \* LINUX_IMAGE_HEADER_SIZE, LINUX_DTB_CAPACITY
    AddressLimit,                       \* 2^64
    IpaLimit,                           \* 2^IPA_BITS
    Placement48,                        \* 2^48
    Err                                 \* the error of a Result

ASSUME SizesAssumption ==
    /\ PageSize \in Nat \ {0} /\ ImageAlign \in Nat \ {0} /\ DtbAlign \in Nat \ {0}
    /\ DtbCapacity \in Nat /\ AddressLimit \in Nat /\ Err \notin Int

checked_add(a, b) == IF a = Err \/ b = Err THEN Err ELSE IF a + b < AddressLimit THEN a + b ELSE Err

\* `& !(alignment - 1)`
align_down(value, alignment) == IF value = Err THEN Err ELSE value - (value % alignment)

align_up(value, alignment) ==
    IF value = Err THEN Err
    ELSE IF value % alignment = 0 THEN value ELSE checked_add(value, alignment - (value % alignment))

Aligned(value, alignment) == value % alignment = 0
Region(start, size) == [start |-> start, size |-> size]
End(r) == checked_add(r.start, r.size)
Addresses(r) == r.start .. (r.start + r.size - 1)

-----------------------------------------------------------------------------
(* linux_boot.rs *)

\* LinuxImageHeader::parse; an image is its bytes, here their number, and what
\* they say.
parse(image) ==
    IF \/ image.len < HeaderSize \/ ~image.magic \/ image.big_endian
       \/ image.image_size = 0 \/ image.len > image.image_size
    THEN Err
    ELSE [text_offset |-> image.text_offset, image_size |-> image.image_size,
          low |-> image.low]

\* The placement of an initrd, if there is one, behind the device tree.
initrd_region(dtb_end, ram_end, initrd) ==
    LET ipa == align_up(dtb_end, PageSize)
        end == checked_add(ipa, align_up(initrd, PageSize))
    IN IF end = Err THEN Err ELSE IF end > ram_end THEN Err ELSE Region(ipa, initrd)

\* LinuxBootLayout::new; initrd is 0 when there is none.
LinuxBootLayout(image, ram, initrd) ==
    LET header == parse(image)
        ram_end == checked_add(ram.start, ram.size)
        image_ipa == checked_add(ram.start, header.text_offset)
        image_end == checked_add(image_ipa, header.image_size)
        dtb_ipa == align_up(image_end, DtbAlign)
        dtb_end == checked_add(dtb_ipa, DtbCapacity)
        place == IF initrd = 0 THEN Region(0, 0) ELSE initrd_region(dtb_end, ram_end, initrd)
    IN IF header = Err THEN Err
       ELSE IF \/ ~Aligned(ram.start, ImageAlign) \/ ~Aligned(ram.size, PageSize)
               \/ ram_end = Err \/ image_end = Err THEN Err
       ELSE IF \/ image_end > ram_end \/ (header.low /\ image_end > Placement48)
               \/ dtb_end = Err THEN Err
       ELSE IF dtb_end > ram_end \/ place = Err THEN Err
       ELSE [image |-> Region(image_ipa, header.image_size), dtb |-> Region(dtb_ipa, DtbCapacity),
             initrd |-> place, pc |-> image_ipa, x0 |-> dtb_ipa]

-----------------------------------------------------------------------------
(* guest_platform.rs *)

overlaps(r, s) ==
    IF End(r) = Err \/ End(s) = Err THEN TRUE ELSE r.start < End(s) /\ s.start < End(r)

\* validate: every region is whole pages inside the IPA space, and no two
\* overlap.
validate(regions) ==
    \A i \in DOMAIN regions :
        LET r == regions[i]
        IN /\ r.size # 0 /\ Aligned(r.start, PageSize) /\ Aligned(r.size, PageSize)
           /\ End(r) # Err
           /\ r.start + r.size - 1 < IpaLimit
           /\ \A j \in (i + 1) .. Len(regions) : ~overlaps(r, regions[j])

\* The pages of a device, at a window; the offset in the page is kept.
map_device_into_window(window, device) ==
    LET offset == device.start % PageSize
        required == checked_add(checked_add(offset, device.size), PageSize - 1)
        size == align_down(required, PageSize)
        ipa == checked_add(window.start, offset)
    IN IF window.size = 0 \/ ~Aligned(window.start, PageSize) \/ ~Aligned(window.size, PageSize) THEN Err
       ELSE IF required = Err \/ ipa = Err THEN Err
       ELSE IF size > window.size THEN Err
       ELSE [device_ipa |-> ipa, device |-> device, mapped_pa |-> device.start - offset,
             mapping_size |-> size]

-----------------------------------------------------------------------------
(* guest_fdt.rs: a device tree is what its nodes say. *)

MaxMemoryRegions == 4

\* validate_config
ValidConfig(config) ==
    /\ Len(config.memory) \in 1 .. MaxMemoryRegions
    /\ \A i \in DOMAIN config.memory :
          LET r == config.memory[i]
          IN r.size # 0 /\ Aligned(r.size, PageSize) /\ Aligned(r.start, PageSize) /\ End(r) # Err
    /\ LET u == config.pl011
       IN /\ u.region.size # 0 /\ Aligned(u.region.start, PageSize)
          /\ Aligned(u.region.size, PageSize) /\ End(u.region) # Err
          /\ u.interrupt >= 32
    /\ \A r \in {config.distributor, config.cpu_interface} :
          r.size # 0 /\ Aligned(r.start, PageSize) /\ End(r) # Err

\* build_tree: the nodes with a "reg", and the console's interrupt as an SPI.
build_tree(config) ==
    [memory |-> config.memory, intc |-> <<config.distributor, config.cpu_interface>>,
     serial |-> config.pl011.region, serial_spi |-> config.pl011.interrupt - 32,
     cpus |-> {0}, timer |-> {29, 30, 27, 26}]

\* build_guest_dtb, of a tree that takes so many bytes.
build_guest_dtb(config, bytes) ==
    IF ~ValidConfig(config) \/ bytes > DtbCapacity THEN Err ELSE build_tree(config)

=============================================================================
