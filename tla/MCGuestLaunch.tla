--------------------------- MODULE MCGuestLaunch ---------------------------
(* GuestLaunch for TLC: pages and lines of 4 bytes, addresses below 64.  *)
EXTENDS GuestLaunch

MCImages ==
    [len : {1, 2, 3, 6}, magic : {TRUE}, big_endian : {FALSE}, low : BOOLEAN,
     text_offset : {0, 1, 4, 40, 47}, image_size : {0, 2, 3, 5, 6, 8, 11}]

Good == [image |-> [len |-> 3, magic |-> TRUE, big_endian |-> FALSE, low |-> FALSE,
                    text_offset |-> 1, image_size |-> 5],
         ram |-> Region(16, 16), windows |-> <<Region(0, 4), Region(4, 8), Region(12, 4)>>,
         gicv |-> Region(36, 5), dtb_bytes |-> 3, pages |-> 9,
         gic_ok |-> TRUE, pa_range_ok |-> TRUE]

MCInputs ==
    {[Good EXCEPT !.image = i, !.ram = r] :
        i \in MCImages, r \in {Region(16, 16), Region(16, 20), Region(24, 12), Region(48, 16)}}
    \cup {[Good EXCEPT !.image.magic = m, !.image.big_endian = b, !.ram = r] :
        m \in BOOLEAN, b \in BOOLEAN, r \in {Region(16, 16), Region(20, 16), Region(16, 18)}}
    \cup {[Good EXCEPT !.gicv = Region(s, n), !.pages = p, !.dtb_bytes = d] :
        s \in {36, 38}, n \in {0, 1, 4, 6, 8, 9, 40}, p \in 0 .. 10, d \in {1, 3, 4, 5}}
    \cup {[Good EXCEPT !.gic_ok = g, !.pa_range_ok = q] : g \in BOOLEAN, q \in BOOLEAN}
    \cup {[Good EXCEPT !.windows = w] :
        w \in {<<Region(0, 4), Region(4, 8), Region(10, 4)>>, <<Region(0, 4), Region(4, 8), Region(8, 4)>>,
               <<Region(0, 0), Region(4, 8), Region(12, 4)>>, <<Region(0, 4), Region(4, 8), Region(28, 4)>>,
               <<Region(0, 4), Region(4, 8), Region(40, 4)>>, <<Region(60, 8), Region(4, 8), Region(12, 4)>>}}
=============================================================================
