---------------------------- MODULE MCHostMemory ----------------------------
(* HostMemory for TLC: an image of a few pages, with up to three secondaries. *)
EXTENDS HostMemory

MCUsable == <<<<8, 18>>, <<85, 86>>>>
MCManaged == (8 .. 17) \cup {85}
MCReserved == (0 .. 7) \cup (18 .. 24) \cup (50 .. 74)

MCLayouts ==
    {[text |-> <<1, 2>>, vectors |-> <<2, 3>>, rodata |-> <<3, 4>>, writable |-> <<4, 5>>,
      linux |-> <<5, 6>>, dtb |-> <<6, 8>>, boot_guard |-> 18, arena |-> a,
      tables |-> <<50, 50 + a>>, uart |-> <<75, 76>>, gic |-> g, cpus |-> [i \in 1 .. n |-> i],
      cells |-> [i \in 1 .. n |-> IF i = 1 THEN 0 ELSE c], heap_pages |-> h] :
        a \in {7, 12, 16}, n \in 0 .. 3, h \in {1, 2, 4},
        \* firmware's page, another one, the image's own, and no RAM at all
        c \in {0, 24, 4, 1, 99},
        g \in {<<<<76, 78>>>>, <<<<25, 50>>, <<76, 81>>>>, <<<<75, 80>>>>, <<<<98, 101>>>>}}
=============================================================================
