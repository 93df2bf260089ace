------------------------------- MODULE MCGic -------------------------------
(* Gic for TLC: three CPUs whose interfaces are not numbered like them. *)
EXTENDS Gic

MCInterface == [c \in CPUs |-> (c + 1) % (N + 1)]

\* CPU w is the odd one; its banked target fields may be zero, or name two
\* interfaces.
Config(s, w, g, e, more, none) ==
    [security |-> s, group0 |-> [c \in CPUs |-> IF c = w THEN g ELSE {}],
     enabled |-> [c \in CPUs |-> IF c = w THEN e ELSE {Sgi}],
     fields |-> [c \in CPUs |-> IF c = w THEN <<{MCInterface[c]} \ none, more>> ELSE <<{}, {MCInterface[c]}>>],
     interface |-> MCInterface, eoimode |-> TRUE, spi |-> 40, spi_enabled |-> TRUE,
     spi_group0 |-> FALSE, lines |-> 64]

Good == Config(TRUE, 0, {}, {Sgi}, {}, {})

MCFirmware ==
    {Config(s, w, g, e, {}, {}) :
        s \in BOOLEAN, w \in CPUs, g \in {{}, {Sgi}, {Timer}},
        e \in {{}, {Sgi}, {Sgi, OtherPpi}, {Sgi, Timer}}}
    \cup {Config(TRUE, w, {}, {Sgi}, x[1], x[2]) : w \in CPUs, x \in {<<{}, 0 .. N>>, <<{N + 1}, {}>>}}
    \cup {[Good EXCEPT !.security = s, !.eoimode = m, !.spi_group0 = g, !.lines = l] :
            s \in BOOLEAN, m \in BOOLEAN, g \in BOOLEAN, l \in {32, 64}}
=============================================================================
