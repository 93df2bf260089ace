-------------------------- MODULE MCSecondaryEntry --------------------------
(***************************************************************************)
(* Machines for SecondaryEntry: cores in order and in another order, a boot*)
(* CPU that is not the first core, a disabled CPU with a cell of its own   *)
(* or with that of another CPU, a misaligned cell, a CPU with no spin      *)
(* table, a second cluster, and a single core.  Memory holds zeros, or what *)
(* an earlier boot left of the slot, token and configuration of one CPU:   *)
(* the same, another affinity, another stack with foreign registers, or    *)
(* another token.                                                          *)
(***************************************************************************)
EXTENDS SecondaryEntry

Cpu(affinity, id, startup) == [affinity |-> affinity, enabled |-> TRUE, id |-> id, startup |-> startup]
Off(affinity, startup) == [affinity |-> affinity, enabled |-> FALSE, id |-> None, startup |-> startup]

MCTopologies ==
    {<<Cpu(0, 0, None), Cpu(1, 1, 224), Cpu(2, 2, 232)>>,
     <<Cpu(2, 0, None), Cpu(1, 1, 216), Off(0, 224)>>,
     <<Cpu(0, 0, None), Cpu(1, 1, 224), Off(2, 224)>>,
     <<Cpu(0, 0, None), Cpu(1, 1, 228)>>,
     <<Cpu(0, 0, None), Cpu(1, 1, 224), Cpu(2, 2, None)>>,
     <<Cpu(0, 0, None), Cpu(256, 1, 224)>>,
     <<Cpu(0, 0, None), Off(1, 224)>>}

\* One slot with its token, and the configuration.  To save states CPU0's slot is in memory already,
\* as it will be or, on a machine with another boot CPU, as an earlier boot left it.
Left(slot, token, config) ==
    [l \in Lines |-> IF l = Slot(0) THEN Context(0, 0)
                     ELSE IF l = Slot(1) THEN slot
                     ELSE IF l = Mailbox(1) THEN token
                     ELSE IF l = Config THEN config
                     ELSE IF l[1] = "slot" THEN EmptySlot ELSE 0]

MCLeftovers ==
    {Left(EmptySlot, 0, NoConfig),
     Left(Context(1, 1), Generation, HostConfig),
     Left(Context(1, 2), Generation, HostConfig),
     Left([Context(1, 1) EXCEPT !.stack = 2], Generation, "foreign"),
     Left(Context(1, 1), Generation + 1, HostConfig)}

=============================================================================
