------------------------------- MODULE Pl011 -------------------------------
(***************************************************************************)
(* tvisor_util/mmio.rs: struct VirtualPl011, the virtual UART.  Bytes the  *)
(* host receives wait in a ring until the guest reads the data register.   *)
(* Only the receive interrupt bit of IMSC matters; the other registers are *)
(* constants or ignore what is written to them.                            *)
(***************************************************************************)
EXTENDS Integers, Sequences

CONSTANTS
    Capacity,   \* bytes in the ring (64)
    Bytes       \* the bytes that may be received

ASSUME CapacityAssumption == Capacity \in Nat \ {0}

VARIABLES rx, rx_head, rx_len, rxim

pl011 == <<rx, rx_head, rx_len, rxim>>

Pl011Init ==
    /\ rx = [i \in 0 .. (Capacity - 1) |-> 0]
    /\ rx_head = 0 /\ rx_len = 0
    /\ rxim = FALSE

Pl011TypeOK ==
    /\ rx \in [0 .. (Capacity - 1) -> Bytes \cup {0}]
    /\ rx_head \in 0 .. (Capacity - 1)
    /\ rx_len \in 0 .. Capacity
    /\ rxim \in BOOLEAN

\* The ring as the queue it stands for.
Queue == [i \in 1 .. rx_len |-> rx[(rx_head + i - 1) % Capacity]]

rx_irq_pending == rx_len # 0 /\ rxim

\* Mutant: the tail does not wrap, and the last slot is written instead.
enqueue_at_end(b) ==
    /\ rx_len # Capacity
    /\ rx' = [rx EXCEPT ![IF rx_head + rx_len < Capacity THEN rx_head + rx_len ELSE Capacity - 1] = b]
    /\ rx_len' = rx_len + 1
    /\ UNCHANGED <<rx_head, rxim>>

\* enqueue_rx returns false, and changes nothing, when the ring is full.
enqueue_rx(b) ==
    /\ rx_len # Capacity
    /\ rx' = [rx EXCEPT ![(rx_head + rx_len) % Capacity] = b]
    /\ rx_len' = rx_len + 1
    /\ UNCHANGED <<rx_head, rxim>>

\* dequeue_rx of a ring that is not empty; of an empty one it reads 0.
dequeue_rx ==
    /\ rx_len # 0
    /\ rx_head' = (rx_head + 1) % Capacity
    /\ rx_len' = rx_len - 1
    /\ UNCHANGED <<rx, rxim>>

write_imsc(bit) ==
    /\ rxim' = bit
    /\ UNCHANGED <<rx, rx_head, rx_len>>

=============================================================================
