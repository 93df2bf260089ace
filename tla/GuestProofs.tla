---------------------------- MODULE GuestProofs ----------------------------
(***************************************************************************)
(* The guest's life on CPU0.                                               *)
(*                                                                         *)
(* GuestLoop, for a ring of any capacity and any number of received bytes. *)
(*                                                                         *)
(* GuestLaunch, for any image header, address map, sizes and alignments:   *)
(* the inductive invariant says, for each step of run_guest, which parts   *)
(* of the guest have been worked out, what guest RAM holds in and beyond   *)
(* the caches, what the tables and the TLB translate, and when stage 2 is  *)
(* on.                                                                     *)
(***************************************************************************)
EXTENDS GuestLoop, GuestLaunch, SequenceTheorems, TLAPS

-----------------------------------------------------------------------------
(* The ring.                                                               *)

\* An index of the ring is at most one turn away from its head.
LEMMA Wrap ==
  ASSUME NEW h \in 0 .. (Capacity - 1), NEW k \in 0 .. Capacity
  PROVE  (h + k) % Capacity = IF h + k < Capacity THEN h + k ELSE h + k - Capacity
BY CapacityAssumption, SMT

\* The slot of the i-th waiting byte.
Slot(i) == IF rx_head + i - 1 < Capacity THEN rx_head + i - 1 ELSE rx_head + i - 1 - Capacity

\* A waiting byte lies in the ring, at its slot.
LEMMA SlotOfByte ==
  ASSUME Pl011TypeOK, NEW i \in 1 .. (Capacity + 1)
  PROVE  /\ (rx_head + i - 1) % Capacity = Slot(i)
         /\ Slot(i) \in 0 .. (Capacity - 1)
<1> DEFINE k == i - 1
<1>1. k \in 0 .. Capacity /\ rx_head \in 0 .. (Capacity - 1)
  BY CapacityAssumption DEF Pl011TypeOK
<1>2. (rx_head + k) % Capacity = IF rx_head + k < Capacity THEN rx_head + k ELSE rx_head + k - Capacity
  BY <1>1, Wrap
<1>3. rx_head + i - 1 = rx_head + k
  BY <1>1
<1> QED
  BY <1>1, <1>2, <1>3, CapacityAssumption DEF Slot

\* The ring holds what was accepted and not yet delivered, byte by byte.
InRing ==
    /\ Len(accepted) = Len(delivered) + rx_len
    /\ \A i \in 1 .. Len(delivered) : accepted[i] = delivered[i]
    /\ \A i \in 1 .. rx_len : accepted[Len(delivered) + i] = rx[Slot(i)]

RingOK == Pl011TypeOK /\ accepted \in Seq(Bytes) /\ delivered \in Seq(Bytes)

HoldsQueue == accepted = delivered \o Queue

\* InRing says what BytesInOrder says of the queue.
LEMMA RingIsQueue == RingOK => (InRing <=> HoldsQueue)
<1> SUFFICES ASSUME Pl011TypeOK, accepted \in Seq(Bytes), delivered \in Seq(Bytes)
             PROVE  InRing <=> accepted = delivered \o Queue
  BY DEF RingOK, HoldsQueue
<1>1. \A i \in 1 .. rx_len : Queue[i] = rx[Slot(i)] /\ rx[Slot(i)] \in Bytes \cup {0}
  BY SlotOfByte, CapacityAssumption DEF Queue, Pl011TypeOK
<1>2. Queue \in Seq(Bytes \cup {0}) /\ Len(Queue) = rx_len
  <2>1. Queue = [i \in 1 .. rx_len |-> Queue[i]] /\ rx_len \in Nat
    BY CapacityAssumption DEF Queue, Pl011TypeOK
  <2>2. Queue \in [1 .. rx_len -> Bytes \cup {0}]
    BY <1>1, <2>1
  <2> QED
    BY <2>1, <2>2, SeqDef
<1>3. delivered \in Seq(Bytes \cup {0}) /\ accepted \in Seq(Bytes \cup {0})
  BY SeqMonotonic
<1> HIDE DEF Queue
<1>4. ASSUME accepted = delivered \o Queue PROVE InRing
  <2>1. /\ Len(accepted) = Len(delivered) + rx_len
        /\ \A i \in 1 .. Len(delivered) + rx_len :
             accepted[i] = IF i <= Len(delivered) THEN delivered[i] ELSE Queue[i - Len(delivered)]
    BY <1>2, <1>3, <1>4, ConcatProperties, Zenon
  <2>2. Len(delivered) \in Nat /\ rx_len \in Nat
    BY CapacityAssumption, LenProperties DEF Pl011TypeOK
  <2>3. ASSUME NEW i \in 1 .. rx_len PROVE accepted[Len(delivered) + i] = rx[Slot(i)]
    <3>1. Len(delivered) + i \in 1 .. Len(delivered) + rx_len /\ ~(Len(delivered) + i <= Len(delivered))
          /\ (Len(delivered) + i) - Len(delivered) = i
      BY <2>2
    <3> QED
      BY <1>1, <2>1, <3>1
  <2>4. ASSUME NEW i \in 1 .. Len(delivered) PROVE accepted[i] = delivered[i]
    BY <2>1, <2>2
  <2> QED
    BY <2>1, <2>3, <2>4 DEF InRing
<1>5. ASSUME InRing PROVE accepted = delivered \o Queue
  <2> DEFINE c == delivered \o Queue
  <2>1. c \in Seq(Bytes \cup {0}) /\ Len(c) = Len(delivered) + rx_len
    BY <1>2, <1>3
  <2>2. \A i \in 1 .. Len(c) : c[i] = IF i <= Len(delivered) THEN delivered[i] ELSE Queue[i - Len(delivered)]
    BY <1>2, <1>3
  <2>3. Len(accepted) = Len(c)
    BY <1>5, <2>1 DEF InRing
  <2>4. \A i \in 1 .. Len(c) : accepted[i] = c[i]
    <3> SUFFICES ASSUME NEW i \in 1 .. Len(c) PROVE accepted[i] = c[i]
      OBVIOUS
    <3> HIDE DEF c
    <3>1. CASE i <= Len(delivered)
      BY <1>3, <1>5, <2>2, <3>1 DEF InRing
    <3>2. CASE ~(i <= Len(delivered))
      <4> DEFINE j == i - Len(delivered)
      <4>1. j \in 1 .. rx_len /\ Len(delivered) + j = i
        BY <1>3, <2>1, <3>2 DEF Pl011TypeOK
      <4>2. accepted[Len(delivered) + j] = rx[Slot(j)]
        BY <1>5, <4>1 DEF InRing
      <4> QED
        BY <1>1, <2>2, <3>2, <4>1, <4>2
    <3> QED
      BY <3>1, <3>2
  <2> HIDE DEF c
  <2>5. accepted = c
    BY <1>3, <2>1, <2>3, <2>4
  <2> QED
    BY <2>5 DEF c
<1> QED
  BY <1>4, <1>5

\* A byte that enters the ring is the last one accepted, whatever the wrap.
LEMMA EnqueueStep ==
  ASSUME Pl011TypeOK, accepted \in Seq(Bytes), delivered \in Seq(Bytes), InRing,
         NEW b \in Bytes, enqueue_rx(b), accepted' = Append(accepted, b), delivered' = delivered
  PROVE  Pl011TypeOK' /\ InRing' /\ accepted' \in Seq(Bytes)
<1>1. /\ rx_len \in 0 .. (Capacity - 1) /\ rx_head \in 0 .. (Capacity - 1)
      /\ Capacity \in Nat \ {0} /\ Len(delivered) \in Nat
      /\ rx_head' = rx_head /\ rx_len' = rx_len + 1
  BY CapacityAssumption, LenProperties DEF Pl011TypeOK, enqueue_rx
<1>2. (rx_head + rx_len) % Capacity = Slot(rx_len + 1) /\ Slot(rx_len + 1) \in 0 .. (Capacity - 1)
  <2>1. rx_len + 1 \in 1 .. (Capacity + 1) /\ rx_head + (rx_len + 1) - 1 = rx_head + rx_len
    BY <1>1
  <2> QED
    BY <2>1, SlotOfByte
<1>3. rx' = [rx EXCEPT ![Slot(rx_len + 1)] = b]
  BY <1>2, Zenon DEF enqueue_rx
<1>4. Pl011TypeOK'
  BY <1>1, <1>2, <1>3 DEF Pl011TypeOK, enqueue_rx
<1>5. \A i \in 1 .. (Capacity + 1) : Slot(i)' = Slot(i)
  BY <1>1 DEF Slot
<1>6. /\ Len(accepted') = Len(accepted) + 1 /\ accepted' \in Seq(Bytes)
      /\ accepted'[Len(accepted) + 1] = b
      /\ \A i \in 1 .. Len(accepted) : accepted'[i] = accepted[i]
  OBVIOUS
<1>7. ASSUME NEW i \in 1 .. rx_len' PROVE accepted'[Len(delivered') + i] = rx'[Slot(i)']
  <2>1. CASE i = rx_len + 1
    <3>1. Len(delivered') + i = Len(accepted) + 1
      BY <1>1, <2>1 DEF InRing
    <3>2. rx'[Slot(i)'] = b
      BY <1>1, <1>2, <1>3, <1>5, <2>1 DEF Pl011TypeOK
    <3> QED
      BY <1>6, <3>1, <3>2
  <2>2. CASE i # rx_len + 1
    <3>1. i \in 1 .. rx_len
      BY <1>1, <2>2
    <3>2. Slot(i) # Slot(rx_len + 1) /\ Slot(i) \in 0 .. (Capacity - 1)
      BY <1>1, <3>1 DEF Slot
    <3>3. rx'[Slot(i)'] = rx[Slot(i)]
      BY <1>1, <1>3, <1>5, <3>1, <3>2 DEF Pl011TypeOK
    <3>4. Len(delivered) + i \in 1 .. Len(accepted)
      BY <1>1, <3>1 DEF InRing
    <3> QED
      BY <1>6, <3>1, <3>3, <3>4 DEF InRing
  <2> QED
    BY <2>1, <2>2, Zenon
<1>8. Len(accepted') = Len(delivered') + rx_len'
  BY <1>1, <1>6 DEF InRing
<1>9. ASSUME NEW i \in 1 .. Len(delivered') PROVE accepted'[i] = delivered'[i]
  <2>1. i \in 1 .. Len(accepted)
    BY <1>1 DEF InRing
  <2> QED
    BY <1>6, <2>1 DEF InRing
<1> QED
  BY <1>4, <1>6, <1>7, <1>8, <1>9, Zenon DEF InRing

\* What moves from the ring to the guest leaves the total.
LEMMA OneMoves == \A n, m \in Nat : n + m = (n + 1) + (m - 1)
  OBVIOUS

\* An index of a list one longer.
LEMMA OneLonger == \A n \in Nat : \A i \in 1 .. (n + 1) : i \in 1 .. n \/ i = n + 1
  OBVIOUS

\* An index of a ring one shorter, seen from before and after the step.
LEMMA OneShorter ==
  \A n, m \in Nat : \A i \in 1 .. (m - 1) : i + 1 \in 1 .. m /\ (n + 1) + i = n + (i + 1)
  OBVIOUS

\* The byte the guest reads is the first accepted one it has not read.
LEMMA DequeueStep ==
  ASSUME Pl011TypeOK, accepted \in Seq(Bytes), delivered \in Seq(Bytes), InRing,
         dequeue_rx, delivered' = Append(delivered, rx[rx_head]), accepted' = accepted
  PROVE  Pl011TypeOK' /\ InRing' /\ delivered' \in Seq(Bytes)
<1>1. /\ rx_len \in 1 .. Capacity /\ rx_head \in 0 .. (Capacity - 1)
      /\ Capacity \in Nat \ {0} /\ Len(delivered) \in Nat
      /\ rx' = rx /\ rx_len' = rx_len - 1
  BY CapacityAssumption, LenProperties DEF Pl011TypeOK, dequeue_rx
<1>2. rx_head' = IF rx_head + 1 < Capacity THEN rx_head + 1 ELSE 0
  <2>1. (rx_head + 1) % Capacity = IF rx_head + 1 < Capacity THEN rx_head + 1 ELSE rx_head + 1 - Capacity
    BY <1>1, Wrap
  <2> QED
    BY <1>1, <2>1 DEF dequeue_rx
<1>3. Pl011TypeOK'
  BY <1>1, <1>2 DEF Pl011TypeOK, dequeue_rx
<1>4. \A i \in 1 .. rx_len' : Slot(i)' = Slot(i + 1)
  BY <1>1, <1>2 DEF Slot
<1>5. rx[rx_head] = accepted[Len(delivered) + 1] /\ rx[rx_head] \in Bytes
  <2>1. Slot(1) = rx_head /\ 1 \in 1 .. rx_len
    BY <1>1 DEF Slot
  <2>2. Len(delivered) + 1 \in 1 .. Len(accepted)
    BY <1>1 DEF InRing
  <2>3. accepted[Len(delivered) + 1] \in Bytes
    BY <2>2, ElementOfSeq
  <2>4. accepted[Len(delivered) + 1] = rx[Slot(1)]
    BY <2>1 DEF InRing
  <2> QED
    BY <2>1, <2>3, <2>4
<1>6. /\ Len(delivered') = Len(delivered) + 1 /\ delivered' \in Seq(Bytes)
      /\ delivered'[Len(delivered) + 1] = rx[rx_head]
      /\ \A i \in 1 .. Len(delivered) : delivered'[i] = delivered[i]
  BY <1>5
<1>n. rx_len \in Nat
  BY <1>1
<1>7. Len(accepted') = Len(delivered') + rx_len'
  BY <1>1, <1>n, <1>6, OneMoves, Zenon DEF InRing
<1>8. ASSUME NEW i \in 1 .. Len(delivered') PROVE accepted'[i] = delivered'[i]
  <2>1. i \in 1 .. Len(delivered) \/ i = Len(delivered) + 1
    BY <1>1, <1>n, <1>6, OneLonger, Zenon
  <2> QED
    BY <1>5, <1>6, <2>1 DEF InRing
<1>9. ASSUME NEW i \in 1 .. rx_len' PROVE accepted'[Len(delivered') + i] = rx'[Slot(i)']
  <2>1. i + 1 \in 1 .. rx_len /\ Len(delivered') + i = Len(delivered) + (i + 1)
    BY <1>1, <1>n, <1>6, OneShorter, Zenon
  <2>2. accepted[Len(delivered) + (i + 1)] = rx[Slot(i + 1)]
    BY <2>1 DEF InRing
  <2> QED
    BY <1>1, <1>4, <2>1, <2>2
<1> QED
  BY <1>3, <1>6, <1>7, <1>8, <1>9 DEF InRing

-----------------------------------------------------------------------------
(* The initial state and the control state.                                *)

\* The inductive invariant holds when the guest is about to run for the first
\* time.
LEMMA InitialInvariant == Init => IInv
<1> SUFFICES ASSUME Init PROVE IInv
  OBVIOUS
<1>1. Pl011TypeOK
  BY CapacityAssumption DEF Init, Pl011Init, Pl011TypeOK
<1>2. TypeOK
  <2>1. console \in Seq(Bytes) /\ accepted \in Seq(Bytes) /\ delivered \in Seq(Bytes)
    BY EmptySeq DEF Init
  <2>2. arrived \in 0 .. MaxReceived
    BY BytesAssumption DEF Init
  <2>3. /\ vgic \in [timer : LrStates, uart : LrStates]
        /\ gich \in [timer : LrStates, uart : LrStates, enabled : BOOLEAN]
    BY DEF Init, LrStates
  <2>4. timerLine \in BOOLEAN /\ sgi \in BOOLEAN /\ other \in BOOLEAN
    BY Zenon DEF Init
  <2>5. /\ active \subseteq Interrupts /\ running \in Interrupts \cup {None}
        /\ pc \in {"top", "guest", "irq", "handle", "complete", "ended", "stopped"}
    BY DEF Init
  <2> QED
    BY <1>1, <2>1, <2>2, <2>3, <2>4, <2>5 DEF TypeOK
<1>3. Control /\ TimerHasOneOwner
  BY DEF Init, Control, TimerHasOneOwner, in_flight, Lr, Interrupts, None
<1>4. Arrivals
  BY EmptySeq DEF Init, Arrivals
<1>5. BytesInOrder
  <2>1. InRing
    BY DEF Init, Pl011Init, InRing
  <2>2. accepted = delivered \o Queue
    BY <1>1, <1>2, <2>1, RingIsQueue DEF TypeOK, RingOK, HoldsQueue
  <2> QED
    BY <2>2 DEF Init, BytesInOrder
<1> QED
  BY <1>2, <1>3, <1>4, <1>5 DEF IInv

\* The part of the state the control invariants speak of.
control == <<pc, active, running, vgic, gich>>

\* Every step keeps the control state of the loop and the timer's owner right.
LEMMA ControlStep ==
  ASSUME TypeOK, Control, TimerHasOneOwner, [Next]_vars
  PROVE  Control' /\ TimerHasOneOwner'
<1> USE DEF Control, TimerHasOneOwner, in_flight, Lr, Interrupts, None, LrStates
<1>1. ASSUME UNCHANGED control PROVE Control' /\ TimerHasOneOwner'
  BY <1>1 DEF control
<1>2. CASE TimerFires \/ ByteArrives \/ SgiArrives \/ OtherArrives \/ GuestProgramsTimer \/ DrainByte
  <2>1. UNCHANGED control
    BY <1>2 DEF TimerFires, ByteArrives, SgiArrives, OtherArrives, GuestProgramsTimer, DrainByte,
                control, gic
  <2> QED
    BY <1>1, <2>1
<1>3. CASE Enter
  BY <1>3 DEF TypeOK, Enter, QueueUart, gic
<1>4. CASE ExitIrq \/ ExitWithdrawn \/ ExitUnexpected \/ EmulationPanics
  BY <1>4 DEF TypeOK, ExitIrq, ExitWithdrawn, ExitUnexpected, EmulationPanics, SaveVirtualCpu, gic
<1>5. CASE GuestReadsData \/ GuestWritesImsc \/ GuestTouchesDevice
  BY <1>5 DEF TypeOK, GuestReadsData, GuestWritesImsc, GuestTouchesDevice, Trap, SaveVirtualCpu, gic
<1>6. ASSUME NEW i \in Interrupts, Acknowledge(i) PROVE Control' /\ TimerHasOneOwner'
  BY <1>6, Zenon DEF TypeOK, Acknowledge, Signalled
<1>7. CASE Spurious
  BY <1>7 DEF TypeOK, Spurious, gic
<1>8. CASE HandleTimer
  BY <1>8 DEF TypeOK, HandleTimer, EndInterrupt
<1>9. CASE HandleConsole
  BY <1>9 DEF TypeOK, HandleConsole, gic
<1>10. CASE CompleteConsole \/ HandleManagement \/ HandleOther
  BY <1>10, Zenon DEF TypeOK, CompleteConsole, HandleManagement, HandleOther, CompleteHostInterrupt
<1>11. CASE GuestAcknowledges
  BY <1>11 DEF TypeOK, GuestAcknowledges, gic
<1>12. CASE GuestCompletes
  BY <1>12 DEF TypeOK, GuestCompletes
<1>13. CASE UNCHANGED vars
  BY <1>1, <1>13 DEF vars, control
<1> QED
  BY <1>2, <1>3, <1>4, <1>5, <1>6, <1>7, <1>8, <1>9, <1>10, <1>11, <1>12, <1>13, Zenon
  DEF Next, Host, Guest

-----------------------------------------------------------------------------
(* The bytes.                                                              *)

\* The part of the state the invariants of the bytes speak of, with its types.
bytes == <<rx, rx_head, rx_len, console, arrived, accepted, delivered>>

BytesOK ==
    /\ Pl011TypeOK
    /\ arrived \in 0 .. MaxReceived
    /\ console \in Seq(Bytes) /\ accepted \in Seq(Bytes) /\ delivered \in Seq(Bytes)
    /\ Arrivals
    /\ BytesInOrder

\* A step that moves no byte keeps every byte in its place.
LEMMA BytesUnmoved ==
  ASSUME BytesOK, UNCHANGED bytes, rxim' \in BOOLEAN
  PROVE  BytesOK'
BY Zenon DEF BytesOK, bytes, Pl011TypeOK, Arrivals, BytesInOrder, Queue

\* A byte that arrives is later than all before it.
LEMMA ByteArrivesStep ==
  ASSUME BytesOK, ByteArrives
  PROVE  BytesOK'
<1>1. /\ arrived \in 0 .. MaxReceived /\ MaxReceived \in Nat /\ arrived' = arrived + 1
      /\ arrived' \in 0 .. MaxReceived /\ arrived + 1 \in Bytes
      /\ console' = Append(console, arrived + 1) /\ UNCHANGED <<pl011, accepted, delivered>>
  BY BytesAssumption DEF BytesOK, ByteArrives, history
<1>2. /\ console \in Seq(Bytes) /\ console' \in Seq(Bytes)
      /\ DOMAIN console = 1 .. Len(console) /\ DOMAIN console' = 1 .. (Len(console) + 1)
      /\ Len(console) \in Nat
      /\ console'[Len(console) + 1] = arrived + 1
      /\ \A i \in 1 .. Len(console) : console'[i] = console[i]
  BY <1>1 DEF BytesOK
<1>3. \A i \in DOMAIN console : console[i] \in Int
  BY <1>2, ElementOfSeq, BytesAssumption
<1>4. \A i \in DOMAIN accepted : accepted[i] \in Int
  BY LenProperties, ElementOfSeq, BytesAssumption DEF BytesOK
<1>5. Arrivals'
  <2>1. \A i \in DOMAIN console' : console'[i] <= arrived'
    BY <1>1, <1>2, <1>3 DEF BytesOK, Arrivals
  <2>2. \A i, j \in DOMAIN console' : i < j => console'[i] < console'[j]
    BY <1>1, <1>2, <1>3 DEF BytesOK, Arrivals
  <2>3. \A i \in DOMAIN accepted' : accepted'[i] <= arrived'
    BY <1>1, <1>4 DEF BytesOK, Arrivals
  <2>4. \A i \in DOMAIN accepted', j \in DOMAIN console' : accepted'[i] < console'[j]
    BY <1>1, <1>2, <1>3, <1>4 DEF BytesOK, Arrivals
  <2> QED
    BY <2>1, <2>2, <2>3, <2>4 DEF Arrivals
<1>6. Pl011TypeOK' /\ BytesInOrder'
  BY <1>1, Zenon DEF BytesOK, pl011, Pl011TypeOK, BytesInOrder, Queue
<1> QED
  BY <1>1, <1>2, <1>5, <1>6 DEF BytesOK

\* A byte that is drained enters the ring behind the others, or is dropped.
LEMMA DrainByteStep ==
  ASSUME BytesOK, DrainByte
  PROVE  BytesOK'
<1> DEFINE b == Head(console)
<1>1. /\ console \in Seq(Bytes) /\ console # <<>> /\ console' = Tail(console)
      /\ UNCHANGED <<arrived, delivered>>
  BY DEF BytesOK, DrainByte
<1>2. /\ b \in Bytes /\ b = console[1] /\ console' \in Seq(Bytes)
      /\ Len(console) \in Nat \ {0} /\ DOMAIN console = 1 .. Len(console)
      /\ DOMAIN console' = 1 .. (Len(console) - 1)
      /\ \A i \in 1 .. (Len(console) - 1) : console'[i] = console[i + 1]
  BY <1>1, HeadTailProperties, LenProperties, EmptySeq
<1> HIDE DEF b
<1>5. /\ \A i \in DOMAIN console' : console'[i] <= arrived' /\ b < console'[i]
      /\ \A i, j \in DOMAIN console' : i < j => console'[i] < console'[j]
      /\ \A i \in DOMAIN accepted, j \in DOMAIN console' : accepted[i] < console'[j]
  <2>1. \A i \in DOMAIN console' : i + 1 \in DOMAIN console /\ 1 \in DOMAIN console
                                 /\ 1 < i + 1 /\ console'[i] = console[i + 1]
    BY <1>2
  <2>2. \A i, j \in DOMAIN console' : i < j => i + 1 < j + 1
    BY <1>2
  <2> QED
    BY <1>1, <1>2, <2>1, <2>2, Zenon DEF BytesOK, Arrivals
<1>6. \A i \in DOMAIN accepted : accepted[i] <= arrived /\ accepted[i] < b
  <2>1. 1 \in DOMAIN console
    BY <1>2
  <2> QED
    BY <1>2, <2>1 DEF BytesOK, Arrivals
<1>7. CASE enqueue_rx(b) /\ accepted' = Append(accepted, b)
  <2>1. InRing
    BY RingIsQueue DEF BytesOK, BytesInOrder, RingOK, HoldsQueue
  <2>2. Pl011TypeOK' /\ InRing' /\ accepted' \in Seq(Bytes) /\ delivered' \in Seq(Bytes)
    BY <1>1, <1>2, <1>7, <2>1, EnqueueStep DEF BytesOK
  <2>3. HoldsQueue'
    <3>1. RingOK' /\ InRing'
      BY <2>2 DEF RingOK
    <3> QED
      BY <3>1, RingIsQueue, PTL
  <2>4. /\ DOMAIN accepted = 1 .. Len(accepted) /\ DOMAIN accepted' = 1 .. (Len(accepted) + 1)
        /\ Len(accepted) \in Nat
        /\ accepted'[Len(accepted) + 1] = b
        /\ \A i \in 1 .. Len(accepted) : accepted'[i] = accepted[i]
    BY <1>2, <1>7 DEF BytesOK
  <2>5. \A i, j \in DOMAIN accepted' : i < j => accepted'[i] < accepted'[j]
    <3>1. \A i, j \in DOMAIN accepted : i < j => accepted[i] < accepted[j]
      BY DEF BytesOK, BytesInOrder
    <3>2. \A i \in DOMAIN accepted' : i \in DOMAIN accepted \/ i = Len(accepted) + 1
      BY <2>4
    <3>3. \A i, j \in DOMAIN accepted' : i < j => i \in DOMAIN accepted
      BY <2>4
    <3> QED
      BY <1>6, <2>4, <3>1, <3>2, <3>3
  <2>6. /\ \A i \in DOMAIN accepted' : accepted'[i] <= arrived'
        /\ \A i \in DOMAIN accepted', j \in DOMAIN console' : accepted'[i] < console'[j]
    <3>1. \A i \in DOMAIN accepted' : i \in DOMAIN accepted \/ i = Len(accepted) + 1
      BY <2>4
    <3>2. b <= arrived
      <4>1. 1 \in DOMAIN console
        BY <1>2
      <4> QED
        BY <1>2, <4>1 DEF BytesOK, Arrivals
    <3> QED
      BY <1>1, <1>5, <1>6, <2>4, <3>1, <3>2
  <2> QED
    BY <1>1, <1>2, <1>5, <2>2, <2>3, <2>5, <2>6, Zenon DEF BytesOK, Arrivals, BytesInOrder, HoldsQueue
<1>8. CASE UNCHANGED <<pl011, accepted>>
  <2>1. Pl011TypeOK' /\ BytesInOrder'
    BY <1>1, <1>8, Zenon DEF BytesOK, pl011, Pl011TypeOK, BytesInOrder, Queue
  <2>2. Arrivals'
    BY <1>1, <1>5, <1>6, <1>8 DEF Arrivals
  <2> QED
    BY <1>1, <1>2, <1>8, <2>1, <2>2 DEF BytesOK
<1> QED
  BY <1>7, <1>8 DEF DrainByte, b

\* A byte that is read leaves the ring from its front.
LEMMA GuestReadsDataStep ==
  ASSUME BytesOK, GuestReadsData
  PROVE  BytesOK'
<1>1. /\ dequeue_rx /\ delivered' = Append(delivered, rx[rx_head])
      /\ UNCHANGED <<accepted, arrived, console>>
  BY DEF GuestReadsData, Trap, physical
<1>2. InRing
  BY RingIsQueue DEF BytesOK, BytesInOrder, RingOK, HoldsQueue
<1>3. Pl011TypeOK' /\ InRing' /\ delivered' \in Seq(Bytes)
  BY <1>1, <1>2, DequeueStep DEF BytesOK
<1>4. accepted' \in Seq(Bytes)
  BY <1>1 DEF BytesOK
<1>5. HoldsQueue'
  <2>1. RingOK' /\ InRing'
    BY <1>3, <1>4 DEF RingOK
  <2> QED
    BY <2>1, RingIsQueue, PTL
<1>6. Arrivals' /\ BytesInOrder'
  BY <1>1, <1>5 DEF BytesOK, Arrivals, BytesInOrder, HoldsQueue
<1> QED
  BY <1>1, <1>3, <1>4, <1>6 DEF BytesOK

\* No step loses, repeats or reorders an accepted byte.
LEMMA BytesStep ==
  ASSUME TypeOK, BytesOK, [Next]_vars
  PROVE  BytesOK'
<1>1. CASE ByteArrives
  BY <1>1, ByteArrivesStep
<1>2. CASE DrainByte
  BY <1>2, DrainByteStep
<1>3. CASE GuestReadsData
  BY <1>3, GuestReadsDataStep
<1>4. CASE GuestWritesImsc
  <2>1. UNCHANGED bytes /\ rxim' \in BOOLEAN
    BY <1>4 DEF GuestWritesImsc, Trap, write_imsc, physical, history, bytes
  <2> QED
    BY <2>1, BytesUnmoved
<1>5. ASSUME UNCHANGED <<pl011, console, arrived, history>> PROVE BytesOK'
  <2>1. UNCHANGED bytes /\ rxim' \in BOOLEAN
    BY <1>5 DEF pl011, history, bytes, TypeOK, Pl011TypeOK
  <2> QED
    BY <2>1, BytesUnmoved
<1>6. CASE TimerFires \/ SgiArrives \/ OtherArrives \/ GuestProgramsTimer
  BY <1>5, <1>6 DEF TimerFires, SgiArrives, OtherArrives, GuestProgramsTimer
<1>7. CASE Enter \/ ExitIrq \/ ExitWithdrawn \/ Spurious \/ ExitUnexpected \/ EmulationPanics
  BY <1>5, <1>7, Zenon DEF Enter, ExitIrq, ExitWithdrawn, Spurious, ExitUnexpected, EmulationPanics,
     physical
<1>8. ASSUME NEW i \in Interrupts, Acknowledge(i) PROVE BytesOK'
  BY <1>5, <1>8 DEF Acknowledge
<1>9. CASE HandleTimer \/ HandleConsole \/ CompleteConsole \/ HandleManagement \/ HandleOther
  BY <1>5, <1>9 DEF HandleTimer, HandleConsole, CompleteConsole, HandleManagement, HandleOther, physical
<1>10. CASE GuestAcknowledges \/ GuestCompletes \/ GuestTouchesDevice
  BY <1>5, <1>10 DEF GuestAcknowledges, GuestCompletes, GuestTouchesDevice, Trap, physical
<1>11. CASE UNCHANGED vars
  BY <1>5, <1>11 DEF vars, history
<1> QED
  BY <1>1, <1>2, <1>3, <1>4, <1>6, <1>7, <1>8, <1>9, <1>10, <1>11 DEF Next, Host, Guest

-----------------------------------------------------------------------------
(* The theorems.                                                           *)

\* Every step keeps the types.
LEMMA TypeStep ==
  ASSUME TypeOK, BytesOK', [Next]_vars
  PROVE  TypeOK'
<1> DEFINE Places == {"top", "guest", "irq", "handle", "complete", "ended", "stopped"}
           Saved == [timer : LrStates, uart : LrStates]
           Loaded == [timer : LrStates, uart : LrStates, enabled : BOOLEAN]
<1>1. pc' \in Places
  BY Zenon DEF TypeOK, Next, vars, Host, Guest, TimerFires, ByteArrives, SgiArrives, OtherArrives, Enter,
         ExitIrq, ExitWithdrawn, Acknowledge, Spurious, HandleTimer, DrainByte, HandleConsole,
         CompleteConsole, HandleManagement, HandleOther, GuestAcknowledges, GuestCompletes,
         GuestProgramsTimer, Trap, GuestReadsData, GuestWritesImsc, GuestTouchesDevice,
         ExitUnexpected, EmulationPanics
<1>2. timerLine' \in BOOLEAN /\ sgi' \in BOOLEAN /\ other' \in BOOLEAN
  BY Zenon DEF TypeOK, Next, vars, physical, Host, Guest, TimerFires, ByteArrives, SgiArrives,
     OtherArrives, Enter, ExitIrq, ExitWithdrawn, Acknowledge, Spurious, HandleTimer, DrainByte,
     HandleConsole, CompleteConsole, HandleManagement, HandleOther, GuestAcknowledges, GuestCompletes,
     GuestProgramsTimer, Trap, GuestReadsData, GuestWritesImsc, GuestTouchesDevice, ExitUnexpected,
     EmulationPanics
<1>3. active' \subseteq Interrupts /\ running' \in Interrupts \cup {None}
  BY Zenon DEF TypeOK, Next, vars, gic, Host, Guest, TimerFires, ByteArrives, SgiArrives, OtherArrives,
         Enter, ExitIrq, ExitWithdrawn, Acknowledge, Spurious, HandleTimer, EndInterrupt, DrainByte,
         HandleConsole, CompleteConsole, HandleManagement, HandleOther, CompleteHostInterrupt,
         GuestAcknowledges, GuestCompletes, GuestProgramsTimer, Trap, GuestReadsData,
         GuestWritesImsc, GuestTouchesDevice, ExitUnexpected, EmulationPanics
<1>4. vgic' \in Saved /\ gich' \in Loaded
  <2>1. CASE Enter
    BY <2>1, Zenon DEF TypeOK, Enter, QueueUart, LrStates
  <2>2. CASE SaveVirtualCpu
    BY <2>2, Zenon DEF TypeOK, SaveVirtualCpu
  <2>3. CASE HandleTimer
    BY <2>3, Zenon DEF TypeOK, HandleTimer, LrStates
  <2>4. CASE GuestAcknowledges \/ GuestCompletes
    BY <2>4, Zenon DEF TypeOK, GuestAcknowledges, GuestCompletes, LrStates
  <2>5. CASE UNCHANGED <<vgic, gich>>
    BY <2>5 DEF TypeOK
  <2> QED
    BY <2>1, <2>2, <2>3, <2>4, <2>5, Zenon
    DEF Next, vars, Host, Guest, TimerFires, ByteArrives, SgiArrives, OtherArrives, ExitIrq,
        ExitWithdrawn, Acknowledge, Spurious, DrainByte, HandleConsole, CompleteConsole,
        HandleManagement, HandleOther, GuestProgramsTimer, Trap, GuestReadsData, GuestWritesImsc,
        GuestTouchesDevice, ExitUnexpected, EmulationPanics
<1> QED
  BY <1>1, <1>2, <1>3, <1>4 DEF TypeOK, BytesOK

\* IInv is inductive: it holds in every state of run_vcpu_with_mmio.
THEOREM Invariance == Spec => []IInv
<1>1. IInv /\ [Next]_vars => IInv'
  <2> SUFFICES ASSUME IInv, [Next]_vars PROVE IInv'
    OBVIOUS
  <2>1. TypeOK /\ Control /\ TimerHasOneOwner /\ BytesOK
    BY DEF IInv, TypeOK, BytesOK
  <2>2. BytesOK'
    BY <2>1, BytesStep
  <2>3. TypeOK'
    BY <2>1, <2>2, TypeStep
  <2>4. Control' /\ TimerHasOneOwner'
    BY <2>1, ControlStep
  <2> QED
    BY <2>2, <2>3, <2>4 DEF IInv, BytesOK
<1> QED
  BY <1>1, InitialInvariant, PTL DEF Spec

\* handle_irq never meets a second timer interrupt while one is in flight, the
\* physical timer interrupt is never left active without a list register whose
\* completion deactivates it, and everything else that handle_irq acknowledges is
\* completed before the guest runs again.
THEOREM InterruptOwnership == Spec => []InterruptsHaveOwners
<1>1. IInv => NothingLeftActive
  BY DEF IInv, TypeOK, Control, NothingLeftActive, None, Interrupts
<1>2. IInv => InterruptsHaveOwners
  BY <1>1 DEF IInv, InterruptsHaveOwners
<1> QED
  BY <1>2, Invariance, PTL

\* The ring of VirtualPl011, of any capacity, is a queue: the guest reads the
\* accepted bytes in the order of their arrival.
THEOREM RingKeepsOrder == Spec => []BytesInOrder
<1>1. IInv => BytesInOrder
  BY DEF IInv
<1> QED
  BY <1>1, Invariance, PTL

\* Exits and re-entries neither drop nor repeat a virtual interrupt.
THEOREM ExitsKeepInterrupts == Spec => InterruptsSurviveExits
<1> DEFINE Kept(i) ==
             \/ Lr(i)' = Lr(i)
             \/ Lr(i) = "inactive" /\ Lr(i)' = "pending" /\ pc # "guest"
             \/ Lr(i) = "pending" /\ Lr(i)' = "active" /\ pc = "guest"
             \/ Lr(i) = "active" /\ Lr(i)' = "inactive" /\ pc = "guest"
           Step == \A i \in {"timer", "uart"} : Kept(i)
<1>1. IInv /\ [Next]_vars => [Step]_vars
  <2> SUFFICES ASSUME TypeOK, Control, TimerHasOneOwner, Next PROVE Step
    BY DEF IInv
  <2> USE DEF Lr
  <2>1. CASE UNCHANGED <<pc, vgic, gich>>
    BY <2>1
  <2>2. CASE Enter
    BY <2>2 DEF TypeOK, Enter, QueueUart, LrStates, in_flight
  <2>3. CASE pc = "guest" /\ pc' # "guest" /\ SaveVirtualCpu
    BY <2>3 DEF TypeOK, SaveVirtualCpu
  <2>4. CASE HandleTimer
    BY <2>4 DEF TypeOK, HandleTimer, LrStates, in_flight
  <2>5. CASE pc # "guest" /\ pc' # "guest" /\ UNCHANGED vgic
    BY <2>5
  <2>6. CASE GuestAcknowledges \/ GuestCompletes
    BY <2>6, Zenon DEF TypeOK, GuestAcknowledges, GuestCompletes
  <2> QED
    BY <2>1, <2>2, <2>3, <2>4, <2>5, <2>6, Zenon
    DEF Next, Host, Guest, TimerFires, ByteArrives, SgiArrives, OtherArrives, ExitIrq,
        ExitWithdrawn, Acknowledge, Spurious, DrainByte, HandleConsole, CompleteConsole,
        HandleManagement, HandleOther, GuestProgramsTimer, Trap, GuestReadsData, GuestWritesImsc,
        GuestTouchesDevice, ExitUnexpected, EmulationPanics
<1> QED
  BY <1>1, Invariance, PTL DEF Spec, InterruptsSurviveExits

-----------------------------------------------------------------------------
(* Arithmetic of the layout. *)

\* A remainder is below the modulus, and the rest is a multiple.
LEMMA DivMod ==
    ASSUME NEW v \in Nat, NEW a \in Nat \ {0}
    PROVE  /\ v \div a \in Nat /\ v % a \in Nat /\ v % a < a
           /\ v = a * (v \div a) + (v % a)
<1>1. v \div a \in Int /\ v % a \in 0 .. (a - 1)
    OBVIOUS
<1>2. v = a * (v \div a) + (v % a)
    OBVIOUS
<1> DEFINE d == v \div a
           m == v % a
<1>3. d \in Int /\ m \in 0 .. (a - 1) /\ v = a * d + m
    BY <1>1, <1>2
<1> HIDE DEF d, m
<1>4. d <= 0 - 1 => a * d <= 0 - a
    BY <1>3
<1>5. d \in Nat
    BY <1>3, <1>4
<1> QED
    BY <1>3, <1>5 DEF d, m

\* A multiple leaves no remainder.
LEMMA MultipleMod ==
    ASSUME NEW k \in Nat, NEW a \in Nat \ {0}
    PROVE  (a * k) % a = 0
<1> DEFINE v == a * k
           d == v \div a
           m == v % a
<1>1. v \in Nat
    OBVIOUS
<1>2. d \in Nat /\ m \in Nat /\ m < a /\ v = a * d + m
    BY <1>1, DivMod
<1>3. a * k = a * d + m
    BY <1>2
<1> HIDE DEF v, d, m
<1>4. a * (k - d) = m
    BY <1>2, <1>3
<1>5. k - d >= 1 => a * (k - d) >= a
    BY <1>2
<1>6. k - d <= 0 - 1 => a * (k - d) <= 0 - a
    BY <1>2
<1>7. k - d = 0
    BY <1>2, <1>4, <1>5, <1>6
<1>8. m = 0
    BY <1>2, <1>4, <1>7
<1> QED
    BY <1>8 DEF m, v

\* checked_add is the sum, when it is not an error.
LEMMA CheckedAdd ==
    ASSUME NEW a \in Nat, NEW b \in Nat
    PROVE  checked_add(a, b) = Err \/ checked_add(a, b) = a + b
    BY DEF checked_add

\* Sums of addresses and sizes, for the provers without arithmetic.
LEMMA SumInNat == \A a, b \in Nat : a + b \in Nat /\ a + b >= a
    OBVIOUS

\* The comparison the code refuses on, the other way round.
LEMMA NotAbove == \A a, b \in Nat : ~(a > b) => a <= b
    OBVIOUS

\* The element of a list of one.
LEMMA OneElement == \A x : \A i \in DOMAIN <<x>> : <<x>>[i] = x
    OBVIOUS

\* An address is not the error.
LEMMA NotErr == \A v \in Int : v # Err
    BY SizesAssumption

\* align_up: the next multiple.
LEMMA AlignUp ==
    ASSUME NEW v \in Nat, NEW a \in Nat \ {0}, align_up(v, a) # Err
    PROVE  align_up(v, a) \in Nat /\ align_up(v, a) >= v /\ align_up(v, a) % a = 0
<1> DEFINE r == v % a
           q == v \div a
<1>1. r \in Nat /\ r < a /\ q \in Nat /\ v = a * q + r
    BY DivMod
<1>2. CASE r = 0
    BY <1>2, NotErr DEF align_up
<1>3. CASE r # 0
    <2>1. a - r \in Nat
        BY <1>1
    <2>2. align_up(v, a) = checked_add(v, a - r)
        BY <1>3, NotErr DEF align_up
    <2>3. align_up(v, a) = v + (a - r)
        BY <2>1, <2>2, CheckedAdd
    <2> HIDE DEF r, q
    <2>4. v + (a - r) = a * (q + 1)
        BY <1>1
    <2>5. q + 1 \in Nat
        BY <1>1
    <2>6. (a * (q + 1)) % a = 0
        BY <2>5, MultipleMod
    <2> QED
        BY <1>1, <2>1, <2>3, <2>4, <2>6
<1> QED
    BY <1>2, <1>3

\* align_down: at most one alignment below.
LEMMA AlignDown ==
    ASSUME NEW v \in Nat, NEW a \in Nat \ {0}
    PROVE  /\ align_down(v, a) = v - (v % a)
           /\ align_down(v, a) \in Nat /\ align_down(v, a) <= v /\ v - a < align_down(v, a)
<1>1. align_down(v, a) = v - (v % a)
    BY NotErr DEF align_down
<1>2. v % a \in Nat /\ v % a < a /\ v - (v % a) >= 0
    BY DivMod
<1> QED
    BY <1>1, <1>2

\* align_down of an address a whole number of alignments up.
LEMMA AlignDownShift ==
    ASSUME NEW v \in Nat, NEW k \in Nat, NEW a \in Nat \ {0}
    PROVE  align_down(a * k + v, a) = a * k + align_down(v, a)
<1> DEFINE w == a * k + v
           q == v \div a
           r == v % a
           d == w \div a
           m == w % a
<1>0. a * k \in Nat /\ w \in Nat
    OBVIOUS
<1>1. r \in Nat /\ r < a /\ q \in Nat /\ v = a * q + r
    BY DivMod
<1>2. m \in Nat /\ m < a /\ d \in Nat /\ w = a * d + m
    BY <1>0, DivMod
<1>3. align_down(v, a) = v - r
    BY AlignDown, Zenon
<1>a. align_down(w, a) = w - m
    <2> HIDE DEF w
    <2> QED
        BY <1>0, AlignDown, Zenon
<1>4. a * k + v = a * d + m
    BY <1>2
<1> HIDE DEF w, q, r, d, m
<1>5. a * (k + q - d) = m - r
    BY <1>1, <1>2, <1>4
<1>6. k + q - d >= 1 => a * (k + q - d) >= a
    BY <1>1, <1>2
<1>7. k + q - d <= 0 - 1 => a * (k + q - d) <= 0 - a
    BY <1>1, <1>2
<1>8. k + q - d = 0
    BY <1>1, <1>2, <1>5, <1>6, <1>7
<1>9. m = r
    BY <1>1, <1>2, <1>5, <1>8
<1>10. align_down(w, a) = a * k + align_down(v, a)
    <2> DEFINE p == a * k
    <2>1. w = p + v /\ p \in Nat
        BY <1>0 DEF w
    <2> HIDE DEF p
    <2>2. align_down(w, a) = p + align_down(v, a)
        BY <1>1, <1>2, <1>3, <1>a, <1>9, <2>1
    <2> QED
        BY <2>2 DEF p
<1> QED
    BY <1>10 DEF w

\* An error of an operand is an error of the sum.
LEMMA CheckedAddStrict ==
    ASSUME NEW a, NEW b, checked_add(a, b) # Err
    PROVE  a # Err /\ b # Err
    BY Zenon DEF checked_add

\* The parts of a layout: d is where the device tree goes, p the initrd.
Parts(l, image, ram, d, p) ==
    /\ l = [image |-> Region(ram.start + image.text_offset, image.image_size),
            dtb |-> Region(d, DtbCapacity), initrd |-> p,
            pc |-> ram.start + image.text_offset, x0 |-> d]
    /\ d % DtbAlign = 0 /\ ram.start + image.text_offset + image.image_size <= d
    /\ d + DtbCapacity <= ram.start + ram.size
    /\ p.start % PageSize = 0
    /\ \/ p = Region(0, 0)
       \/ d + DtbCapacity <= p.start /\ p.start + p.size <= ram.start + ram.size

ImageNumbers(image) == image.len \in Nat /\ image.text_offset \in Nat /\ image.image_size \in Nat

\* A layout that is not an error has its parts in order.
LEMMA LayoutValue ==
    ASSUME NEW image, ImageNumbers(image), NEW ram \in Regions, NEW initrd \in Nat,
           LinuxBootLayout(image, ram, initrd) # Err
    PROVE  \E d \in Nat, p \in Regions : Parts(LinuxBootLayout(image, ram, initrd), image, ram, d, p)
<1>0. /\ image.len \in Nat /\ image.text_offset \in Nat /\ image.image_size \in Nat
      /\ ram.start \in Nat /\ ram.size \in Nat
    BY Zenon DEF ImageNumbers, Regions
<1> DEFINE l == LinuxBootLayout(image, ram, initrd)
           header == parse(image)
           ram_end == checked_add(ram.start, ram.size)
           image_ipa == checked_add(ram.start, header.text_offset)
           image_end == checked_add(image_ipa, header.image_size)
           dtb_ipa == align_up(image_end, DtbAlign)
           dtb_end == checked_add(dtb_ipa, DtbCapacity)
           place == IF initrd = 0 THEN Region(0, 0) ELSE initrd_region(dtb_end, ram_end, initrd)
<1>1. /\ header # Err /\ ram_end # Err /\ image_end # Err /\ ~(image_end > ram_end)
      /\ dtb_end # Err /\ ~(dtb_end > ram_end) /\ place # Err
      /\ l = [image |-> Region(image_ipa, header.image_size), dtb |-> Region(dtb_ipa, DtbCapacity),
              initrd |-> place, pc |-> image_ipa, x0 |-> dtb_ipa]
    BY Zenon DEF LinuxBootLayout
<1>2. header = [text_offset |-> image.text_offset, image_size |-> image.image_size, low |-> image.low]
    BY <1>1, Zenon DEF parse
<1>3. header.text_offset = image.text_offset /\ header.image_size = image.image_size
    BY <1>2
<1> HIDE DEF header
<1>4. ram_end = ram.start + ram.size
    BY <1>0, <1>1, CheckedAdd, Zenon
<1>5. image_ipa # Err /\ dtb_ipa # Err
    BY <1>1, CheckedAddStrict, Zenon
<1>6. image_ipa = ram.start + image.text_offset
    BY <1>0, <1>3, <1>5, CheckedAdd
<1> HIDE DEF image_ipa
<1>7. image_end = image_ipa + image.image_size /\ image_ipa \in Nat
    <2>1. image_ipa \in Nat
        BY <1>0, <1>6, SumInNat, Zenon
    <2> QED
        BY <1>0, <1>1, <1>3, <2>1, CheckedAdd, Zenon
<1> HIDE DEF image_end
<1>8. dtb_ipa \in Nat /\ dtb_ipa >= image_end /\ dtb_ipa % DtbAlign = 0
    BY <1>0, <1>5, <1>7, AlignUp, SizesAssumption
<1> HIDE DEF dtb_ipa
<1>9. dtb_end = dtb_ipa + DtbCapacity /\ dtb_end \in Nat
    <2>1. DtbCapacity \in Nat
        BY SizesAssumption, Zenon
    <2> QED
        BY <1>1, <1>8, <2>1, CheckedAdd, SumInNat, Zenon
<1> HIDE DEF dtb_end, ram_end
<1>10. dtb_end <= ram_end
    <2>1. ram_end \in Nat
        BY <1>0, <1>4, SumInNat, Zenon
    <2> QED
        BY <1>1, <1>9, <2>1, NotAbove, Zenon
<1>11. /\ place \in Regions /\ place.start % PageSize = 0
       /\ place = Region(0, 0) \/ (dtb_end <= place.start /\ place.start + place.size <= ram_end)
    <2>1. CASE initrd = 0
        <3>1. place = Region(0, 0)
            BY <2>1
        <3>2. 0 % PageSize = 0
            BY SizesAssumption
        <3> QED
            BY <3>1, <3>2 DEF Region, Regions
    <2>2. CASE initrd # 0
        <3> DEFINE ipa == align_up(dtb_end, PageSize)
                   size == align_up(initrd, PageSize)
                   end == checked_add(ipa, size)
        <3>1. end # Err /\ ~(end > ram_end) /\ place = Region(ipa, initrd)
            BY <1>1, <2>2, Zenon DEF initrd_region
        <3>2. ipa # Err /\ size # Err
            BY <3>1, CheckedAddStrict, Zenon
        <3>3. /\ ipa \in Nat /\ ipa >= dtb_end /\ ipa % PageSize = 0
            BY <1>9, <3>2, AlignUp, SizesAssumption
        <3>4. size \in Nat /\ size >= initrd
            BY <3>2, AlignUp, SizesAssumption
        <3> HIDE DEF ipa, size
        <3>5. end = ipa + size
            BY <3>1, <3>3, <3>4, CheckedAdd
        <3>6. ipa + initrd <= ram_end
            BY <1>0, <1>4, <3>1, <3>3, <3>4, <3>5
        <3>7. place.start = ipa /\ place.size = initrd /\ place \in Regions
            BY <3>1, <3>3 DEF Region, Regions
        <3> HIDE DEF place
        <3> QED
            BY <3>3, <3>6, <3>7
    <2> QED
        BY <2>1, <2>2, Zenon
<1> HIDE DEF place
<1>12. l = [image |-> Region(ram.start + image.text_offset, image.image_size),
            dtb |-> Region(dtb_ipa, DtbCapacity), initrd |-> place,
            pc |-> ram.start + image.text_offset, x0 |-> dtb_ipa]
    BY <1>1, <1>3, <1>6
<1>13. /\ ram.start + image.text_offset + image.image_size <= dtb_ipa
       /\ dtb_ipa + DtbCapacity <= ram.start + ram.size
    BY <1>0, <1>4, <1>6, <1>7, <1>8, <1>9, <1>10
<1>14. \/ place = Region(0, 0)
       \/ dtb_ipa + DtbCapacity <= place.start /\ place.start + place.size <= ram.start + ram.size
    BY <1>4, <1>9, <1>11
<1> QED
    BY <1>8, <1>11, <1>12, <1>13, <1>14, Zenon DEF Parts

\* The parts of a layout are in RAM, and apart.
LEMMA LayoutSound ==
    ASSUME NEW image, ImageNumbers(image), input.ram \in Regions, NEW l,
           NEW d \in Nat, NEW p \in Regions, Parts(l, image, input.ram, d, p)
    PROVE  LayoutIsSound(l)
<1> DEFINE begin == input.ram.start + image.text_offset
           size == image.image_size
           I == Addresses(Region(begin, image.image_size))
           D == Addresses(Region(d, DtbCapacity))
           P == Addresses(p)
           rs == input.ram.start
           re == input.ram.start + input.ram.size
           ps == p.start
           pe == p.start + p.size
<1>1. /\ l = [image |-> Region(begin, size), dtb |-> Region(d, DtbCapacity), initrd |-> p,
              pc |-> begin, x0 |-> d]
      /\ d % DtbAlign = 0 /\ p.start % PageSize = 0
      /\ begin + size <= d /\ d + DtbCapacity <= re
      /\ p = Region(0, 0) \/ (d + DtbCapacity <= ps /\ pe <= re)
    BY Zenon DEF Parts
<1>2. /\ begin \in Nat /\ size \in Nat /\ begin >= rs /\ DtbCapacity \in Nat
      /\ rs \in Nat /\ re \in Nat /\ ps \in Nat /\ pe \in Nat
    <2>1. /\ input.ram.start \in Nat /\ input.ram.size \in Nat /\ p.start \in Nat /\ p.size \in Nat
          /\ image.text_offset \in Nat /\ image.image_size \in Nat /\ DtbCapacity \in Nat
        BY SizesAssumption, Zenon DEF Regions, ImageNumbers
    <2> QED
        BY <2>1, SumInNat, Zenon
<1>3. /\ I = begin .. (begin + size - 1) /\ D = d .. (d + DtbCapacity - 1)
      /\ P = ps .. (pe - 1) /\ Ram = rs .. (re - 1)
    <2>1. I = begin .. (begin + size - 1) /\ D = d .. (d + DtbCapacity - 1)
        BY Zenon DEF Addresses, Region
    <2>2. P = ps .. (pe - 1)
        BY DEF Addresses, Regions
    <2>3. Ram = rs .. (re - 1)
        BY DEF Addresses, Ram, Regions
    <2> QED
        BY <2>1, <2>2, <2>3, Zenon
<1>4. pe <= 0 \/ (d + DtbCapacity <= ps /\ pe <= re)
    <2>1. CASE p = Region(0, 0)
        <3>1. p.start = 0 /\ p.size = 0
            BY <2>1, Zenon DEF Region
        <3> QED
            BY <3>1
    <2> QED
        BY <1>1, <2>1, Zenon
<1>5. begin + size <= d /\ d + DtbCapacity <= re
    BY <1>1, Zenon
<1> HIDE DEF begin, size, I, D, P, rs, re, ps, pe
<1>6. I \cap D = {} /\ I \cap P = {} /\ D \cap P = {}
    BY <1>2, <1>3, <1>4, <1>5
<1>7. I \subseteq Ram /\ D \subseteq Ram /\ P \subseteq Ram
    BY <1>2, <1>3, <1>4, <1>5
<1>8. /\ Addresses(l.image) = I /\ Addresses(l.dtb) = D /\ Addresses(l.initrd) = P
      /\ l.dtb.start = d /\ l.initrd = p
    BY <1>1, Zenon DEF I, D, P, Region, size
<1>9. Disjoint({l.image, l.dtb, l.initrd})
    <2>1. D \cap I = {} /\ P \cap I = {} /\ P \cap D = {}
        BY <1>6, Zenon
    <2>2. ASSUME NEW r \in {l.image, l.dtb, l.initrd}, NEW s \in {l.image, l.dtb, l.initrd}, r # s
          PROVE  Addresses(r) \cap Addresses(s) = {}
        <3>1. CASE r = l.image
            BY <1>6, <1>8, <2>2, <3>1, Zenon
        <3>2. CASE r = l.dtb
            BY <1>6, <1>8, <2>1, <2>2, <3>2, Zenon
        <3>3. CASE r = l.initrd
            BY <1>8, <2>1, <2>2, <3>3, Zenon
        <3> QED
            BY <2>2, <3>1, <3>2, <3>3, Zenon
    <2> QED
        BY <2>2, Zenon DEF Disjoint
<1>10. \A r \in {l.image, l.dtb, l.initrd} : Addresses(r) \subseteq Ram
    BY <1>7, <1>8, Zenon
<1>11. Aligned(l.dtb.start, DtbAlign) /\ Aligned(l.initrd.start, PageSize)
    BY <1>1, <1>8, Zenon DEF Aligned
<1> QED
    BY <1>9, <1>10, <1>11, Zenon DEF LayoutIsSound

\* The pages of a device in its window: whole pages, the device at its offset.
PagesOfDevice(m, window, device) ==
    /\ m.device = device /\ m.mapping_size \in Nat /\ m.mapped_pa \in Nat
    /\ m.mapping_size <= window.size
    /\ m.device_ipa = window.start + (device.start % PageSize)
    /\ m.mapped_pa = align_down(device.start, PageSize)
    /\ m.mapped_pa + (device.start % PageSize) = device.start
    /\ (device.start % PageSize) + device.size <= m.mapping_size
    /\ m.mapped_pa + m.mapping_size
         = align_down(device.start + device.size + PageSize - 1, PageSize)

\* A device that was placed in its window, page by page.
LEMMA MappingValue ==
    ASSUME NEW window \in Regions, NEW device \in Regions, NEW m,
           m = map_device_into_window(window, device), m # Err
    PROVE  PagesOfDevice(m, window, device)
<1> DEFINE offset == device.start % PageSize
           some == checked_add(offset, device.size)
           required == checked_add(some, PageSize - 1)
           size == align_down(required, PageSize)
           ipa == checked_add(window.start, offset)
           k == device.start \div PageSize
<1>0. /\ device.start \in Nat /\ device.size \in Nat /\ window.start \in Nat /\ window.size \in Nat
      /\ PageSize \in Nat \ {0} /\ PageSize - 1 \in Nat
    BY SizesAssumption DEF Regions
<1>1. /\ required # Err /\ ipa # Err /\ ~(size > window.size)
      /\ m = [device_ipa |-> ipa, device |-> device, mapped_pa |-> device.start - offset,
              mapping_size |-> size]
    BY Zenon DEF map_device_into_window
<1>2. offset \in Nat /\ k \in Nat /\ device.start = PageSize * k + offset
    <2> DEFINE v == device.start
    <2>1. v \in Nat
        BY <1>0
    <2> HIDE DEF v
    <2>2. v \div PageSize \in Nat /\ v % PageSize \in Nat
          /\ v = PageSize * (v \div PageSize) + (v % PageSize)
        BY <1>0, <2>1, DivMod
    <2> QED
        BY <2>2, Zenon DEF v
<1> HIDE DEF offset, k
<1>3. ipa = window.start + offset
    BY <1>0, <1>1, <1>2, CheckedAdd, Zenon
<1>4. some # Err
    BY <1>1, CheckedAddStrict, Zenon
<1>5. some = offset + device.size /\ some \in Nat
    BY <1>0, <1>2, <1>4, CheckedAdd
<1> HIDE DEF some
<1>6. required = some + (PageSize - 1) /\ required \in Nat
    <2>1. required = some + (PageSize - 1)
        BY <1>0, <1>1, <1>5, CheckedAdd, Zenon
    <2> QED
        BY <1>0, <1>5, <2>1, SumInNat, Zenon
<1> HIDE DEF required
<1>7. size \in Nat /\ size <= required /\ required - PageSize < size
    BY <1>0, <1>6, AlignDown
<1>8. align_down(PageSize * k + required, PageSize) = PageSize * k + size
    BY <1>0, <1>2, <1>6, AlignDownShift
<1> HIDE DEF size
<1> DEFINE p == PageSize * k
<1>9. p \in Nat /\ device.start = p + offset /\ align_down(p + required, PageSize) = p + size
    BY <1>0, <1>2, <1>8
<1>10. align_down(device.start, PageSize) = p
    <2>1. align_down(device.start, PageSize) = device.start - offset
        BY <1>0, AlignDown, Zenon DEF offset
    <2> HIDE DEF p
    <2> QED
        BY <1>2, <1>9, <2>1
<1> HIDE DEF p
<1>11. p + required = device.start + device.size + PageSize - 1
    BY <1>0, <1>2, <1>5, <1>6, <1>9
<1>12. size <= window.size /\ offset + device.size <= size
    <2>1. \A z, r, t, g \in Nat : r = t + (g - 1) /\ r - g < z => t <= z
        OBVIOUS
    <2> QED
        BY <1>0, <1>1, <1>5, <1>6, <1>7, <2>1, NotAbove, Zenon
<1>13. device.start - offset = p
    BY <1>2, <1>9
<1>14. /\ m.device = device /\ m.mapping_size = size /\ m.mapped_pa = p
       /\ m.device_ipa = window.start + offset
    <2> DEFINE new == [device_ipa |-> ipa, device |-> device, mapped_pa |-> device.start - offset,
                       mapping_size |-> size]
    <2>1. /\ new.device = device /\ new.mapping_size = size
          /\ new.mapped_pa = device.start - offset /\ new.device_ipa = ipa
        BY Zenon
    <2>2. m = new
        BY <1>1, Zenon
    <2> HIDE DEF new, ipa
    <2> QED
        BY <1>3, <1>13, <2>1, <2>2
<1>15. p + offset = device.start
    BY <1>9
<1>16. p + size = align_down(device.start + device.size + PageSize - 1, PageSize)
    BY <1>9, <1>11, Zenon
<1> QED
    BY <1>7, <1>9, <1>10, <1>12, <1>14, <1>15, <1>16, Zenon DEF offset, PagesOfDevice

\* One region ends before the other begins.
Separate(r, s) == r.start + r.size <= s.start \/ s.start + s.size <= r.start

\* The guest's address map: RAM, distributor, CPU interface and console are apart.
LEMMA ValidateValue ==
    ASSUME NEW ram \in Regions, NEW windows \in Seq(Regions), Len(windows) = 3,
           validate(<<ram>> \o windows)
    PROVE  /\ Separate(ram, windows[1]) /\ Separate(ram, windows[2]) /\ Separate(ram, windows[3])
           /\ Separate(windows[1], windows[2]) /\ Separate(windows[2], windows[3])
<1> DEFINE all == <<ram>> \o windows
<1>1. /\ all \in Seq(Regions) /\ Len(all) = 4 /\ DOMAIN all = 1 .. 4
      /\ all[1] = ram /\ all[2] = windows[1] /\ all[3] = windows[2] /\ all[4] = windows[3]
      /\ \A i \in 1 .. 4 : all[i] \in Regions
    <2> DEFINE one == <<ram>>
    <2>1. one \in Seq(Regions) /\ Len(one) = 1 /\ one[1] = ram
        OBVIOUS
    <2> HIDE DEF one
    <2>a. all = one \o windows
        BY Zenon DEF one
    <2> HIDE DEF all
    <2>b. /\ all \in Seq(Regions) /\ Len(all) = Len(one) + Len(windows)
          /\ \A i \in 1 .. Len(one) + Len(windows) :
                all[i] = IF i <= Len(one) THEN one[i] ELSE windows[i - Len(one)]
        BY <2>1, <2>a, ConcatProperties, Zenon
    <2>2. all \in Seq(Regions) /\ Len(all) = 4
        BY <2>1, <2>b
    <2>3. \A i \in 1 .. 4 : all[i] = IF i <= 1 THEN one[i] ELSE windows[i - 1]
        BY <2>1, <2>b
    <2>4. all[1] = ram /\ all[2] = windows[1] /\ all[3] = windows[2] /\ all[4] = windows[3]
        BY <2>1, <2>3
    <2>5. DOMAIN all = 1 .. 4
        BY <2>2, LenProperties
    <2>6. \A i \in 1 .. 4 : all[i] \in Regions
        BY <2>2, ElementOfSeq, Zenon
    <2> QED
        BY <2>2, <2>4, <2>5, <2>6, Zenon
<1>2. \A i \in 1 .. 4 : End(all[i]) # Err /\ \A j \in (i + 1) .. 4 : ~overlaps(all[i], all[j])
    <2> HIDE DEF all
    <2>1. validate(all)
        BY DEF all
    <2> QED
        BY <1>1, <2>1, Zenon DEF validate
<1> HIDE DEF all
<1>3. ASSUME NEW r \in Regions, NEW s \in Regions, End(r) # Err, End(s) # Err, ~overlaps(r, s)
      PROVE  Separate(r, s)
    <2>1. r.start \in Nat /\ r.size \in Nat /\ s.start \in Nat /\ s.size \in Nat
        BY DEF Regions
    <2>2. End(r) = r.start + r.size /\ End(s) = s.start + s.size
        BY <1>3, <2>1, CheckedAdd DEF End
    <2> QED
        BY <1>3, <2>1, <2>2 DEF overlaps, Separate
<1>4. ASSUME NEW i \in 1 .. 4, NEW j \in (i + 1) .. 4 PROVE Separate(all[i], all[j])
    <2>1. j \in 1 .. 4
        OBVIOUS
    <2> QED
        BY <1>1, <1>2, <1>3, <2>1, Zenon
<1>5. /\ 1 \in 1 .. 4 /\ 2 \in 1 .. 4 /\ 3 \in 1 .. 4
      /\ 2 \in (1 + 1) .. 4 /\ 3 \in (1 + 1) .. 4 /\ 4 \in (1 + 1) .. 4
      /\ 3 \in (2 + 1) .. 4 /\ 4 \in (3 + 1) .. 4
    OBVIOUS
<1> QED
    BY <1>1, <1>4, <1>5, Zenon

-----------------------------------------------------------------------------
(* The inductive invariant. *)

\* The steps of run_guest in order, up to a point.
Entered == {"guest"}
Installed == Entered \cup {"invalidate"}
Mapped == Installed \cup {"registers", "install"}
Rooted == Mapped \cup {"map", "device"}
Cleaned == Rooted \cup {"root"}
Described == Cleaned \cup {"clean"}
Loaded == Described \cup {"dtb"}
Allocated == Loaded \cup {"load"}
Placed == Allocated \cup {"ram"}
LaidOut == Placed \cup {"interrupts", "platform"}
Unmapped == {"layout"} \cup (LaidOut \ (Mapped \cup {"device"}))
TakenDown == {"deactivate", "release", "returned"}

LaunchTypes ==
    /\ input \in Inputs /\ in_use \in Nat
    /\ step \in LaidOut \cup TakenDown \cup {"layout"}

\* What a region of the guest translates to.
Mapping(start, pa, size) == {[ipa |-> start + i, pa |-> pa + i] : i \in 0 .. (size - 1)}
RamMapping == Mapping(input.ram.start, RamPa, input.ram.size)
DeviceMapping == Mapping(Gicv(input).start, mapping.mapped_pa, mapping.mapping_size)

\* The addresses of the device tree.
TreeAddresses == Addresses(Region(layout.dtb.start, input.dtb_bytes))

\* The parts that have been worked out are the ones that the inputs give.
SetupInv ==
    /\ step \in LaidOut => layout = LinuxBootLayout(input.image, input.ram, 0) /\ layout # Err
    /\ step \in Placed => /\ validate(<<input.ram>> \o input.windows)
                          /\ mapping = map_device_into_window(Gicv(input), input.gicv)
                          /\ mapping # Err
    /\ step \in Described => dtb = build_guest_dtb(GuestFdtConfig, input.dtb_bytes) /\ dtb # Err

\* What is in RAM: first in the caches, then beyond them.
ContentsInv ==
    /\ step \in Allocated => DOMAIN view = Ram /\ DOMAIN poc = Ram
    /\ step \in Loaded => \A a \in Addresses(layout.image) :
                              view[a] = LoadedImage(a, layout.image, input.image.len)
    /\ step \in Described => \A a \in TreeAddresses : view[a] = Tree
    /\ step \in Cleaned => \A a \in Addresses(layout.image) \cup TreeAddresses : poc[a] = view[a]

\* The tables have exactly the regions that were mapped, and the TLB what the tables have.
TablesInv ==
    /\ step \in Unmapped => stage2 = {}
    /\ step = "device" => stage2 = RamMapping
    /\ step \in Mapped => stage2 = RamMapping \cup DeviceMapping
    /\ step \in Entered => \A e \in tlb : [ipa |-> e.ipa, pa |-> e.pa] \in stage2

\* Stage 2 is on from the step that also notes that it is to be switched off, and there are pages
\* in use meanwhile.
ActivationInv ==
    /\ \A e \in tlb : e.vmid = VmId
    /\ step \in Rooted => in_use > 0
    /\ step \in Installed => vmid = VmId
    /\ need_deactivate => step \in Entered \cup TakenDown
    /\ ~need_deactivate => ~vm /\ step \notin Entered
    /\ (step = "deactivate" /\ need_deactivate) => vmid = VmId /\ in_use > 0
    /\ step \in {"release", "returned"} => ~vm /\ (need_deactivate => tlb = {})
    /\ step = "returned" => in_use = 0

LaunchInv == LaunchTypes /\ SetupInv /\ ContentsInv /\ TablesInv /\ ActivationInv

\* The numbers that the inputs are.
LEMMA InputNumbers ==
    ASSUME LaunchTypes
    PROVE  /\ ImageNumbers(input.image) /\ input.ram \in Regions /\ input.gicv \in Regions
           /\ input.windows \in Seq(Regions) /\ Len(input.windows) = 3
           /\ input.dtb_bytes \in Nat /\ input.pages \in Nat /\ in_use \in Nat
    BY InputsAssumption, Zenon DEF LaunchTypes, ImageNumbers

\* A step of the setup that fails leaves what stage 2 needs to be off.
LEMMA FailStep ==
    ASSUME LaunchInv, step \in (LaidOut \ Entered) \cup {"layout"}, Fail, in_use' \in Nat,
           UNCHANGED <<input, hardware, need_deactivate>>
    PROVE  LaunchInv'
<1>1. step' = "deactivate" /\ step' \notin LaidOut /\ step' \notin Unmapped /\ step' # "device"
    BY Zenon DEF Fail, Entered, Installed, Mapped, Rooted, Cleaned, Described, Loaded, Allocated, Placed,
           LaidOut, TakenDown, Unmapped
<1>2. /\ step' \notin Placed /\ step' \notin Allocated /\ step' \notin Loaded
      /\ step' \notin Described /\ step' \notin Cleaned /\ step' \notin Rooted
      /\ step' \notin Mapped /\ step' \notin Installed /\ step' \notin Entered
      /\ step' \in TakenDown /\ step' \notin {"release", "returned"}
    BY <1>1, Zenon DEF Entered, Installed, Mapped, Rooted, Cleaned, Described, Loaded, Allocated, Placed,
           LaidOut, TakenDown, Unmapped
<1>3. step \notin Entered \cup TakenDown
    BY Zenon DEF Entered, Installed, Mapped, Rooted, Cleaned, Described, Loaded, Allocated, Placed,
           LaidOut, TakenDown, Unmapped
<1>4. ~need_deactivate /\ ~vm /\ \A e \in tlb : e.vmid = VmId
    BY <1>3, Zenon DEF LaunchInv, ActivationInv
<1>5. UNCHANGED <<input, vm, vmid, tlb, need_deactivate>>
    BY Zenon DEF hardware
<1>6. LaunchTypes'
    BY <1>2, <1>5, Zenon DEF LaunchInv, LaunchTypes
<1>7. ActivationInv'
    <2>a. ~need_deactivate' /\ ~vm'
        BY <1>4, <1>5
    <2>b. \A e \in tlb' : e.vmid = VmId
        BY <1>4, <1>5, Zenon
    <2>1. ~need_deactivate' /\ ~vm' /\ \A e \in tlb' : e.vmid = VmId
        BY <2>a, <2>b, Zenon
    <2>2. step' # "returned"
        BY <1>1, Zenon
    <2> QED
        BY <1>2, <2>1, <2>2, Zenon DEF ActivationInv
<1> QED
    BY <1>1, <1>2, <1>6, <1>7, Zenon DEF LaunchInv, SetupInv, ContentsInv, TablesInv

\* While stage 2 stays off.
LEMMA OffStep ==
    ASSUME LaunchInv, step \in (LaidOut \ Entered) \cup {"layout"},
           step' \in LaidOut \ Entered, step' \in Rooted => in_use' > 0,
           step' \in Installed => vmid' = VmId, UNCHANGED <<vm, tlb, need_deactivate>>
    PROVE  ActivationInv'
<1>1. step \notin Entered \cup TakenDown
    BY Zenon DEF Entered, Installed, Mapped, Rooted, Cleaned, Described, Loaded, Allocated, Placed,
           LaidOut, TakenDown, Unmapped
<1>2. ~need_deactivate /\ ~vm /\ \A e \in tlb : e.vmid = VmId
    BY <1>1, Zenon DEF LaunchInv, ActivationInv
<1>3. step' \notin Entered /\ step' # "deactivate" /\ step' \notin {"release", "returned"}
    BY Zenon DEF Entered, Installed, Mapped, Rooted, Cleaned, Described, Loaded, Allocated, Placed,
           LaidOut, TakenDown, Unmapped
<1> QED
    BY <1>2, <1>3, Zenon DEF ActivationInv

\* What was worked out stays.
LEMMA SetupKeeps ==
    ASSUME SetupInv, UNCHANGED <<input, layout, mapping, dtb>>, step' \in LaidOut => step \in LaidOut,
           step' \in Placed => step \in Placed, step' \in Described => step \in Described
    PROVE  SetupInv'
    BY Zenon DEF SetupInv, GuestFdtConfig

\* What is in RAM stays.
LEMMA ContentsKeeps ==
    ASSUME ContentsInv, UNCHANGED <<input, layout, view, poc>>,
           step' \in Allocated => step \in Allocated, step' \in Loaded => step \in Loaded,
           step' \in Described => step \in Described, step' \in Cleaned => step \in Cleaned
    PROVE  ContentsInv'
<1>1. Ram' = Ram /\ TreeAddresses' = TreeAddresses
    BY Zenon DEF Ram, TreeAddresses
<1> QED
    BY <1>1, Zenon DEF ContentsInv, LoadedImage

\* The tables stay.
LEMMA TablesKeep ==
    ASSUME TablesInv, UNCHANGED <<input, stage2>>, mapping' = mapping \/ step' \notin Mapped,
           step' \in Unmapped => step \in Unmapped, step' = "device" => step = "device",
           step' \in Mapped => step \in Mapped, step' \notin Entered
    PROVE  TablesInv'
<1>1. RamMapping' = RamMapping
    BY Zenon DEF RamMapping, Mapping
<1>2. step' \in Mapped => DeviceMapping' = DeviceMapping
    BY Zenon DEF DeviceMapping, Mapping, Gicv
<1> QED
    BY <1>1, <1>2, Zenon DEF TablesInv

\* LinuxBootLayout::default_for_image
LEMMA LayoutStep ==
    ASSUME LaunchInv, DefaultForImage
    PROVE  LaunchInv'
<1>1. /\ step = "layout" /\ layout' = LinuxBootLayout(input.image, input.ram, 0)
      /\ IF layout' = Err THEN Fail ELSE step' = "interrupts"
      /\ UNCHANGED <<input, mapping, contents, in_use, stage2, hardware, need_deactivate>>
    BY Zenon DEF DefaultForImage
<1>2. UNCHANGED <<vm, vmid, tlb>> /\ in_use \in Nat /\ input \in Inputs
    BY <1>1, Zenon DEF hardware, LaunchInv, LaunchTypes
<1>3. CASE layout' = Err
    BY <1>1, <1>2, <1>3, FailStep, Zenon
<1>4. CASE layout' # Err
    <2>1. /\ step' = "interrupts" /\ step' \in LaidOut \ Entered /\ step' \notin Placed
          /\ step' \notin Described /\ step' \notin Allocated /\ step' \notin Loaded
          /\ step' \notin Cleaned /\ step' \notin Rooted /\ step' \notin Installed
          /\ step' \notin Mapped /\ step' # "device" /\ step \in Unmapped
        BY <1>1, <1>4, Zenon DEF Entered, Installed, Mapped, Rooted, Cleaned, Described, Loaded,
           Allocated, Placed, LaidOut, TakenDown, Unmapped
    <2>2. ActivationInv'
        BY <1>1, <1>2, <2>1, OffStep, Zenon
    <2>3. SetupInv'
        BY <1>1, <1>4, <2>1, Zenon DEF SetupInv
    <2>4. TablesInv'
        BY <1>1, <2>1, TablesKeep, Zenon DEF LaunchInv
    <2>5. LaunchTypes' /\ ContentsInv'
        BY <1>1, <1>2, <2>1, Zenon DEF LaunchTypes, ContentsInv
    <2> QED
        BY <2>2, <2>3, <2>4, <2>5, Zenon DEF LaunchInv
<1> QED
    BY <1>3, <1>4

\* A step of the setup that only goes on.
LEMMA OnStep ==
    ASSUME LaunchInv, step \in LaidOut \ Entered, step' \in LaidOut \ Entered,
           in_use' \in Nat, in_use' >= in_use,
           UNCHANGED <<setup, contents, stage2, hardware, need_deactivate>>,
           step' \in Placed => step \in Placed, step' \in Described => step \in Described,
           step' \in Allocated => step \in Allocated, step' \in Loaded => step \in Loaded,
           step' \in Cleaned => step \in Cleaned,
           step' \in Rooted => step \in Rooted \/ in_use' > 0,
           step' \in Installed => step \in Installed,
           step' \in Unmapped => step \in Unmapped, step' = "device" => step = "device",
           step' \in Mapped => step \in Mapped
    PROVE  LaunchInv'
<1>1. UNCHANGED <<input, layout, mapping, view, poc, dtb, vm, vmid, tlb>>
    BY Zenon DEF setup, contents, hardware
<1>2. step \in Rooted => in_use' > 0
    <2>1. in_use \in Nat /\ (step \in Rooted => in_use > 0)
        BY Zenon DEF LaunchInv, LaunchTypes, ActivationInv
    <2> QED
        BY <2>1
<1>3. step' \in Installed => vmid' = VmId
    BY <1>1, Zenon DEF LaunchInv, ActivationInv
<1>4. ActivationInv'
    BY <1>1, <1>2, <1>3, OffStep, Zenon
<1>5. SetupInv'
    BY <1>1, SetupKeeps, Zenon DEF LaunchInv
<1>6. ContentsInv'
    BY <1>1, ContentsKeeps, Zenon DEF LaunchInv
<1>7. TablesInv'
    BY <1>1, TablesKeep, Zenon DEF LaunchInv
<1>8. LaunchTypes'
    BY <1>1, Zenon DEF LaunchInv, LaunchTypes
<1> QED
    BY <1>4, <1>5, <1>6, <1>7, <1>8, Zenon DEF LaunchInv

\* enable_virtual_timer_ppi and gicd_enable_irq
LEMMA InterruptsStep ==
    ASSUME LaunchInv, EnableInterrupts
    PROVE  LaunchInv'
<1>1. /\ step = "interrupts" /\ (step' = "platform" \/ Fail)
      /\ UNCHANGED <<setup, contents, in_use, stage2, hardware, need_deactivate>>
    BY Zenon DEF EnableInterrupts
<1>2. in_use \in Nat /\ step \in LaidOut \ Entered /\ step \in Unmapped
    BY <1>1, Zenon DEF LaunchInv, LaunchTypes, Entered, Installed, Mapped, Rooted, Cleaned, Described,
       Loaded, Allocated, Placed, LaidOut, TakenDown, Unmapped
<1>3. CASE Fail
    BY <1>1, <1>2, <1>3, FailStep, Zenon DEF setup
<1>4. CASE step' = "platform"
    <2>1. in_use' \in Nat /\ in_use' >= in_use
        BY <1>1, <1>2
    <2>2. /\ step' \in LaidOut \ Entered /\ step' \notin Placed
          /\ step' \notin Described /\ step' \notin Allocated /\ step' \notin Loaded
          /\ step' \notin Cleaned /\ step' \notin Rooted /\ step' \notin Installed
          /\ step' \notin Mapped /\ step' # "device"
        BY <1>4, Zenon DEF Entered, Installed, Mapped, Rooted, Cleaned, Described, Loaded, Allocated,
           Placed, LaidOut, TakenDown, Unmapped
    <2> QED
        BY <1>1, <1>2, <2>1, <2>2, OnStep, Zenon
<1> QED
    BY <1>1, <1>3, <1>4

\* LinuxGuestPlatform: the address map, and the CPU interface in its window.
LEMMA PlatformStep ==
    ASSUME LaunchInv, PlacePlatform
    PROVE  LaunchInv'
<1>1. /\ step = "platform"
      /\ mapping' # Err => /\ validate(<<input.ram>> \o input.windows)
                           /\ mapping' = map_device_into_window(Gicv(input), input.gicv)
      /\ IF mapping' = Err THEN Fail ELSE step' = "ram"
      /\ UNCHANGED <<input, layout, contents, in_use, stage2, hardware, need_deactivate>>
    BY Zenon DEF PlacePlatform
<1>2. /\ UNCHANGED <<vm, vmid, tlb>> /\ in_use \in Nat /\ input \in Inputs
      /\ step \in LaidOut \ Entered /\ step \in Unmapped
    BY <1>1, Zenon DEF hardware, LaunchInv, LaunchTypes, Entered, Installed, Mapped, Rooted, Cleaned,
       Described, Loaded, Allocated, Placed, LaidOut, TakenDown, Unmapped
<1>3. CASE mapping' = Err
    BY <1>1, <1>2, <1>3, FailStep, Zenon
<1>4. CASE mapping' # Err
    <2>1. /\ step' \in LaidOut \ Entered /\ step' \notin Rooted /\ step' \notin Installed
          /\ step' \notin Described /\ step' \notin Allocated /\ step' \notin Loaded
          /\ step' \notin Cleaned /\ step' \notin Mapped /\ step' # "device"
        BY <1>1, <1>4, Zenon DEF Entered, Installed, Mapped, Rooted, Cleaned, Described, Loaded,
           Allocated, Placed, LaidOut, TakenDown, Unmapped
    <2>2. ActivationInv'
        BY <1>1, <1>2, <2>1, OffStep, Zenon
    <2>3. SetupInv'
        BY <1>1, <1>2, <1>4, <2>1, Zenon DEF SetupInv, LaunchInv, Gicv
    <2>4. TablesInv'
        BY <1>1, <1>2, <2>1, TablesKeep, Zenon DEF LaunchInv
    <2>5. LaunchTypes' /\ ContentsInv'
        BY <1>1, <1>2, <2>1, Zenon DEF LaunchTypes, ContentsInv
    <2> QED
        BY <2>2, <2>3, <2>4, <2>5, Zenon DEF LaunchInv
<1> QED
    BY <1>3, <1>4

\* Where the Image and the device tree are.
LEMMA LayoutInRam ==
    ASSUME LaunchInv, step \in LaidOut
    PROVE  /\ layout.image.start \in Nat /\ layout.image.size \in Nat /\ layout.dtb.start \in Nat
           /\ layout.pc = layout.image.start /\ layout.x0 = layout.dtb.start
           /\ Addresses(layout.image) \subseteq Ram
           /\ input.dtb_bytes <= DtbCapacity =>
                /\ TreeAddresses \subseteq Ram
                /\ TreeAddresses \cap Addresses(layout.image) = {}
<1>1. /\ ImageNumbers(input.image) /\ input.ram \in Regions /\ input.dtb_bytes \in Nat
    BY InputNumbers, Zenon DEF LaunchInv
<1>2. layout = LinuxBootLayout(input.image, input.ram, 0) /\ layout # Err
    BY Zenon DEF LaunchInv, SetupInv
<1>3. PICK d \in Nat, p \in Regions : Parts(layout, input.image, input.ram, d, p)
    BY <1>1, <1>2, LayoutValue
<1> DEFINE begin == input.ram.start + input.image.text_offset
           size == input.image.image_size
           count == input.dtb_bytes
           rs == input.ram.start
           rz == input.ram.size
<1>4. /\ layout = [image |-> Region(begin, size), dtb |-> Region(d, DtbCapacity), initrd |-> p,
                   pc |-> begin, x0 |-> d]
      /\ begin + size <= d /\ d + DtbCapacity <= rs + rz
    BY <1>3, Zenon DEF Parts
<1>5. /\ begin \in Nat /\ size \in Nat /\ begin >= rs /\ DtbCapacity \in Nat
      /\ rs \in Nat /\ rz \in Nat /\ count \in Nat
    BY <1>1, SizesAssumption DEF Regions, ImageNumbers
<1>6. Ram = rs .. (rs + rz - 1)
    BY Zenon DEF Ram, Addresses
<1>7. /\ layout.image = Region(begin, size) /\ layout.dtb = Region(d, DtbCapacity)
      /\ layout.pc = begin /\ layout.x0 = d
    <2> DEFINE new == [image |-> Region(begin, size), dtb |-> Region(d, DtbCapacity), initrd |-> p,
                       pc |-> begin, x0 |-> d]
    <2>1. new.image = Region(begin, size) /\ new.dtb = Region(d, DtbCapacity) /\ new.pc = begin /\ new.x0 = d
        BY Zenon
    <2>2. layout = new
        BY <1>4, Zenon
    <2> HIDE DEF new
    <2> QED
        BY <2>1, <2>2, Zenon
<1>8. layout.image.start = begin /\ layout.image.size = size /\ layout.dtb.start = d
    BY <1>7 DEF Region
<1>9. Addresses(layout.image) = begin .. (begin + size - 1) /\ TreeAddresses = d .. (d + count - 1)
    BY <1>8, Zenon DEF Addresses, TreeAddresses, Region
<1> HIDE DEF begin, size, count, rs, rz
<1>10. Addresses(layout.image) \subseteq Ram
    BY <1>4, <1>5, <1>6, <1>9
<1>11. count <= DtbCapacity => TreeAddresses \subseteq Ram
    BY <1>4, <1>5, <1>6, <1>9
<1>12. TreeAddresses \cap Addresses(layout.image) = {}
    BY <1>4, <1>5, <1>9
<1> QED
    BY <1>5, <1>7, <1>8, <1>10, <1>11, <1>12, Zenon DEF count

\* A tree that was built fits its place.
LEMMA TreeFits ==
    ASSUME LaunchInv, NEW config, build_guest_dtb(config, input.dtb_bytes) # Err
    PROVE  input.dtb_bytes <= DtbCapacity
<1>1. ~(input.dtb_bytes > DtbCapacity)
    BY Zenon DEF build_guest_dtb
<1>2. input.dtb_bytes \in Nat /\ DtbCapacity \in Nat
    BY InputNumbers, SizesAssumption, Zenon DEF LaunchInv
<1> QED
    BY <1>1, <1>2

\* vm_mem_alloc(GuestRam)
LEMMA RamStep ==
    ASSUME LaunchInv, AllocateRam
    PROVE  LaunchInv'
<1> DEFINE pages == input.ram.size \div PageSize
<1>1. /\ step = "ram"
      /\ \/ /\ step' = "load" /\ in_use' = in_use + pages
            /\ view' = [a \in Ram |-> Zero] /\ poc' = [a \in Ram |-> Old]
         \/ Fail /\ UNCHANGED in_use
      /\ UNCHANGED <<setup, dtb, stage2, hardware, need_deactivate>>
    BY Zenon DEF AllocateRam
<1>2. /\ UNCHANGED <<input, layout, mapping, vm, vmid, tlb>> /\ in_use \in Nat /\ input \in Inputs
      /\ step \in LaidOut \ Entered /\ step \in Unmapped /\ step \in Placed
    BY <1>1, Zenon DEF hardware, setup, LaunchInv, LaunchTypes, Entered, Installed, Mapped, Rooted,
       Cleaned, Described, Loaded, Allocated, Placed, LaidOut, TakenDown, Unmapped
<1>3. CASE Fail /\ UNCHANGED in_use
    BY <1>1, <1>2, <1>3, FailStep, Zenon
<1>4. CASE /\ step' = "load" /\ in_use' = in_use + pages
           /\ view' = [a \in Ram |-> Zero] /\ poc' = [a \in Ram |-> Old]
    <2>1. /\ step' \in LaidOut \ Entered /\ step' \notin Rooted /\ step' \notin Installed
          /\ step' \notin Described /\ step' \in Placed /\ step' \notin Loaded
          /\ step' \notin Cleaned /\ step' \notin Mapped /\ step' # "device"
        BY <1>4, Zenon DEF Entered, Installed, Mapped, Rooted, Cleaned, Described, Loaded, Allocated,
           Placed, LaidOut, TakenDown, Unmapped
    <2>2. in_use' \in Nat
        <3>1. input.ram.size \in Nat
            BY InputNumbers, Zenon DEF LaunchInv, Regions
        <3>2. pages \in Nat
            BY <3>1, DivMod, SizesAssumption, Zenon
        <3> HIDE DEF pages
        <3> QED
            BY <1>2, <1>4, <3>2
    <2>3. ActivationInv'
        BY <1>1, <1>2, <2>1, OffStep, Zenon
    <2>4. SetupInv'
        BY <1>1, <1>2, <2>1, SetupKeeps, Zenon DEF LaunchInv
    <2>5. TablesInv'
        BY <1>1, <1>2, <2>1, TablesKeep, Zenon DEF LaunchInv
    <2>6. Ram' = Ram
        BY <1>2, Zenon DEF Ram
    <2>7. ContentsInv'
        BY <1>4, <2>1, <2>6, Zenon DEF ContentsInv
    <2>8. LaunchTypes'
        BY <1>2, <2>1, <2>2, Zenon DEF LaunchTypes
    <2> QED
        BY <2>3, <2>4, <2>5, <2>7, <2>8, Zenon DEF LaunchInv
<1> QED
    BY <1>1, <1>3, <1>4, Zenon

\* load_linux_image
LEMMA LoadStep ==
    ASSUME LaunchInv, LoadImage
    PROVE  LaunchInv'
<1>1. /\ step = "load" /\ step' = "dtb"
      /\ view' = [a \in Ram |-> IF a \in Addresses(layout.image)
                                THEN LoadedImage(a, layout.image, input.image.len) ELSE view[a]]
      /\ UNCHANGED <<setup, poc, dtb, in_use, stage2, hardware, need_deactivate>>
    BY Zenon DEF LoadImage
<1>2. /\ UNCHANGED <<input, layout, mapping, vm, vmid, tlb>> /\ in_use \in Nat /\ input \in Inputs
      /\ step \in LaidOut \ Entered /\ step \in Unmapped /\ step \in Placed /\ step \in Allocated
    BY <1>1, Zenon DEF hardware, setup, LaunchInv, LaunchTypes, Entered, Installed, Mapped, Rooted,
       Cleaned, Described, Loaded, Allocated, Placed, LaidOut, TakenDown, Unmapped
<1>3. /\ step' \in LaidOut \ Entered /\ step' \notin Rooted /\ step' \notin Installed
      /\ step' \notin Described /\ step' \in Placed /\ step' \notin Cleaned
      /\ step' \notin Mapped /\ step' # "device"
    BY <1>1, Zenon DEF Entered, Installed, Mapped, Rooted, Cleaned, Described, Loaded, Allocated, Placed,
           LaidOut, TakenDown, Unmapped
<1>4. ActivationInv'
    BY <1>1, <1>2, <1>3, OffStep, Zenon
<1>5. SetupInv'
    BY <1>1, <1>2, <1>3, SetupKeeps, Zenon DEF LaunchInv
<1>6. TablesInv'
    BY <1>1, <1>2, <1>3, TablesKeep, Zenon DEF LaunchInv
<1>7. Ram' = Ram /\ Addresses(layout.image) \subseteq Ram /\ DOMAIN poc = Ram
    BY <1>2, LayoutInRam, Zenon DEF Ram, LaunchInv, ContentsInv
<1>8. \A a \in Addresses(layout.image) : view'[a] = LoadedImage(a, layout.image, input.image.len)
    BY <1>1, <1>7, Zenon
<1>9. ContentsInv'
    BY <1>1, <1>2, <1>3, <1>7, <1>8, Zenon DEF ContentsInv
<1>10. LaunchTypes'
    BY <1>1, <1>2, <1>3, Zenon DEF LaunchTypes
<1> QED
    BY <1>4, <1>5, <1>6, <1>9, <1>10, Zenon DEF LaunchInv

\* build_guest_dtb, into guest RAM
LEMMA DtbStep ==
    ASSUME LaunchInv, BuildDtb
    PROVE  LaunchInv'
<1>1. /\ step = "dtb" /\ dtb' = build_guest_dtb(GuestFdtConfig, input.dtb_bytes)
      /\ dtb' = Err => Fail
      /\ dtb' # Err => /\ step' = "clean"
                       /\ view' = [a \in Ram |-> IF a \in TreeAddresses THEN Tree ELSE view[a]]
      /\ UNCHANGED <<setup, poc, in_use, stage2, hardware, need_deactivate>>
    BY Zenon DEF BuildDtb, TreeAddresses
<1>2. /\ UNCHANGED <<input, layout, mapping, vm, vmid, tlb>> /\ in_use \in Nat /\ input \in Inputs
      /\ step \in LaidOut \ Entered /\ step \in Unmapped /\ step \in Placed /\ step \in Loaded
      /\ step \in Allocated
    BY <1>1, Zenon DEF hardware, setup, LaunchInv, LaunchTypes, Entered, Installed, Mapped, Rooted,
       Cleaned, Described, Loaded, Allocated, Placed, LaidOut, TakenDown, Unmapped
<1>3. CASE dtb' = Err
    BY <1>1, <1>2, <1>3, FailStep, Zenon
<1>4. CASE dtb' # Err
    <2>1. /\ step' = "clean"
          /\ view' = [a \in Ram |-> IF a \in TreeAddresses THEN Tree ELSE view[a]]
        BY <1>1, <1>4, Zenon
    <2>2. /\ step' \in LaidOut \ Entered /\ step' \notin Rooted /\ step' \notin Installed
          /\ step' \in Described /\ step' \notin Cleaned
          /\ step' \notin Mapped /\ step' # "device"
        BY <2>1, Zenon DEF Entered, Installed, Mapped, Rooted, Cleaned, Described, Loaded, Allocated,
           Placed, LaidOut, TakenDown, Unmapped
    <2>3. ActivationInv'
        BY <1>1, <1>2, <2>2, OffStep, Zenon
    <2>4. GuestFdtConfig' = GuestFdtConfig
        BY <1>2, Zenon DEF GuestFdtConfig
    <2>5. SetupInv'
        BY <1>1, <1>2, <1>4, <2>2, <2>4, Zenon DEF LaunchInv, SetupInv
    <2>6. TablesInv'
        BY <1>1, <1>2, <2>2, TablesKeep, Zenon DEF LaunchInv
    <2>7. /\ Addresses(layout.image) \subseteq Ram /\ TreeAddresses \subseteq Ram
          /\ TreeAddresses \cap Addresses(layout.image) = {}
        BY <1>1, <1>2, <1>4, LayoutInRam, TreeFits, Zenon
    <2>8. Ram' = Ram /\ TreeAddresses' = TreeAddresses
        BY <1>2, Zenon DEF Ram, TreeAddresses
    <2>9. /\ DOMAIN poc = Ram
          /\ \A a \in Addresses(layout.image) : view[a] = LoadedImage(a, layout.image, input.image.len)
        BY <1>2, Zenon DEF LaunchInv, ContentsInv
    <2>10. /\ \A a \in Addresses(layout.image) : view'[a] = view[a]
           /\ \A a \in TreeAddresses : view'[a] = Tree
        BY <2>1, <2>7, Zenon
    <2>11. ContentsInv'
        BY <1>1, <1>2, <2>1, <2>2, <2>8, <2>9, <2>10, Zenon DEF ContentsInv, LoadedImage
    <2>12. LaunchTypes'
        BY <1>1, <1>2, <2>2, Zenon DEF LaunchTypes
    <2> QED
        BY <2>3, <2>5, <2>6, <2>11, <2>12, Zenon DEF LaunchInv
<1> QED
    BY <1>3, <1>4

\* A range that is cleaned includes its addresses.
LEMMA CleanCovers ==
    ASSUME NEW start \in Nat, NEW size \in Nat, NEW a \in Ram, a \in start .. (start + size - 1)
    PROVE  a \in clean_dcache_poc(start, start + size)
<1>1. a \in Nat /\ start <= a /\ a < start + size
    OBVIOUS
<1>2. align_down(start, LineSize) \in Nat /\ align_down(start, LineSize) <= start
    BY AlignDown, InputsAssumption, Zenon
<1>3. align_down(a, LineSize) \in Nat /\ align_down(a, LineSize) <= a
    BY <1>1, AlignDown, InputsAssumption, Zenon
<1>4. align_down(start, LineSize) <= a /\ align_down(a, LineSize) < start + size
    BY <1>1, <1>2, <1>3
<1> QED
    BY <1>4, Zenon DEF clean_dcache_poc

\* clean_dcache_poc of the Image and of the device tree
LEMMA CleanStep ==
    ASSUME LaunchInv, CleanCaches
    PROVE  LaunchInv'
<1> DEFINE cleaned == clean_dcache_poc(layout.image.start, layout.image.start + layout.image.size)
                      \cup clean_dcache_poc(layout.dtb.start, layout.dtb.start + input.dtb_bytes)
<1>1. /\ step = "clean" /\ step' = "root"
      /\ poc' = [a \in Ram |-> IF a \in cleaned THEN view[a] ELSE poc[a]]
      /\ UNCHANGED <<setup, view, dtb, in_use, stage2, hardware, need_deactivate>>
    BY Zenon DEF CleanCaches
<1>2. /\ UNCHANGED <<input, layout, mapping, vm, vmid, tlb>> /\ in_use \in Nat /\ input \in Inputs
      /\ step \in LaidOut \ Entered /\ step \in Unmapped /\ step \in Placed /\ step \in Loaded
      /\ step \in Described /\ step \in Allocated
    BY <1>1, Zenon DEF hardware, setup, LaunchInv, LaunchTypes, Entered, Installed, Mapped, Rooted,
       Cleaned, Described, Loaded, Allocated, Placed, LaidOut, TakenDown, Unmapped
<1>3. /\ step' \in LaidOut \ Entered /\ step' \notin Rooted /\ step' \notin Installed
      /\ step' \notin Mapped /\ step' # "device"
    BY <1>1, Zenon DEF Entered, Installed, Mapped, Rooted, Cleaned, Described, Loaded, Allocated, Placed,
           LaidOut, TakenDown, Unmapped
<1>4. ActivationInv'
    BY <1>1, <1>2, <1>3, OffStep, Zenon
<1>5. SetupInv'
    BY <1>1, <1>2, <1>3, SetupKeeps, Zenon DEF LaunchInv
<1>6. TablesInv'
    BY <1>1, <1>2, <1>3, TablesKeep, Zenon DEF LaunchInv
<1>7. input.dtb_bytes <= DtbCapacity
    BY <1>2, TreeFits, Zenon DEF LaunchInv, SetupInv
<1>8. /\ layout.image.start \in Nat /\ layout.image.size \in Nat /\ layout.dtb.start \in Nat
      /\ Addresses(layout.image) \subseteq Ram /\ TreeAddresses \subseteq Ram
      /\ input.dtb_bytes \in Nat
    BY <1>2, <1>7, LayoutInRam, InputNumbers, Zenon DEF LaunchInv
<1>9. /\ Addresses(layout.image) = layout.image.start .. (layout.image.start + layout.image.size - 1)
      /\ TreeAddresses = layout.dtb.start .. (layout.dtb.start + input.dtb_bytes - 1)
    BY Zenon DEF Addresses, TreeAddresses, Region
<1>10. Addresses(layout.image) \cup TreeAddresses \subseteq cleaned
    <2>1. ASSUME NEW a \in Addresses(layout.image) PROVE a \in cleaned
        <3>1. a \in Ram
            BY <1>8, Zenon
        <3>2. a \in layout.image.start .. (layout.image.start + layout.image.size - 1)
            BY <1>9, Zenon
        <3> QED
            BY <1>8, <3>1, <3>2, CleanCovers, Zenon
    <2>2. ASSUME NEW a \in TreeAddresses PROVE a \in cleaned
        <3>1. a \in Ram
            BY <1>8, Zenon
        <3>2. a \in layout.dtb.start .. (layout.dtb.start + input.dtb_bytes - 1)
            BY <1>9, Zenon
        <3> QED
            BY <1>8, <3>1, <3>2, CleanCovers, Zenon
    <2> QED
        BY <2>1, <2>2, Zenon
<1> HIDE DEF cleaned
<1>11. Ram' = Ram /\ TreeAddresses' = TreeAddresses
    BY <1>2, Zenon DEF Ram, TreeAddresses
<1>12. \A a \in Addresses(layout.image) \cup TreeAddresses : poc'[a] = view[a]
    BY <1>1, <1>8, <1>10, Zenon
<1>13. DOMAIN poc' = Ram
    BY <1>1, Zenon
<1>14. ContentsInv'
    <2>1. /\ DOMAIN view = Ram
          /\ \A a \in Addresses(layout.image) : view[a] = LoadedImage(a, layout.image, input.image.len)
          /\ \A a \in TreeAddresses : view[a] = Tree
        BY <1>2, Zenon DEF LaunchInv, ContentsInv
    <2> QED
        BY <1>1, <1>2, <1>11, <1>12, <1>13, <2>1, Zenon DEF ContentsInv, LoadedImage
<1>15. LaunchTypes'
    BY <1>1, <1>2, <1>3, Zenon DEF LaunchTypes
<1> QED
    BY <1>4, <1>5, <1>6, <1>14, <1>15, Zenon DEF LaunchInv

\* vm_mem_alloc(GuestStage2PageTable)
LEMMA RootStep ==
    ASSUME LaunchInv, AllocateRoot
    PROVE  LaunchInv'
<1>1. /\ step = "root"
      /\ (step' = "map" /\ in_use' = in_use + 1) \/ (Fail /\ UNCHANGED in_use)
      /\ UNCHANGED <<setup, contents, stage2, hardware, need_deactivate>>
    BY Zenon DEF AllocateRoot
<1>2. /\ in_use \in Nat /\ step \in LaidOut \ Entered /\ step \in Unmapped /\ step \in Placed
      /\ step \in Described /\ step \in Allocated /\ step \in Loaded /\ step \in Cleaned
    BY <1>1, Zenon DEF LaunchInv, LaunchTypes, Entered, Installed, Mapped, Rooted, Cleaned, Described,
       Loaded, Allocated, Placed, LaidOut, TakenDown, Unmapped
<1>3. CASE Fail /\ UNCHANGED in_use
    BY <1>1, <1>2, <1>3, FailStep, Zenon DEF setup
<1>4. CASE step' = "map" /\ in_use' = in_use + 1
    <2>1. in_use' \in Nat /\ in_use' >= in_use /\ in_use' > 0
        BY <1>2, <1>4
    <2>2. /\ step' \in LaidOut \ Entered /\ step' \notin Installed
          /\ step' \notin Mapped /\ step' # "device"
        BY <1>4, Zenon DEF Entered, Installed, Mapped, Rooted, Cleaned, Described, Loaded, Allocated,
           Placed, LaidOut, TakenDown, Unmapped
    <2> QED
        BY <1>1, <1>2, <2>1, <2>2, OnStep, Zenon
<1> QED
    BY <1>1, <1>3, <1>4, Zenon

\* map or map_external_device that had its tables, or had not.
LEMMA RegionStep ==
    ASSUME LaunchInv, NEW start, NEW pa, NEW size, NEW next, MapRegion(start, pa, size, next),
           step \in {"map", "device"}, UNCHANGED <<setup, contents, hardware, need_deactivate>>
    PROVE  \/ LaunchInv'
           \/ /\ step' = next /\ stage2' = stage2 \cup Mapping(start, pa, size)
              /\ in_use' \in Nat /\ in_use' > 0
<1>1. \/ /\ step' = next /\ in_use' = in_use + TablePages
         /\ stage2' = stage2 \cup Mapping(start, pa, size)
      \/ Fail /\ in_use' = input.pages
    BY Zenon DEF MapRegion, Mapping
<1>2. /\ in_use \in Nat /\ step \in LaidOut \ Entered /\ step \in Rooted /\ input.pages \in Nat
      /\ TablePages \in Nat
    BY InputNumbers, InputsAssumption, Zenon DEF LaunchInv, LaunchTypes, Entered, Installed, Mapped,
       Rooted, Cleaned, Described, Loaded, Allocated, Placed, LaidOut, TakenDown, Unmapped
<1>3. in_use > 0
    BY <1>2, Zenon DEF LaunchInv, ActivationInv
<1>4. CASE Fail /\ in_use' = input.pages
    BY <1>2, <1>4, FailStep, Zenon DEF setup
<1>5. CASE in_use' = in_use + TablePages
    BY <1>1, <1>2, <1>3, <1>4, <1>5
<1> QED
    BY <1>1, <1>4, <1>5, Zenon

\* The step after a region is mapped.
LEMMA MappedStep ==
    ASSUME LaunchInv, step \in {"map", "device"}, step' \in {"device", "registers"},
           UNCHANGED <<setup, contents, hardware, need_deactivate>>, in_use' \in Nat, in_use' > 0,
           TablesInv'
    PROVE  LaunchInv'
<1>1. UNCHANGED <<input, layout, mapping, view, poc, dtb, vm, vmid, tlb>>
    BY Zenon DEF setup, contents, hardware
<1>2. /\ step \in LaidOut \ Entered /\ step \in Placed /\ step \in Described /\ step \in Allocated
      /\ step \in Loaded /\ step \in Cleaned
    BY Zenon DEF Entered, Installed, Mapped, Rooted, Cleaned, Described, Loaded, Allocated, Placed,
           LaidOut, TakenDown, Unmapped
<1>3. step' \in LaidOut \ Entered /\ step' \notin Installed
    BY Zenon DEF Entered, Installed, Mapped, Rooted, Cleaned, Described, Loaded, Allocated, Placed,
           LaidOut, TakenDown, Unmapped
<1>4. ActivationInv'
    BY <1>1, <1>2, <1>3, OffStep, Zenon
<1>5. SetupInv' /\ ContentsInv'
    BY <1>1, <1>2, <1>3, SetupKeeps, ContentsKeeps, Zenon DEF LaunchInv
<1>6. LaunchTypes'
    BY <1>1, <1>3, Zenon DEF LaunchInv, LaunchTypes
<1> QED
    BY <1>4, <1>5, <1>6, Zenon DEF LaunchInv

\* map of guest RAM
LEMMA MapRamStep ==
    ASSUME LaunchInv, MapRam
    PROVE  LaunchInv'
<1>1. /\ step = "map" /\ MapRegion(input.ram.start, RamPa, input.ram.size, "device")
      /\ UNCHANGED <<setup, contents, hardware, need_deactivate>>
    BY Zenon DEF MapRam
<1>2. step \in Unmapped /\ stage2 = {}
    BY <1>1, Zenon DEF LaunchInv, TablesInv, Entered, Installed, Mapped, Rooted, Cleaned, Described,
       Loaded, Allocated, Placed, LaidOut, TakenDown, Unmapped
<1>3. CASE /\ step' = "device" /\ stage2' = stage2 \cup RamMapping /\ in_use' \in Nat /\ in_use' > 0
    <2>1. step' \notin Unmapped /\ step' \notin Mapped /\ step' \notin Entered
        BY <1>3, Zenon DEF Entered, Installed, Mapped, Rooted, Cleaned, Described, Loaded, Allocated,
           Placed, LaidOut, TakenDown, Unmapped
    <2>2. RamMapping' = RamMapping
        BY <1>1, Zenon DEF setup, RamMapping, Mapping
    <2>3. stage2' = RamMapping'
        BY <1>2, <1>3, <2>2, Zenon
    <2>4. TablesInv'
        BY <2>1, <2>3, Zenon DEF TablesInv
    <2> QED
        BY <1>1, <1>3, <2>4, MappedStep, Zenon
<1> QED
    BY <1>1, <1>3, RegionStep, Zenon DEF RamMapping

\* map_external_device of the CPU interface
LEMMA MapDeviceStep ==
    ASSUME LaunchInv, MapDevice
    PROVE  LaunchInv'
<1>1. /\ step = "device"
      /\ MapRegion(Gicv(input).start, mapping.mapped_pa, mapping.mapping_size, "registers")
      /\ UNCHANGED <<setup, contents, hardware, need_deactivate>>
    BY Zenon DEF MapDevice
<1>2. stage2 = RamMapping
    BY <1>1, Zenon DEF LaunchInv, TablesInv
<1>3. CASE /\ step' = "registers" /\ stage2' = stage2 \cup DeviceMapping
           /\ in_use' \in Nat /\ in_use' > 0
    <2>1. step' \notin Unmapped /\ step' # "device" /\ step' \notin Entered
        BY <1>3, Zenon DEF Entered, Installed, Mapped, Rooted, Cleaned, Described, Loaded, Allocated,
           Placed, LaidOut, TakenDown, Unmapped
    <2>2. RamMapping' = RamMapping /\ DeviceMapping' = DeviceMapping
        BY <1>1, Zenon DEF setup, RamMapping, DeviceMapping, Mapping, Gicv
    <2>3. stage2' = RamMapping' \cup DeviceMapping'
        BY <1>2, <1>3, <2>2, Zenon
    <2>4. TablesInv'
        BY <2>1, <2>3, Zenon DEF TablesInv
    <2> QED
        BY <1>1, <1>3, <2>4, MappedStep, Zenon
<1> QED
    BY <1>1, <1>3, RegionStep, Zenon DEF DeviceMapping

\* guest_stage2_register_values
LEMMA RegistersStep ==
    ASSUME LaunchInv, RegisterValues
    PROVE  LaunchInv'
<1>1. /\ step = "registers" /\ (step' = "install" \/ Fail)
      /\ UNCHANGED <<setup, contents, in_use, stage2, hardware, need_deactivate>>
    BY Zenon DEF RegisterValues
<1>2. /\ in_use \in Nat /\ step \in LaidOut \ Entered /\ step \in Placed /\ step \in Described
      /\ step \in Allocated /\ step \in Loaded /\ step \in Cleaned /\ step \in Rooted
      /\ step \in Mapped
    BY <1>1, Zenon DEF LaunchInv, LaunchTypes, Entered, Installed, Mapped, Rooted, Cleaned, Described,
       Loaded, Allocated, Placed, LaidOut, TakenDown, Unmapped
<1>3. CASE Fail
    BY <1>1, <1>2, <1>3, FailStep, Zenon DEF setup
<1>4. CASE step' = "install"
    <2>1. in_use' \in Nat /\ in_use' >= in_use
        BY <1>1, <1>2
    <2>2. /\ step' \in LaidOut \ Entered /\ step' \notin Installed
          /\ step' \notin Unmapped /\ step' # "device"
        BY <1>4, Zenon DEF Entered, Installed, Mapped, Rooted, Cleaned, Described, Loaded, Allocated,
           Placed, LaidOut, TakenDown, Unmapped
    <2> QED
        BY <1>1, <1>2, <2>1, <2>2, OnStep, Zenon
<1> QED
    BY <1>1, <1>3, <1>4

\* activate_guest_stage2, up to the barrier behind VTTBR_EL2
LEMMA InstallStep ==
    ASSUME LaunchInv, InstallContext
    PROVE  LaunchInv'
<1>1. /\ step = "install" /\ step' = "invalidate" /\ vmid' = VmId
      /\ UNCHANGED <<setup, contents, in_use, stage2, vm, tlb, need_deactivate>>
    BY Zenon DEF InstallContext
<1>2. UNCHANGED <<input, layout, mapping, view, poc, dtb>>
    BY <1>1, Zenon DEF setup, contents
<1>3. /\ step \in LaidOut \ Entered /\ step \in Placed /\ step \in Described /\ step \in Allocated
      /\ step \in Loaded /\ step \in Cleaned /\ step \in Rooted /\ step \in Mapped
    BY <1>1, Zenon DEF Entered, Installed, Mapped, Rooted, Cleaned, Described, Loaded, Allocated, Placed,
           LaidOut, TakenDown, Unmapped
<1>4. step' \in LaidOut \ Entered /\ step' \notin Unmapped /\ step' # "device"
    BY <1>1, Zenon DEF Entered, Installed, Mapped, Rooted, Cleaned, Described, Loaded, Allocated, Placed,
           LaidOut, TakenDown, Unmapped
<1>5. ActivationInv'
    <2>1. in_use > 0
        BY <1>3, Zenon DEF LaunchInv, ActivationInv
    <2> QED
        BY <1>1, <1>3, <1>4, <2>1, OffStep, Zenon
<1>6. SetupInv' /\ ContentsInv'
    BY <1>2, <1>3, SetupKeeps, ContentsKeeps, Zenon DEF LaunchInv
<1>7. TablesInv'
    BY <1>1, <1>2, <1>3, <1>4, TablesKeep, Zenon DEF LaunchInv
<1>8. LaunchTypes'
    BY <1>1, <1>2, <1>4, Zenon DEF LaunchInv, LaunchTypes
<1> QED
    BY <1>5, <1>6, <1>7, <1>8, Zenon DEF LaunchInv

\* What does not change while the guest runs, or when it starts.
LEMMA RunningKeeps ==
    ASSUME LaunchInv, step \in Installed, step' = "guest",
           UNCHANGED <<setup, contents, in_use, stage2, vmid>>,
           \A e \in tlb' : [ipa |-> e.ipa, pa |-> e.pa] \in stage2 /\ e.vmid = VmId,
           need_deactivate'
    PROVE  LaunchInv'
<1>1. UNCHANGED <<input, layout, mapping, view, poc, dtb>>
    BY Zenon DEF setup, contents
<1>2. /\ step \in LaidOut /\ step \in Placed /\ step \in Described /\ step \in Allocated
      /\ step \in Loaded /\ step \in Cleaned /\ step \in Rooted /\ step \in Mapped
    BY Zenon DEF Entered, Installed, Mapped, Rooted, Cleaned, Described, Loaded, Allocated, Placed,
           LaidOut, TakenDown, Unmapped
<1>3. /\ step' \in LaidOut /\ step' \notin Unmapped /\ step' # "device" /\ step' \in Entered
      /\ step' \notin {"deactivate", "release", "returned"}
    BY Zenon DEF Entered, Installed, Mapped, Rooted, Cleaned, Described, Loaded, Allocated, Placed,
           LaidOut, TakenDown, Unmapped
<1>4. LaunchTypes'
    BY <1>1, <1>3, Zenon DEF LaunchInv, LaunchTypes
<1>5. SetupInv' /\ ContentsInv'
    BY <1>1, <1>2, <1>3, SetupKeeps, ContentsKeeps, Zenon DEF LaunchInv
<1>6. RamMapping' = RamMapping /\ DeviceMapping' = DeviceMapping
    BY <1>1, Zenon DEF RamMapping, DeviceMapping, Mapping, Gicv
<1>7. TablesInv'
    <2>1. stage2 = RamMapping \cup DeviceMapping
        BY <1>2, Zenon DEF LaunchInv, TablesInv
    <2> QED
        BY <1>3, <1>6, <2>1, Zenon DEF TablesInv
<1>8. ActivationInv'
    <2>1. in_use > 0 /\ vmid = VmId
        BY <1>2, Zenon DEF LaunchInv, ActivationInv
    <2> QED
        BY <1>3, <2>1, Zenon DEF ActivationInv
<1> QED
    BY <1>4, <1>5, <1>7, <1>8, Zenon DEF LaunchInv

\* activate_guest_stage2: the TLB, then HCR_EL2.VM
LEMMA InvalidateStep ==
    ASSUME LaunchInv, Invalidate
    PROVE  LaunchInv'
<1>1. /\ step = "invalidate" /\ step' = "guest" /\ tlb' = tlbi /\ need_deactivate' = TRUE
      /\ UNCHANGED <<setup, contents, in_use, stage2, vmid>>
    BY Zenon DEF Invalidate
<1>2. step \in Installed
    BY <1>1, Zenon DEF Installed
<1>3. vmid = VmId /\ \A e \in tlb : e.vmid = VmId
    BY <1>2, Zenon DEF LaunchInv, ActivationInv
<1>4. tlb' = {}
    BY <1>1, <1>3, Zenon DEF tlbi
<1>5. \A e \in tlb' : [ipa |-> e.ipa, pa |-> e.pa] \in stage2 /\ e.vmid = VmId
    BY <1>4, Zenon
<1> QED
    BY <1>1, <1>2, <1>5, RunningKeeps, Zenon

\* A walk of the tables puts their translations into the TLB.
LEMMA WalkStep ==
    ASSUME LaunchInv, Walk
    PROVE  LaunchInv'
<1>1. /\ step = "guest" /\ step' = "guest"
      /\ tlb' = tlb \cup {[vmid |-> vmid, ipa |-> e.ipa, pa |-> e.pa] : e \in stage2}
      /\ UNCHANGED <<setup, contents, in_use, stage2, vmid, need_deactivate>>
    BY Zenon DEF Walk
<1>2. step \in Entered /\ step \in Installed /\ step \in Mapped
    BY <1>1, Zenon DEF Entered, Installed, Mapped, Rooted, Cleaned, Described, Loaded, Allocated, Placed,
           LaidOut, TakenDown, Unmapped
<1>3. /\ vmid = VmId /\ need_deactivate
      /\ \A e \in tlb : [ipa |-> e.ipa, pa |-> e.pa] \in stage2 /\ e.vmid = VmId
      /\ stage2 = RamMapping \cup DeviceMapping
    BY <1>2, Zenon DEF LaunchInv, ActivationInv, TablesInv
<1>4. \A e \in stage2 : e = [ipa |-> e.ipa, pa |-> e.pa]
    BY <1>3 DEF RamMapping, DeviceMapping, Mapping
<1>5. ASSUME NEW f \in tlb' PROVE [ipa |-> f.ipa, pa |-> f.pa] \in stage2 /\ f.vmid = VmId
    <2>1. CASE f \in tlb
        BY <1>3, <2>1, Zenon
    <2>2. CASE f \notin tlb
        <3>1. PICK e \in stage2 : f = [vmid |-> vmid, ipa |-> e.ipa, pa |-> e.pa]
            BY <1>1, <2>2, Zenon
        <3>2. f.ipa = e.ipa /\ f.pa = e.pa /\ f.vmid = VmId
            BY <1>3, <3>1, Zenon
        <3>3. [ipa |-> e.ipa, pa |-> e.pa] \in stage2
            BY <1>4, Zenon
        <3> QED
            BY <3>2, <3>3, Zenon
    <2> QED
        BY <2>1, <2>2
<1>6. need_deactivate'
    BY <1>1, <1>3, Zenon
<1> QED
    BY <1>1, <1>2, <1>5, <1>6, RunningKeeps, Zenon

\* What of the invariant is left once the guest is being taken down.
LEMMA DownStep ==
    ASSUME LaunchInv, step' \in TakenDown, UNCHANGED input, in_use' \in Nat, ActivationInv'
    PROVE  LaunchInv'
<1>1. /\ step' \notin LaidOut /\ step' \notin Placed /\ step' \notin Allocated
      /\ step' \notin Loaded /\ step' \notin Described /\ step' \notin Cleaned
      /\ step' \notin Mapped /\ step' \notin Entered /\ step' \notin Unmapped /\ step' # "device"
    BY Zenon DEF Entered, Installed, Mapped, Rooted, Cleaned, Described, Loaded, Allocated, Placed,
           LaidOut, TakenDown, Unmapped
<1>2. LaunchTypes'
    BY Zenon DEF LaunchInv, LaunchTypes
<1> QED
    BY <1>1, <1>2, Zenon DEF LaunchInv, SetupInv, ContentsInv, TablesInv

\* The vCPU loop ends.
LEMMA ExitStep ==
    ASSUME LaunchInv, GuestExits
    PROVE  LaunchInv'
<1>1. /\ step = "guest" /\ step' = "deactivate"
      /\ UNCHANGED <<input, in_use, vm, vmid, tlb, need_deactivate>>
    BY Zenon DEF GuestExits, setup, hardware
<1>2. step \in Entered /\ step \in Installed /\ step \in Rooted
    BY <1>1, Zenon DEF Entered, Installed, Mapped, Rooted, Cleaned, Described, Loaded, Allocated, Placed,
           LaidOut, TakenDown, Unmapped
<1>3. /\ step' \in TakenDown /\ step' \notin Rooted /\ step' \notin Installed
      /\ step' \notin Entered /\ step' \notin {"release", "returned"}
    BY <1>1, Zenon DEF Entered, Installed, Mapped, Rooted, Cleaned, Described, Loaded, Allocated, Placed,
           LaidOut, TakenDown, Unmapped
<1>4. /\ in_use \in Nat /\ in_use > 0 /\ vmid = VmId /\ need_deactivate
      /\ \A e \in tlb : e.vmid = VmId
    BY <1>2, Zenon DEF LaunchInv, LaunchTypes, ActivationInv
<1>5. ActivationInv'
    BY <1>1, <1>3, <1>4, Zenon DEF ActivationInv
<1> QED
    BY <1>1, <1>3, <1>4, <1>5, DownStep, Zenon

\* deactivate_guest_stage2
LEMMA DeactivateStep ==
    ASSUME LaunchInv, Deactivate
    PROVE  LaunchInv'
<1>1. /\ step = "deactivate" /\ step' = "release"
      /\ need_deactivate => tlb' = deactivated_tlb /\ ~vm'
      /\ ~need_deactivate => UNCHANGED <<vm, vmid, tlb>>
      /\ UNCHANGED <<input, in_use, need_deactivate>>
    BY Zenon DEF Deactivate, setup, hardware
<1>2. /\ step' \in TakenDown /\ step' \notin Rooted /\ step' \notin Installed
      /\ step' \notin Entered /\ step' # "deactivate" /\ step' # "returned"
    BY <1>1, Zenon DEF Entered, Installed, Mapped, Rooted, Cleaned, Described, Loaded, Allocated, Placed,
           LaidOut, TakenDown, Unmapped
<1>3. /\ in_use \in Nat
      /\ need_deactivate => vmid = VmId
      /\ ~need_deactivate => ~vm
      /\ \A e \in tlb : e.vmid = VmId
    BY <1>1, Zenon DEF LaunchInv, LaunchTypes, ActivationInv
<1>4. need_deactivate => tlb' = {}
    BY <1>1, <1>3, Zenon DEF deactivated_tlb, tlbi
<1>5. ActivationInv'
    <2>1. CASE need_deactivate
        BY <1>1, <1>2, <1>4, <2>1, Zenon DEF ActivationInv
    <2>2. CASE ~need_deactivate
        <3>1. ~need_deactivate' /\ ~vm'
            BY <1>1, <1>3, <2>2
        <3>2. \A e \in tlb' : e.vmid = VmId
            BY <1>1, <1>3, <2>2
        <3> QED
            BY <1>2, <3>1, <3>2, Zenon DEF ActivationInv
    <2> QED
        BY <2>1, <2>2
<1> QED
    BY <1>1, <1>2, <1>3, <1>5, DownStep, Zenon

\* release_all
LEMMA ReleaseStep ==
    ASSUME LaunchInv, ReleaseAll
    PROVE  LaunchInv'
<1>1. /\ step = "release" /\ step' = "returned" /\ in_use' = 0
      /\ UNCHANGED <<input, vm, vmid, tlb, need_deactivate>>
    BY Zenon DEF ReleaseAll, setup, hardware
<1>2. /\ step' \in TakenDown /\ step' \notin Rooted /\ step' \notin Installed
      /\ step' \notin Entered /\ step' # "deactivate"
    BY <1>1, Zenon DEF Entered, Installed, Mapped, Rooted, Cleaned, Described, Loaded, Allocated, Placed,
           LaidOut, TakenDown, Unmapped
<1>3. ~vm /\ (need_deactivate => tlb = {}) /\ \A e \in tlb : e.vmid = VmId
    BY <1>1, Zenon DEF LaunchInv, ActivationInv
<1>4. ActivationInv'
    BY <1>1, <1>2, <1>3, Zenon DEF ActivationInv
<1>5. in_use' \in Nat
    BY <1>1
<1> QED
    BY <1>1, <1>2, <1>4, <1>5, DownStep, Zenon

\* Nothing is done yet.
LEMMA InitLaunchInv == LaunchInit => LaunchInv
<1> SUFFICES ASSUME LaunchInit PROVE LaunchInv
    OBVIOUS
<1>1. /\ input \in Inputs /\ step = "layout" /\ in_use = 0 /\ stage2 = {} /\ vm = FALSE
      /\ tlb \in {{}, {[vmid |-> VmId, ipa |-> input.ram.start, pa |-> 0]}}
      /\ need_deactivate = FALSE
    BY Zenon DEF LaunchInit
<1>2. /\ step \notin LaidOut /\ step \notin Placed /\ step \notin Allocated
      /\ step \notin Loaded /\ step \notin Described /\ step \notin Cleaned
      /\ step \notin Mapped /\ step \notin Entered /\ step # "device"
      /\ step \notin Rooted /\ step \notin Installed /\ step \notin TakenDown
      /\ step \notin {"deactivate", "release", "returned"}
    BY <1>1, Zenon DEF Entered, Installed, Mapped, Rooted, Cleaned, Described, Loaded, Allocated, Placed,
           LaidOut, TakenDown, Unmapped
<1>3. \A e \in tlb : e.vmid = VmId
    BY <1>1
<1>4. in_use \in Nat
    BY <1>1
<1> QED
    BY <1>1, <1>2, <1>3, <1>4, Zenon
       DEF LaunchInv, LaunchTypes, SetupInv, ContentsInv, TablesInv, ActivationInv

\* Where run_linux_vm is, what it has worked out, what guest RAM and the tables hold and when
\* stage 2 is on form an inductive invariant (run_linux_vm, run_guest).
THEOREM LaunchInvariant == LaunchSpec => []LaunchInv
<1>1. ASSUME LaunchInv, UNCHANGED launch_vars PROVE LaunchInv'
    <2>1. UNCHANGED <<step, input, layout, mapping, view, poc, dtb, in_use, stage2, vm, vmid, tlb,
                      need_deactivate>>
        BY <1>1, Zenon DEF launch_vars, setup, contents, hardware
    <2>2. LaunchTypes' /\ ActivationInv'
        BY <1>1, <2>1, Zenon DEF LaunchInv, LaunchTypes, ActivationInv
    <2>3. SetupInv' /\ ContentsInv'
        BY <1>1, <2>1, SetupKeeps, ContentsKeeps, Zenon DEF LaunchInv
    <2>4. RamMapping' = RamMapping /\ DeviceMapping' = DeviceMapping
        BY <2>1, Zenon DEF RamMapping, DeviceMapping, Mapping, Gicv
    <2>5. TablesInv'
        BY <1>1, <2>1, <2>4, Zenon DEF LaunchInv, TablesInv
    <2> QED
        BY <2>2, <2>3, <2>5, Zenon DEF LaunchInv
<1>2. ASSUME LaunchInv, [LaunchNext]_launch_vars PROVE LaunchInv'
    BY <1>1, <1>2, LayoutStep, InterruptsStep, PlatformStep, RamStep, LoadStep, DtbStep, CleanStep,
       RootStep, MapRamStep, MapDeviceStep, RegistersStep, InstallStep, InvalidateStep, WalkStep,
       ExitStep, DeactivateStep, ReleaseStep, Zenon DEF LaunchNext
<1> QED
    BY <1>2, InitLaunchInv, PTL DEF LaunchSpec

\* NothingOutlivesTheGuest: whatever fails, when run_guest returns the pages are back and stage 2
\* is off, and they go back only when no translation of theirs is cached.
THEOREM NothingEverOutlives == LaunchSpec => []NothingOutlivesTheGuest
<1>1. ASSUME LaunchInv PROVE NothingOutlivesTheGuest
    <2>1. step = "returned" => in_use = 0 /\ ~vm
        BY <1>1, Zenon DEF LaunchInv, ActivationInv
    <2>2. ASSUME in_use = 0, need_deactivate PROVE ~vm /\ tlb = {}
        <3>1. ~(in_use > 0)
            BY <2>2
        <3>2. step \in Entered \cup TakenDown /\ step # "deactivate" /\ step \notin Rooted
            BY <1>1, <2>2, <3>1, Zenon DEF LaunchInv, ActivationInv
        <3>3. step \in {"release", "returned"}
            BY <3>2, Zenon DEF Entered, Installed, Mapped, Rooted, Cleaned, Described, Loaded,
               Allocated, Placed,
           LaidOut, TakenDown, Unmapped
        <3> QED
            BY <1>1, <2>2, <3>3, Zenon DEF LaunchInv, ActivationInv
    <2> QED
        BY <2>1, <2>2, Zenon DEF NothingOutlivesTheGuest
<1> QED
    BY <1>1, LaunchInvariant, PTL

\* Two addresses of one region go to different pages' bytes, and come from different ones.
LEMMA MappingIsExact ==
    ASSUME NEW s \in Nat, NEW p \in Nat, NEW n \in Nat
    PROVE  /\ \A e \in Mapping(s, p, n) : /\ e.ipa \in s .. (s + n - 1) /\ e.pa \in p .. (p + n - 1)
                                          /\ e.ipa - s = e.pa - p
           /\ \A i \in 0 .. (n - 1) : [ipa |-> s + i, pa |-> p + i] \in Mapping(s, p, n)
<1>1. ASSUME NEW e \in Mapping(s, p, n)
      PROVE  e.ipa \in s .. (s + n - 1) /\ e.pa \in p .. (p + n - 1) /\ e.ipa - s = e.pa - p
    <2>1. PICK i \in 0 .. (n - 1) : e = [ipa |-> s + i, pa |-> p + i]
        BY Zenon DEF Mapping
    <2>2. e.ipa = s + i /\ e.pa = p + i
        BY <2>1
    <2> QED
        BY <2>2
<1>2. \A i \in 0 .. (n - 1) : [ipa |-> s + i, pa |-> p + i] \in Mapping(s, p, n)
    BY Zenon DEF Mapping
<1> QED
    BY <1>1, <1>2, Zenon

\* When the guest is entered: what the device tree says, and where everything is.
LEMMA EnteredFacts ==
    ASSUME LaunchInv, step = "guest"
    PROVE  /\ input.ram \in Regions /\ input.gicv \in Regions
           /\ Gicd(input) \in Regions /\ Gicv(input) \in Regions /\ Pl011(input) \in Regions
           /\ Separate(input.ram, Gicd(input)) /\ Separate(input.ram, Gicv(input))
           /\ Separate(input.ram, Pl011(input))
           /\ Separate(Gicd(input), Gicv(input)) /\ Separate(Gicv(input), Pl011(input))
           /\ dtb.memory = <<input.ram>> /\ dtb.intc[1] = Gicd(input) /\ dtb.serial = Pl011(input)
           /\ dtb.intc[2].start = mapping.device_ipa
           /\ mapping = map_device_into_window(Gicv(input), input.gicv) /\ mapping # Err
           /\ stage2 = RamMapping \cup DeviceMapping
           /\ input.dtb_bytes <= DtbCapacity
<1>1. step \in Placed /\ step \in Described /\ step \in Mapped
    BY Zenon DEF Entered, Installed, Mapped, Rooted, Cleaned, Described, Loaded, Allocated, Placed,
           LaidOut, TakenDown, Unmapped
<1>2. /\ input.ram \in Regions /\ input.gicv \in Regions /\ input.windows \in Seq(Regions)
      /\ Len(input.windows) = 3 /\ input.dtb_bytes \in Nat
    BY InputNumbers, Zenon DEF LaunchInv
<1>3. Gicd(input) \in Regions /\ Gicv(input) \in Regions /\ Pl011(input) \in Regions
    <2>1. \A i \in 1 .. 3 : input.windows[i] \in Regions
        BY <1>2, ElementOfSeq, Zenon
    <2> QED
        BY <2>1 DEF Gicd, Gicv, Pl011
<1>4. /\ validate(<<input.ram>> \o input.windows) /\ mapping # Err
      /\ mapping = map_device_into_window(Gicv(input), input.gicv)
      /\ dtb = build_guest_dtb(GuestFdtConfig, input.dtb_bytes) /\ dtb # Err
      /\ stage2 = RamMapping \cup DeviceMapping
    BY <1>1, Zenon DEF LaunchInv, SetupInv, TablesInv
<1>5. /\ Separate(input.ram, Gicd(input)) /\ Separate(input.ram, Gicv(input))
      /\ Separate(input.ram, Pl011(input))
      /\ Separate(Gicd(input), Gicv(input)) /\ Separate(Gicv(input), Pl011(input))
    BY <1>2, <1>4, ValidateValue, Zenon DEF Gicd, Gicv, Pl011
<1>6. dtb = build_tree(GuestFdtConfig)
    BY <1>4, Zenon DEF build_guest_dtb
<1>7. /\ dtb.memory = GuestFdtConfig.memory /\ dtb.serial = GuestFdtConfig.pl011.region
      /\ dtb.intc = <<GuestFdtConfig.distributor, GuestFdtConfig.cpu_interface>>
    <2> DEFINE tree == build_tree(GuestFdtConfig)
    <2>1. /\ tree.memory = GuestFdtConfig.memory /\ tree.serial = GuestFdtConfig.pl011.region
          /\ tree.intc = <<GuestFdtConfig.distributor, GuestFdtConfig.cpu_interface>>
        BY Zenon DEF build_tree
    <2> HIDE DEF tree
    <2>2. dtb = tree
        BY <1>6, Zenon DEF tree
    <2> QED
        BY <2>1, <2>2, Zenon
<1>8. /\ GuestFdtConfig.memory = <<input.ram>> /\ GuestFdtConfig.distributor = Gicd(input)
      /\ GuestFdtConfig.cpu_interface = Region(mapping.device_ipa, mapping.device.size)
    BY Zenon DEF GuestFdtConfig
<1>9. GuestFdtConfig.pl011.region = Pl011(input)
    BY Zenon DEF GuestFdtConfig
<1>10. dtb.intc[1] = Gicd(input) /\ dtb.intc[2].start = mapping.device_ipa
    <2> DEFINE cpu == Region(mapping.device_ipa, mapping.device.size)
    <2>1. cpu.start = mapping.device_ipa
        BY Zenon DEF Region
    <2> HIDE DEF cpu
    <2>2. dtb.intc = <<Gicd(input), cpu>>
        BY <1>7, <1>8, Zenon DEF cpu
    <2>3. dtb.intc[1] = Gicd(input) /\ dtb.intc[2] = cpu
        BY <2>2
    <2> QED
        BY <2>1, <2>3, Zenon
<1>11. input.dtb_bytes <= DtbCapacity
    BY <1>4, TreeFits, Zenon
<1> QED
    BY <1>2, <1>3, <1>4, <1>5, <1>7, <1>8, <1>9, <1>10, <1>11, Zenon

\* What the guest finds in its RAM when it starts.
LEMMA GuestFindsItsImage ==
    ASSUME LaunchInv, step = "guest"
    PROVE  /\ \A a \in Addresses(layout.image) :
                  poc[a] = IF a - layout.pc < input.image.len THEN a - layout.pc ELSE Zero
           /\ \A i \in 0 .. (input.dtb_bytes - 1) : poc[layout.x0 + i] = Tree
<1>1. step \in LaidOut /\ step \in Loaded /\ step \in Described /\ step \in Cleaned
    BY Zenon DEF Entered, Installed, Mapped, Rooted, Cleaned, Described, Loaded, Allocated, Placed,
           LaidOut, TakenDown, Unmapped
<1>2. /\ layout.dtb.start \in Nat /\ layout.pc = layout.image.start /\ layout.x0 = layout.dtb.start
    BY <1>1, LayoutInRam, Zenon
<1>3. /\ \A a \in Addresses(layout.image) : view[a] = LoadedImage(a, layout.image, input.image.len)
      /\ \A a \in TreeAddresses : view[a] = Tree
      /\ \A a \in Addresses(layout.image) \cup TreeAddresses : poc[a] = view[a]
    BY <1>1, Zenon DEF LaunchInv, ContentsInv
<1>4. \A a \in Addresses(layout.image) :
          poc[a] = IF a - layout.pc < input.image.len THEN a - layout.pc ELSE Zero
    BY <1>2, <1>3, Zenon DEF LoadedImage
<1>5. ASSUME NEW i \in 0 .. (input.dtb_bytes - 1) PROVE poc[layout.x0 + i] = Tree
    <2>1. TreeAddresses = layout.dtb.start .. (layout.dtb.start + input.dtb_bytes - 1)
        BY Zenon DEF Addresses, TreeAddresses, Region
    <2>2. input.dtb_bytes \in Nat
        BY InputNumbers, Zenon DEF LaunchInv
    <2>3. layout.x0 + i \in TreeAddresses
        BY <1>2, <2>1, <2>2
    <2> QED
        BY <1>3, <2>3, Zenon
<1> QED
    BY <1>4, <1>5, Zenon

\* What stage 2 does when the guest starts: it is a one-to-one map of RAM and the CPU interface,
\* and nothing else.
LEMMA GuestFindsItsMap ==
    ASSUME LaunchInv, step = "guest"
    PROVE  /\ \A i \in DOMAIN dtb.memory : \A a \in Addresses(dtb.memory[i]) :
                  \E e \in stage2 : e.ipa = a
           /\ \A i \in 0 .. (input.gicv.size - 1) :
                  [ipa |-> dtb.intc[2].start + i, pa |-> input.gicv.start + i] \in stage2
           /\ \A e, f \in stage2 : (e.ipa = f.ipa) <=> (e.pa = f.pa)
           /\ \A e \in stage2 : e.ipa \notin Addresses(dtb.intc[1]) \cup Addresses(dtb.serial)
<1>m. PagesOfDevice(mapping, Gicv(input), input.gicv)
    <2>1. /\ Gicv(input) \in Regions /\ input.gicv \in Regions
          /\ mapping = map_device_into_window(Gicv(input), input.gicv) /\ mapping # Err
        BY EnteredFacts, Zenon
    <2> QED
        BY <2>1, MappingValue, Zenon
<1> DEFINE rs == input.ram.start
           rz == input.ram.size
           ws == Gicv(input).start
           wz == Gicv(input).size
           gs == input.gicv.start
           gz == input.gicv.size
           off == input.gicv.start % PageSize
           mp == mapping.mapped_pa
           mz == mapping.mapping_size
           ds == Gicd(input).start
           dz == Gicd(input).size
           us == Pl011(input).start
           uz == Pl011(input).size
<1>1. /\ rs \in Nat /\ rz \in Nat /\ ws \in Nat /\ wz \in Nat /\ gs \in Nat /\ gz \in Nat
      /\ ds \in Nat /\ dz \in Nat /\ us \in Nat /\ uz \in Nat
    BY EnteredFacts, Zenon DEF Regions
<1>2. /\ rs + rz <= ws \/ ws + wz <= rs
      /\ rs + rz <= ds \/ ds + dz <= rs
      /\ rs + rz <= us \/ us + uz <= rs
      /\ ds + dz <= ws \/ ws + wz <= ds
      /\ ws + wz <= us \/ us + uz <= ws
    BY EnteredFacts, Zenon DEF Separate
<1>3. /\ mz \in Nat /\ mp \in Nat /\ mz <= wz /\ mapping.device_ipa = ws + off /\ mp + off = gs
      /\ off + gz <= mz
      /\ mp = align_down(gs, PageSize) /\ mp + mz = align_down(gs + gz + PageSize - 1, PageSize)
    BY <1>m, Zenon DEF PagesOfDevice
<1>4. RamPa + rz <= mp \/ mp + mz <= RamPa
    <2>1. input \in Inputs
        BY Zenon DEF LaunchInv, LaunchTypes
    <2> QED
        BY <1>3, <2>1, DeviceAssumption, Zenon
<1>5. RamPa \in Nat /\ off \in Nat
    BY <1>1, InputsAssumption, SizesAssumption, DivMod, Zenon
<1>6. /\ stage2 = Mapping(rs, RamPa, rz) \cup Mapping(ws, mp, mz)
      /\ dtb.memory = <<input.ram>> /\ dtb.intc[2].start = ws + off
      /\ Addresses(dtb.intc[1]) = ds .. (ds + dz - 1) /\ Addresses(dtb.serial) = us .. (us + uz - 1)
      /\ Addresses(input.ram) = rs .. (rs + rz - 1)
    BY <1>3, EnteredFacts, Zenon DEF RamMapping, DeviceMapping, Addresses
<1>r. /\ \A e \in Mapping(rs, RamPa, rz) :
             e.ipa \in rs .. (rs + rz - 1) /\ e.pa \in RamPa .. (RamPa + rz - 1) /\ e.ipa - rs = e.pa - RamPa
      /\ \A i \in 0 .. (rz - 1) : [ipa |-> rs + i, pa |-> RamPa + i] \in Mapping(rs, RamPa, rz)
    BY <1>1, <1>5, MappingIsExact, Zenon
<1>d. /\ \A e \in Mapping(ws, mp, mz) :
             e.ipa \in ws .. (ws + mz - 1) /\ e.pa \in mp .. (mp + mz - 1) /\ e.ipa - ws = e.pa - mp
      /\ \A i \in 0 .. (mz - 1) : [ipa |-> ws + i, pa |-> mp + i] \in Mapping(ws, mp, mz)
    BY <1>1, <1>3, MappingIsExact, Zenon
<1> HIDE DEF rs, rz, ws, wz, gs, gz, off, mp, mz, ds, dz, us, uz
<1>7. ASSUME NEW i \in DOMAIN dtb.memory, NEW a \in Addresses(dtb.memory[i])
      PROVE  \E e \in stage2 : e.ipa = a
    <2>1. dtb.memory[i] = input.ram
        BY <1>6, OneElement, Zenon
    <2>2. a \in rs .. (rs + rz - 1)
        BY <1>6, <2>1, Zenon
    <2>3. a - rs \in 0 .. (rz - 1) /\ rs + (a - rs) = a
        BY <1>1, <2>2
    <2>4. [ipa |-> rs + (a - rs), pa |-> RamPa + (a - rs)] \in stage2
        BY <1>6, <1>r, <2>3, Zenon
    <2>5. [ipa |-> a, pa |-> RamPa + (a - rs)] \in stage2
        BY <2>3, <2>4
    <2> DEFINE x == [ipa |-> a, pa |-> RamPa + (a - rs)]
    <2>6. x.ipa = a
        BY Zenon
    <2> QED
        BY <2>5, <2>6, Zenon
<1>8. ASSUME NEW i \in 0 .. (gz - 1)
      PROVE  [ipa |-> dtb.intc[2].start + i, pa |-> gs + i] \in stage2
    <2>1. /\ off + i \in 0 .. (mz - 1) /\ ws + (off + i) = (ws + off) + i /\ mp + (off + i) = gs + i
        BY <1>1, <1>3, <1>5
    <2>2. [ipa |-> ws + (off + i), pa |-> mp + (off + i)] \in stage2
        BY <1>6, <1>d, <2>1, Zenon
    <2> QED
        BY <1>6, <2>1, <2>2, Zenon
<1>9. ASSUME NEW e \in stage2
      PROVE  \/ /\ e.ipa \in rs .. (rs + rz - 1) /\ e.pa \in RamPa .. (RamPa + rz - 1)
                /\ e.ipa - rs = e.pa - RamPa
             \/ /\ e.ipa \in ws .. (ws + mz - 1) /\ e.pa \in mp .. (mp + mz - 1)
                /\ e.ipa - ws = e.pa - mp
    BY <1>6, <1>r, <1>d, Zenon
<1>10. ASSUME NEW e \in stage2, NEW f \in stage2 PROVE (e.ipa = f.ipa) <=> (e.pa = f.pa)
    <2> DEFINE ei == e.ipa
               ep == e.pa
               fi == f.ipa
               fp == f.pa
    <2>1. \/ ei \in rs .. (rs + rz - 1) /\ ep \in RamPa .. (RamPa + rz - 1) /\ ei - rs = ep - RamPa
          \/ ei \in ws .. (ws + mz - 1) /\ ep \in mp .. (mp + mz - 1) /\ ei - ws = ep - mp
        BY <1>9, Zenon
    <2>2. \/ fi \in rs .. (rs + rz - 1) /\ fp \in RamPa .. (RamPa + rz - 1) /\ fi - rs = fp - RamPa
          \/ fi \in ws .. (ws + mz - 1) /\ fp \in mp .. (mp + mz - 1) /\ fi - ws = fp - mp
        BY <1>9, Zenon
    <2> HIDE DEF ei, ep, fi, fp
    <2>a. /\ mz \in Nat /\ mp \in Nat /\ RamPa \in Nat /\ (rs + rz <= ws \/ ws + mz <= rs)
          /\ (RamPa + rz <= mp \/ mp + mz <= RamPa)
        BY <1>1, <1>2, <1>3, <1>4, <1>5
    <2>3. (ei = fi) <=> (ep = fp)
        BY <1>1, <2>a, <2>1, <2>2
    <2> QED
        BY <2>3, Zenon DEF ei, ep, fi, fp
<1>11. ASSUME NEW e \in stage2
       PROVE  e.ipa \notin Addresses(dtb.intc[1]) \cup Addresses(dtb.serial)
    <2> DEFINE ei == e.ipa
    <2>1. ei \in rs .. (rs + rz - 1) \/ ei \in ws .. (ws + mz - 1)
        BY <1>9, Zenon
    <2> HIDE DEF ei
    <2>2. ei \notin ds .. (ds + dz - 1) /\ ei \notin us .. (us + uz - 1)
        BY <1>1, <1>2, <1>3, <2>1
    <2> QED
        BY <1>6, <2>2, Zenon DEF ei
<1> QED
    BY <1>7, <1>8, <1>10, <1>11, Zenon DEF gs, gz

\* GuestStartsAsDescribed: every accepted layout is sound; and the guest that is entered finds its
\* Image and its device tree beyond the caches, with the tables and the TLB as the tree says
\* (LinuxBootLayout::new, LinuxGuestPlatform, build_guest_dtb, clean_dcache_poc).
THEOREM GuestAlwaysStartsAsDescribed == LaunchSpec => []GuestStartsAsDescribed
<1>1. ASSUME LaunchInv PROVE GuestStartsAsDescribed
    <2>1. ASSUME NEW i \in Initrds
          PROVE  LET l == LinuxBootLayout(input.image, input.ram, i) IN l = Err \/ LayoutIsSound(l)
        <3> DEFINE l == LinuxBootLayout(input.image, input.ram, i)
        <3>1. ImageNumbers(input.image) /\ input.ram \in Regions /\ i \in Nat
            BY <1>1, InputNumbers, InputsAssumption, Zenon DEF LaunchInv
        <3>2. CASE l # Err
            <4>1. PICK d \in Nat, p \in Regions : Parts(l, input.image, input.ram, d, p)
                BY <3>1, <3>2, LayoutValue, Zenon
            <4> HIDE DEF l
            <4>2. LayoutIsSound(l)
                BY <3>1, <4>1, LayoutSound, Zenon
            <4> QED
                BY <4>2, Zenon DEF l
        <3> QED
            BY <3>2, Zenon
    <2>2. step = "guest" => \A e \in tlb : [ipa |-> e.ipa, pa |-> e.pa] \in stage2
        BY <1>1, Zenon DEF LaunchInv, TablesInv, Entered
    <2> QED
        BY <1>1, <2>1, <2>2, GuestFindsItsImage, GuestFindsItsMap, Zenon DEF GuestStartsAsDescribed
<1> QED
    BY <1>1, LaunchInvariant, PTL

=============================================================================
