--------------------------- MODULE ChannelProofs ---------------------------
(***************************************************************************)
(* Proofs about the management request channel, for any number of sending  *)
(* contexts, operations and arguments and any last sequence number.        *)
(*                                                                         *)
(* The argument: the four counters can only be one apart (SequenceOrder),  *)
(* because a submit needs retired = sequence and only the owner of the     *)
(* Pending can make that true again, after the dispatcher acknowledged.    *)
(* Who owns which word at each step (SenderOwnership, SingleOwner,         *)
(* ReceiverOwnership) then fixes what the words hold (RequestWords,        *)
(* ReplyWords), and the promises of the channel follow.                    *)
(***************************************************************************)
EXTENDS ChannelRefinement, TLAPS

\* Building and updating a sender's handle keeps it a handle.
LEMMA HandleTypes ==
    /\ NoHandle \in Handles
    /\ \A op \in Operations, arg \in Arguments :
            NewHandle(op, arg) \in Handles
    /\ \A h \in Handles, n \in SequenceNumbers : [h EXCEPT !.sequence = n] \in Handles
    /\ \A h \in Handles, v \in Arguments \cup {None} : [h EXCEPT !.value = v] \in Handles
    /\ \A h \in Handles, f \in BOOLEAN : [h EXCEPT !.failed = f] \in Handles
<1>1. NoHandle \in Handles
  BY MaxSequenceAssumption DEF Handles, NewHandle, NoHandle, SequenceNumbers
<1>2. ASSUME NEW op \in Operations, NEW arg \in Arguments
      PROVE  NewHandle(op, arg) \in Handles
  BY MaxSequenceAssumption DEF Handles, NewHandle, NoHandle, SequenceNumbers
<1>3. ASSUME NEW h \in Handles, NEW n \in SequenceNumbers
      PROVE  [h EXCEPT !.sequence = n] \in Handles
  BY DEF Handles
<1>4. ASSUME NEW h \in Handles, NEW v \in Arguments \cup {None}
      PROVE  [h EXCEPT !.value = v] \in Handles
  BY DEF Handles
<1>5. ASSUME NEW h \in Handles, NEW f \in BOOLEAN
      PROVE  [h EXCEPT !.failed = f] \in Handles
  BY DEF Handles
<1> QED
  BY <1>1, <1>2, <1>3, <1>4, <1>5

\* The initial channel satisfies the inductive invariant.
LEMMA InitIInv == Init => IInv
<1> SUFFICES ASSUME Init PROVE IInv
  OBVIOUS
<1> USE MaxSequenceAssumption DEF Init
<1>1. TypeOK
  <2>1. <<>> \in Seq(Jobs) /\ <<>> \in Seq(Replies)
    OBVIOUS
  <2>2. /\ 0 \in SequenceNumbers
        /\ NoJob \in [sequence : SequenceNumbers, operation : Operations \cup {None},
                      argument : Arguments \cup {None}]
    BY DEF SequenceNumbers, NewJob, NoJob
  <2> QED
    BY <2>1, <2>2, HandleTypes, Zenon DEF TypeOK, SenderSteps, ReceiverSteps
<1>2. SequenceOrder /\ SenderOwnership /\ SingleOwner
  BY DEF SequenceOrder, SenderOwnership, SingleOwner, SubmitSteps, CollectSteps, OwnerSteps,
         NewHandle, NoHandle
<1>3. ReceiverOwnership /\ RequestWords /\ ReplyWords
  BY DEF ReceiverOwnership, RequestWords, ReplyWords, SubmitSteps, CollectSteps, OwnerSteps,
         ReplySteps
<1>4. ExecutedOnceInOrder /\ ReplyIsForOwnRequest /\ DoorbellIsNotLost
  BY DEF ExecutedOnceInOrder, ReplyIsForOwnRequest, DoorbellIsNotLost
<1> QED
  BY <1>1, <1>2, <1>3, <1>4 DEF IInv

-----------------------------------------------------------------------------
(***************************************************************************)
(* Each conjunct of the inductive invariant is preserved by every step.    *)
(***************************************************************************)

\* Types: a published number is at most MaxSequence, and the words that end up
\* in the histories were written by a submit or an acknowledge.
LEMMA TypeOKStep ==
    ASSUME IInv, [Next]_vars
    PROVE  TypeOK'
<1> USE MaxSequenceAssumption
  DEF TypeOK, SenderStep, ReceiverStep, counters, words, sender, receiver, history,
      SubmitSteps, CollectSteps, SenderSteps, ReplySteps, ReceiverSteps, SequenceNumbers, NewJob, NoJob
<1>1. TypeOK
  BY DEF IInv
<1>2. ASSUME NEW s \in Senders, NEW op \in Operations, NEW arg \in Arguments, ClaimWriter(s, op, arg)
      PROVE  TypeOK'
  <2>1. handle' \in [Senders -> Handles]
    BY <1>1, <1>2, HandleTypes DEF ClaimWriter
  <2>2. spc' \in [Senders -> SenderSteps]
    BY <1>1, <1>2 DEF ClaimWriter
  <2> QED
    BY <1>1, <1>2, <2>1, <2>2 DEF ClaimWriter
<1>3. ASSUME NEW s \in Senders, SubmitBusy(s)
      PROVE  TypeOK'
  BY <1>1, <1>3 DEF SubmitBusy
<1>4. ASSUME NEW s \in Senders, SubmitExhausted(s)
      PROVE  TypeOK'
  BY <1>1, <1>4 DEF SubmitExhausted
<1>5. ASSUME NEW s \in Senders, SubmitFree(s)
      PROVE  TypeOK'
  BY <1>1, <1>5 DEF SubmitFree
<1>6. ASSUME NEW s \in Senders, Ring(s)
      PROVE  TypeOK'
  BY <1>1, <1>6 DEF Ring
<1>7. ASSUME NEW s \in Senders, ObserveAcknowledged(s)
      PROVE  TypeOK'
  BY <1>1, <1>7 DEF ObserveAcknowledged
<1>8. ASSUME NEW s \in Senders, StoreOperation(s)
      PROVE  TypeOK'
  BY <1>1, <1>8 DEF StoreOperation, Handles
<1>9. ASSUME NEW s \in Senders, StoreArgument(s)
      PROVE  TypeOK'
  BY <1>1, <1>9 DEF StoreArgument, Handles
<1>10. ASSUME NEW s \in Senders, PublishSequence(s)
      PROVE  TypeOK'
  <2>1. sequence < MaxSequence
    BY <1>10 DEF IInv, SenderOwnership, PublishSequence
  <2>2. <<handle[s].operation, handle[s].argument>> \in Jobs
    BY <1>10 DEF IInv, RequestWords, PublishSequence, Jobs
  <2>3. submitted' \in Seq(Jobs)
    BY <1>1, <1>10, <2>2 DEF PublishSequence
  <2>4. handle' \in [Senders -> Handles]
    <3>1. handle[s] \in Handles /\ sequence + 1 \in SequenceNumbers
      BY <1>1, <2>1
    <3>2. [handle[s] EXCEPT !.sequence = sequence + 1] \in Handles
      BY <3>1, HandleTypes
    <3> QED
      BY <1>1, <1>10, <3>2 DEF PublishSequence
  <2> QED
    BY <1>1, <1>10, <2>1, <2>3, <2>4 DEF PublishSequence
<1>11. ASSUME NEW s \in Senders, ReleaseWriter(s)
      PROVE  TypeOK'
  <2>1. handle' \in [Senders -> Handles]
    BY <1>1, <1>11, HandleTypes DEF ReleaseWriter
  <2>2. spc' \in [Senders -> SenderSteps]
    BY <1>1, <1>11 DEF ReleaseWriter
  <2>3. /\ writer' \in BOOLEAN
        /\ UNCHANGED <<sequence, retired, taken, acknowledged, words, doorbell, receiver, history>>
    BY <1>11, Zenon DEF ReleaseWriter
  <2> QED
    BY <1>1, <2>1, <2>2, <2>3
<1>12. ASSUME NEW s \in Senders, LoadResult(s)
      PROVE  TypeOK'
  <2>1. handle' \in [Senders -> Handles]
    BY <1>1, <1>12, HandleTypes DEF LoadResult
  <2>2. spc' \in [Senders -> SenderSteps]
    BY <1>1, <1>12 DEF LoadResult
  <2> QED
    BY <1>1, <1>12, <2>1, <2>2 DEF LoadResult
<1>13. ASSUME NEW s \in Senders, LoadFailed(s)
      PROVE  TypeOK'
  <2>1. handle' \in [Senders -> Handles]
    BY <1>1, <1>13, HandleTypes DEF LoadFailed
  <2>2. spc' \in [Senders -> SenderSteps]
    BY <1>1, <1>13 DEF LoadFailed
  <2> QED
    BY <1>1, <1>13, <2>1, <2>2 DEF LoadFailed
<1>14. ASSUME NEW s \in Senders, Retire(s)
      PROVE  TypeOK'
  BY <1>1, <1>14 DEF Retire, Handles
<1>15. ASSUME NEW s \in Senders, DropPending(s)
      PROVE  TypeOK'
  <2>1. handle' \in [Senders -> Handles]
    BY <1>1, <1>15, HandleTypes DEF DropPending
  <2>2. spc' \in [Senders -> SenderSteps]
    BY <1>1, <1>15 DEF DropPending
  <2> QED
    BY <1>1, <1>15, <2>1, <2>2 DEF DropPending
<1>16. ASSUME TakeInterrupt
      PROVE  TypeOK'
  BY <1>1, <1>16, Zenon DEF TakeInterrupt
<1>17. ASSUME LoadSequence
      PROVE  TypeOK'
  BY <1>1, <1>17 DEF LoadSequence
<1>18. ASSUME TakeNothing
      PROVE  TypeOK'
  BY <1>1, <1>18 DEF TakeNothing
<1>19. ASSUME ClaimRequest
      PROVE  TypeOK'
  BY <1>1, <1>19 DEF ClaimRequest
<1>20. ASSUME LoadOperation
      PROVE  TypeOK'
  BY <1>1, <1>20, Zenon DEF LoadOperation
<1>21. ASSUME LoadArgument
      PROVE  TypeOK'
  BY <1>1, <1>21, Zenon DEF LoadArgument
<1>22. ASSUME StoreResult
      PROVE  TypeOK'
  <2>1. answers[Len(answers)] \in Replies
    BY <1>1, <1>22 DEF IInv, ReceiverOwnership, ReplyWords, StoreResult
  <2> QED
    BY <1>1, <1>22, <2>1 DEF StoreResult, Replies
<1>23. ASSUME StoreFailed
      PROVE  TypeOK'
  <2>1. answers[Len(answers)] \in Replies
    BY <1>1, <1>23 DEF IInv, ReceiverOwnership, ReplyWords, StoreFailed
  <2> QED
    BY <1>1, <1>23, <2>1 DEF StoreFailed, Replies
<1>24. ASSUME Acknowledge
      PROVE  TypeOK'
  BY <1>1, <1>24 DEF Acknowledge
<1>25. ASSUME HaltReceiver
      PROVE  TypeOK'
  BY <1>1, <1>25 DEF HaltReceiver
<1>26. ASSUME NEW reply \in Replies, Execute(reply)
      PROVE  TypeOK'
  <2>1. <<request.operation, request.argument>> \in Jobs
    BY <1>1, <1>26 DEF IInv, SequenceOrder, ReceiverOwnership, RequestWords, Execute, Jobs
  <2> QED
    BY <1>1, <1>26, <2>1 DEF Execute
<1>27. CASE UNCHANGED vars
  BY <1>1, <1>27 DEF vars
<1>28. CASE NotifyFatal
  BY <1>1, <1>28 DEF NotifyFatal
<1> HIDE DEF TypeOK
<1> QED
  BY <1>2, <1>3, <1>4, <1>5, <1>6, <1>7, <1>8, <1>9, <1>10, <1>11, <1>12, <1>13,
     <1>14, <1>15, <1>16, <1>17, <1>18, <1>19, <1>20, <1>21, <1>22, <1>23, <1>24, <1>25,
     <1>26, <1>27, <1>28 DEF Next, SenderNext, ReceiverNext

\* The counters stay in order: only publishing, claiming, acknowledging and
\* retiring move one, and each moves it to its neighbour.
LEMMA SequenceOrderStep ==
    ASSUME IInv, [Next]_vars
    PROVE  SequenceOrder'
<1> USE MaxSequenceAssumption, NoneAssumption
  DEF IInv, SenderStep, ReceiverStep, counters, words, sender, receiver, history,
     TypeOK, SequenceOrder, SenderOwnership, SingleOwner, ReceiverOwnership, CollectSteps, OwnerSteps,
     ReplySteps, SequenceNumbers
<1>1. ASSUME NEW s \in Senders, NEW op \in Operations, NEW arg \in Arguments, ClaimWriter(s, op, arg)
      PROVE  SequenceOrder'
  BY <1>1 DEF ClaimWriter
<1>2. ASSUME NEW s \in Senders, SubmitBusy(s) \/ SubmitExhausted(s) \/ SubmitFree(s)
      PROVE  SequenceOrder'
  BY <1>2 DEF SubmitBusy, SubmitExhausted, SubmitFree
<1>3. ASSUME NEW s \in Senders, Ring(s) \/ ObserveAcknowledged(s)
      PROVE  SequenceOrder'
  BY <1>3 DEF Ring, ObserveAcknowledged
<1>4. ASSUME NEW s \in Senders, StoreOperation(s)
      PROVE  SequenceOrder'
  BY <1>4 DEF StoreOperation
<1>5. ASSUME NEW s \in Senders, StoreArgument(s)
      PROVE  SequenceOrder'
  BY <1>5 DEF StoreArgument
<1>6. ASSUME NEW s \in Senders, PublishSequence(s)
      PROVE  SequenceOrder'
  BY <1>6 DEF PublishSequence
<1>7. ASSUME NEW s \in Senders, ReleaseWriter(s)
      PROVE  SequenceOrder'
  BY <1>7 DEF ReleaseWriter
<1>8. ASSUME NEW s \in Senders, LoadResult(s)
      PROVE  SequenceOrder'
  BY <1>8 DEF LoadResult
<1>9. ASSUME NEW s \in Senders, LoadFailed(s)
      PROVE  SequenceOrder'
  BY <1>9 DEF LoadFailed
<1>10. ASSUME NEW s \in Senders, Retire(s)
      PROVE  SequenceOrder'
  BY <1>10 DEF Retire
<1>11. ASSUME NEW s \in Senders, DropPending(s)
      PROVE  SequenceOrder'
  BY <1>11 DEF DropPending
<1>12. ASSUME ReceiverNext
      PROVE  SequenceOrder'
  <2>1. CASE TakeInterrupt \/ LoadSequence \/ TakeNothing
    BY <2>1 DEF TakeInterrupt, LoadSequence, TakeNothing
  <2>2. CASE ClaimRequest
    BY <2>2 DEF ClaimRequest
  <2>3. CASE LoadOperation \/ LoadArgument \/ \E reply \in Replies : Execute(reply)
    BY <2>3 DEF LoadOperation, LoadArgument, Execute
  <2>4. CASE StoreResult \/ StoreFailed \/ HaltReceiver
    BY <2>4 DEF StoreResult, StoreFailed, HaltReceiver
  <2>5. CASE Acknowledge
    BY <2>5 DEF Acknowledge
  <2> QED
    BY <1>12, <2>1, <2>2, <2>3, <2>4, <2>5, Zenon DEF ReceiverNext
<1>13. CASE UNCHANGED vars
  BY <1>13 DEF vars
<1>14. CASE NotifyFatal
  BY <1>14 DEF NotifyFatal
<1> HIDE DEF SequenceOrder, IInv
<1> QED
  BY <1>1, <1>2, <1>3, <1>4, <1>5, <1>6, <1>7, <1>8, <1>9, <1>10, <1>11, <1>12,
     <1>13, <1>14 DEF Next, SenderNext

\* A sender's knowledge of the counters survives the steps of everybody else.
LEMMA SenderOwnershipStep ==
    ASSUME IInv, [Next]_vars
    PROVE  SenderOwnership'
<1> USE MaxSequenceAssumption, NoneAssumption
  DEF IInv, SenderStep, ReceiverStep, counters, words, sender, receiver, history,
     TypeOK, SequenceOrder, SenderOwnership, SingleOwner, ReceiverOwnership, SubmitSteps, CollectSteps,
     OwnerSteps, ReplySteps, SequenceNumbers, NewHandle, NoHandle, Handles, NewJob, NoJob
<1>1. ASSUME NEW s \in Senders, NEW op \in Operations, NEW arg \in Arguments, ClaimWriter(s, op, arg)
      PROVE  SenderOwnership'
  <2>1. spc'[s] = "check" /\ handle'[s].sequence = 0 /\ writer'
        /\ \A t \in Senders : t # s => spc'[t] = spc[t] /\ handle'[t] = handle[t]
    BY <1>1 DEF ClaimWriter
  <2>2. UNCHANGED <<sequence, retired, taken, acknowledged, words, receiver, history>>
    BY <1>1 DEF ClaimWriter
  <2>3. \A t \in Senders : spc[t] \notin SubmitSteps
    BY <1>1 DEF ClaimWriter
  <2> QED
    BY <2>1, <2>2, <2>3
<1>2. ASSUME NEW s \in Senders, SubmitBusy(s)
      PROVE  SenderOwnership'
  BY <1>2 DEF SubmitBusy
<1>3. ASSUME NEW s \in Senders, SubmitExhausted(s)
      PROVE  SenderOwnership'
  BY <1>3 DEF SubmitExhausted
<1>4. ASSUME NEW s \in Senders, SubmitFree(s)
      PROVE  SenderOwnership'
  BY <1>4 DEF SubmitFree
<1>5. ASSUME NEW s \in Senders, Ring(s)
      PROVE  SenderOwnership'
  BY <1>5 DEF Ring
<1>6. ASSUME NEW s \in Senders, ObserveAcknowledged(s)
      PROVE  SenderOwnership'
  BY <1>6, Zenon DEF ObserveAcknowledged
<1>7. ASSUME NEW s \in Senders, StoreOperation(s)
      PROVE  SenderOwnership'
  BY <1>7 DEF StoreOperation
<1>8. ASSUME NEW s \in Senders, StoreArgument(s)
      PROVE  SenderOwnership'
  BY <1>8 DEF StoreArgument
<1>9. ASSUME NEW s \in Senders, PublishSequence(s)
      PROVE  SenderOwnership'
  <2>1. retired = sequence /\ sequence + 1 \in SequenceNumbers
    BY <1>9 DEF PublishSequence
  <2>2. \A t \in Senders : spc[t] \notin OwnerSteps
    BY <2>1
  <2>3. \A t \in Senders : t # s => spc'[t] = spc[t] /\ handle'[t] = handle[t]
                                  /\ spc[t] \notin SubmitSteps
    BY <1>9 DEF PublishSequence
  <2>4. spc'[s] = "release" /\ handle'[s].sequence = sequence'
        /\ sequence' = sequence + 1 /\ retired' = retired /\ writer'
        /\ acknowledged' = acknowledged
    BY <1>9 DEF PublishSequence
  <2>5. SUFFICES ASSUME NEW t \in Senders
                 PROVE  SenderOwnership!(t)'
    BY Zenon DEF SenderOwnership
  <2>6. CASE t = s
    <3>1. sequence + 1 # sequence
      BY <2>1 DEF SequenceNumbers
    <3> QED
      BY <2>1, <2>4, <2>6, <3>1, Zenon
  <2>7. CASE t # s
    BY <2>1, <2>2, <2>3, <2>4, <2>7
  <2> QED
    BY <2>6, <2>7, Zenon
<1>10. ASSUME NEW s \in Senders, ReleaseWriter(s)
      PROVE  SenderOwnership'
  <2>1. \/ spc[s] = "release" /\ spc'[s] = "ring" /\ handle' = handle
        \/ spc[s] = "refuse" /\ spc'[s] = "idle" /\ handle'[s].sequence = 0
    BY <1>10 DEF ReleaseWriter
  <2>2. \A t \in Senders : t # s => spc'[t] = spc[t] /\ handle'[t] = handle[t]
    BY <1>10 DEF ReleaseWriter
  <2>3. \A t \in Senders : t # s => spc[t] \notin SubmitSteps
    BY <2>1
  <2>4. UNCHANGED <<sequence, retired, acknowledged>>
    BY <1>10 DEF ReleaseWriter
  <2> QED
    BY <2>1, <2>2, <2>3, <2>4
<1>11. ASSUME NEW s \in Senders, LoadResult(s)
      PROVE  SenderOwnership'
  BY <1>11 DEF LoadResult
<1>12. ASSUME NEW s \in Senders, LoadFailed(s)
      PROVE  SenderOwnership'
  BY <1>12 DEF LoadFailed
<1>13. ASSUME NEW s \in Senders, Retire(s)
      PROVE  SenderOwnership'
  BY <1>13 DEF Retire
<1>14. ASSUME NEW s \in Senders, DropPending(s)
      PROVE  SenderOwnership'
  BY <1>14, Zenon DEF DropPending
<1>15. ASSUME ReceiverNext
      PROVE  SenderOwnership'
  <2>1. /\ UNCHANGED <<writer, sequence, retired, spc, handle>>
        /\ acknowledged' = acknowledged \/ (acknowledged' = sequence /\ acknowledged # sequence)
    BY <1>15, Zenon DEF ReceiverNext, TakeInterrupt, LoadSequence, TakeNothing, ClaimRequest,
       LoadOperation, LoadArgument, Execute, StoreResult, StoreFailed, Acknowledge, HaltReceiver
  <2> QED
    BY <2>1
<1>16. CASE UNCHANGED vars
  BY <1>16 DEF vars
<1>17. CASE NotifyFatal
  BY <1>17 DEF NotifyFatal
<1> HIDE DEF SenderOwnership, IInv
<1> QED
  BY <1>1, <1>2, <1>3, <1>4, <1>5, <1>6, <1>7, <1>8, <1>9, <1>10, <1>11, <1>12,
     <1>13, <1>14, <1>15, <1>16, <1>17 DEF Next, SenderNext

\* Two senders are never both submitting, nor both owners of a Pending.
LEMMA SingleOwnerStep ==
    ASSUME IInv, [Next]_vars
    PROVE  SingleOwner'
<1> USE MaxSequenceAssumption, NoneAssumption
  DEF IInv, SenderStep, ReceiverStep, counters, words, sender, receiver, history,
     TypeOK, SenderOwnership, SingleOwner, SubmitSteps, CollectSteps, OwnerSteps
<1>1. ASSUME NEW s \in Senders, NEW op \in Operations, NEW arg \in Arguments, ClaimWriter(s, op, arg)
      PROVE  SingleOwner'
  BY <1>1 DEF ClaimWriter
<1>2. ASSUME NEW s \in Senders, SubmitBusy(s)
      PROVE  SingleOwner'
  BY <1>2 DEF SubmitBusy
<1>3. ASSUME NEW s \in Senders, SubmitExhausted(s)
      PROVE  SingleOwner'
  BY <1>3 DEF SubmitExhausted
<1>4. ASSUME NEW s \in Senders, SubmitFree(s)
      PROVE  SingleOwner'
  BY <1>4 DEF SubmitFree
<1>5. ASSUME NEW s \in Senders, Ring(s)
      PROVE  SingleOwner'
  BY <1>5 DEF Ring
<1>6. ASSUME NEW s \in Senders, ObserveAcknowledged(s)
      PROVE  SingleOwner'
  BY <1>6 DEF ObserveAcknowledged
<1>7. ASSUME NEW s \in Senders, StoreOperation(s)
      PROVE  SingleOwner'
  BY <1>7 DEF StoreOperation
<1>8. ASSUME NEW s \in Senders, StoreArgument(s)
      PROVE  SingleOwner'
  BY <1>8 DEF StoreArgument
<1>9. ASSUME NEW s \in Senders, PublishSequence(s)
      PROVE  SingleOwner'
  BY <1>9 DEF PublishSequence
<1>10. ASSUME NEW s \in Senders, ReleaseWriter(s)
      PROVE  SingleOwner'
  BY <1>10 DEF ReleaseWriter
<1>11. ASSUME NEW s \in Senders, LoadResult(s)
      PROVE  SingleOwner'
  BY <1>11 DEF LoadResult
<1>12. ASSUME NEW s \in Senders, LoadFailed(s)
      PROVE  SingleOwner'
  BY <1>12 DEF LoadFailed
<1>13. ASSUME NEW s \in Senders, Retire(s)
      PROVE  SingleOwner'
  BY <1>13 DEF Retire
<1>14. ASSUME NEW s \in Senders, DropPending(s)
      PROVE  SingleOwner'
  BY <1>14 DEF DropPending
<1>15. ASSUME ReceiverNext
      PROVE  SingleOwner'
  BY <1>15, Zenon DEF ReceiverNext, TakeInterrupt, LoadSequence, TakeNothing, ClaimRequest,
     LoadOperation, LoadArgument, Execute, StoreResult, StoreFailed, Acknowledge, HaltReceiver
<1>16. CASE UNCHANGED vars
  BY <1>16 DEF vars
<1>17. CASE NotifyFatal
  BY <1>17 DEF NotifyFatal
<1> HIDE DEF SingleOwner, IInv
<1> QED
  BY <1>1, <1>2, <1>3, <1>4, <1>5, <1>6, <1>7, <1>8, <1>9, <1>10, <1>11, <1>12,
     <1>13, <1>14, <1>15, <1>16, <1>17 DEF Next, SenderNext

\* The dispatcher's view of the counters survives every sender step, because a
\* taken request cannot be overwritten before it is retired.
LEMMA ReceiverOwnershipStep ==
    ASSUME IInv, [Next]_vars
    PROVE  ReceiverOwnership'
<1> USE MaxSequenceAssumption, NoneAssumption
  DEF IInv, SenderStep, ReceiverStep, counters, words, sender, receiver, history,
     TypeOK, SequenceOrder, SenderOwnership, SingleOwner, ReceiverOwnership, SubmitSteps, CollectSteps,
     OwnerSteps, ReplySteps, SequenceNumbers, NewJob, NoJob
<1>1. ASSUME NEW s \in Senders, NEW op \in Operations, NEW arg \in Arguments, ClaimWriter(s, op, arg)
      PROVE  ReceiverOwnership'
  BY <1>1 DEF ClaimWriter
<1>2. ASSUME NEW s \in Senders, SubmitBusy(s) \/ SubmitExhausted(s) \/ SubmitFree(s)
      PROVE  ReceiverOwnership'
  BY <1>2 DEF SubmitBusy, SubmitExhausted, SubmitFree
<1>3. ASSUME NEW s \in Senders, Ring(s) \/ ObserveAcknowledged(s)
      PROVE  ReceiverOwnership'
  BY <1>3 DEF Ring, ObserveAcknowledged
<1>4. ASSUME NEW s \in Senders, StoreOperation(s)
      PROVE  ReceiverOwnership'
  BY <1>4 DEF StoreOperation
<1>5. ASSUME NEW s \in Senders, StoreArgument(s)
      PROVE  ReceiverOwnership'
  BY <1>5, Zenon DEF StoreArgument
<1>6. ASSUME NEW s \in Senders, PublishSequence(s)
      PROVE  ReceiverOwnership'
  BY <1>6 DEF PublishSequence
<1>7. ASSUME NEW s \in Senders, ReleaseWriter(s)
      PROVE  ReceiverOwnership'
  BY <1>7 DEF ReleaseWriter
<1>8. ASSUME NEW s \in Senders, LoadResult(s)
      PROVE  ReceiverOwnership'
  BY <1>8 DEF LoadResult
<1>9. ASSUME NEW s \in Senders, LoadFailed(s)
      PROVE  ReceiverOwnership'
  BY <1>9 DEF LoadFailed
<1>10. ASSUME NEW s \in Senders, Retire(s)
      PROVE  ReceiverOwnership'
  BY <1>10 DEF Retire
<1>11. ASSUME NEW s \in Senders, DropPending(s)
      PROVE  ReceiverOwnership'
  BY <1>11 DEF DropPending
<1>12. ASSUME ReceiverNext
      PROVE  ReceiverOwnership'
  <2>1. CASE TakeInterrupt \/ LoadSequence \/ TakeNothing
    BY <2>1 DEF TakeInterrupt, LoadSequence, TakeNothing
  <2>2. CASE ClaimRequest
    BY <2>2 DEF ClaimRequest
  <2>3. CASE LoadOperation \/ LoadArgument \/ \E reply \in Replies : Execute(reply)
    BY <2>3 DEF LoadOperation, LoadArgument, Execute
  <2>4. CASE StoreResult \/ StoreFailed \/ HaltReceiver
    BY <2>4, Zenon DEF StoreResult, StoreFailed, HaltReceiver
  <2>5. CASE Acknowledge
    BY <2>5 DEF Acknowledge
  <2> QED
    BY <1>12, <2>1, <2>2, <2>3, <2>4, <2>5, Zenon DEF ReceiverNext
<1>13. CASE UNCHANGED vars
  BY <1>13 DEF vars
<1>14. CASE NotifyFatal
  BY <1>14 DEF NotifyFatal
<1> HIDE DEF ReceiverOwnership, IInv
<1> QED
  BY <1>1, <1>2, <1>3, <1>4, <1>5, <1>6, <1>7, <1>8, <1>9, <1>10, <1>11, <1>12,
     <1>13, <1>14 DEF Next, SenderNext

\* What the dispatcher executes is an operation with an argument.
LEMMA RequestIsAJob ==
    ASSUME IInv, rpc = "execute"
    PROVE  /\ <<request.operation, request.argument>> \in Jobs
           /\ submitted[sequence] = <<request.operation, request.argument>>
<1>1. /\ submitted \in Seq(Jobs)
      /\ sequence \in Nat /\ retired \in Nat /\ taken \in Nat /\ acknowledged \in Nat
  BY DEF IInv, TypeOK, SequenceNumbers
<1>2. taken = sequence /\ acknowledged # sequence /\ Len(submitted) = sequence /\ SequenceOrder
  BY Zenon DEF IInv, ReceiverOwnership, RequestWords
<1>3. sequence \in 1 .. Len(submitted) /\ retired # sequence
  BY <1>1, <1>2 DEF SequenceOrder
<1>4. submitted[sequence] = <<request.operation, request.argument>>
  BY <1>3 DEF IInv, RequestWords
<1> QED
  BY <1>1, <1>3, <1>4

\* The request words change only while no request is outstanding.
LEMMA RequestWordsStep ==
    ASSUME IInv, [Next]_vars
    PROVE  RequestWords'
<1>1. /\ spc \in [Senders -> SenderSteps] /\ handle \in [Senders -> Handles]
      /\ sequence \in Nat /\ retired \in Nat /\ taken \in Nat /\ acknowledged \in Nat
      /\ submitted \in Seq(Jobs)
      /\ request \in [sequence : SequenceNumbers, operation : Operations \cup {None},
                      argument : Arguments \cup {None}]
  BY DEF IInv, TypeOK, SequenceNumbers
<1>2. RequestWords /\ SenderOwnership /\ SingleOwner
  BY DEF IInv
<1>3. \A s \in Senders : spc[s] \in OwnerSteps \cup {"collected"} =>
          handle[s].sequence \in 1 .. sequence
  BY <1>1 DEF IInv, SenderOwnership, SequenceOrder, TypeOK, SequenceNumbers
<1>4. \A s \in Senders : spc[s] \in {"operation", "argument"} =>
          retired = sequence /\ rpc \notin {"operation", "argument", "execute"}
  BY <1>1 DEF IInv, SenderOwnership, SequenceOrder, ReceiverOwnership
<1> USE <1>1 DEF SubmitSteps, CollectSteps, OwnerSteps
<1>5. ASSUME NEW s \in Senders, NEW op \in Operations, NEW arg \in Arguments, ClaimWriter(s, op, arg)
      PROVE  RequestWords'
  BY <1>2, <1>5, Zenon DEF ClaimWriter, SenderStep, NewHandle, RequestWords, words, receiver, history
<1>6. ASSUME NEW s \in Senders,
             SubmitBusy(s) \/ SubmitExhausted(s) \/ SubmitFree(s) \/ Ring(s) \/ ObserveAcknowledged(s)
      PROVE  RequestWords'
  <2>1. /\ \A t \in Senders \ {s} : spc'[t] = spc[t]
        /\ spc'[s] \in SubmitSteps => spc[s] \in SubmitSteps
        /\ spc'[s] \notin {"argument", "publish"}
        /\ spc'[s] \in OwnerSteps \cup {"collected"} => spc[s] \in OwnerSteps
        /\ UNCHANGED <<sequence, retired, operation, argument, handle, rpc, request, submitted>>
    BY <1>6 DEF SubmitBusy, SubmitExhausted, SubmitFree, Ring, ObserveAcknowledged, SenderStep,
       counters, words, receiver, history
  <2> HIDE DEF SubmitSteps, CollectSteps, OwnerSteps
  <2> QED
    BY <1>2, <2>1, Zenon DEF RequestWords
<1>7. ASSUME NEW s \in Senders, StoreOperation(s)
      PROVE  RequestWords'
  BY <1>2, <1>4, <1>7, Zenon DEF StoreOperation, SenderStep, RequestWords, SingleOwner, counters,
     receiver, history
<1>8. ASSUME NEW s \in Senders, StoreArgument(s)
      PROVE  RequestWords'
  BY <1>2, <1>4, <1>8, Zenon DEF StoreArgument, SenderStep, RequestWords, SingleOwner, counters,
     receiver, history
<1>9. ASSUME NEW s \in Senders, PublishSequence(s)
      PROVE  RequestWords'
  <2>1. /\ spc' = [spc EXCEPT ![s] = "release"] /\ spc[s] = "publish"
        /\ sequence' = Len(submitted) + 1
        /\ handle' = [handle EXCEPT ![s].sequence = sequence']
        /\ submitted' = Append(submitted, <<handle[s].operation, handle[s].argument>>)
        /\ handle[s].operation = operation /\ handle[s].argument = argument
        /\ <<handle[s].operation, handle[s].argument>> \in Jobs
        /\ UNCHANGED <<retired, operation, argument, rpc, request>>
    BY <1>2, <1>9 DEF PublishSequence, SenderStep, RequestWords, words, receiver, Jobs
  <2>2. /\ Len(submitted') = sequence' /\ submitted'[sequence'] = <<operation, argument>>
        /\ \A n \in 1 .. sequence : submitted'[n] = submitted[n]
    BY <1>2, <2>1 DEF RequestWords
  <2>3. /\ handle'[s].operation = operation /\ handle'[s].argument = argument
        /\ handle'[s].sequence = sequence'
        /\ \A t \in Senders \ {s} : handle'[t] = handle[t] /\ spc'[t] = spc[t]
    BY <2>1 DEF Handles
  <2>4. \A t \in Senders \ {s} : spc[t] \notin SubmitSteps
    BY <1>2, <2>1 DEF SingleOwner
  <2> QED
    BY <1>2, <1>3, <2>1, <2>2, <2>3, <2>4 DEF RequestWords
<1>10. ASSUME NEW s \in Senders, ReleaseWriter(s)
      PROVE  RequestWords'
  <2>1. /\ \A t \in Senders \ {s} : spc'[t] = spc[t] /\ handle'[t] = handle[t]
        /\ spc'[s] \notin SubmitSteps
        /\ spc'[s] \in OwnerSteps \cup {"collected"} => spc[s] \in OwnerSteps /\ handle'[s] = handle[s]
        /\ UNCHANGED <<sequence, retired, operation, argument, rpc, request, submitted>>
        /\ \A x \in {"argument", "publish"} : x \in SubmitSteps
    BY <1>10 DEF ReleaseWriter, SenderStep, words, receiver, history
  <2> HIDE <1>1 DEF SubmitSteps, CollectSteps, OwnerSteps
  <2>2. ASSUME NEW t \in Senders
        PROVE  /\ spc'[t] \in SubmitSteps \cup {"argument", "publish"} =>
                      spc'[t] = spc[t] /\ handle'[t] = handle[t]
               /\ spc'[t] \in OwnerSteps \cup {"collected"} =>
                      /\ spc[t] \in OwnerSteps \cup {"collected"}
                      /\ handle'[t].operation = handle[t].operation
                      /\ handle'[t].argument = handle[t].argument
                      /\ handle'[t].sequence = handle[t].sequence
    BY <2>1
  <2>3. ASSUME NEW t \in Senders
        PROVE  /\ spc'[t] \in SubmitSteps =>
                      handle'[t].operation \in Operations /\ handle'[t].argument \in Arguments
               /\ spc'[t] \in {"argument", "publish"} => operation = handle'[t].operation
               /\ spc'[t] = "publish" => argument = handle'[t].argument
    BY <1>2, <2>2 DEF RequestWords
  <2>4. ASSUME NEW t \in Senders, spc'[t] \in OwnerSteps \cup {"collected"}
        PROVE  submitted[handle'[t].sequence] = <<handle'[t].operation, handle'[t].argument>>
    BY <1>2, <2>2, <2>4 DEF RequestWords
  <2> QED
    BY <1>2, <2>1, <2>3, <2>4, Zenon DEF RequestWords
<1>11. ASSUME NEW s \in Senders, LoadResult(s) \/ LoadFailed(s)
      PROVE  RequestWords'
  <2>1. /\ \A t \in Senders \ {s} : spc'[t] = spc[t] /\ handle'[t] = handle[t]
        /\ spc[s] \in OwnerSteps
        /\ spc'[s] \notin SubmitSteps /\ spc'[s] \notin {"argument", "publish"}
        /\ UNCHANGED <<sequence, retired, operation, argument, rpc, request, submitted>>
    BY <1>11 DEF LoadResult, LoadFailed, SenderStep, counters, words, receiver, history
  <2>2. /\ handle'[s].operation = handle[s].operation
        /\ handle'[s].argument = handle[s].argument
        /\ handle'[s].sequence = handle[s].sequence
    BY <1>11 DEF LoadResult, LoadFailed, Handles
  <2> HIDE <1>1 DEF SubmitSteps, CollectSteps, OwnerSteps
  <2>3. ASSUME NEW t \in Senders
        PROVE  /\ spc'[t] \in SubmitSteps \cup {"argument", "publish"} =>
                      spc'[t] = spc[t] /\ handle'[t] = handle[t]
               /\ spc'[t] \in OwnerSteps \cup {"collected"} =>
                      spc[t] \in OwnerSteps \cup {"collected"}
               /\ handle'[t].operation = handle[t].operation
               /\ handle'[t].argument = handle[t].argument
               /\ handle'[t].sequence = handle[t].sequence
    BY <2>1, <2>2, Zenon
  <2>4. ASSUME NEW t \in Senders PROVE RequestWords!3!(t)'
    BY <1>2, <2>1, <2>3, Zenon DEF RequestWords
  <2>5. RequestWords!1' /\ RequestWords!2' /\ RequestWords!4' /\ RequestWords!5'
    BY <1>2, <2>1, Zenon DEF RequestWords
  <2> QED
    BY <2>4, <2>5, Zenon DEF RequestWords
<1>12. ASSUME NEW s \in Senders, Retire(s)
      PROVE  RequestWords'
  BY <1>2, <1>12, Zenon DEF Retire, SenderStep, RequestWords, SenderOwnership, words, receiver, history
<1>13. ASSUME NEW s \in Senders, DropPending(s)
      PROVE  RequestWords'
  BY <1>2, <1>13, Zenon DEF DropPending, SenderStep, RequestWords, counters, words, receiver, history
<1>14. ASSUME ReceiverNext
      PROVE  RequestWords'
  <2>1. UNCHANGED <<sequence, retired, operation, argument, spc, handle, submitted>>
    BY <1>14 DEF ReceiverNext, TakeInterrupt, LoadSequence, TakeNothing, ClaimRequest, LoadOperation,
       LoadArgument, Execute, StoreResult, StoreFailed, Acknowledge, HaltReceiver, counters, words,
       sender, history
  <2>2. /\ rpc' = "argument" => request'.operation = operation
        /\ rpc' = "execute" => request'.operation = operation /\ request'.argument = argument
    BY <1>2, <1>14 DEF ReceiverNext, TakeInterrupt, LoadSequence, TakeNothing, ClaimRequest,
       LoadOperation, LoadArgument, Execute, StoreResult, StoreFailed, Acknowledge, HaltReceiver,
       ReceiverStep, RequestWords
  <2> QED
    BY <1>2, <2>1, <2>2, Zenon DEF RequestWords
<1>15. CASE UNCHANGED vars
  BY <1>2, <1>15, Zenon DEF vars, RequestWords, counters, words, sender, receiver, history
<1>16. CASE NotifyFatal
  BY <1>2, <1>16, Zenon DEF NotifyFatal, RequestWords, counters, words, sender, receiver, history
<1> QED
  BY <1>5, <1>6, <1>7, <1>8, <1>9, <1>10, <1>11, <1>12, <1>13, <1>14, <1>15, <1>16
  DEF Next, SenderNext

\* The reply words change only between take and acknowledge.
LEMMA ReplyWordsStep ==
    ASSUME IInv, [Next]_vars
    PROVE  ReplyWords'
<1>1. /\ spc \in [Senders -> SenderSteps] /\ handle \in [Senders -> Handles]
      /\ sequence \in Nat /\ retired \in Nat /\ taken \in Nat /\ acknowledged \in Nat
      /\ executed \in Seq(Jobs) /\ answers \in Seq(Replies) /\ rpc \in ReceiverSteps
  BY DEF IInv, TypeOK, SequenceNumbers
<1>2. ReplyWords /\ SequenceOrder
  BY DEF IInv
<1>3. \A s \in Senders : spc[s] \in OwnerSteps => handle[s].sequence = sequence /\ retired # sequence
  BY Zenon DEF IInv, SenderOwnership
<1>4. \A s \in Senders : spc[s] \in CollectSteps =>
          acknowledged = sequence /\ rpc \notin ReplySteps
  BY DEF IInv, SenderOwnership, ReceiverOwnership
<1>5. /\ rpc \in {"operation", "argument", "execute"} \cup ReplySteps =>
            request.sequence = sequence /\ taken = sequence /\ acknowledged # sequence
      /\ rpc = "claim" => request.sequence \in {taken, sequence}
  BY DEF IInv, ReceiverOwnership
<1> USE <1>1 DEF CollectSteps, ReplySteps
<1>6. ASSUME NEW s \in Senders,
             \/ \E op \in Operations, arg \in Arguments : ClaimWriter(s, op, arg)
             \/ SubmitBusy(s) \/ SubmitExhausted(s) \/ SubmitFree(s) \/ Ring(s) \/ ReleaseWriter(s)
             \/ DropPending(s) \/ StoreOperation(s) \/ StoreArgument(s)
      PROVE  ReplyWords'
  <2>1. /\ \A t \in Senders : spc'[t] \in CollectSteps => spc'[t] = spc[t] /\ handle'[t] = handle[t]
        /\ UNCHANGED <<sequence, retired, taken, acknowledged, result, failed, rpc, executed, answers>>
    BY <1>6, Zenon DEF ClaimWriter, SubmitBusy, SubmitExhausted, SubmitFree, Ring, ReleaseWriter,
       DropPending, StoreOperation, StoreArgument, SenderStep, counters, words, receiver, history
  <2> QED
    BY <1>2, <2>1 DEF ReplyWords, ReceiverSteps
<1>7. ASSUME NEW s \in Senders, PublishSequence(s)
      PROVE  ReplyWords'
  <2>1. /\ \A t \in Senders : spc'[t] \in CollectSteps => spc'[t] = spc[t] /\ handle'[t] = handle[t]
        /\ sequence' = sequence + 1 /\ retired = sequence /\ acknowledged = sequence
        /\ rpc \notin ReplySteps
        /\ UNCHANGED <<retired, taken, acknowledged, result, failed, rpc, executed, answers>>
    BY <1>2, <1>5, <1>7 DEF PublishSequence, SenderStep, words, receiver, history, IInv, SenderOwnership,
       SequenceOrder
  <2> QED
    BY <1>2, <2>1, Zenon DEF ReplyWords, ReceiverSteps
<1>8. ASSUME NEW s \in Senders, ObserveAcknowledged(s)
      PROVE  ReplyWords'
  <2>1. /\ \A t \in Senders : spc'[t] \in {"failed", "retire"} => spc'[t] = spc[t]
        /\ UNCHANGED <<sequence, retired, taken, acknowledged, result, failed, rpc, executed, answers,
                       handle>>
    BY <1>8 DEF ObserveAcknowledged, SenderStep, counters, words, receiver, history
  <2> QED
    BY <1>2, <2>1 DEF ReplyWords, ReceiverSteps
<1>9. ASSUME NEW s \in Senders, LoadResult(s) \/ LoadFailed(s)
      PROVE  ReplyWords'
  <2>1. /\ \A t \in Senders \ {s} : spc'[t] = spc[t] /\ handle'[t] = handle[t]
        /\ \/ spc'[s] = "failed" /\ handle'[s].value = result
           \/ spc'[s] = "retire" /\ handle'[s].failed = failed /\ handle'[s].value = result
        /\ UNCHANGED <<sequence, retired, taken, acknowledged, result, failed, rpc, executed, answers>>
    BY <1>2, <1>9 DEF LoadResult, LoadFailed, SenderStep, Handles, ReplyWords, counters, words, receiver,
       history
  <2> QED
    BY <1>2, <2>1, Zenon DEF ReplyWords, ReceiverSteps
<1>10. ASSUME NEW s \in Senders, Retire(s)
      PROVE  ReplyWords'
  <2>1. /\ \A t \in Senders : spc'[t] \in {"failed", "retire"} => spc'[t] = spc[t]
        /\ retired' = sequence
        /\ UNCHANGED <<sequence, taken, acknowledged, result, failed, rpc, executed, answers, handle>>
    BY <1>3, <1>10 DEF Retire, SenderStep, OwnerSteps, words, receiver, history
  <2> QED
    BY <1>2, <2>1 DEF ReplyWords, ReceiverSteps
<1>11. ASSUME TakeInterrupt \/ LoadSequence \/ TakeNothing \/ LoadOperation \/ LoadArgument \/ HaltReceiver
      PROVE  ReplyWords'
  <2>1. /\ \/ rpc' = "halted"
           \/ rpc \notin ReplySteps \cup {"halted"} /\ rpc' \notin ReplySteps \cup {"halted"}
        /\ UNCHANGED <<sequence, retired, taken, acknowledged, result, failed, executed, answers, spc,
                       handle>>
    BY <1>11 DEF TakeInterrupt, LoadSequence, TakeNothing, LoadOperation, LoadArgument, HaltReceiver,
       ReceiverStep, counters, words, sender, history
  <2> QED
    BY <1>2, <2>1 DEF ReplyWords, ReceiverSteps
<1>12. ASSUME ClaimRequest
      PROVE  ReplyWords'
  <2>1. /\ rpc = "claim" /\ rpc' = "operation" /\ taken' = sequence /\ taken <= sequence
        /\ UNCHANGED <<sequence, retired, acknowledged, result, failed, executed, answers, spc, handle>>
    BY <1>2, <1>5, <1>12 DEF ClaimRequest, ReceiverStep, SequenceOrder, words, sender, history
  <2> QED
    BY <1>2, <2>1 DEF ReplyWords, ReceiverSteps
<1>13. ASSUME StoreResult
      PROVE  ReplyWords'
  <2>1. /\ rpc = "result" /\ rpc' = "failed" /\ result' = answers[sequence][1]
        /\ acknowledged # sequence
        /\ UNCHANGED <<sequence, retired, taken, acknowledged, failed, executed, answers, spc, handle>>
    BY <1>2, <1>5, <1>13 DEF StoreResult, ReceiverStep, ReplyWords, counters, sender, history
  <2>2. \A s \in Senders : spc[s] \notin CollectSteps
    BY <1>4, <2>1
  <2> QED
    BY <1>2, <2>1, <2>2, Zenon DEF ReplyWords, ReceiverSteps
<1>14. ASSUME StoreFailed
      PROVE  ReplyWords'
  <2>1. /\ rpc = "failed" /\ rpc' = "acknowledge" /\ failed' = answers[sequence][2]
        /\ acknowledged # sequence
        /\ UNCHANGED <<sequence, retired, taken, acknowledged, result, executed, answers, spc, handle>>
    BY <1>2, <1>5, <1>14, Zenon DEF StoreFailed, ReceiverStep, ReplyWords, counters, sender, history
  <2>2. \A s \in Senders : spc[s] \notin CollectSteps
    BY <1>4, <2>1, Zenon
  <2> QED
    BY <1>2, <2>1, <2>2, Zenon DEF ReplyWords, ReceiverSteps
<1>15. ASSUME Acknowledge
      PROVE  ReplyWords'
  <2>1. /\ rpc = "acknowledge" /\ rpc' = "idle" /\ acknowledged' = sequence /\ taken = sequence
        /\ acknowledged # sequence
        /\ UNCHANGED <<sequence, retired, taken, result, failed, spc, handle, executed, answers>>
    BY <1>5, <1>15 DEF Acknowledge, ReceiverStep, words, sender, history
  <2>2. \A s \in Senders : spc[s] \notin CollectSteps
    BY <1>4, <2>1
  <2>3. /\ Len(executed) = sequence /\ Len(answers) = sequence
        /\ result = answers[sequence][1] /\ failed = answers[sequence][2]
        /\ acknowledged < sequence
    BY <1>2, <2>1 DEF ReplyWords, SequenceOrder
  <2>4. answers[sequence] = <<result, failed>>
    <3>1. answers[sequence] \in Replies
      BY <2>3, <1>2
    <3> QED
      BY <2>3, <3>1 DEF Replies
  <2> QED
    BY <1>2, <2>1, <2>2, <2>3, <2>4, Zenon DEF ReplyWords, ReceiverSteps
<1>16. ASSUME NEW reply \in Replies, Execute(reply)
      PROVE  ReplyWords'
  <2>1. /\ rpc = "execute" /\ rpc' = "result" /\ taken = sequence /\ acknowledged # sequence
        /\ answers' = Append(answers, reply)
        /\ <<request.operation, request.argument>> \in Jobs
        /\ executed' = Append(executed, <<request.operation, request.argument>>)
        /\ UNCHANGED <<sequence, retired, taken, acknowledged, result, failed, spc, handle>>
    BY <1>5, <1>16, RequestIsAJob, Zenon DEF Execute, ReceiverStep, counters, words, sender
  <2>2. \A s \in Senders : spc[s] \notin CollectSteps
    BY <1>4, <2>1
  <2>3. Len(executed) = acknowledged /\ Len(answers) = acknowledged /\ acknowledged + 1 = sequence
    BY <1>2, <2>1 DEF ReplyWords, SequenceOrder, ReceiverSteps
  <2>4. Len(executed') = sequence /\ Len(answers') = sequence
    BY <2>1, <2>3
  <2>5. acknowledged <= sequence /\ sequence <= sequence
    BY <1>2, <2>3
  <2> QED
    BY <1>2, <2>1, <2>2, <2>4, <2>5, Zenon DEF ReplyWords, ReceiverSteps, ReplySteps
<1>17. CASE UNCHANGED vars \/ NotifyFatal
  <2>1. UNCHANGED <<sequence, retired, taken, acknowledged, result, failed, rpc, executed, answers, spc,
                    handle>>
    BY <1>17 DEF vars, NotifyFatal, counters, words, sender, receiver, history
  <2> QED
    BY <1>2, <2>1 DEF ReplyWords, ReceiverSteps
<1> QED
  BY <1>6, <1>7, <1>8, <1>9, <1>10, <1>11, <1>12, <1>13, <1>14, <1>15, <1>16, <1>17
  DEF Next, SenderNext, ReceiverNext

\* Only the request that was published last is executed, once.
LEMMA ExecutedOnceInOrderStep ==
    ASSUME IInv, [Next]_vars
    PROVE  ExecutedOnceInOrder'
<1>1. /\ executed \in Seq(Jobs) /\ submitted \in Seq(Jobs) /\ sequence \in Nat
      /\ handle \in [Senders -> Handles]
  BY DEF IInv, TypeOK, SequenceNumbers
<1>2. ExecutedOnceInOrder /\ Len(submitted) = sequence
  BY Zenon DEF IInv, RequestWords
<1>3. ASSUME NEW s \in Senders, PublishSequence(s)
      PROVE  ExecutedOnceInOrder'
  <2>1. /\ submitted' = Append(submitted, <<handle[s].operation, handle[s].argument>>)
        /\ <<handle[s].operation, handle[s].argument>> \in Jobs
        /\ executed' = executed
    BY <1>3 DEF PublishSequence, SenderStep, SubmitSteps, IInv, RequestWords, Jobs
  <2>2. /\ Len(submitted') = Len(submitted) + 1
        /\ \A i \in 1 .. Len(submitted) : submitted'[i] = submitted[i]
    BY <1>1, <2>1
  <2>3. Len(executed) <= Len(submitted)
    BY <1>2, Zenon DEF ExecutedOnceInOrder
  <2>4. /\ Len(executed') <= Len(submitted')
        /\ \A i \in 1 .. Len(executed) : i \in 1 .. Len(submitted)
    BY <1>1, <2>1, <2>2, <2>3
  <2> QED
    BY <1>2, <2>1, <2>2, <2>4, Zenon DEF ExecutedOnceInOrder
<1>4. ASSUME NEW reply \in Replies, Execute(reply)
      PROVE  ExecutedOnceInOrder'
  <2>1. Len(executed) + 1 = sequence
    <3>1. rpc = "execute"
      BY <1>4 DEF Execute, ReceiverStep
    <3>2. Len(executed) = acknowledged
      BY <3>1 DEF IInv, ReplyWords, ReceiverSteps, ReplySteps
    <3>3. taken = sequence /\ acknowledged # sequence /\ SequenceOrder
      BY <3>1 DEF IInv, ReceiverOwnership
    <3>4. acknowledged \in Nat /\ retired \in Nat
      BY DEF IInv, TypeOK, SequenceNumbers
    <3> QED
      BY <1>1, <3>2, <3>3, <3>4 DEF SequenceOrder
  <2>2. submitted[sequence] = <<request.operation, request.argument>>
    BY <1>4, RequestIsAJob DEF Execute, ReceiverStep
  <2>3. submitted' = submitted /\ executed' = Append(executed, submitted[sequence])
    BY <1>4, <2>2 DEF Execute
  <2>4. submitted[sequence] \in Jobs
    BY <1>1, <1>2, <2>1
  <2>5. /\ Len(executed') = sequence /\ executed'[sequence] = submitted[sequence]
        /\ \A i \in 1 .. Len(executed) : executed'[i] = executed[i]
    BY <1>1, <2>1, <2>3, <2>4
  <2> QED
    BY <1>1, <1>2, <2>1, <2>3, <2>5 DEF ExecutedOnceInOrder
<1>5. CASE UNCHANGED <<submitted, executed>>
  BY <1>2, <1>5 DEF ExecutedOnceInOrder
<1> QED
  BY <1>3, <1>4, <1>5, Zenon
  DEF Next, NotifyFatal, SenderNext, ReceiverNext, ClaimWriter, SubmitBusy, SubmitExhausted, SubmitFree,
      StoreOperation, StoreArgument, ReleaseWriter, Ring, ObserveAcknowledged, LoadResult,
      LoadFailed, Retire, DropPending, TakeInterrupt, LoadSequence, TakeNothing, ClaimRequest,
      LoadOperation, LoadArgument, StoreResult, StoreFailed, Acknowledge, HaltReceiver, history, vars

\* A collected reply is the one computed for the collector's own request.
LEMMA ReplyIsForOwnRequestStep ==
    ASSUME IInv, [Next]_vars
    PROVE  ReplyIsForOwnRequest'
<1>1. /\ spc \in [Senders -> SenderSteps] /\ handle \in [Senders -> Handles]
      /\ submitted \in Seq(Jobs) /\ answers \in Seq(Replies)
      /\ Len(answers) <= Len(submitted)
  BY DEF IInv, TypeOK, ReplyWords, ExecutedOnceInOrder
<1>2. ASSUME NEW t \in Senders, spc'[t] = "collected"
      PROVE  \/ spc[t] = "collected" /\ handle'[t] = handle[t]
             \/ Retire(t)
  <2>1. CASE UNCHANGED <<spc, handle>>
    BY <1>2, <2>1
  <2>2. ASSUME NEW s \in Senders, SenderNext(s), s # t
        PROVE  spc'[t] = spc[t] /\ handle'[t] = handle[t]
    BY <1>1, <2>2 DEF SenderNext, SenderStep, ClaimWriter, SubmitBusy, SubmitExhausted, SubmitFree,
       StoreOperation, StoreArgument, PublishSequence, ReleaseWriter, Ring, ObserveAcknowledged,
       LoadResult, LoadFailed, Retire, DropPending
  <2>3. CASE SenderNext(t)
    BY <1>1, <1>2, <2>3 DEF SenderNext, SenderStep, ClaimWriter, SubmitBusy, SubmitExhausted,
       SubmitFree, StoreOperation, StoreArgument, PublishSequence, ReleaseWriter, Ring,
       ObserveAcknowledged, LoadResult, LoadFailed, DropPending
  <2>4. CASE ReceiverNext \/ NotifyFatal \/ UNCHANGED vars
    BY <2>1, <2>4 DEF ReceiverNext, TakeInterrupt, LoadSequence, TakeNothing, ClaimRequest,
       LoadOperation, LoadArgument, Execute, StoreResult, StoreFailed, Acknowledge, HaltReceiver,
       NotifyFatal, sender, vars
  <2> QED
    BY <1>2, <2>2, <2>3, <2>4 DEF Next
<1>3. \/ submitted' = submitted
      \/ \E s \in Senders :
            submitted' = Append(submitted, <<handle[s].operation, handle[s].argument>>)
  BY Zenon DEF vars, history, Next, NotifyFatal, SenderNext, ReceiverNext, ClaimWriter, SubmitBusy,
      SubmitExhausted, SubmitFree, StoreOperation, StoreArgument, PublishSequence, ReleaseWriter,
      Ring, ObserveAcknowledged, LoadResult, LoadFailed, Retire, DropPending, TakeInterrupt,
      LoadSequence, TakeNothing, ClaimRequest, LoadOperation, LoadArgument, Execute, StoreResult,
      StoreFailed, Acknowledge, HaltReceiver
<1>4. \/ answers' = answers
      \/ \E reply \in Replies : answers' = Append(answers, reply)
  BY Zenon DEF vars, history, Next, NotifyFatal, SenderNext, ReceiverNext, ClaimWriter, SubmitBusy,
      SubmitExhausted, SubmitFree, StoreOperation, StoreArgument, PublishSequence, ReleaseWriter,
      Ring, ObserveAcknowledged, LoadResult, LoadFailed, Retire, DropPending, TakeInterrupt,
      LoadSequence, TakeNothing, ClaimRequest, LoadOperation, LoadArgument, Execute, StoreResult,
      StoreFailed, Acknowledge, HaltReceiver
<1>5. ASSUME NEW n \in 1 .. Len(answers)
      PROVE  submitted'[n] = submitted[n] /\ answers'[n] = answers[n] /\ n \in 1 .. Len(answers')
  <2>1. n \in 1 .. Len(submitted)
    BY <1>1, <1>5
  <2>2. submitted'[n] = submitted[n]
    BY <1>1, <1>3, <2>1
  <2>3. answers'[n] = answers[n] /\ n \in 1 .. Len(answers')
    BY <1>1, <1>4, <1>5
  <2> QED
    BY <2>2, <2>3
<1>6. ASSUME NEW t \in Senders, spc'[t] = "collected"
      PROVE  LET n == handle'[t].sequence IN
             /\ n \in 1 .. Len(answers)
             /\ submitted[n] = <<handle'[t].operation, handle'[t].argument>>
             /\ answers[n] = <<handle'[t].value, handle'[t].failed>>
  <2>1. CASE spc[t] = "collected" /\ handle'[t] = handle[t]
    BY <2>1, Zenon DEF IInv, ReplyIsForOwnRequest
  <2>2. CASE Retire(t)
    <3>1. /\ spc[t] = "retire" /\ handle' = handle
          /\ handle[t].sequence = sequence /\ acknowledged = sequence /\ retired # sequence
      BY <2>2 DEF Retire, SenderStep, IInv, SenderOwnership, OwnerSteps, CollectSteps
    <3>2. sequence \in 1 .. Len(answers)
      <4>1. /\ sequence \in Nat /\ retired \in Nat
            /\ SequenceOrder /\ Len(answers) = Len(executed) /\ acknowledged <= Len(executed)
            /\ executed \in Seq(Jobs)
        BY DEF IInv, TypeOK, SequenceNumbers, ReplyWords
      <4> QED
        BY <3>1, <1>1, <4>1 DEF SequenceOrder
    <3>3. submitted[sequence] = <<handle[t].operation, handle[t].argument>>
      BY <3>1 DEF IInv, RequestWords, OwnerSteps, CollectSteps
    <3>4. answers[sequence] = <<handle[t].value, handle[t].failed>>
      BY <3>1 DEF IInv, ReplyWords
    <3> QED
      BY <3>1, <3>2, <3>3, <3>4
  <2> QED
    BY <1>2, <1>6, <2>1, <2>2, Zenon
<1> QED
  BY <1>5, <1>6 DEF ReplyIsForOwnRequest

\* An untaken request keeps its doorbell or a dispatcher on its way.
LEMMA DoorbellIsNotLostStep ==
    ASSUME IInv, [Next]_vars
    PROVE  DoorbellIsNotLost'
<1> USE MaxSequenceAssumption, NoneAssumption
  DEF IInv, SenderStep, ReceiverStep, counters, words, sender, receiver, history,
     TypeOK, SequenceOrder, SenderOwnership, SingleOwner, ReceiverOwnership, DoorbellIsNotLost, CollectSteps,
     OwnerSteps, ReplySteps, SequenceNumbers, NewJob, NoJob
<1>1. ASSUME NEW s \in Senders, NEW op \in Operations, NEW arg \in Arguments, ClaimWriter(s, op, arg)
      PROVE  DoorbellIsNotLost'
  BY <1>1, Zenon DEF ClaimWriter
<1>2. ASSUME NEW s \in Senders, SubmitBusy(s) \/ SubmitExhausted(s) \/ SubmitFree(s)
      PROVE  DoorbellIsNotLost'
  BY <1>2, Zenon DEF SubmitBusy, SubmitExhausted, SubmitFree
<1>3. ASSUME NEW s \in Senders, Ring(s) \/ ObserveAcknowledged(s)
      PROVE  DoorbellIsNotLost'
  BY <1>3, Zenon DEF Ring, ObserveAcknowledged
<1>4. ASSUME NEW s \in Senders, StoreOperation(s)
      PROVE  DoorbellIsNotLost'
  BY <1>4, Zenon DEF StoreOperation
<1>5. ASSUME NEW s \in Senders, StoreArgument(s)
      PROVE  DoorbellIsNotLost'
  BY <1>5, Zenon DEF StoreArgument
<1>6. ASSUME NEW s \in Senders, PublishSequence(s)
      PROVE  DoorbellIsNotLost'
  BY <1>6 DEF PublishSequence
<1>7. ASSUME NEW s \in Senders, ReleaseWriter(s)
      PROVE  DoorbellIsNotLost'
  BY <1>7, Zenon DEF ReleaseWriter
<1>8. ASSUME NEW s \in Senders, LoadResult(s)
      PROVE  DoorbellIsNotLost'
  BY <1>8 DEF LoadResult
<1>9. ASSUME NEW s \in Senders, LoadFailed(s)
      PROVE  DoorbellIsNotLost'
  BY <1>9 DEF LoadFailed
<1>10. ASSUME NEW s \in Senders, Retire(s)
      PROVE  DoorbellIsNotLost'
  BY <1>10, Zenon DEF Retire
<1>11. ASSUME NEW s \in Senders, DropPending(s)
      PROVE  DoorbellIsNotLost'
  BY <1>11, Zenon DEF DropPending
<1>12. ASSUME ReceiverNext
      PROVE  DoorbellIsNotLost'
  <2>1. CASE TakeInterrupt \/ LoadSequence \/ TakeNothing
    <3>1. CASE TakeInterrupt
      BY <3>1, Zenon DEF TakeInterrupt
    <3>2. CASE LoadSequence
      BY <3>2, Zenon DEF LoadSequence, NewJob
    <3>3. CASE TakeNothing
      BY <3>3, Zenon DEF TakeNothing
    <3> QED
      BY <2>1, <3>1, <3>2, <3>3, Zenon
  <2>2. CASE ClaimRequest
    BY <2>2, Zenon DEF ClaimRequest
  <2>3. CASE LoadOperation \/ LoadArgument \/ \E reply \in Replies : Execute(reply)
    BY <2>3, Zenon DEF LoadOperation, LoadArgument, Execute
  <2>4. CASE StoreResult \/ StoreFailed \/ HaltReceiver
    BY <2>4, Zenon DEF StoreResult, StoreFailed, HaltReceiver
  <2>5. CASE Acknowledge
    BY <2>5, Zenon DEF Acknowledge
  <2> QED
    BY <1>12, <2>1, <2>2, <2>3, <2>4, <2>5, Zenon DEF ReceiverNext
<1>13. CASE UNCHANGED vars
  BY <1>13, Zenon DEF vars
<1>14. CASE NotifyFatal
  BY <1>14, Zenon DEF NotifyFatal
<1> HIDE DEF DoorbellIsNotLost, IInv
<1> QED
  BY <1>1, <1>2, <1>3, <1>4, <1>5, <1>6, <1>7, <1>8, <1>9, <1>10, <1>11, <1>12,
     <1>13, <1>14 DEF Next, SenderNext

-----------------------------------------------------------------------------
(***************************************************************************)
(* The theorems                                                            *)
(***************************************************************************)

\* The inductive invariant holds in every reachable state of the channel.
THEOREM ChannelInvariant == Spec => []IInv
<1>1. ASSUME IInv, [Next]_vars
      PROVE  IInv'
  <2>1. TypeOK'
    BY <1>1, TypeOKStep
  <2>2. SequenceOrder' /\ SenderOwnership' /\ SingleOwner' /\ ReceiverOwnership'
    BY <1>1, SequenceOrderStep, SenderOwnershipStep, SingleOwnerStep, ReceiverOwnershipStep
  <2>3. RequestWords' /\ ReplyWords'
    BY <1>1, RequestWordsStep, ReplyWordsStep
  <2>4. ExecutedOnceInOrder' /\ ReplyIsForOwnRequest' /\ DoorbellIsNotLost'
    BY <1>1, ExecutedOnceInOrderStep, ReplyIsForOwnRequestStep, DoorbellIsNotLostStep
  <2> QED
    BY <2>1, <2>2, <2>3, <2>4 DEF IInv
<1> QED
  BY InitIInv, <1>1, PTL DEF Spec

\* submit, take, try_result and acknowledge keep every field in its type; in
\* particular no sequence number ever exceeds MaxSequence (u64::MAX).
THEOREM ChannelTypeCorrect == Spec => []TypeOK
<1>1. IInv => TypeOK
  BY DEF IInv
<1> QED
  BY ChannelInvariant, <1>1, PTL

\* take hands each submitted request to the dispatcher at most once, in order
\* and untorn.
THEOREM ChannelExecutesOnceInOrder == Spec => []ExecutedOnceInOrder
<1>1. IInv => ExecutedOnceInOrder
  BY DEF IInv
<1> QED
  BY ChannelInvariant, <1>1, PTL

\* try_result yields the reply of the caller's own request and no other.
THEOREM ChannelRepliesMatch == Spec => []ReplyIsForOwnRequest
<1>1. IInv => ReplyIsForOwnRequest
  BY DEF IInv
<1> QED
  BY ChannelInvariant, <1>1, PTL

\* The relaxed request and reply words never have two users at once.
THEOREM ChannelWordsAreExclusive == Spec => []WordsAreExclusive
<1>1. ASSUME IInv PROVE WordsAreExclusive
  <2>1. SequenceOrder /\ SenderOwnership /\ SingleOwner /\ ReceiverOwnership
    BY <1>1 DEF IInv
  <2>2. retired \in Nat /\ acknowledged \in Nat /\ taken \in Nat /\ sequence \in Nat
    BY <1>1 DEF IInv, TypeOK, SequenceNumbers
  <2>3. retired = sequence => acknowledged = sequence
    BY <2>1, <2>2 DEF SequenceOrder
  <2>4. \A s \in Senders : ~(spc[s] \in {"operation", "argument"} /\ rpc \in {"operation", "argument"})
    BY <2>1, <2>3, Zenon DEF SenderOwnership, ReceiverOwnership
  <2>5. \A s \in Senders : ~(spc[s] \in {"result", "failed"} /\ rpc \in {"result", "failed"})
    BY <2>1, Zenon DEF SenderOwnership, ReceiverOwnership, CollectSteps, ReplySteps
  <2> QED
    BY <2>1, <2>4, <2>5, Zenon DEF WordsAreExclusive, SingleOwner
<1> QED
  BY ChannelInvariant, <1>1, PTL

\* request rings after publishing, so a published request is never left without
\* a doorbell or a dispatcher that will see it.
THEOREM ChannelDoorbellIsNotLost == Spec => []DoorbellIsNotLost
<1>1. IInv => DoorbellIsNotLost
  BY DEF IInv
<1> QED
  BY ChannelInvariant, <1>1, PTL

\* After a Pending was dropped no submit ever publishes on the channel again.
THEOREM ChannelDroppedIsNeverReused == Spec => DroppedIsNeverReused
<1>1. ASSUME IInv, [Next]_vars
      PROVE  [Unowned => Unowned' /\ sequence' = sequence]_vars
  <2> SUFFICES ASSUME Unowned, Next
               PROVE  Unowned' /\ sequence' = sequence
    BY <1>1
  <2>1. \A s \in Senders : spc[s] \notin OwnerSteps
    BY <1>1, Zenon DEF Unowned, IInv, SenderOwnership, OwnerSteps, CollectSteps
  <2>2. \A s \in Senders : ~PublishSequence(s) /\ ~LoadResult(s) /\ ~LoadFailed(s) /\ ~Retire(s)
    BY <1>1, <2>1 DEF Unowned, IInv, SenderOwnership,
       OwnerSteps, CollectSteps, PublishSequence, LoadResult, LoadFailed, Retire, SenderStep
  <2>3. UNCHANGED <<sequence, retired>>
    BY <2>2, Zenon DEF Next, NotifyFatal, SenderNext, ReceiverNext, ClaimWriter, SubmitBusy,
       SubmitExhausted, SubmitFree, StoreOperation, StoreArgument, ReleaseWriter, Ring,
       ObserveAcknowledged, DropPending, TakeInterrupt, LoadSequence, TakeNothing, ClaimRequest,
       LoadOperation, LoadArgument, Execute, StoreResult, StoreFailed, Acknowledge, HaltReceiver,
       counters
  <2>4. \/ UNCHANGED handle
        \/ \E s \in Senders, op \in Operations \cup {None}, arg \in Arguments \cup {None} :
              handle' = [handle EXCEPT ![s] = NewHandle(op, arg)]
    BY <2>2 DEF Next, NotifyFatal, SenderNext, ReceiverNext, ClaimWriter, SubmitBusy, SubmitExhausted,
       SubmitFree, StoreOperation, StoreArgument, ReleaseWriter, Ring, ObserveAcknowledged,
       DropPending, TakeInterrupt, LoadSequence, TakeNothing, ClaimRequest, LoadOperation,
       LoadArgument, Execute, StoreResult, StoreFailed, Acknowledge, HaltReceiver, NoHandle, sender
  <2>5. \A s \in Senders : handle[s].sequence # sequence
    BY <1>1, <2>1 DEF Unowned, IInv, TypeOK, SequenceOrder, SenderOwnership, SequenceNumbers
  <2>6. sequence # 0 /\ handle \in [Senders -> Handles]
    BY <1>1 DEF Unowned, IInv, TypeOK, SequenceOrder, SequenceNumbers
  <2>7. \A s \in Senders : handle'[s].sequence # sequence
    BY <2>4, <2>5, <2>6 DEF NewHandle
  <2> QED
    BY <2>3, <2>7 DEF Unowned
<1> QED
  BY ChannelInvariant, <1>1, PTL DEF Spec, DroppedIsNeverReused

\* Every step of the channel is a step of the abstract slot or changes nothing
\* the slot shows.
LEMMA SlotStep ==
    ASSUME IInv, [Next]_vars
    PROVE  [Slot!Next]_(Slot!slot)
<1> USE MaxSequenceAssumption DEF SlotState, Slot!slot, Slot!Next
<1>1. ASSUME NEW s \in Senders, PublishSequence(s)
      PROVE  Slot!Post(<<operation, argument>>) /\ <<operation, argument>> \in Jobs
  BY <1>1 DEF Slot!Post, PublishSequence, SenderStep, words, IInv, TypeOK, SequenceOrder, Jobs,
     SenderOwnership, RequestWords, SubmitSteps, SequenceNumbers
<1>2. ASSUME ClaimRequest
      PROVE  Slot!Take
  <2>1. /\ taken # sequence /\ taken' = sequence /\ acknowledged = taken
        /\ UNCHANGED <<sequence, retired, acknowledged, words>>
    BY <1>2 DEF ClaimRequest, ReceiverStep, IInv, ReceiverOwnership
  <2>2. retired # sequence /\ acknowledged # sequence
    BY <2>1 DEF IInv, TypeOK, SequenceOrder, SequenceNumbers
  <2> QED
    BY <2>1, <2>2 DEF Slot!Take, words
<1>3. ASSUME Acknowledge
      PROVE  Slot!Answer(<<result, failed>>) /\ <<result, failed>> \in Replies
  <2>1. <<result, failed>> = answers[sequence] /\ answers[sequence] \in Replies
    <3>0. answers \in Seq(Replies)
      BY DEF IInv, TypeOK
    <3>1. /\ Len(answers) = sequence
          /\ result = answers[sequence][1] /\ failed = answers[sequence][2]
          /\ taken = sequence /\ acknowledged # sequence /\ SequenceOrder
      BY <1>3, Zenon DEF Acknowledge, ReceiverStep, IInv, TypeOK, ReceiverOwnership, ReplyWords,
         ReplySteps
    <3>2. sequence \in Nat /\ acknowledged \in Nat /\ retired \in Nat
      BY DEF IInv, TypeOK, SequenceNumbers
    <3>3. sequence \in 1 .. Len(answers)
      <4>1. sequence > 0 /\ Len(answers) = sequence
        BY <3>1, <3>2 DEF SequenceOrder
      <4> QED
        BY <4>1, <3>2
    <3>4. answers[sequence] \in Replies
      BY <3>0, <3>3
    <3> QED
      BY <3>1, <3>4 DEF Replies
  <2>2. /\ sequence # retired /\ taken = sequence /\ acknowledged # sequence
        /\ acknowledged' = sequence
        /\ UNCHANGED <<sequence, retired, taken, words>>
    BY <1>3 DEF Acknowledge, ReceiverStep, IInv, TypeOK, SequenceOrder,
       ReceiverOwnership, ReplySteps, SequenceNumbers
  <2> QED
    BY <2>1, <2>2, Zenon DEF Slot!Answer, words
<1>4. ASSUME NEW s \in Senders, Retire(s)
      PROVE  Slot!Collect
  <2>1. /\ retired # sequence /\ acknowledged = sequence /\ retired' = sequence
        /\ UNCHANGED <<sequence, taken, acknowledged, words>>
    BY <1>4, Zenon DEF Retire, SenderStep, IInv, SenderOwnership, CollectSteps, OwnerSteps
  <2>2. taken = sequence
    BY <2>1 DEF IInv, TypeOK, SequenceOrder, SequenceNumbers
  <2> QED
    BY <2>1, <2>2 DEF Slot!Collect, words
<1>5. ASSUME NEW s \in Senders, StoreOperation(s) \/ StoreArgument(s)
      PROVE  UNCHANGED Slot!slot
  BY <1>5, Zenon DEF StoreOperation, StoreArgument, SenderStep, counters, IInv, SenderOwnership
<1>6. ASSUME StoreResult \/ StoreFailed
      PROVE  UNCHANGED Slot!slot
  BY <1>6, Zenon DEF StoreResult, StoreFailed, ReceiverStep, counters, IInv, ReceiverOwnership,
     ReplySteps
<1>7. CASE UNCHANGED <<sequence, retired, taken, acknowledged, words>>
  BY <1>7 DEF words
<1>8. CASE UNCHANGED vars
  BY <1>8 DEF vars, counters, words
<1> HIDE DEF SlotState, Slot!slot
<1> QED
  BY <1>1, <1>2, <1>3, <1>4, <1>5, <1>6, <1>7, <1>8, Zenon
  DEF Next, NotifyFatal, SenderNext, ReceiverNext, ClaimWriter, SubmitBusy, SubmitExhausted, SubmitFree,
      ReleaseWriter, Ring, ObserveAcknowledged, LoadResult, LoadFailed, DropPending,
      TakeInterrupt, LoadSequence, TakeNothing, LoadOperation, LoadArgument, Execute,
      HaltReceiver, counters

\* The atomics of struct Channel implement the abstract request slot.
THEOREM ChannelRefinesRequestSlot == Spec => ImplementsRequestSlot
<1>1. Init => Slot!Init
  BY DEF Init, Slot!Init, SlotState
<1> QED
  BY <1>1, ChannelInvariant, SlotStep, PTL DEF Spec, Slot!Spec, ImplementsRequestSlot

=============================================================================
