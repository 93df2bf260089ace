------------------------------ MODULE Channel ------------------------------
(***************************************************************************)
(* tvisor_util/management.rs: the bounded request channel from one source  *)
(* CPU to one target CPU, together with the doorbell of src/management.rs  *)
(* (request and the head of dispatch).                                     *)
(*                                                                         *)
(* Every step below is one access to a shared atomic (or an access merged  *)
(* with one that no other actor can write in between).  A sender owns a    *)
(* Pending from PublishSequence until Retire or DropPending; the target's  *)
(* non-reentrant IRQ dispatcher is the only caller of take.                *)
(***************************************************************************)
EXTENDS Naturals, Sequences

CONSTANTS
    Senders,      \* contexts of the source CPU that may call submit
    Operations,   \* Operation
    Arguments,    \* the u64 argument and result words
    MaxSequence,  \* u64::MAX: the last sequence number
    Faults,       \* which of "drop", "halt" and "fatal" may happen
    None          \* a word that was never written

ASSUME MaxSequenceAssumption == MaxSequence \in Nat
ASSUME NoneAssumption == None \notin Operations /\ None \notin Arguments

VARIABLES
    writer, sequence, retired, taken, acknowledged,   \* struct Channel
    operation, argument, result, failed,
    doorbell,    \* the management SGI of this source is pending at the target
    spc,         \* per sender: where in request / submit / try_result it is
    handle,      \* per sender: the request being sent and its Pending
    rpc,         \* where the dispatcher is in take / acknowledge
    request,     \* the dispatcher's Request (and the sequence it loaded)
    submitted,   \* history: requests in the order they were published
    executed,    \* history: requests in the order the dispatcher ran them
    answers      \* history: the reply computed for each executed request

words == <<operation, argument, result, failed>>
counters == <<writer, sequence, retired, taken, acknowledged>>
sender == <<spc, handle>>
receiver == <<rpc, request>>
history == <<submitted, executed, answers>>
vars == <<counters, words, doorbell, sender, receiver, history>>

SequenceNumbers == 0 .. MaxSequence
Jobs == Operations \X Arguments
Replies == Arguments \X BOOLEAN

Handles == [sequence : SequenceNumbers, operation : Operations \cup {None},
            argument : Arguments \cup {None}, value : Arguments \cup {None},
            failed : BOOLEAN]

NewHandle(op, arg) == [sequence |-> 0, operation |-> op, argument |-> arg,
                       value |-> None, failed |-> FALSE]
NoHandle == NewHandle(None, None)

NewJob(n) == [sequence |-> n, operation |-> None, argument |-> None]
NoJob == NewJob(0)

SubmitSteps == {"check", "operation", "argument", "publish", "release", "refuse"}
CollectSteps == {"result", "failed", "retire"}
SenderSteps == {"idle", "ring", "holding", "collected"} \cup SubmitSteps \cup CollectSteps
ReplySteps == {"result", "failed", "acknowledge"}
ReceiverSteps == {"idle", "load", "claim", "operation", "argument", "execute", "halted"}
                 \cup ReplySteps

Init ==
    /\ writer = FALSE
    /\ sequence = 0 /\ retired = 0 /\ taken = 0 /\ acknowledged = 0
    /\ operation = None /\ argument = None /\ result = None /\ failed = FALSE
    /\ doorbell = FALSE
    /\ spc = [s \in Senders |-> "idle"]
    /\ handle = [s \in Senders |-> NoHandle]
    /\ rpc = "idle" /\ request = NoJob
    /\ submitted = <<>> /\ executed = <<>> /\ answers = <<>>

SenderStep(s, from, to) ==
    /\ spc[s] = from
    /\ spc' = [spc EXCEPT ![s] = to]

ReceiverStep(from, to) ==
    /\ rpc = from
    /\ rpc' = to

(***************************************************************************)
(* submit and request, on the source CPU                                   *)
(***************************************************************************)

\* compare_exchange(writer, false, true); a failure is Busy and changes nothing.
\* A sender that already collected a reply lets its completed Pending go.
ClaimWriter(s, op, arg) ==
    /\ \/ SenderStep(s, "idle", "check")
       \/ SenderStep(s, "collected", "check")
    /\ ~writer
    /\ writer' = TRUE
    /\ handle' = [handle EXCEPT ![s] = NewHandle(op, arg)]
    /\ UNCHANGED <<sequence, retired, taken, acknowledged, words, doorbell, receiver, history>>

\* The storage of an unretired request may not be reused.
SubmitBusy(s) ==
    /\ SenderStep(s, "check", "refuse")
    /\ retired # sequence
    /\ UNCHANGED <<counters, words, doorbell, handle, receiver, history>>

\* checked_add(1) found the last sequence number.
SubmitExhausted(s) ==
    /\ SenderStep(s, "check", "refuse")
    /\ retired = sequence
    /\ sequence = MaxSequence
    /\ UNCHANGED <<counters, words, doorbell, handle, receiver, history>>

\* Mutant: an acknowledged request counts as retired.
SubmitFreeAcknowledged(s) ==
    /\ SenderStep(s, "check", "operation")
    /\ acknowledged = sequence
    /\ sequence < MaxSequence
    /\ UNCHANGED <<counters, words, doorbell, handle, receiver, history>>

SubmitFree(s) ==
    /\ SenderStep(s, "check", "operation")
    /\ retired = sequence
    /\ sequence < MaxSequence
    /\ UNCHANGED <<counters, words, doorbell, handle, receiver, history>>

StoreOperation(s) ==
    /\ SenderStep(s, "operation", "argument")
    /\ operation' = handle[s].operation
    /\ UNCHANGED <<counters, argument, result, failed, doorbell, handle, receiver, history>>

StoreArgument(s) ==
    /\ SenderStep(s, "argument", "publish")
    /\ argument' = handle[s].argument
    /\ UNCHANGED <<counters, operation, result, failed, doorbell, handle, receiver, history>>

PublishSequence(s) ==
    /\ SenderStep(s, "publish", "release")
    /\ sequence' = sequence + 1
    /\ handle' = [handle EXCEPT ![s].sequence = sequence + 1]
    /\ submitted' = Append(submitted, <<handle[s].operation, handle[s].argument>>)
    /\ UNCHANGED <<writer, retired, taken, acknowledged, words, doorbell, receiver,
                   executed, answers>>

ReleaseWriter(s) ==
    /\ \/ SenderStep(s, "release", "ring") /\ UNCHANGED handle
       \/ SenderStep(s, "refuse", "idle") /\ handle' = [handle EXCEPT ![s] = NoHandle]
    /\ writer' = FALSE
    /\ UNCHANGED <<sequence, retired, taken, acknowledged, words, doorbell, receiver, history>>

\* Mutant: the request is published without a doorbell.
RingSilently(s) ==
    /\ SenderStep(s, "ring", "holding")
    /\ UNCHANGED <<counters, words, doorbell, handle, receiver, history>>

\* send_management: the SGI of one source coalesces with one already pending.
Ring(s) ==
    /\ SenderStep(s, "ring", "holding")
    /\ doorbell' = TRUE
    /\ UNCHANGED <<counters, words, handle, receiver, history>>

\* notify_fatal rings every target without a request; the target has nothing to
\* take and stops after this dispatch (HaltReceiver).
NotifyFatal ==
    /\ "fatal" \in Faults
    /\ doorbell' = TRUE
    /\ UNCHANGED <<counters, words, sender, receiver, history>>

(***************************************************************************)
(* Pending: try_result, and the caller that gives up                       *)
(***************************************************************************)

\* Mutant: any acknowledgement, not the one of this request, is awaited.
ObserveAnyAcknowledged(s) ==
    /\ SenderStep(s, "holding", "result")
    /\ acknowledged > 0
    /\ UNCHANGED <<counters, words, doorbell, handle, receiver, history>>

\* An observation before the acknowledgement returns None and has no effect.
ObserveAcknowledged(s) ==
    /\ SenderStep(s, "holding", "result")
    /\ acknowledged = handle[s].sequence
    /\ UNCHANGED <<counters, words, doorbell, handle, receiver, history>>

LoadResult(s) ==
    /\ SenderStep(s, "result", "failed")
    /\ handle' = [handle EXCEPT ![s].value = result]
    /\ UNCHANGED <<counters, words, doorbell, receiver, history>>

LoadFailed(s) ==
    /\ SenderStep(s, "failed", "retire")
    /\ handle' = [handle EXCEPT ![s].failed = failed]
    /\ UNCHANGED <<counters, words, doorbell, receiver, history>>

Retire(s) ==
    /\ SenderStep(s, "retire", "collected")
    /\ retired' = handle[s].sequence
    /\ UNCHANGED <<writer, sequence, taken, acknowledged, words, doorbell, handle,
                   receiver, history>>

\* wait timed out: the caller returns an error and drops the Pending.
DropPending(s) ==
    /\ "drop" \in Faults
    /\ SenderStep(s, "holding", "idle")
    /\ handle' = [handle EXCEPT ![s] = NoHandle]
    /\ UNCHANGED <<counters, words, doorbell, receiver, history>>

(***************************************************************************)
(* dispatch, take and acknowledge, on the target CPU                       *)
(***************************************************************************)

\* The dispatcher acknowledges the physical SGI, which ends its pending state.
TakeInterrupt ==
    /\ ReceiverStep("idle", "load")
    /\ doorbell
    /\ doorbell' = FALSE
    /\ UNCHANGED <<counters, words, sender, request, history>>

LoadSequence ==
    /\ ReceiverStep("load", "claim")
    /\ request' = NewJob(sequence)
    /\ UNCHANGED <<counters, words, doorbell, sender, history>>

\* Mutant: an empty take also drops a doorbell that arrived meanwhile.
TakeNothingClearsDoorbell ==
    /\ ReceiverStep("claim", "idle")
    /\ request.sequence = taken
    /\ request' = NoJob
    /\ doorbell' = FALSE
    /\ UNCHANGED <<counters, words, sender, history>>

\* Nothing new: a duplicate or coalesced doorbell needs no reply.
TakeNothing ==
    /\ ReceiverStep("claim", "idle")
    /\ request.sequence = taken
    /\ request' = NoJob
    /\ UNCHANGED <<counters, words, doorbell, sender, history>>

\* Mutant: take does not record what it took.
ClaimRequestUnmarked ==
    /\ ReceiverStep("claim", "operation")
    /\ request.sequence # taken
    /\ UNCHANGED <<counters, words, doorbell, sender, request, history>>

ClaimRequest ==
    /\ ReceiverStep("claim", "operation")
    /\ request.sequence # taken
    /\ taken' = request.sequence
    /\ UNCHANGED <<writer, sequence, retired, acknowledged, words, doorbell, sender,
                   request, history>>

LoadOperation ==
    /\ ReceiverStep("operation", "argument")
    /\ request' = [request EXCEPT !.operation = operation]
    /\ UNCHANGED <<counters, words, doorbell, sender, history>>

LoadArgument ==
    /\ ReceiverStep("argument", "execute")
    /\ request' = [request EXCEPT !.argument = argument]
    /\ UNCHANGED <<counters, words, doorbell, sender, history>>

\* Mutant: the acknowledgement is stored before the reply words.
ExecuteAcknowledgesFirst(reply) ==
    /\ ReceiverStep("execute", "result")
    /\ executed' = Append(executed, <<request.operation, request.argument>>)
    /\ answers' = Append(answers, reply)
    /\ acknowledged' = request.sequence
    /\ UNCHANGED <<writer, sequence, retired, taken, words, doorbell, sender, request, submitted>>

\* dispatch runs the operation; the reply is any value word and outcome.
Execute(reply) ==
    /\ ReceiverStep("execute", "result")
    /\ executed' = Append(executed, <<request.operation, request.argument>>)
    /\ answers' = Append(answers, reply)
    /\ UNCHANGED <<counters, words, doorbell, sender, request, submitted>>

StoreResult ==
    /\ ReceiverStep("result", "failed")
    /\ result' = answers[Len(answers)][1]
    /\ UNCHANGED <<counters, operation, argument, failed, doorbell, sender, request, history>>

StoreFailed ==
    /\ ReceiverStep("failed", "acknowledge")
    /\ failed' = answers[Len(answers)][2]
    /\ UNCHANGED <<counters, operation, argument, result, doorbell, sender, request, history>>

Acknowledge ==
    /\ ReceiverStep("acknowledge", "idle")
    /\ acknowledged' = request.sequence
    /\ request' = NoJob
    /\ UNCHANGED <<writer, sequence, retired, taken, words, doorbell, sender, history>>

\* The target stops inside the handler; its Request is never acknowledged.
HaltReceiver ==
    /\ "halt" \in Faults
    /\ rpc # "halted"
    /\ rpc' = "halted"
    /\ UNCHANGED <<counters, words, doorbell, sender, request, history>>

SenderNext(s) ==
    \/ \E op \in Operations, arg \in Arguments : ClaimWriter(s, op, arg)
    \/ SubmitBusy(s) \/ SubmitExhausted(s) \/ SubmitFree(s)
    \/ StoreOperation(s) \/ StoreArgument(s) \/ PublishSequence(s)
    \/ ReleaseWriter(s) \/ Ring(s)
    \/ ObserveAcknowledged(s) \/ LoadResult(s) \/ LoadFailed(s) \/ Retire(s)
    \/ DropPending(s)

ReceiverNext ==
    \/ TakeInterrupt \/ LoadSequence \/ TakeNothing \/ ClaimRequest
    \/ LoadOperation \/ LoadArgument
    \/ \E reply \in Replies : Execute(reply)
    \/ StoreResult \/ StoreFailed \/ Acknowledge
    \/ HaltReceiver

Next == (\E s \in Senders : SenderNext(s)) \/ ReceiverNext \/ NotifyFatal

Spec == Init /\ [][Next]_vars

\* A caller between its first and last atomic access keeps running, and a
\* pending unmasked SGI is eventually taken.  Starting a new request is a choice,
\* and nobody has to give up or stop.
SenderProgress(s) ==
    /\ SenderNext(s)
    /\ spc[s] \notin {"idle", "collected"}
    /\ ~DropPending(s)

ReceiverProgress == ReceiverNext /\ rpc' # "halted"

Fairness ==
    /\ \A s \in Senders : WF_vars(SenderProgress(s))
    /\ WF_vars(ReceiverProgress)

FairSpec == Spec /\ Fairness

(***************************************************************************)
(* Properties                                                              *)
(***************************************************************************)

\* The types of the channel words, of the two users and of the histories.
TypeOK ==
    /\ writer \in BOOLEAN
    /\ sequence \in SequenceNumbers /\ retired \in SequenceNumbers
    /\ taken \in SequenceNumbers /\ acknowledged \in SequenceNumbers
    /\ operation \in Operations \cup {None} /\ argument \in Arguments \cup {None}
    /\ result \in Arguments \cup {None} /\ failed \in BOOLEAN
    /\ doorbell \in BOOLEAN
    /\ spc \in [Senders -> SenderSteps]
    /\ handle \in [Senders -> Handles]
    /\ rpc \in ReceiverSteps
    /\ request \in [sequence : SequenceNumbers, operation : Operations \cup {None},
                    argument : Arguments \cup {None}]
    /\ submitted \in Seq(Jobs)
    /\ executed \in Seq(Jobs)
    /\ answers \in Seq(Replies)

\* The four counters of a channel never drift: a request is taken before it is
\* acknowledged, acknowledged before it is retired, and no second request is
\* published while the first is unretired.
SequenceOrder ==
    /\ retired <= acknowledged
    /\ acknowledged <= taken
    /\ taken <= sequence
    /\ sequence <= retired + 1

\* The dispatcher runs the submitted requests once each, in order and with the
\* operation and the argument of the same submit (take's claim that "CAS ...
\* prevents duplicate execution").
ExecutedOnceInOrder ==
    /\ Len(executed) <= Len(submitted)
    /\ \A i \in 1 .. Len(executed) : executed[i] = submitted[i]

\* A Pending only ever yields the reply computed for its own request, both words
\* of it (try_result: "receiving the matching completed reply").
ReplyIsForOwnRequest ==
    \A s \in Senders : spc[s] = "collected" =>
        LET n == handle[s].sequence IN
        /\ n \in 1 .. Len(answers)
        /\ submitted[n] = <<handle[s].operation, handle[s].argument>>
        /\ answers[n] = <<handle[s].value, handle[s].failed>>

\* The relaxed words of a channel have one user at a time: submit never writes
\* the request while take reads it, acknowledge never writes the reply while
\* try_result reads it, and two submits never write together.
WordsAreExclusive ==
    /\ \A s \in Senders :
        /\ ~(spc[s] \in {"operation", "argument"} /\ rpc \in {"operation", "argument"})
        /\ ~(spc[s] \in {"result", "failed"} /\ rpc \in {"result", "failed"})
    /\ \A s, t \in Senders :
        spc[s] \in SubmitSteps /\ spc[t] \in SubmitSteps => s = t

\* A published request whose Pending was dropped owns the channel for ever: no
\* later submit overwrites it ("A dropped Pending deliberately prevents channel
\* reuse").  Unowned means no sender can still retire it.
Unowned ==
    /\ sequence # retired
    /\ \A s \in Senders : handle[s].sequence = sequence => spc[s] = "collected"

DroppedIsNeverReused == [][Unowned => Unowned' /\ sequence' = sequence]_vars

\* No lost doorbell: once request has rung, an untaken request has an SGI
\* pending or a dispatcher that has not loaded the sequence yet.
DoorbellIsNotLost ==
    (taken # sequence /\ \A s \in Senders : spc[s] \notin {"release", "ring"})
        => doorbell \/ rpc \in {"load", "halted"}
                    \/ (rpc = "claim" /\ request.sequence = sequence)

\* Every request gets its reply, unless its caller drops the Pending or the target
\* stops: doorbells that coalesce or come from elsewhere lose no request.
EveryRequestIsAnswered ==
    \A s \in Senders :
        (spc[s] = "holding") ~> (spc[s] \in {"collected", "idle"} \/ rpc = "halted")

(***************************************************************************)
(* The inductive invariant behind the safety properties                    *)
(***************************************************************************)

OwnerSteps == {"release", "ring", "holding"} \cup CollectSteps

\* What a sender knows of the counters at each of its steps.
SenderOwnership ==
    \A s \in Senders :
        /\ spc[s] \in SubmitSteps => writer
        /\ spc[s] \in {"operation", "argument", "publish"} =>
                retired = sequence /\ sequence < MaxSequence
        /\ spc[s] \in OwnerSteps => handle[s].sequence = sequence /\ retired # sequence
        /\ spc[s] \in CollectSteps => acknowledged = sequence
        /\ spc[s] = "collected" => handle[s].sequence \in 1 .. retired
        /\ spc[s] \notin OwnerSteps \cup {"collected"} => handle[s].sequence = 0

\* One sender holds the writer flag, one the Pending of the last request.
SingleOwner ==
    \A s, t \in Senders :
        \/ spc[s] \in SubmitSteps /\ spc[t] \in SubmitSteps
        \/ spc[s] \in OwnerSteps /\ spc[t] \in OwnerSteps
        => s = t

\* What the dispatcher knows of the counters at each of its steps.
ReceiverOwnership ==
    /\ rpc \in {"idle", "load", "claim"} => acknowledged = taken
    /\ rpc = "claim" => request.sequence \in {taken, sequence}
    /\ rpc \in {"operation", "argument", "execute"} \cup ReplySteps =>
            /\ request.sequence = sequence
            /\ taken = sequence
            /\ acknowledged # sequence

\* What the request words and their copies hold.
RequestWords ==
    /\ Len(submitted) = sequence
    /\ retired # sequence => submitted[sequence] = <<operation, argument>>
    /\ \A s \in Senders :
        /\ spc[s] \in SubmitSteps =>
                handle[s].operation \in Operations /\ handle[s].argument \in Arguments
        /\ spc[s] \in {"argument", "publish"} => operation = handle[s].operation
        /\ spc[s] = "publish" => argument = handle[s].argument
        /\ spc[s] \in OwnerSteps \cup {"collected"} =>
                submitted[handle[s].sequence] = <<handle[s].operation, handle[s].argument>>
    /\ rpc = "argument" => request.operation = operation
    /\ rpc = "execute" => request.operation = operation /\ request.argument = argument

\* What the reply words and their copies hold.
ReplyWords ==
    /\ Len(answers) = Len(executed)
    /\ acknowledged <= Len(executed) /\ Len(executed) <= taken
    /\ rpc \in ReceiverSteps \ (ReplySteps \cup {"halted"}) => Len(executed) = acknowledged
    /\ rpc \in ReplySteps => Len(executed) = sequence
    /\ rpc \in {"failed", "acknowledge"} => result = answers[sequence][1]
    /\ rpc = "acknowledge" => failed = answers[sequence][2]
    /\ acknowledged = sequence /\ retired # sequence => answers[sequence] = <<result, failed>>
    /\ \A s \in Senders :
        /\ spc[s] \in {"failed", "retire"} => handle[s].value = result
        /\ spc[s] = "retire" => handle[s].failed = failed

\* The inductive invariant of the channel: counters, ownership and words
\* together imply every safety property above (struct Channel).
IInv ==
    /\ TypeOK
    /\ SequenceOrder
    /\ SenderOwnership
    /\ SingleOwner
    /\ ReceiverOwnership
    /\ RequestWords
    /\ ReplyWords
    /\ ExecutedOnceInOrder
    /\ ReplyIsForOwnRequest
    /\ DoorbellIsNotLost

=============================================================================
