\* Two submitting contexts that keep polling, two requests, a caller that may
\* give up and a target that may stop, extra doorbells; the third submit exhausts
\* the sequence.
SPECIFICATION FairSpec
CONSTANTS
    s1 = s1
    s2 = s2
    Ping = Ping
    a1 = a1
    a2 = a2
    None = None
    Senders <- MCSenders
    Operations <- MCOperations
    Arguments <- MCArguments
    MaxSequence = 2
    Faults <- MCFaults
INVARIANTS
    ExecutedOnceInOrder
    ReplyIsForOwnRequest
    DoorbellIsNotLost
PROPERTIES
    DroppedIsNeverReused
    ImplementsRequestSlot
    EveryRequestIsAnswered
