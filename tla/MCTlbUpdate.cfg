\* Two workers and two updates, so that each page is given up and mapped again.
\* The system stops after a failure, and when the epochs run out.
SPECIFICATION FairSpec
CHECK_DEADLOCK FALSE
CONSTANTS
    w1 = w1
    w2 = w2
    Boot = Boot
    PageA = PageA
    PageB = PageB
    None = None
    Workers <- MCWorkers
    Builds <- MCBuilds
    MaxEpoch = 2
INVARIANTS
    BreakBeforeMake
    ScratchReadsAreExact
    LateArrivalIsRefused
PROPERTIES
    FailureIsSticky
    UpdatesComplete
