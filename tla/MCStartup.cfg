SPECIFICATION FairSpec

CONSTANTS
    N = 3
    Secondaries <- MCThree
    Generation = 1
    FaultSets <- MCFaultSets

CHECK_DEADLOCK FALSE

INVARIANTS
    EntryFindsItsRecord
    ReleaseIsSequential

PROPERTIES
    GuestNeedsEveryCpu
    ImplementsBootGate
    BootEnds
