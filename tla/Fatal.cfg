SPECIFICATION FairSpec
CONSTANTS
    CPUs = {c1, c2}
    Boot = c1
    SharedSlot = shared
    None = None
    MaxUses = 1
    MaxFaults = 2
INVARIANT
    LocksAreSound
PROPERTIES
    SnapshotIsFirstFailure
    
CHECK_DEADLOCK FALSE
