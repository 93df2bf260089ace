\* A ring of two slots and four bytes: it fills, drops and wraps; the guest services
\* its interrupts.  The system stops when the run of the guest ends.
SPECIFICATION FairSpec
CHECK_DEADLOCK FALSE
CONSTANTS
    Capacity = 2
    MaxReceived = 4
    Bytes <- MCBytes
INVARIANTS
    InterruptsHaveOwners
    BytesInOrder
PROPERTIES
    InterruptsSurviveExits
    InterruptsAreServed
