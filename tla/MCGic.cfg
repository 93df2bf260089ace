SPECIFICATION GicFairSpec
CONSTANTS
    N = 2
    Firmware <- MCFirmware
INVARIANT
    OnlyOwnedInterrupts
PROPERTY
    DoorbellsArrive
CHECK_DEADLOCK FALSE
