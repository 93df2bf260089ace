SPECIFICATION Spec
CONSTANTS
    MaxWrites = 2
    MaxPc = 3
INVARIANT
    SwitchIsTransparent
CHECK_DEADLOCK FALSE
