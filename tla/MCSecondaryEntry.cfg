SPECIFICATION Spec
CONSTANTS
    MaxCpus = 4
    LineSize = 64
    Leftovers <- MCLeftovers
    None = None
    Topologies <- MCTopologies
INVARIANTS
    EntrantsAreThemselves
CHECK_DEADLOCK FALSE
