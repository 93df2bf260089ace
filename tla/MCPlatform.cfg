\* Pages of four addresses below 32, six of them in the aperture; every list of
\* up to three CPU nodes, and some of four.
SPECIFICATION Spec
CONSTANTS
    MaxAddr = 31
    PageSize = 4
    Err = Err
    MaxRam = 2
    MaxReserved = 6
    MaxMmio = 2
    MaxCpus = 3
    MaxAffinity = 8
    NoId = NoId
    LowLimit = 16
    Aperture = 6
    Trees <- MCTrees
INVARIANTS
    MapIsExact
    AllocatorIsExact
    TopologyIsCanonical
