SPECIFICATION LaunchSpec
CONSTANTS
    PageSize = 4
    ImageAlign = 8
    DtbAlign = 2
    HeaderSize = 2
    DtbCapacity = 4
    AddressLimit = 64
    IpaLimit = 40
    Placement48 = 24
    Err = Err
    Inputs <- MCInputs
    RamPa = 100
    LineSize = 4
    TablePages = 2
    VmId = 1
    Initrds = {0, 1, 4, 5}
INVARIANTS
    GuestStartsAsDescribed
    NothingOutlivesTheGuest
CHECK_DEADLOCK FALSE
