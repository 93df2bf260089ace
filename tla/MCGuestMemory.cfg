\* Two backed usages and a guard of up to two pages, eight guest pages behind
\* tables of two entries, seven physical pages around one reserved page.
SPECIFICATION Spec
CONSTANTS
    Top = 8
    Managed <- MCManaged
    Backed = {"GuestRam", "Image"}
    Fanout = 2
    MaxGuestPages = 6
    MaxRegion = 2
    DeviceIpas <- MCDeviceIpas
    RegionIpas <- MCRegionIpas
    HostBound = 1
    None = None
INVARIANTS
    PagesAreAccountedFor
    ScanFindsLowestRun
    WalksStayInside
    NoStaleTranslation
PROPERTIES
    MappingsAreStable
