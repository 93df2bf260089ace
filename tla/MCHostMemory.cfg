\* Blocks of 5 and 25 pages; stacks of three pages and a guard.
SPECIFICATION HostSpec
CONSTANTS
    Top = 100
    Managed <- MCManaged
    Fanout = 5
    PaPages = 100
    Layouts <- MCLayouts
    Usable <- MCUsable
    ReservedPages <- MCReserved
    StackPages = 3
    ScratchVa = 123
INVARIANTS
    TranslationsAreExact
    PagesHaveOneOwner
PROPERTY
    LeavesAreStable
