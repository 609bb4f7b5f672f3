CONSTANTS
    PAGE_SIZE = 16
    EhdrSize = 1
    PhdrSize = 1
    Starts = {2, 17, 29}
    Sizes = {3, 12}
    Binaries <- MCBinaries
SPECIFICATION Spec
INVARIANTS
    ScoopsLoaded
    HeadersLoaded
    SectionsFound
CHECK_DEADLOCK FALSE
