CONSTANTS
    First = {3}
    Sizes = {2, 5}
    Gaps = {0, 4}
    PAGE_SIZE = 4
    ALIGNMENT = 2
    MinimumDistance = 5
    LastAddress = 42
    UIntMod = 64
    Layouts <- MCLayouts
SPECIFICATION Spec
INVARIANTS
    FreeSpaceIsApart
    PagesKeepPermissions
    CodeIsInScoops
CHECK_DEADLOCK FALSE
