CONSTANTS
    Insns = {2, 4, 6, 8, 10}
    Size = 2
    new_fde_thresh = 3
    None = None
    Tables <- MCTables
    Layouts <- MCLayouts
SPECIFICATION Spec
INVARIANTS
    RowsKept
    HandlersKept
CHECK_DEADLOCK FALSE
