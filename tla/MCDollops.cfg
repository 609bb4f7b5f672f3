CONSTANTS
    N = 4
    MaxTargets = 2
    None = None
    TRAMPOLINE_SIZE = 5
    Insn <- MCInsn
    Programs <- MCPrograms
SPECIFICATION Spec
INVARIANTS
    OneDollopEach
    LayoutFollowsFallthrough
    TargetsAreFronts
    ExactlyReachable
PROPERTIES
    UpdateTerminates
CHECK_DEADLOCK FALSE
