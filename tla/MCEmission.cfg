CONSTANTS
    N = 3
    None = None
    CALLBACK_TRAMPOLINE_SIZE = 10
    CallbackBytes = 10
    PluginsStartOver = TRUE
    Programs <- MCPrograms
    Orders <- MCOrders
SPECIFICATION Spec
INVARIANTS
    OneFallthrough
    SizesAgree
    ControlKept
CHECK_DEADLOCK FALSE
