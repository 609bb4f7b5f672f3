CONSTANTS
    HoleSizes = {9, 14}
    Pin1 = 40
    Pin3 = 80
    Overflow = 128
    MaxAddr = 220
    None = None
    TRAMPOLINE_SIZE = 5
    SHORT_PIN_SIZE = 2
    LONG_PIN_SIZE = 5
    ALIGNMENT = 1
    UNPIN_ALIGNMENT = 8
    RoomyPlans = TRUE
    UIntMod = 4096
    Insn <- MCInsn
    Programs <- MCPrograms
SPECIFICATION MCSpec
INVARIANTS
    PlacedBytesAreKept
    AssertsHold
    ControlFollows
    NothingForgotten
PROPERTIES
    PlacementEnds
CHECK_DEADLOCK FALSE
