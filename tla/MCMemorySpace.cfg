CONSTANTS
    MaxAddr = 7
    NumBuckets = 3
    IntMod = 6
SPECIFICATION Spec
INVARIANTS
    RangesDisjoint
    IndexesAgree
    AssertsHold
    InfiniteRangeFree
    LoopProgress
    SearchFits
PROPERTIES
    ImplementsFreeBytes
