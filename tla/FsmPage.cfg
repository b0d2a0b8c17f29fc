SPECIFICATION FsmSpec
CONSTANTS
    Modulus = 16
    Capacity = 4
    Categories = {0, 1}
INVARIANTS RangeMatchesMapping EveryHeapPageHasAnEntry
CHECK_DEADLOCK FALSE
