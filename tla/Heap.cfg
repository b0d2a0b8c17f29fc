SPECIFICATION Spec
CONSTANTS
    PageSize = 12
    HeaderSize = 2
    SlotSize = 2
    CategoryMax = 5
    Lengths = {1, 2, 3, 8}
    Previous = {1}
    MaxSlots = 20
    NoSlot = NoSlot
    Images <- SmallImages
INVARIANTS CategoryPromisesSpace OverlapCheckExact ChainCheckExact
PROPERTIES L1Kept TuplesStable CompactLeavesNoHole
