SPECIFICATION Spec
CONSTANTS
    PageSize = 30
    HeaderSize = 4
    SlotSize = 2
    CategoryMax = 15
    Pages = {1, 2, 3}
    Gaps <- AllGaps
    NoCategory = NoCategory
INVARIANTS IndexAgrees CandidateFits NothingOverlooked
