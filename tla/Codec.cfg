SPECIFICATION CodecSpec
CONSTANTS
    ByteBits = 3
    WordSize = 2
    HalfSize = 2
    MaxTuple = 46
    Schemas <- SmallSchemas
    Metadata <- SmallMetadata
    Values <- SmallValues
    Rid <- HomeRid
    SlotCount = 2
    Stray = {0, 1, 2, 7}
    MaxVersions = 2
    MaxDamage = 2
    PageSize = 44
    Polynomial <- SmallPolynomial
    Magic <- SmallMagic
    Locations = {0, 1, 293}
    Contents <- SmallContents
    StrayBytes = {0, 1, 2, 3, 7}
INVARIANTS PlanMatchesEncoding RoundTrip CanonicalForm
    StoredIsReadBack LoadsOnlyWhatWasStored AcceptedIsCanonical
CHECK_DEADLOCK FALSE
