SPECIFICATION Spec
SYMMETRY Symmetry
CONSTANTS
    Paths = {p1, p2}
    FileIds = {f1, f2}
    Kinds = {HEAP, BTREE}
    Unsupported = {BTREE}
    ObjectIds = {1, 2}
    Objects = {o1, o2}
    Threads = {t1, t2}
    MaxPages = 3
    None = None
INVARIANTS RegistrationsOwned OpenIsGenuine PromisedIsDurable
           AllocationsUniqueContiguous
