SPECIFICATION PlainSpec
CONSTANTS
    Objs = {f, g}
    NoObj = NoObj
    Data = {x}
    D = 2
    K = 2
    PageSize = 2
    MaxSize = 2
    MaxLen = 1
    Failures = {}
    Uses = {}
SYMMETRY Symmetry
INVARIANTS CacheOwned PendingReachable HeadersFresh
PROPERTIES StoreSpec
