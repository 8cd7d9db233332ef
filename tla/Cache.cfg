SPECIFICATION Spec
CONSTANTS
    p1 = p1
    p2 = p2
    p3 = p3
    Blocks <- TwoBlocks
    Lookup <- LookupPages
    Bits = {u, d}
    Objs = {f, g}
    NoObj = NoObj
    K = 2
    Clock = 4
SYMMETRY Symmetry
INVARIANT CacheInv
PROPERTIES FilesKept
