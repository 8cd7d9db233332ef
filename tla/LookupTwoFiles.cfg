SPECIFICATION SharingSpec
CONSTANTS
    B = 3
    N = 5
    f = f
    g = g
    Objs = {f, g}
    NoObj = NoObj
    MaxData = 1
    MaxLen = 1
    MaxGcLen = 1
    QuickMax = 0
    MaxFree = 4
    MaxRuns = 2
INVARIANT RefsExact

SYMMETRY FileSymmetry
PROPERTIES NoLiveErase StoreSpec
