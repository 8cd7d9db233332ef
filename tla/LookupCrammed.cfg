SPECIFICATION FairSpec
CONSTANTS
    B = 3
    N = 4
    f = f
    g = g
    Objs = {f}
    NoObj = NoObj
    MaxData = 2
    MaxLen = 2
    MaxGcLen = 1
    QuickMax = 0
    MaxFree = 5
    MaxRuns = 5
INVARIANTS TypeOK StatsExact FreeBlocksCovered FilesInv
PROPERTIES StoreSpec CallReturns
