SPECIFICATION Spec
CONSTANTS
    Objs = {f}
    NoObj = NoObj
    Data = {x, y}
    D = 2
    K = 1
    PageSize = 2
    MaxSize = 3
    MaxLen = 2
    Failures = {"room", "page"}
    Uses = {}
SYMMETRY Symmetry
INVARIANTS TypeOK HandleSizes PendingFits
PROPERTIES StoreSpec
