SPECIFICATION Spec
CONSTANTS
    P = 2
    Pages = 4
    SectorSize = 2
    BlockSize = 4
    ByteCount = TRUE
    MaxLen = 5
    MaxBusy = 2
    MaxPolls = 3
PROPERTY EraseStaysInBlock
