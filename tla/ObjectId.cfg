SPECIFICATION Spec
CONSTANTS
    Work = 2
    ByteBits = 3
    MaxObjects = 9
    MaxFiles = 9
    MaxOrphans = 1
INVARIANTS SearchInv CountsInBuffer
PROPERTIES NameRefused SearchEnds
