SPECIFICATION Spec
CONSTANTS
    B = 3
    Flag = 10
    WAge = 2
    MaxGain = 3
    MountAtWrap = FALSE
    MaxSince = 10
    MaxLosses = 2
INVARIANTS CountsInv NotNeglected
