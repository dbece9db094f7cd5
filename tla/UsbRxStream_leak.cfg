\* One transfer times out, fails or is too short, and is posted again.
CONSTANTS
    BufMax = 2
    Transfers = 1
    MaxPackets = 4
    MaxDevLoss = 0
    MaxFaults = 1
    FaultKinds = {"retry"}
    BurstBits = {0}
    LostMod = 16
SPECIFICATION Spec
INVARIANT NoBufferLeak
CHECK_DEADLOCK FALSE
