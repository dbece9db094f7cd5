\* A call of two bursts, nothing fails.
CONSTANTS
    BurstMax = 4
    Sizes = {8}
    TsLow = 8
    CounterMod = 4
    MaxSamples = 8
    MaxDrops = 0
    MaxFaults = 0
SPECIFICATION Spec
INVARIANT CallSentWhole
CHECK_DEADLOCK FALSE
