\* Calls of up to two and a half bursts, odd and even; the drop counter wraps.
CONSTANTS
    BurstMax = 4
    Sizes = {2, 3, 5, 8, 10}
    TsLow = 8
    CounterMod = 4
    MaxSamples = 16
    MaxDrops = 6
    MaxFaults = 1
SPECIFICATION Spec
PROPERTIES SamplesSent CoreFollowed
CHECK_DEADLOCK FALSE
