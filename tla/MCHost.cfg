\* Bounds per component; see the README.
CONSTANTS
    LimeBurst = 3
    LimeBursts = 2
    LimePkt = 5
    LimeTime = 64
    LimeBufs = 3
    LimeLoss = 2
    LimeRestarts = 1
    LimeSends = {1, 2, 4, 6}
    LimeTxRound = 2
    SfeFaults = 1
    SfeCalls = 5
    SfePkts = 4
    SfeQueue = 2
    SfeCores = {"sfe", "exfe"}
    BurstFifo = 512
    BurstMax = 8
    BurstFft = 32
    BurstSyms <- MCSyms
    BurstMaps <- MCMaps
    FtThreads = {"t1", "t2"}
    FtOps = 4
    FtErrors = 2
    PlugFaults = 1
    PlugCalls = 5
    PlugPresent <- MCPresent
    PlugFilters <- MCFilters
    KdBoards = {"b1", "b2"}
    KdStreams = {"rx"}
    KdFaults = 1
    KdCalls = 12
    KdProbes = 3
    SoapyFaults = 1
    SoapyCalls = 6
    SoapyObjs = {1, 2}
    SoapyPkt = 2
    SoapyJitter = 2
    SoapySizes = {1, 2, 3, 6}
    SoapyAfe = TRUE
    SoapyWord = 4
    MdevFaults = 2
    MdevCalls = 6
    MdevCnt = 3
    FlashSub = 4
    FlashSect = 8
    FlashMaster = 16
    FlashLen = 32
    FlashLimit = 16
    FlashDevid = 1
    FlashFiles <- MCImages
    FlashCalls = 2
    FlashFaults = 1
    FlashCuts = 1
SPECIFICATION Spec
INVARIANTS LimeSamplesTimed SfeConsistent BurstSplit FtExchanges PlugLife KdLife
           SoapyInOrder SoapyHandles MdevWhole FlashUpdates
PROPERTIES LimeContinuous
CHECK_DEADLOCK FALSE
