\* Receive: twice as many buffers as transfers, one failure and one loss in the
\* device; packets of 8 and of more bursts, whose mask is half of LostMod.
\* Transmit: the ring wraps twice; register reads, submissions and transfers
\* may fail.
CONSTANTS
    BufMax = 4
    Transfers = 2
    MaxPackets = 7
    MaxDevLoss = 1
    MaxFaults = 1
    FaultKinds = {"retry", "fatal", "submit"}
    BurstBits = {0, 8}
    LostMod = 16
    TxBufMax = 4
    TxPackets = 10
    TxMaxFaults = 2
SPECIFICATION MCSpec
INVARIANTS BuffersSafe TxBuffersSafe
PROPERTIES PacketsAccounted PacketsSent
CHECK_DEADLOCK FALSE
