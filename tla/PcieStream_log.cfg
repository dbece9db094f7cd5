\* Half as many log records as buffers: 16 for 32 in the driver.
CONSTANTS
    DmaBufs = 4
    LogSlots = 2
    MaxPackets = 5
    MaxReinit = 0
SPECIFICATION Spec
INVARIANT OobMatchesBuffer
CHECK_DEADLOCK FALSE
