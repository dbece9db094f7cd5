\* One command transfer times out.
CONSTANTS
    Readers = {}
    Writers = {"w1"}
    BusUsers = {}
    RbThreads = 8
    RegCalls = 2
    BusCalls = 0
    MaxFaults = 1
SPECIFICATION FairSpec
PROPERTY NoCallHangs
CHECK_DEADLOCK FALSE
