\* One failed access and up to four calls, three for the largest drivers.
CONSTANTS
    XsdrFaults = 1
    XsdrCalls = 3
    XsdrBoards = {"xsdr", "xtrx", "ssdr"}
    UsdrFaults = 1
    UsdrCalls = 4
    UsdrRevs = {0, 2, 3}
    DsdrFaults = 1
    DsdrCalls = 3
    DsdrTypes = {"KCU116", "M2", "HIPER", "unknown"}
    DsdrMaps <- MCMaps
    LsdrFaults = 1
    LsdrCalls = 4
    LsdrFreqs = {225000100, 500000000, 750000000, 1000000000, 1250000000}
    LsdrRates = {1000, 60000, 900000}
    LimeFaults = 1
    LimeCalls = 4
    FesFaults = 1
    FesCalls = 4
SPECIFICATION Spec
INVARIANTS XsdrAsSet UsdrAsSet DsdrAsSet LsdrAsSet LimeBoardAsSet FesAsSet
PROPERTIES XsdrOpenConfigures
CHECK_DEADLOCK FALSE
