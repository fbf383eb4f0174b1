SPECIFICATION FairSpec
CONSTANTS
    main = main
    hw = hw
    telnet = telnet
    pat = pat
    pmt = pmt
    MaxFilterPid = 3
    Pids <- MCPids
    Free = free
    Threads <- MCThreads
    Nobody = nobody
    TuneLocks = TRUE
    FiltersFail = TRUE
INVARIANTS
    TypeOK
    NoDuplicatePid
    FilterMatchesSlot
    QuietTune
PROPERTIES
    NeverOverwrite
    LockIsReleased
