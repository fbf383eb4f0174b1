SPECIFICATION Spec
CONSTANTS
    client1 = client1
    client2 = client2
    f1 = f1
    f2 = f2
    pat = pat
    pmt1 = pmt1
    pmt2 = pmt2
    es1 = es1
    es2 = es2
    MaxFilterPid = 3
    Free = free
    Nobody = nobody
    TuneLocks = TRUE
    FiltersFail = TRUE
    Freqs <- MCFreqs
    NoFreq = noFreq
    SiPids <- MCSiPids
    SessionPids <- MCSiPids
    Clients <- OneClient
    Pmt <- MCPmt
    Es <- MCEs
    Main = main
    Hw = hw
    Teardown = teardown
    SequenceWidth = 8
    MaxTunes = 3
    MaxDrift = 2
    Returning <- OneClient
    RingSize = 1
CHECK_DEADLOCK FALSE
PROPERTIES
    RetuneQuiet
    ScanSparesSessions
    InFlightGuard
    DemuxTableSpec
