SPECIFICATION FairSpec
CONSTANTS
    client1 = client1
    client2 = client2
    f1 = f1
    f2 = f2
    pat = pat
    pmt1 = pmt1
    pmt2 = pmt2
    es1 = es1
    es2 = es2
    MaxFilterPid = 1
    Free = free
    Nobody = nobody
    TuneLocks = TRUE
    FiltersFail = FALSE
    Freqs <- MCFreqs
    NoFreq = noFreq
    SiPids <- MCSiPids
    SessionPids <- MCSiPids
    Clients <- OneClient
    Pmt <- MCPmt
    Es <- MCEs
    Main = main
    Hw = hw
    Teardown = teardown
    SequenceWidth = 1
    MaxTunes = 1
    MaxDrift = 2
    Returning <- NoClients
    RingSize = 1
CHECK_DEADLOCK FALSE
PROPERTIES
    ScannerVisitsAll
