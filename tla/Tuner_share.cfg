SPECIFICATION Spec
CONSTANTS
    client1 = client1
    client2 = client2
    f1 = f1
    f2 = f2
    pat = pat
    pmt1 = pmt1
    pmt2 = pmt2
    es1 = es1
    es2 = es2
    MaxFilterPid = 3
    Free = free
    Nobody = nobody
    TuneLocks = FALSE
    FiltersFail = FALSE
    Freqs <- OneFreq
    NoFreq = noFreq
    SiPids <- MCSiPids
    SessionPids <- MCSiPids
    Clients <- TwoClients
    Pmt <- MCPmt
    Es <- MCEs
    Main = main
    Hw = hw
    Teardown = teardown
    SequenceWidth = 8
    MaxTunes = 1
    MaxDrift = 2
    Returning <- NoClients
    RingSize = 1
SYMMETRY Symmetry
CHECK_DEADLOCK FALSE
INVARIANTS
    TypeOK
    NoOrphanPid
