SPECIFICATION Spec
CONSTANTS
    s1 = s1
    s2 = s2
    d1 = d1
    d2 = d2
    web1 = web1
    SessionIds <- TwoSessions
    Dests <- TwoDests
    Channels <- OneChannel
    Clients <- WebAndTelnet
    Telnet = telnet
    Stops = TRUE
    WebKinds <- LiveKind
    TelnetKinds <- UrlAndHttp
    Reaper = reaper
    Nobody = nobody
    NoSession = noSession
    NoDest = noDest
SYMMETRY Symmetry
CHECK_DEADLOCK FALSE
INVARIANTS
    TypeOK
    ListedAreLive
    ListedDestsAreAllocated
    
