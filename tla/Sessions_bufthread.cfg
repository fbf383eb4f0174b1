SPECIFICATION Spec
CONSTANTS
    s1 = s1
    s2 = s2
    d1 = d1
    d2 = d2
    web1 = web1
    SessionIds <- OneSession
    Dests <- TwoDests
    Channels <- OneChannel
    Clients <- OneWeb
    Telnet = telnet
    Stops = FALSE
    WebKinds <- BothKinds
    TelnetKinds <- NoKinds
    Reaper = reaper
    Nobody = nobody
    NoSession = noSession
    NoDest = noDest

CHECK_DEADLOCK FALSE
PROPERTIES
    BufferThreadsStop
