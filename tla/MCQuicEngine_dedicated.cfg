CONSTANTS
    r1 = r1
    r2 = r2
    h1 = h1
    h2 = h2
    badUrl = badUrl
    p1 = p1
    Requests = {r1, r2}
    Hosts = {h1}
    BadUrl = badUrl
    UrlOf <- MCUrlOf
    Conns = {c1, c2}
    Ports = {p1}
    Dedicated = TRUE
    RedirectTo = {h1}
    Faults = {"dns", "recv", "handshake", "connClose", "reset", "sendHeaders", "badHeader"}
    MaxRedirects = 1
    MaxOutput = 3
    NoConn = NoConn
    NoHost = NoHost
    NoPort = NoPort
    NoReq = NoReq
SPECIFICATION FairSpec
INVARIANTS TypeOK OneStreamPerConnection PortsKeptApart
PROPERTIES TimedWaitEnds
