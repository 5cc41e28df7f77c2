CONSTANTS
    r1 = r1
    r2 = r2
    h1 = h1
    h2 = h2
    badUrl = badUrl
    p1 = p1
    Requests = {r1, r2}
    Hosts = {h1, h2}
    BadUrl = badUrl
    UrlOf <- MCUrls
    Conns = {c1, c2}
    Ports = {}
    Dedicated = FALSE
    RedirectTo = {h1, h2}
    Faults = {"httpError"}
    MaxRedirects = 2
    MaxOutput = 3
    NoConn = NoConn
    NoHost = NoHost
    NoPort = NoPort
    NoReq = NoReq
SPECIFICATION DrainingSpec
INVARIANTS CountExact RequestsConserved NullMeansIdle
PROPERTIES EveryRequestAnswered
