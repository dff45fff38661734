CONSTANTS
    NULL = NULL  Wild = Wild
    Workers = {w1, w2}
    Clients = {c1, c2, c3}
    Sockets <- MCSockets
    Reports <- MCReports
    Threshold = 200
    MaxJobs = 4
SYMMETRY SocketsSymmetry
SPECIFICATION Spec
INVARIANTS TypeOK CountsAreClients
PROPERTIES LeastIsChosen ReportsAreRead
\* Kamailio stops after a crash; the bound on messages ends every other run.
CHECK_DEADLOCK FALSE
