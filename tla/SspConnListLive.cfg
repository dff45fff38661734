CONSTANTS
    NULL = NULL  Wild = Wild
    Workers = {w1, w2}
    CallIds = {c1, c2}
    Cells = {k1, k2}
    Endpoints = {e1, e2}
    MaxJobs = 3
SPECIFICATION FairSpec
INVARIANTS TypeOK
PROPERTIES HandlersEnd
\* Kamailio stops after a crash; the bound on messages ends every other run.
CHECK_DEADLOCK FALSE
