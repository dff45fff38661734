CONSTANTS
    NULL = NULL  Wild = Wild
    Workers = {w1, w2}
    CallIds = {c1, c2, c3}
    Cells = {k1, k2, k3}
    Endpoints = {e1, e2, e3}
    MaxJobs = 5
SYMMETRY ListSymmetry
CONSTRAINT NoHazardYet
SPECIFICATION Spec
INVARIANTS NoCrash ListOK NothingLost
PROPERTIES ImplementsCalls
\* The bound on messages ends every run.
CHECK_DEADLOCK FALSE
