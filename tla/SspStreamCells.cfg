CONSTANTS
    audio = audio  video = video
    NULL = NULL
    Media = {audio, video}
    Workers = {w1, w2}
    Cells = {k1, k2, k3, k4}
    Parsed <- MCParsed
    NewPorts = {50}
    MaxJobs = 3
SPECIFICATION FairSpec
INVARIANTS TypeOK CrashesKnown
PROPERTIES FunctionsAgree SearchFinds WorkersEnd
\* Kamailio stops after a crash; the bound on jobs ends every other run.
CHECK_DEADLOCK FALSE
