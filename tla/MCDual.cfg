CONSTANTS
    c1 = c1  c2 = c2  A = A  B = B  audio = audio  video = video
    NULL = NULL
    CallIds = {c1, c2}
    Ips = {A, B}
    Media = {audio, video}
    Endpoints = {e1, e2, e3, e4}
    FirstSocket = s5060
    Sockets = {s5060, s5070}
    Mode = "dual"
    SipMessages <- DualMessages
    Packets <- DualPackets
    Rules <- DualRules
    MaxStreams = 1
SYMMETRY EndpointSymmetry
SPECIFICATION Spec
PROPERTIES MakeBeforeBreak TaggedReachesCall
\* Kamailio stops after a crash.
CHECK_DEADLOCK FALSE
