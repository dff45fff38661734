CONSTANTS
    audio = audio  video = video
    NULL = NULL
    Media = {audio, video}
    First = 5060  Other = 5070
    Calls = {c1, c2}
    Sdps <- MCSdps
    Workers = {w1}
    MaxHandovers = 1
    MaxDuplicates = 1
SPECIFICATION FairSpec
INVARIANTS TypeOK MediaAccepted CrashOnlyDisturbed
PROPERTIES HandoverCompletes
CHECK_DEADLOCK FALSE
