CONSTANTS
    audio = audio  video = video
    NULL = NULL
    Media = {audio, video}
    First = 5060  Other = 5070
    Calls = {c1}
    Sdps <- MixedSdps
    Workers = {w1}
    MaxHandovers = 0
    MaxDuplicates = 0
SPECIFICATION Spec
INVARIANTS EveryPortChanged
CHECK_DEADLOCK FALSE
