CONSTANTS
    audio = audio  video = video
    Media = {audio, video}
    Parsed <- MCParsed
    NewPorts = {50, 60}
    MaxStreams = 6
    MaxHandovers = 5
SPECIFICATION Spec
PROPERTIES OldRulesReplaced
\* Kamailio stops after a crash, and the bounds end every run.
CHECK_DEADLOCK FALSE
