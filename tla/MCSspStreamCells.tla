-------------------------- MODULE MCSspStreamCells ---------------------------
(***************************************************************************)
(* Small lists and memory for TLC.                                         *)
(***************************************************************************)
EXTENDS SspStreamCells

CONSTANTS audio, video

MCStream(media, port, rtcp) ==
    [media |-> media, port |-> port, rtcp_port |-> rtcp, temporary |-> FALSE]

MCParsed == {<<MCStream(audio, 10, 20)>>,
             <<MCStream(audio, 10, 10), MCStream(video, 20, 20)>>}
=============================================================================
