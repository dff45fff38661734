----------------------------- MODULE MCSspRules -----------------------------
(***************************************************************************)
(* Endpoints with one to three streams, for TLC.                           *)
(***************************************************************************)
EXTENDS SspRules

CONSTANTS audio, video

MCStream(media, port) ==
    [media |-> media, port |-> port, rtcp_port |-> 0, temporary |-> FALSE]

MCParsed == {<<MCStream(audio, 10)>>,
             <<MCStream(audio, 10), MCStream(video, 20)>>,
             <<MCStream(audio, 10), MCStream(audio, 20), MCStream(video, 30)>>}
=============================================================================
