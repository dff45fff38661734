--------------------------- MODULE MCSspHandover -----------------------------
(***************************************************************************)
(* SDP bodies for TLC.                                                     *)
(***************************************************************************)
EXTENDS SspHandover

CONSTANTS audio, video

MCStream(media, port, rtcp) ==
    [media |-> media, port |-> port, rtcp_port |-> rtcp, temporary |-> FALSE]

MCSdps == {<<MCStream(audio, 20, 0)>>}

\* The first of two streams names its RTCP port.
MixedSdps == {<<MCStream(audio, 20, 25), MCStream(video, 30, 0)>>}
=============================================================================
