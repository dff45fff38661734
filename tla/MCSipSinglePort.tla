-------------------------- MODULE MCSipSinglePort ---------------------------
(***************************************************************************)
(* Instances of SipSinglePort for TLC.                                     *)
(***************************************************************************)
EXTENDS SipSinglePort, TLC

CONSTANTS c1, c2, A, B, audio, video

EndpointSymmetry == Permutations(Endpoints)

MCStream(media, port, rtcp) ==
    [media |-> media, port |-> port, rtcp_port |-> rtcp, temporary |-> FALSE]

Request(method, c, sdp) == [type |-> "request", method |-> method, code |-> 0,
                            call_id |-> c, sdp |-> sdp]
Reply(code, method, c, sdp) == [type |-> "reply", method |-> method, code |-> code,
                                call_id |-> c, sdp |-> sdp]

\* The other messages of a dialog, none of which brings an endpoint.
Signalling(c) == {Request("INVITE", c, NULL), Request("CANCEL", c, NULL),
                  Request("BYE", c, NULL), Reply(200, "CANCEL", c, NULL),
                  Reply(200, "BYE", c, NULL), Reply(486, "INVITE", c, NULL)}

MCPacket(ip, port, kind, tag) == [ip |-> ip, port |-> port, kind |-> kind, tag |-> tag]

-----------------------------------------------------------------------------
(* Single proxy: two calls, each user agent with ports of its own.  The call c1
   has a video stream that gives its RTCP port. *)

SingleA(c) == [ip |-> A, streams |->
                 IF c = c1 THEN <<MCStream(audio, 10, 0), MCStream(video, 12, 15)>>
                           ELSE <<MCStream(audio, 20, 0)>>]
SingleB(c) == [ip |-> B, streams |->
                 IF c = c1 THEN <<MCStream(video, 30, 0), MCStream(audio, 32, 0)>>
                           ELSE <<MCStream(audio, 20, 0)>>]

SingleMessages == UNION {Signalling(c) \cup {Request("INVITE", c, SingleA(c)),
                                             Reply(200, "INVITE", c, SingleB(c))}
                         : c \in CallIds}

SinglePackets == {MCPacket(A, 10, "rtp", NULL), MCPacket(A, 15, "rtcp", NULL),
                  MCPacket(A, 12, "rtcp", NULL),
                  MCPacket(B, 20, "rtp", NULL), MCPacket(B, 31, "rtcp", NULL)}

SingleRules == {<<A, 20, 22>>}

-----------------------------------------------------------------------------
(* Dual proxy: all media of the other proxy, B, comes from its SIP port 50 (60
   after a handover); the user agents are behind A. *)

DualA(c) == [ip |-> A, streams |-> IF c = c1 THEN <<MCStream(audio, 10, 0)>>
                                             ELSE <<MCStream(audio, 20, 0)>>]
DualB(c) == [ip |-> B, streams |-> <<MCStream(audio, 50, 50)>>]

DualMessages == UNION {{Request("CANCEL", c, NULL), Reply(200, "BYE", c, NULL),
                        Request("INVITE", c, DualA(c)), Reply(200, "INVITE", c, DualB(c))}
                       : c \in CallIds}

DualPackets == {MCPacket(A, 10, "rtp", NULL), MCPacket(A, 21, "rtcp", NULL),
                MCPacket(B, 50, "rtp", NULL)}
               \cup {MCPacket(B, port, "rtp", [call_id |-> c, media |-> audio]) :
                       port \in {50, 60}, c \in CallIds}

DualRules == {<<B, 50, 60>>}
=============================================================================
