------------------------------ MODULE SspParse ------------------------------
(***************************************************************************)
(* How ssp_parse.c classifies SIP messages.  A message is what the module  *)
(* looks at: request or reply, the method (of the CSeq header in a reply), *)
(* the status code, the Call-ID and the SDP body.                          *)
(***************************************************************************)
EXTENDS SspStreams

CONSTANTS
    CallIds,        \* Call-ID header values
    Ips,            \* addresses in c= lines and of packets
    NULL            \* the null pointer; also "no body", "no tag", "nothing sent"

Sdp == [ip : Ips, streams : Seq(Stream)]

Method == {"INVITE", "CANCEL", "BYE", "OTHER"}

Message == [type : {"request", "reply"}, method : Method, code : 0 .. 699,
            call_id : CallIds, sdp : Sdp \cup {NULL}]

InitializesDialog(m) ==
    /\ m.method = "INVITE"
    /\ m.type = "request" \/ m.code \in 200 .. 299

TerminatesDialog(m) ==
    m.type = "reply" /\ m.method = "BYE" /\ m.code \in 200 .. 299

CancelsDialog(m) ==
    \/ m.type = "request" /\ m.method = "CANCEL"
    \/ m.type = "reply" /\ m.method = "INVITE" /\ m.code \in 300 .. 699

\* parse_endpoint gives up on a message without SDP.
HasEndpoint(m) == m.sdp # NULL
=============================================================================
