----------------------------- MODULE SspReplace ------------------------------
(***************************************************************************)
(* What msg_sent does to the SDP body of a message on its way out          *)
(* (ssp_replace.c): every media stream is announced at one of the proxy's  *)
(* own sockets.  The c= line gets the address of that socket as well.      *)
(***************************************************************************)
EXTENDS SspStreams

\* An m= line is found by a port of two to five digits: the port 0 of a rejected
\* stream stays.
Active(s) == s.port >= 10

HasRtcp(sdp) == \E i \in DOMAIN sdp : sdp[i].rtcp_port # 0

\* The attributes a=rtcp are replaced where they are; only if there is none, one
\* is put behind each m= line that is changed.
ChangeMediaPorts(sdp, port) ==
    [i \in DOMAIN sdp |->
        [sdp[i] EXCEPT
           !.port = IF Active(sdp[i]) THEN port ELSE @,
           !.rtcp_port = IF @ # 0 \/ (~HasRtcp(sdp) /\ Active(sdp[i])) THEN port ELSE @]]

\* Without an m= line to change subst_str returns NULL for the new body.
ChangeCrashes(sdp) == \A i \in DOMAIN sdp : ~Active(sdp[i])
=============================================================================
