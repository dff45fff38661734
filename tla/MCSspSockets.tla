---------------------------- MODULE MCSspSockets -----------------------------
(***************************************************************************)
(* The two sockets of the repository and RTCP reports for TLC.             *)
(***************************************************************************)
EXTENDS SspSockets, TLC

MCSockets == <<"5060", "5070">>

MCReport(type, lost, behind) == [type |-> type, lost |-> lost, behind |-> behind]

\* The threshold of the server's configuration is 200.  Reports without blocks,
\* with losses in each of the first blocks, and of five blocks, whose last pass
\* reads behind the last block.
MCReports == {MCReport("RR", <<>>, 0), MCReport("SR", <<200, 255>>, 0),
              MCReport("SR", <<201>>, 0), MCReport("RR", <<7, 255, 7>>, 0),
              MCReport("SR", <<7, 7, 7>>, 255),
              MCReport("RR", <<7, 7, 255, 7>>, 255), MCReport("RR", <<7, 7, 7, 7, 7>>, 255),
              MCReport("other", <<255>>, 255)}

SocketsSymmetry == Permutations(Workers) \cup Permutations(Clients)
=============================================================================
