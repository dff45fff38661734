----------------------------- MODULE SspStreams -----------------------------
(***************************************************************************)
(* The media streams of an endpoint (ssp_stream.c) and the two operations  *)
(* of ssp_connection.c that rewrite them during a handover.                *)
(*                                                                         *)
(* A stream list is a sequence, in list order, of the m= lines that        *)
(* parse_streams copied from the SDP.  The C code keeps ports as strings;  *)
(* here they are the numbers atoi reads.  rtcp_port is 0 when the stream   *)
(* has no a=rtcp attribute.  Every search of ssp_stream.c stops at the     *)
(* first stream that fits, so each one is FirstOf a set of positions.      *)
(***************************************************************************)
EXTENDS Integers, Sequences, FiniteSets, FiniteSetsExt

CONSTANT Media            \* media types, the word after m=

MaxPort == 65535
Port   == 0 .. MaxPort
Stream == [media : Media, port : Port, rtcp_port : Port, temporary : BOOLEAN]

U16(n) == n % (MaxPort + 1)     \* the cast to unsigned short

\* The least position in I, 0 when there is none.
FirstOf(I) == IF I = {} THEN 0 ELSE Min(I)

-----------------------------------------------------------------------------
(* Searches *)

\* Without a=rtcp, RTCP uses the port after the RTP one (which may be 65536).
GetRtcpPort(s) == IF s.rtcp_port = 0 THEN s.port + 1 ELSE s.rtcp_port

ContainPort(ss, port) ==
    \E i \in DOMAIN ss : port \in {ss[i].port, GetRtcpPort(ss[i])}

\* Position of the stream whose media type the search reports; 0: not found.
GetStreamType(ss, port) ==
    FirstOf({i \in DOMAIN ss : port \in {ss[i].port, GetRtcpPort(ss[i])}})

GetStreamTypeRtcp(ss, port) ==
    FirstOf({i \in DOMAIN ss : port = GetRtcpPort(ss[i])})

StreamOfMedia(ss, media) == FirstOf({i \in DOMAIN ss : ss[i].media = media})

\* The port of the first stream of that media type, -1 when there is none.
GetStreamPort(ss, media) ==
    LET i == StreamOfMedia(ss, media)
    IN  IF i = 0 THEN -1 ELSE U16(ss[i].port)

\* Mutant of GetStreamRtcpPort: the a=rtcp attribute is ignored.
GetStreamNextPort(ss, media) ==
    LET i == StreamOfMedia(ss, media)
    IN  IF i = 0 THEN -1 ELSE U16(ss[i].port + 1)

GetStreamRtcpPort(ss, media) ==
    LET i == StreamOfMedia(ss, media)
    IN  IF i = 0 THEN -1 ELSE U16(GetRtcpPort(ss[i]))

-----------------------------------------------------------------------------
(* Handover *)

\* Mutants of AddTemporaryStreams: the copy goes before its stream, the media
\* type is not copied, or the stream is moved instead of copied.
AddTemporaryBefore(ss, port) ==
    [i \in 1 .. 2 * Len(ss) |->
        IF i % 2 = 0
        THEN ss[i \div 2]
        ELSE [media |-> ss[(i + 1) \div 2].media, port |-> port, rtcp_port |-> port,
              temporary |-> TRUE]]

AddTemporaryNoMedia(ss, port) ==
    [i \in 1 .. 2 * Len(ss) |->
        IF i % 2 = 1
        THEN ss[(i + 1) \div 2]
        ELSE [media |-> "", port |-> port, rtcp_port |-> port, temporary |-> TRUE]]

AddTemporaryMoves(ss, port) ==
    [i \in DOMAIN ss |-> [ss[i] EXCEPT !.port = port, !.rtcp_port = port]]

\* One temporary copy, on the new port, behind every stream of the list (the
\* copies of an earlier call that are still there included).
AddTemporaryStreams(ss, port) ==
    [i \in 1 .. 2 * Len(ss) |->
        IF i % 2 = 1
        THEN ss[(i + 1) \div 2]
        ELSE [media |-> ss[i \div 2].media, port |-> port, rtcp_port |-> port,
              temporary |-> TRUE]]

\* Mutant of Visited: the loop looks at every stream.
VisitedAll(ss) == DOMAIN ss

\* The streams the do-while loop of remove_temporary_streams looks at.  Looking
\* at a stream flips its flag, and a stream flipped to TRUE is removed; having
\* removed one the loop steps to the next and then past it.  So it looks at the
\* stream behind a temporary one, and from there at every other one.
Visited(ss) ==
    {i \in DOMAIN ss :
        (i - 1 - Max({0} \cup {j \in 1 .. i - 1 : ss[j].temporary})) % 2 = 0}

\* Mutants of Kept: the flag is not looked at, or tested the wrong way round.
KeptNever(ss) == {i \in DOMAIN ss : i \notin Visited(ss)}

KeptInverted(ss) == {i \in DOMAIN ss : i \in Visited(ss) => ~ss[i].temporary}

Kept(ss) == {i \in DOMAIN ss : i \in Visited(ss) => ss[i].temporary}

\* The k-th smallest element of I.
Nth(I, k) == CHOOSE i \in I : Cardinality({j \in I : j <= i}) = k

RemoveTemporaryStreams(ss) ==
    LET kept == Kept(ss)
    IN  [k \in 1 .. Cardinality(kept) |->
            LET i == Nth(kept, k)
            IN  [ss[i] EXCEPT !.temporary = @ /\ i \notin Visited(ss)]]

\* Removing the last stream of the list ends in unlock_stream(NULL).
RemoveTemporaryCrashes(ss) == ss # <<>> /\ Len(ss) \notin Kept(ss)
=============================================================================
