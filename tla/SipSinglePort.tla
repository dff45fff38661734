--------------------------- MODULE SipSinglePort ----------------------------
(***************************************************************************)
(* One instance of the module at work: the connections list, the endpoints *)
(* in shared memory, and what a datagram (msg_received) or a call from the *)
(* routing script (add_in_rule, remove_in_rule, change_socket) does to     *)
(* them.  Every handler runs to its end before the next one starts; the    *)
(* interleaving of worker processes is the subject of SspConnList.         *)
(***************************************************************************)
EXTENDS SspParse, SequencesExt

CONSTANTS
    Endpoints,      \* addresses shm_malloc can return for an endpoint_t
    Sockets,        \* the sockets Kamailio listens on
    FirstSocket,    \* get_first_socket()
    Mode,           \* the modparam "mode": "single" or "dual"
    SipMessages,    \* the SIP messages that can arrive
    Packets,        \* the RTP and RTCP packets that can arrive
    Rules,          \* <<ip, port, new port>> of add_in_rule, remove_in_rule; port 0 is
                    \* none, and as an a=rtcp port would mean that there is none
    MaxStreams      \* bound: streams of an endpoint when add_in_rule starts

Tag == [call_id : CallIds, media : Media]

Packet == [ip : Ips, port : Port, kind : {"rtp", "rtcp"}, tag : Tag \cup {NULL}]

Datagram == [ip : Ips, port : Port, socket : Sockets, tag : Tag \cup {NULL}]

Endpoint == [ip : Ips, call_id : CallIds \cup {NULL}, socket : Sockets \cup {NULL},
             streams : Seq(Stream), sibling : Endpoints \cup {NULL}]

Connection == [call_id : CallIds,
               request_endpoint : Endpoints \cup {NULL},
               response_endpoint : Endpoints \cup {NULL}]

ASSUME ConstantsAssumption ==
    /\ FirstSocket \in Sockets
    /\ Mode \in {"single", "dual"}
    /\ SipMessages \subseteq Message
    /\ Packets \subseteq Packet
    /\ Rules \subseteq Ips \X Port \X (Port \ {0})
    /\ MaxStreams \in Nat
    /\ NULL \notin Endpoints /\ NULL \notin CallIds /\ NULL \notin Sockets

\* The null pointer is none of the records it stands in for.
ASSUME NullAssumption ==
    NULL \notin Endpoint /\ NULL \notin Sdp /\ NULL \notin Tag /\ NULL \notin Datagram

VARIABLES
    connections,    \* connections_list, in list order
    endpoint,       \* the endpoint_t at an address; NULL: not allocated
    sent,           \* the datagram the last handler sent; NULL: none
    fault           \* a handler dereferenced NULL: Kamailio has crashed

vars == <<connections, endpoint, sent, fault>>

Init == /\ connections = <<>>
        /\ endpoint = [e \in Endpoints |-> NULL]
        /\ sent = NULL
        /\ fault = FALSE

-----------------------------------------------------------------------------
(* SIP messages *)

FindConnection(table, c) == FirstOf({i \in DOMAIN table : table[i].call_id = c})

\* Mutant of FindOrPush: push_connection without looking for the call first.
FindOrPushBlindly(c) ==
    Append(connections, [call_id |-> c, request_endpoint |-> NULL,
                         response_endpoint |-> NULL])

\* find_connection_by_call_id, else create_connection and push_connection.
FindOrPush(c) ==
    IF FindConnection(connections, c) # 0 THEN connections
    ELSE Append(connections, [call_id |-> c, request_endpoint |-> NULL,
                              response_endpoint |-> NULL])

ParseEndpoint(m) == [ip |-> m.sdp.ip, call_id |-> NULL, socket |-> NULL,
                     streams |-> m.sdp.streams, sibling |-> NULL]

\* Nothing runs after a crash.  parse_endpoint returned a new endpoint_t at e.
Parses(m, e) == ~fault /\ InitializesDialog(m) /\ HasEndpoint(m) /\ endpoint[e] = NULL

\* The parsed endpoint once it belongs to the connection.
Attached(m) == [ParseEndpoint(m) EXCEPT !.call_id = m.call_id, !.socket = FirstSocket]

SetRequestEndpoint(m, e) ==
    /\ Parses(m, e) /\ m.type = "request"
    /\ LET table == FindOrPush(m.call_id)
           i     == FindConnection(table, m.call_id)
       IN  /\ table[i].request_endpoint = NULL
           /\ connections' = [table EXCEPT ![i].request_endpoint = e]
    /\ endpoint' = [endpoint EXCEPT ![e] = Attached(m)]
    /\ sent' = NULL
    /\ UNCHANGED fault

\* Mutant of SetResponseEndpoint: the slot is not tested for NULL.
SetResponseEndpointAgain(m, e) ==
    /\ Parses(m, e) /\ m.type = "reply"
    /\ LET table == FindOrPush(m.call_id)
           i     == FindConnection(table, m.call_id)
       IN  connections' = [table EXCEPT ![i].response_endpoint = e]
    /\ endpoint' = [endpoint EXCEPT ![e] = Attached(m)]
    /\ sent' = NULL
    /\ UNCHANGED fault

SetResponseEndpoint(m, e) ==
    /\ Parses(m, e) /\ m.type = "reply"
    /\ LET table == FindOrPush(m.call_id)
           i     == FindConnection(table, m.call_id)
       IN  /\ table[i].response_endpoint = NULL
           /\ connections' = [table EXCEPT ![i].response_endpoint = e]
    /\ endpoint' = [endpoint EXCEPT ![e] = Attached(m)]
    /\ sent' = NULL
    /\ UNCHANGED fault

\* The connection has that endpoint already (a retransmission, a re-INVITE), or
\* create_connection found no memory: what was parsed is never freed.
LeakEndpoint(m, e) ==
    /\ Parses(m, e)
    /\ LET i == FindConnection(connections, m.call_id)
       IN  i # 0 => /\ m.type = "request" => connections[i].request_endpoint # NULL
                    /\ m.type = "reply"   => connections[i].response_endpoint # NULL
    /\ endpoint' = [endpoint EXCEPT ![e] = ParseEndpoint(m)]
    /\ sent' = NULL
    /\ UNCHANGED <<connections, fault>>

\* Mutant of RemoveConnection: destroy_connection forgets the response endpoint.
RemoveConnectionHalf(m) ==
    /\ ~fault
    /\ CancelsDialog(m) \/ TerminatesDialog(m)
    /\ LET i == FindConnection(connections, m.call_id)
       IN  IF i = 0 THEN UNCHANGED <<connections, endpoint>>
           ELSE /\ connections' = RemoveAt(connections, i)
                /\ endpoint' = [e \in Endpoints |->
                       IF e = connections[i].request_endpoint THEN NULL ELSE endpoint[e]]
    /\ sent' = NULL
    /\ UNCHANGED fault

\* destroy_connection frees the connection and the endpoints it has.
RemoveConnection(m) ==
    /\ ~fault
    /\ CancelsDialog(m) \/ TerminatesDialog(m)
    /\ LET i == FindConnection(connections, m.call_id)
       IN  IF i = 0 THEN UNCHANGED <<connections, endpoint>>
           ELSE /\ connections' = RemoveAt(connections, i)
                /\ endpoint' = [e \in Endpoints |->
                       IF e \in {connections[i].request_endpoint,
                                 connections[i].response_endpoint}
                       THEN NULL ELSE endpoint[e]]
    /\ sent' = NULL
    /\ UNCHANGED fault

-----------------------------------------------------------------------------
(* RTP and RTCP packets *)

Complete(c) == c.request_endpoint # NULL /\ c.response_endpoint # NULL

Matches(e, ip, port) ==
    endpoint[e].ip = ip /\ ContainPort(endpoint[e].streams, port)

\* The first connection with an endpoint at ip:port; 0: none.
MatchingConnection(ip, port) ==
    FirstOf({i \in DOMAIN connections :
                /\ Complete(connections[i])
                /\ \/ Matches(connections[i].request_endpoint, ip, port)
                   \/ Matches(connections[i].response_endpoint, ip, port)})

\* The endpoint that has the address and its counterpart: at most one pair.
FindCounterEndpoint(ip, port) ==
    {LET c == connections[i]
     IN  IF Matches(c.request_endpoint, ip, port)
         THEN <<c.request_endpoint, c.response_endpoint>>
         ELSE <<c.response_endpoint, c.request_endpoint>>
     : i \in {MatchingConnection(ip, port)} \ {0}}

\* dst_endpoint->sibling, which find_counter_endpoint filled in if it was NULL.
SrcEndpoint(pair) ==
    IF endpoint[pair[2]].sibling = NULL THEN pair[1] ELSE endpoint[pair[2]].sibling

\* find_dst_port: the media type of the source stream, and the port of the
\* destination's first stream of that type (-1: no such stream).
SourceStream(src, p) ==
    IF p.kind = "rtp" THEN GetStreamType(endpoint[src].streams, p.port)
                      ELSE GetStreamTypeRtcp(endpoint[src].streams, p.port)

FindDstPort(src, dst, p) ==
    LET i == SourceStream(src, p)
        media == endpoint[src].streams[i].media
    IN  CASE i = 0          -> -1
          [] i # 0 /\ p.kind = "rtp"  -> GetStreamPort(endpoint[dst].streams, media)
          [] i # 0 /\ p.kind = "rtcp" -> GetStreamRtcpPort(endpoint[dst].streams, media)

\* Mutant of CounterOf: the side at ip instead of the one opposite.
CounterOfSelf(c, ip) ==
    CASE endpoint[c.response_endpoint].ip = ip -> c.response_endpoint
      [] /\ endpoint[c.response_endpoint].ip # ip
         /\ endpoint[c.request_endpoint].ip = ip -> c.request_endpoint
      [] OTHER -> NULL

\* The side of connection c that is not at ip; the request side is looked at
\* first and the response side has the last word.  NULL: ip is neither.
CounterOf(c, ip) ==
    CASE endpoint[c.response_endpoint].ip = ip -> c.request_endpoint
      [] /\ endpoint[c.response_endpoint].ip # ip
         /\ endpoint[c.request_endpoint].ip = ip -> c.response_endpoint
      [] OTHER -> NULL

GetCounterPort(c, ip, media) ==
    LET e == CounterOf(c, ip)
    IN  IF e = NULL THEN -1 ELSE GetStreamPort(endpoint[e].streams, media)

\* Mutant of SendTo: the result -1 is taken for a port.
SendToUnchecked(dst, port, tag) ==
    sent' = [ip |-> endpoint[dst].ip, port |-> port,
             socket |-> endpoint[dst].socket, tag |-> tag]

SendTo(dst, port, tag) ==
    sent' = IF port = -1 THEN NULL
            ELSE [ip |-> endpoint[dst].ip, port |-> port,
                  socket |-> endpoint[dst].socket, tag |-> tag]

\* Every packet whose source has a counterpart leaves its mark on it.
CacheSibling(pair) ==
    endpoint' = [endpoint EXCEPT ![pair[2]].sibling = SrcEndpoint(pair)]

DropPacket(p) ==
    /\ ~fault
    /\ FindCounterEndpoint(p.ip, p.port) = {}
    /\ sent' = NULL
    /\ UNCHANGED <<connections, endpoint, fault>>

\* A packet without a tag goes to the counterpart; in dual mode it is tagged
\* for the other proxy.
ForwardPacket(p) ==
    /\ ~fault
    /\ Mode = "single" \/ p.tag = NULL
    /\ \E pair \in FindCounterEndpoint(p.ip, p.port) :
         LET src  == SrcEndpoint(pair)
             port == FindDstPort(src, pair[2], p)
         IN  /\ CacheSibling(pair)
             /\ SendTo(pair[2], port,
                  IF Mode = "single" \/ port = -1 THEN p.tag
                  ELSE [call_id |-> endpoint[src].call_id,
                        media |-> endpoint[src].streams[SourceStream(src, p)].media])
    /\ UNCHANGED <<connections, fault>>

\* A packet the other proxy has tagged: the port comes from the call named in
\* the tag, the address and the socket from the first call that matches the
\* source.  get_counter_port dereferences the addresses of both sides.
ForwardTagged(p) ==
    /\ ~fault
    /\ Mode = "dual" /\ p.tag # NULL
    /\ \E pair \in FindCounterEndpoint(p.ip, p.port) :
         LET i     == FindConnection(connections, p.tag.call_id)
             whole == i # 0 => Complete(connections[i])
         IN  /\ CacheSibling(pair)
             /\ fault' = ~whole
             /\ IF i = 0 \/ ~whole THEN sent' = NULL
                ELSE SendTo(pair[2], GetCounterPort(connections[i], p.ip, p.tag.media), NULL)
    /\ UNCHANGED connections

-----------------------------------------------------------------------------
(* Functions exported to the routing script *)

InTable(e) ==
    \E i \in DOMAIN connections :
        e \in {connections[i].request_endpoint, connections[i].response_endpoint}

Matched(ip, port) == {e \in Endpoints : InTable(e) /\ Matches(e, ip, port)}

AddInRule(ip, port, new_port) ==
    /\ ~fault
    /\ \A e \in Matched(ip, port) : Len(endpoint[e].streams) <= MaxStreams
    /\ LET matched == Matched(ip, port)
       IN  endpoint' = [e \in Endpoints |->
             IF e \in matched
             THEN [endpoint[e] EXCEPT !.streams = AddTemporaryStreams(@, new_port)]
             ELSE endpoint[e]]
    /\ sent' = NULL
    /\ UNCHANGED <<connections, fault>>

RemoveInRule(ip, port) ==
    /\ ~fault
    /\ fault' = \E e \in Matched(ip, port) : RemoveTemporaryCrashes(endpoint[e].streams)
    /\ LET matched == Matched(ip, port)
       IN  endpoint' = [e \in Endpoints |->
             IF e \in matched
             THEN [endpoint[e] EXCEPT !.streams = RemoveTemporaryStreams(@)]
             ELSE endpoint[e]]
    /\ sent' = NULL
    /\ UNCHANGED connections

ChangeSocket(ip, port, new_socket) ==
    /\ ~fault
    /\ LET matched == Matched(ip, port)
       IN  endpoint' = [e \in Endpoints |->
             IF e \in matched
             THEN [endpoint[e] EXCEPT !.socket = new_socket]
             ELSE endpoint[e]]
    /\ sent' = NULL
    /\ UNCHANGED <<connections, fault>>

-----------------------------------------------------------------------------
Receive == \/ \E m \in SipMessages :
                 \/ \E e \in Endpoints : \/ SetRequestEndpoint(m, e)
                                         \/ SetResponseEndpoint(m, e)
                                         \/ LeakEndpoint(m, e)
                 \/ RemoveConnection(m)
           \/ \E p \in Packets : DropPacket(p) \/ ForwardPacket(p) \/ ForwardTagged(p)

Script == \E r \in Rules : \/ AddInRule(r[1], r[2], r[3])
                           \/ RemoveInRule(r[1], r[2])
                           \/ \E s \in Sockets : ChangeSocket(r[1], r[2], s)

Next == Receive \/ Script

Spec == Init /\ [][Next]_vars

-----------------------------------------------------------------------------
(* Properties *)

TypeOK == /\ connections \in Seq(Connection)
          /\ endpoint \in [Endpoints -> Endpoint \cup {NULL}]
          /\ sent \in Datagram \cup {NULL}
          /\ fault \in BOOLEAN

\* The list has one connection per call, with at least one endpoint; the
\* endpoints of a connection are two allocated ones that were parsed for its
\* call and have a socket.  So no message can free or replace an endpoint that
\* another connection uses (msg_received, remove_connection).
TableOK ==
    \A i \in DOMAIN connections :
        LET c == connections[i] IN
        /\ \A j \in DOMAIN connections : c.call_id = connections[j].call_id => i = j
        /\ c.request_endpoint # c.response_endpoint
        /\ \A e \in {c.request_endpoint, c.response_endpoint} \ {NULL} :
              /\ endpoint[e] # NULL
              /\ endpoint[e].call_id = c.call_id
              /\ endpoint[e].socket # NULL

\* The sibling an endpoint has cached is the other endpoint of its own call,
\* for as long as it lives: forwarding (msg_received reads dst_endpoint->sibling)
\* never meets a freed endpoint or one of another call.
SiblingOK ==
    \A e \in Endpoints :
        endpoint[e] # NULL /\ endpoint[e].sibling # NULL =>
            \E i \in DOMAIN connections :
                /\ {e, endpoint[e].sibling} =
                     {connections[i].request_endpoint, connections[i].response_endpoint}
                /\ e # endpoint[e].sibling

\* Where a packet that is not tagged goes; {}: it is dropped.
Destination(p) ==
    {<<endpoint[pair[2]].ip, FindDstPort(SrcEndpoint(pair), pair[2], p)>>
     : pair \in FindCounterEndpoint(p.ip, p.port)} \ (Ips \X {-1})

\* No address is at two endpoints of the list.
DistinctAddresses ==
    \A e, f \in {g \in Endpoints : InTable(g)} :
        e # f /\ endpoint[e].ip = endpoint[f].ip =>
            \A i \in DOMAIN endpoint[e].streams :
                LET s == endpoint[e].streams[i]
                IN  ~ContainPort(endpoint[f].streams, s.port)
                    /\ ~ContainPort(endpoint[f].streams, GetRtcpPort(s))

\* Media streams of different types do not share a port, and the port after an
\* RTP port that stands for a missing a=rtcp is one (U16 makes 65536 a 0).
DistinctPorts(ss) ==
    \A i, j \in DOMAIN ss :
        /\ GetRtcpPort(ss[i]) \in Port
        /\ {ss[i].port, GetRtcpPort(ss[i])} \cap {ss[j].port, GetRtcpPort(ss[j])} # {}
              => ss[i].media = ss[j].media

\* Forwarding is symmetric: when a packet from a stream of an endpoint goes to
\* some address, a packet of that kind from there comes back to the endpoint,
\* at the first of its streams of that media type.  This holds while
\* retransmissions, handover rules and the end of other calls change the list.
ReplyPath ==
    (DistinctAddresses /\ \A e \in Endpoints : InTable(e) => DistinctPorts(endpoint[e].streams))
    => \A e \in {g \in Endpoints : InTable(g)}, kind \in {"rtp", "rtcp"} :
         \A i \in DOMAIN endpoint[e].streams :
           LET ss   == endpoint[e].streams
               s    == ss[i]
               here == [ip |-> endpoint[e].ip, kind |-> kind, tag |-> NULL,
                        port |-> IF kind = "rtp" THEN s.port ELSE GetRtcpPort(s)]
           IN  \A out \in Destination(here) :
                 Destination([here EXCEPT !.ip = out[1], !.port = out[2]]) =
                   {<<endpoint[e].ip, IF kind = "rtp" THEN GetStreamPort(ss, s.media)
                                      ELSE GetStreamRtcpPort(ss, s.media)>>}

MediaOf(e) == {endpoint[e].streams[i].media : i \in DOMAIN endpoint[e].streams}

\* The answer of a call has streams of the same types as the offer.
AnswersFit ==
    \A i \in DOMAIN connections : Complete(connections[i]) =>
        MediaOf(connections[i].request_endpoint) = MediaOf(connections[i].response_endpoint)

\* No endpoint at that address uses the port.
Unused(ip, port) ==
    \A e \in Endpoints :
        InTable(e) /\ endpoint[e].ip = ip => ~ContainPort(endpoint[e].streams, port)

\* add_in_rule makes before it breaks: every source that was forwarded still is,
\* to the same address, and the new port is served wherever the old one was
\* (if no endpoint at that address used the new port already).
MakeBeforeBreak ==
    [][\A r \in Rules :
          endpoint' # endpoint /\ AddInRule(r[1], r[2], r[3]) /\ Unused(r[1], r[3])
          => \A p \in {q \in Packets : Destination(q) # {}} :
               /\ Destination(p)' = Destination(p)
               /\ p.ip = r[1] /\ p.port = r[2] /\ AnswersFit =>
                    Destination([p EXCEPT !.port = r[3]])' # {}]_vars

\* The calls that match the source of a packet.
CallsAt(p) == {i \in DOMAIN connections :
                 /\ Complete(connections[i])
                 /\ \/ Matches(connections[i].request_endpoint, p.ip, p.port)
                    \/ Matches(connections[i].response_endpoint, p.ip, p.port)}

\* Their user agents are at the address of the source and at one other.
OneFarAddress(p) ==
    \E ip \in Ips \ {p.ip} : \A i \in CallsAt(p) :
        {endpoint[connections[i].request_endpoint].ip,
         endpoint[connections[i].response_endpoint].ip} = {p.ip, ip}

\* What was sent went to an endpoint of connection i, for that media type.
ArrivesAt(i, media) ==
    \E e \in {connections[i].request_endpoint, connections[i].response_endpoint} :
        /\ endpoint[e].ip = sent'.ip
        /\ \E k \in DOMAIN endpoint[e].streams :
             endpoint[e].streams[k].media = media /\ endpoint[e].streams[k].port = sent'.port

\* A tagged packet reaches the call its tag names, at a port that call's
\* endpoint gave for the tag's media type, although the address is taken from
\* the first call that matches the source: provided the named call matches the
\* source too, the user agents behind all matching calls have one address, and
\* that is not the address of the source.
TaggedReachesCall ==
    [][\A p \in Packets : sent' # NULL /\ ForwardTagged(p) /\ OneFarAddress(p) =>
          \A i \in CallsAt(p) :
              connections[i].call_id = p.tag.call_id => ArrivesAt(i, p.tag.media)]_vars

-----------------------------------------------------------------------------
(* The list of connections implements the abstract table of calls. *)

EndpointOf(table, c, slot) ==
    LET i == FindConnection(table, c)
    IN  IF i = 0 THEN NULL ELSE table[i][slot]

Calls == INSTANCE CallTable WITH
             caller <- [c \in CallIds |-> EndpointOf(connections, c, "request_endpoint")],
             callee <- [c \in CallIds |-> EndpointOf(connections, c, "response_endpoint")]

\* Every handler adds one endpoint to one call, ends one call, or changes
\* nothing that is remembered of any call.
ImplementsCalls == Calls!Spec
=============================================================================
