---------------------------- MODULE SspHandover ------------------------------
(***************************************************************************)
(* Two proxies move the media of their calls from one pair of sockets to   *)
(* another: the routes SSP_CHECKER and REREGISTER of kamailioC (the        *)
(* client) and REREGISTER of kamailioS (the server), the functions of the  *)
(* module they call, and the REGISTER requests between them.  Both proxies *)
(* listen on the same two ports.                                           *)
(*                                                                         *)
(*      client                                server                       *)
(*   add_in_rule        --- move --->      change_socket, add_in_rule      *)
(*   change_socket,     <-- moved ---                                      *)
(*   remove_in_rule     --- done --->      remove_in_rule                  *)
(*                                                                         *)
(* tm repeats a request until it is answered, and the routes answer        *)
(* without a transaction: a request is handled once for each copy that     *)
(* arrives, and a copy may arrive at any later time.  When none arrives    *)
(* the sender gives up, and no route handles that.                         *)
(***************************************************************************)
EXTENDS SspReplace

CONSTANTS
    First, Other,   \* the ports of the two sockets, in Kamailio's order
    Calls,          \* calls that pass both proxies
    Sdps,           \* the SDP bodies of the user agents
    Workers,        \* the worker processes of each proxy
    MaxHandovers,   \* bound: notifications
    MaxDuplicates,  \* bound: second copies of a request that arrive
    NULL

Sides == {"client", "server"}
Targets == {First, Other}

\* The REGISTER requests; all carry the port to move to, and come from First.
Message == [kind : {"move", "moved", "done"}, to : Targets]

ASSUME HandoverAssumption ==
    /\ First \in Port \ {0} /\ Other \in Port \ {0} /\ First # Other
    /\ Sdps \subseteq Seq(Stream)
    /\ \A sdp \in Sdps : /\ ~ChangeCrashes(sdp)
                         /\ \A i \in DOMAIN sdp : ~sdp[i].temporary
    /\ NULL \notin Targets
    /\ MaxHandovers \in Nat /\ MaxDuplicates \in Nat

VARIABLES
    streams,        \* each side's streams of the other side's endpoint, by call;
                    \*   <<>>: it has not seen that endpoint
    socket,         \* the socket each side sends the media of a call from
    notification,   \* the target in the client's notification file; NULL: no file
    timer,          \* the client's timer process still has to unlink the file
    net,            \* the copies under way of each request
    pending,        \* by side and worker: the target of a REGISTER whose
                    \*   change_socket has been done and whose rest has not
    fault,          \* remove_in_rule has crashed one of the proxies
    handovers,      \* history: notifications so far
    duplicates,     \* history: second copies so far
    due,            \* history: calls that were complete when their handover began
    disturbed,      \* history: see CheckNotification and LearnEndpoint
    gaveUp          \* history: all copies of some request were lost

vars == <<streams, socket, notification, timer, net, pending, fault, handovers,
          duplicates, due, disturbed, gaveUp>>

Init == /\ streams = [side \in Sides |-> [c \in Calls |-> <<>>]]
        /\ socket = [side \in Sides |-> [c \in Calls |-> First]]
        /\ notification = NULL
        /\ timer = FALSE
        /\ net = [m \in Message |-> 0]
        /\ pending = [side \in Sides |-> [w \in Workers |-> NULL]]
        /\ fault = FALSE
        /\ handovers = 0
        /\ duplicates = 0
        /\ due = {}
        /\ disturbed = {}
        /\ gaveUp = FALSE

-----------------------------------------------------------------------------
(* Calls and requests *)

Known(c) == \E side \in Sides : streams[side][c] # <<>>
Complete(c) == \A side \in Sides : streams[side][c] # <<>>

\* A handover is under way.
Busy == \/ \E m \in Message : net[m] > 0
        \/ \E side \in Sides, w \in Workers : pending[side][w] # NULL

\* The copies of a request that will arrive.
Send(before, m) ==
    \E copies \in 0 .. 2 :
        /\ duplicates' = duplicates + (IF copies = 2 THEN 1 ELSE 0)
        /\ duplicates' <= MaxDuplicates
        /\ net' = [before EXCEPT ![m] = @ + copies]
        /\ gaveUp' = (gaveUp \/ copies = 0)

Receive(m) == [net EXCEPT ![m] = @ - 1]

\* What add_in_rule and remove_in_rule match at a side: SERVER_PORT at the client,
\* the source port of the request at the server, both First.
Matched(side) == {c \in Calls : ContainPort(streams[side][c], First)}

\* Mutants of AddInRule: the streams are moved, not copied; the search for
\* endpoints stops at the first call that matches.
AddInRuleMoves(side, t) ==
    streams' = [streams EXCEPT ![side] = [c \in Calls |->
        IF c \in Matched(side) THEN AddTemporaryMoves(@[c], t) ELSE @[c]]]

AddInRuleOnce(side, t) ==
    streams' = [streams EXCEPT ![side] = [c \in Calls |->
        IF c \in Matched(side) /\ c = CHOOSE d \in Matched(side) : TRUE
        THEN AddTemporaryStreams(@[c], t) ELSE @[c]]]

AddInRule(side, t) ==
    streams' = [streams EXCEPT ![side] = [c \in Calls |->
        IF c \in Matched(side) THEN AddTemporaryStreams(@[c], t) ELSE @[c]]]

RemoveInRule(side) ==
    /\ fault' = \E c \in Matched(side) : RemoveTemporaryCrashes(streams[side][c])
    /\ streams' = [streams EXCEPT ![side] = [c \in Calls |->
           IF c \in Matched(side) THEN RemoveTemporaryStreams(@[c]) ELSE @[c]]]

\* Mutant of ChangeSocket: get_bind_address has found no socket.
ChangeSocketNull(side, t) ==
    socket' = [socket EXCEPT ![side] = [c \in Calls |->
        IF c \in Matched(side) THEN NULL ELSE @[c]]]

ChangeSocket(side, t) ==
    socket' = [socket EXCEPT ![side] = [c \in Calls |->
        IF c \in Matched(side) THEN t ELSE @[c]]]

-----------------------------------------------------------------------------
(* A side handles the INVITE or the answer of a call that the other side has
   sent with its own port for every stream.  While a handover is under way only
   one side may know the call when the rules are added: that disturbs it. *)
LearnEndpoint(side, c, sdp) ==
    /\ ~fault
    /\ streams[side][c] = <<>>
    /\ streams' = [streams EXCEPT ![side][c] = ChangeMediaPorts(sdp, First)]
    /\ disturbed' = IF Busy THEN disturbed \cup {c} ELSE disturbed
    /\ UNCHANGED <<socket, notification, timer, net, pending, fault, handovers,
                   duplicates, due, gaveUp>>

\* notify, at the server.  The least used socket may be the one in use.
Notify(t) ==
    /\ ~fault
    /\ handovers < MaxHandovers
    /\ notification' = t
    /\ handovers' = handovers + 1
    /\ UNCHANGED <<streams, socket, timer, net, pending, fault, duplicates, due,
                   disturbed, gaveUp>>

\* SSP_CHECKER of the client, which its timer process runs every second.  A
\* handover disturbs a call that only one side knows, and it disturbs every call
\* when it is back to the port it comes from.
CheckNotification ==
    /\ ~fault
    /\ ~timer /\ notification # NULL
    /\ timer' = TRUE
    /\ AddInRule("client", notification)
    /\ Send(net, [kind |-> "move", to |-> notification])
    /\ due' = due \cup {c \in Calls : Complete(c)}
    /\ disturbed' = disturbed \cup
         {c \in Calls : Known(c) /\ (~Complete(c) \/ notification = First)}
    /\ UNCHANGED <<socket, notification, pending, fault, handovers>>

\* Its last command.  A notification written since it began is lost with the file.
EndNotification ==
    /\ ~fault
    /\ timer
    /\ timer' = FALSE
    /\ notification' = NULL
    /\ UNCHANGED <<streams, socket, net, pending, fault, handovers, duplicates, due,
                   disturbed, gaveUp>>

\* REREGISTER of the server for a move, of the client for a moved: it begins with
\* change_socket.
Reregister(side, w, m) ==
    /\ ~fault
    /\ m.kind = (IF side = "server" THEN "move" ELSE "moved")
    /\ net[m] > 0 /\ pending[side][w] = NULL
    /\ net' = Receive(m)
    /\ ChangeSocket(side, m.to)
    /\ pending' = [pending EXCEPT ![side][w] = m.to]
    /\ UNCHANGED <<streams, notification, timer, fault, handovers, duplicates, due,
                   disturbed, gaveUp>>

\* The rest of it at the server: the rule for the client's new port, and the
\* request that makes the client move.
ServerMoved(w) ==
    /\ ~fault
    /\ pending["server"][w] # NULL
    /\ AddInRule("server", pending["server"][w])
    /\ Send(net, [kind |-> "moved", to |-> pending["server"][w]])
    /\ pending' = [pending EXCEPT !["server"][w] = NULL]
    /\ UNCHANGED <<socket, notification, timer, fault, handovers, due, disturbed>>

\* And at the client: the server's old port goes, and so may the client's.
ClientMoved(w) ==
    /\ ~fault
    /\ pending["client"][w] # NULL
    /\ RemoveInRule("client")
    /\ Send(net, [kind |-> "done", to |-> pending["client"][w]])
    /\ pending' = [pending EXCEPT !["client"][w] = NULL]
    /\ UNCHANGED <<socket, notification, timer, handovers, due, disturbed>>

\* Mutant of Unregister: the server answers and keeps its rules.
UnregisterKeeps(m) ==
    /\ ~fault
    /\ m.kind = "done" /\ net[m] > 0
    /\ net' = Receive(m)
    /\ UNCHANGED <<streams, socket, notification, timer, pending, fault, handovers,
                   duplicates, due, disturbed, gaveUp>>

\* REREGISTER of the server when the request has "Expires: 0".
Unregister(m) ==
    /\ ~fault
    /\ m.kind = "done" /\ net[m] > 0
    /\ net' = Receive(m)
    /\ RemoveInRule("server")
    /\ UNCHANGED <<socket, notification, timer, pending, handovers, duplicates, due,
                   disturbed, gaveUp>>

-----------------------------------------------------------------------------
Handle(m) == \/ \E side \in Sides, w \in Workers : Reregister(side, w, m)
             \/ Unregister(m)

Next == \/ \E side \in Sides, c \in Calls, sdp \in Sdps : LearnEndpoint(side, c, sdp)
        \/ \E t \in Targets : Notify(t)
        \/ CheckNotification \/ EndNotification
        \/ \E m \in Message : Handle(m)
        \/ \E w \in Workers : ServerMoved(w) \/ ClientMoved(w)

Spec == Init /\ [][Next]_vars

\* What arrives is handled, and a worker that has begun goes on.
FairSpec == /\ Spec
            /\ \A m \in Message : WF_vars(Handle(m))
            /\ \A w \in Workers : WF_vars(ServerMoved(w)) /\ WF_vars(ClientMoved(w))

-----------------------------------------------------------------------------
(* Properties *)

TypeOK == /\ streams \in [Sides -> [Calls -> Seq(Stream)]]
          /\ socket \in [Sides -> [Calls -> Targets]]
          /\ notification \in Targets \cup {NULL}
          /\ timer \in BOOLEAN
          /\ net \in [Message -> Nat]
          /\ pending \in [Sides -> [Workers -> Targets \cup {NULL}]]
          /\ fault \in BOOLEAN
          /\ handovers \in 0 .. MaxHandovers
          /\ duplicates \in 0 .. MaxDuplicates
          /\ due \subseteq Calls
          /\ disturbed \subseteq Calls
          /\ gaveUp \in BOOLEAN

Peer(side) == IF side = "client" THEN "server" ELSE "client"

\* At every moment of a handover each proxy takes media from the socket the other
\* one sends from, whatever requests are lost, repeated or late, as long as both
\* sides knew the call when the handover began (the order of add_in_rule,
\* change_socket and remove_in_rule in the routes).
MediaAccepted ==
    \A c \in Calls : Complete(c) /\ c \notin disturbed =>
        \A side \in Sides : ContainPort(streams[side][c], socket[Peer(side)][c])

\* remove_in_rule crashes neither proxy before a call has been disturbed.
CrashOnlyDisturbed == fault => disturbed # {}

\* Both sides have moved call c and let go of the old port.
Moved(c) == \A side \in Sides :
               socket[side][c] = Other /\ ~ContainPort(streams[side][c], First)

\* A handover that no lost request stops comes to its end for every call that was
\* complete when it began.
HandoverCompletes ==
    \A c \in Calls :
        c \in due ~> Moved(c) \/ c \in disturbed \/ gaveUp \/ fault

\* The comment on change_media_ports: it changes all RTP and RTCP ports of the
\* SDP to the one of the proxy.
EveryPortChanged ==
    \A side \in Sides, c \in Calls : \A i \in DOMAIN streams[side][c] :
        LET s == streams[side][c][i]
        IN  s.port = First => GetRtcpPort(s) = First
=============================================================================
