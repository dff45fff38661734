------------------------------ MODULE SspRules ------------------------------
(***************************************************************************)
(* The stream list of one endpoint under a sequence of add_in_rule and     *)
(* remove_in_rule calls that match it.  In a handover the routing script   *)
(* calls add_in_rule, and remove_in_rule once the peer has moved.          *)
(***************************************************************************)
EXTENDS SspStreams

CONSTANTS
    Parsed,         \* the lists parse_streams can make of an SDP body
    NewPorts,       \* the ports media can be moved to
    MaxStreams,     \* bound: length of the list when add_in_rule starts
    MaxHandovers    \* bound: calls of remove_in_rule

ASSUME RulesAssumption ==
    /\ \A ss \in Parsed : /\ ss \in Seq(Stream) \ {<<>>}
                           /\ \A i \in DOMAIN ss : ~ss[i].temporary
    /\ NewPorts \subseteq Port \ {0}
    /\ MaxStreams \in Nat /\ MaxHandovers \in Nat

\* Mutant of RemovalLoop: after a removal the loop does not step over a stream.
RemovalLoopNoSkip(ss) ==
    LET rest[i \in 1 .. Len(ss) + 1] ==
          IF i > Len(ss) THEN <<>>
          ELSE (IF ss[i].temporary THEN <<[ss[i] EXCEPT !.temporary = FALSE]>> ELSE <<>>)
               \o rest[i + 1]
    IN  rest[1]

\* The loop of remove_temporary_streams step by step: what is left of the list
\* when it looks at stream i.
RemovalLoop(ss) ==
    LET rest[i \in 1 .. Len(ss) + 2] ==
          IF i > Len(ss) THEN <<>>
          ELSE IF ss[i].temporary
               THEN <<[ss[i] EXCEPT !.temporary = FALSE]>> \o rest[i + 1]
               ELSE (IF i = Len(ss) THEN <<>> ELSE <<ss[i + 1]>>) \o rest[i + 2]
    IN  rest[1]

VARIABLES
    streams,        \* endpoint->streams
    fault,          \* unlock_stream(NULL) has crashed the process
    parsed,         \* history: the list the endpoint was parsed with
    added,          \* history: new ports of the add_in_rule calls since the
                    \*   last remove_in_rule
    handovers,      \* history: number of remove_in_rule calls
    paired          \* history: every remove_in_rule so far followed exactly one
                    \*   add_in_rule

vars == <<streams, fault, parsed, added, handovers, paired>>

Init == /\ parsed \in Parsed
        /\ streams = parsed
        /\ fault = FALSE
        /\ added = <<>>
        /\ handovers = 0
        /\ paired = TRUE

AddInRule(port, new_port) ==
    /\ ~fault
    /\ ContainPort(streams, port)
    /\ Len(streams) <= MaxStreams
    /\ streams' = AddTemporaryStreams(streams, new_port)
    /\ added' = Append(added, new_port)
    /\ UNCHANGED <<fault, parsed, handovers, paired>>

RemoveInRule(port) ==
    /\ ~fault
    /\ ContainPort(streams, port)
    /\ handovers < MaxHandovers
    /\ fault' = RemoveTemporaryCrashes(streams)
    /\ streams' = RemoveTemporaryStreams(streams)
    /\ added' = <<>>
    /\ handovers' = handovers + 1
    /\ paired' = (paired /\ Len(added) = 1)
    /\ UNCHANGED parsed

Ports == {parsed[i].port : i \in DOMAIN parsed} \cup NewPorts

Next == \E port \in Ports : \/ \E new \in NewPorts : AddInRule(port, new)
                            \/ RemoveInRule(port)

Spec == Init /\ [][Next]_vars

-----------------------------------------------------------------------------
(* Properties *)

TypeOK == /\ streams \in Seq(Stream)
          /\ fault \in BOOLEAN
          /\ parsed \in Parsed
          /\ added \in Seq(NewPorts)
          /\ handovers \in 0 .. MaxHandovers
          /\ paired \in BOOLEAN

\* The first handover moves every stream, in order and with its media type, to
\* the new port and leaves nothing of the old list (add_temporary_streams,
\* remove_temporary_streams).
FirstHandover ==
    [][\A port \in Ports :
         RemoveInRule(port) /\ handovers = 0 /\ Len(added) = 1 =>
            streams' = [i \in DOMAIN parsed |->
                          [media |-> parsed[i].media, port |-> added[1],
                           rtcp_port |-> added[1], temporary |-> TRUE]]]_vars

\* However often rules are added before the first remove_in_rule, the ports of
\* the SDP and every port that was added are served.
OldPortsServed ==
    handovers = 0 =>
        /\ \A i \in DOMAIN parsed : ContainPort(streams, parsed[i].port)
        /\ \A i \in DOMAIN added : ContainPort(streams, added[i])

\* As long as the script calls add_in_rule once before each remove_in_rule, no
\* number of handovers crashes the process, takes the port of the current
\* handover away, or loses a media type of the call.
PairedRulesWork ==
    paired =>
        /\ ~fault
        /\ \A i \in DOMAIN added : ContainPort(streams, added[i])
        /\ \A i \in DOMAIN parsed : StreamOfMedia(streams, parsed[i].media) # 0

\* The description of what remove_temporary_streams keeps that the other modules
\* use is what its loop computes, for every list the script can produce.
LoopAgrees == RemoveTemporaryStreams(streams) = RemovalLoop(streams)

\* A paired remove_in_rule keeps the port of its handover.
HandoverPortKept ==
    [][\A port \in Ports :
         RemoveInRule(port) /\ paired /\ Len(added) = 1 =>
            ContainPort(streams', added[1])]_vars

\* The module's comment on remove_in_rule: it replaces the old rules with the
\* temporary ones, so a handover leaves only the port it moved to.
OldRulesReplaced ==
    [][\A port \in Ports :
         RemoveInRule(port) /\ paired /\ Len(added) = 1 =>
            \A i \in DOMAIN streams' : streams'[i].port = added[1]]_vars

\* The same comment for a list without temporary streams: there is nothing to
\* replace the rules with, so remove_in_rule must not take any away.
NothingToReplace ==
    [][\A port \in Ports :
         RemoveInRule(port) /\ added = <<>> /\ handovers = 0 =>
            streams' = streams /\ ~fault']_vars
=============================================================================
