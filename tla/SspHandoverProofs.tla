------------------------- MODULE SspHandoverProofs --------------------------
(***************************************************************************)
(* What the handover of two proxies promises, for any calls, SDP bodies,   *)
(* workers, notifications and lost, repeated or late requests.             *)
(*                                                                         *)
(* Each side's list of an undisturbed call goes through three stages: as   *)
(* the SDP announced it, with the copies on the new port, and with the     *)
(* copies alone.  What is under way and what each socket is tells how far  *)
(* both lists are: the requests never run ahead of them.                   *)
(***************************************************************************)
EXTENDS SspHandover, SspStreamsProofs

OnOther(s) == s.port = Other /\ s.rtcp_port = Other

Fresh(ss) == /\ ContainPort(ss, First)
             /\ \A i \in DOMAIN ss : ~ss[i].temporary

Mid(ss) == /\ ContainPort(ss, First)
           /\ \A i \in DOMAIN ss :
                 IF ss[i].temporary THEN OnOther(ss[i])
                 ELSE i + 1 \in DOMAIN ss /\ ss[i + 1].temporary

Over(ss) == ss # <<>> /\ \A i \in DOMAIN ss : OnOther(ss[i])

Ready(ss) == Mid(ss) \/ Over(ss)

\* What the socket of a side tells about the list of the other one.
SocketsAgree(c) ==
    \A side \in Sides :
        LET ss == streams[side][c]
        IN  /\ socket[Peer(side)][c] = First => Fresh(ss) \/ Mid(ss)
            /\ socket[Peer(side)][c] = Other => Ready(ss)

\* The server adds its rule after it has changed its socket, and the client
\* removes its rule after it has changed its own.
OrderKept(c) ==
    /\ socket["server"][c] = First => Fresh(streams["server"][c])
    /\ Over(streams["client"][c]) => socket["client"][c] = Other

Begun(c)  == Ready(streams["client"][c])
Halfway(c) == /\ Begun(c) /\ Ready(streams["server"][c])
              /\ socket["server"][c] = Other

\* How far call c is when a request is under way.
RequestsTell(c) ==
    \A m \in Message : net[m] > 0 =>
        /\ m.to = Other
        /\ m.kind = "move" => Begun(c)
        /\ m.kind = "moved" => Halfway(c)
        /\ m.kind = "done" => Halfway(c) /\ socket["client"][c] = Other

\* And while one is being handled.
PendingTells(c) ==
    \A w \in Workers :
        /\ pending["server"][w] # NULL =>
              /\ pending["server"][w] = Other
              /\ Begun(c) /\ socket["server"][c] = Other
        /\ pending["client"][w] # NULL =>
              /\ pending["client"][w] = Other
              /\ Halfway(c) /\ socket["client"][c] = Other

Paired(c) == /\ SocketsAgree(c) /\ OrderKept(c)
             /\ RequestsTell(c) /\ PendingTells(c)

\* A call that only one side knows, and no handover has met.
HalfKnown(c) ==
    /\ ~Busy
    /\ \A side \in Sides : /\ socket[side][c] = First
                           /\ streams[side][c] = <<>> \/ Fresh(streams[side][c])

CallInv(c) ==
    c \notin disturbed =>
        /\ \A side \in Sides : streams[side][c] = <<>> => socket[side][c] = First
        /\ Known(c) /\ ~Complete(c) => HalfKnown(c)
        /\ Complete(c) => Paired(c)

IInv == TypeOK /\ CrashOnlyDisturbed /\ \A c \in Calls : CallInv(c)
-----------------------------------------------------------------------------
(* Stages of a list *)

LEMMA Ports == First \in Port /\ Other \in Port /\ First # Other /\ First # 0 /\ Other # 0
BY HandoverAssumption

\* The stages exclude each other, and tell which port is served.
LEMMA Stages ==
    ASSUME NEW ss \in Seq(Stream)
    PROVE  /\ Fresh(ss) => ss # <<>> /\ ContainPort(ss, First) /\ ~Mid(ss) /\ ~Over(ss)
           /\ Mid(ss) => ss # <<>> /\ ContainPort(ss, First) /\ ContainPort(ss, Other)
                         /\ ~Over(ss)
           /\ Over(ss) => ss # <<>> /\ ~ContainPort(ss, First) /\ ContainPort(ss, Other)
<1>1. ContainPort(ss, First) => ss # <<>>
  BY DEF ContainPort
<1>2. DOMAIN ss = 1 .. Len(ss) /\ Len(ss) \in Nat
  OBVIOUS
<1>3. \A i \in DOMAIN ss : OnOther(ss[i]) => ss[i].port = Other /\ GetRtcpPort(ss[i]) = Other
  BY Ports DEF OnOther, GetRtcpPort
<1>4. Over(ss) => ~ContainPort(ss, First)
  BY <1>3, Ports DEF Over, ContainPort
<1>5. Over(ss) => ContainPort(ss, Other)
  <2>1. SUFFICES ASSUME Over(ss) PROVE ContainPort(ss, Other)
    OBVIOUS
  <2>2. 1 \in DOMAIN ss
    BY <1>2, <2>1 DEF Over
  <2>3. QED
    BY <1>3, <2>1, <2>2 DEF Over, ContainPort
<1>6. Mid(ss) => \E i \in DOMAIN ss : ss[i].temporary /\ OnOther(ss[i])
  BY DEF Mid, ContainPort
<1>7. QED
  BY <1>1, <1>3, <1>4, <1>5, <1>6 DEF Fresh, Mid, Over, ContainPort

\* What msg_sent announces is a list in the first stage.
LEMMA AnnouncedIsFresh ==
    ASSUME NEW sdp \in Sdps
    PROVE  /\ ChangeMediaPorts(sdp, First) \in Seq(Stream)
           /\ Fresh(ChangeMediaPorts(sdp, First))
<1> DEFINE sent == ChangeMediaPorts(sdp, First)
<1>1. sdp \in Seq(Stream) /\ DOMAIN sdp = 1 .. Len(sdp) /\ Len(sdp) \in Nat
  BY HandoverAssumption
<1>2. DOMAIN sent = DOMAIN sdp
  BY DEF ChangeMediaPorts
<1>3. ASSUME NEW i \in DOMAIN sdp
      PROVE  /\ sent[i] \in Stream
             /\ sent[i].temporary = sdp[i].temporary
             /\ Active(sdp[i]) => sent[i].port = First
  <2>1. sdp[i] \in Stream
    BY <1>1, <1>3
  <2>2. PICK p, r : /\ p = IF Active(sdp[i]) THEN First ELSE sdp[i].port
                    /\ r = IF sdp[i].rtcp_port # 0 \/ (~HasRtcp(sdp) /\ Active(sdp[i]))
                           THEN First ELSE sdp[i].rtcp_port
    OBVIOUS
  <2>3. sent[i] = [sdp[i] EXCEPT !.port = p, !.rtcp_port = r]
    BY <2>2 DEF ChangeMediaPorts
  <2>4. p \in Port /\ r \in Port
    BY <2>1, <2>2, Ports DEF Stream
  <2>5. PICK t : t = sdp[i]
    OBVIOUS
  <2>6. t \in Stream => LET u == [t EXCEPT !.port = p, !.rtcp_port = r]
                        IN  u \in Stream /\ u.temporary = t.temporary /\ u.port = p
    BY <2>4 DEF Stream
  <2>7. QED
    BY <2>1, <2>5, <2>2, <2>3, <2>6
<1>4. sent \in [1 .. Len(sdp) -> Stream]
  BY <1>1, <1>3 DEF ChangeMediaPorts
<1>5. sent \in Seq(Stream)
  BY <1>1, <1>4
<1>6. PICK i \in DOMAIN sdp : Active(sdp[i])
  BY HandoverAssumption DEF ChangeCrashes
<1> HIDE DEF sent
<1>7. ContainPort(sent, First)
  BY <1>2, <1>3, <1>6 DEF ContainPort
<1>8. \A j \in DOMAIN sdp : ~sdp[j].temporary
  BY HandoverAssumption
<1>9. Fresh(sent)
  BY <1>2, <1>3, <1>7, <1>8 DEF Fresh
<1>10. QED
  BY <1>5, <1>9 DEF sent

\* add_in_rule brings a list to the second stage, and leaves it there.
LEMMA AddMakesMid ==
    ASSUME NEW ss \in Seq(Stream), Fresh(ss) \/ Mid(ss)
    PROVE  Mid(AddTemporaryStreams(ss, Other))
<1> DEFINE added == AddTemporaryStreams(ss, Other)
<1>1. /\ added \in Seq(Stream) /\ Len(added) = 2 * Len(ss)
      /\ \A k \in 1 .. Len(ss) : added[2 * k - 1] = ss[k] /\ added[2 * k] = Copy(ss[k], Other)
  BY AddTemporaryPositions, Ports
<1>2. ContainPort(added, First)
  BY AddTemporaryServes, Ports DEF Fresh, Mid
<1> HIDE DEF added
<1>3. Len(ss) \in Nat /\ DOMAIN ss = 1 .. Len(ss) /\ DOMAIN added = 1 .. 2 * Len(ss)
  BY <1>1
<1>4. ASSUME NEW i \in DOMAIN added
      PROVE  IF added[i].temporary THEN OnOther(added[i])
             ELSE i + 1 \in DOMAIN added /\ added[i + 1].temporary
  <2>1. CASE i % 2 = 0
    <3>1. i \div 2 \in 1 .. Len(ss) /\ i = 2 * (i \div 2)
      BY <1>3, <2>1
    <3>2. added[i] = Copy(ss[i \div 2], Other)
      BY <1>1, <3>1
    <3>3. QED
      BY <3>2 DEF Copy, OnOther
  <2>2. CASE i % 2 = 1
    <3> DEFINE k == (i + 1) \div 2
    <3>1. k \in 1 .. Len(ss) /\ i = 2 * k - 1 /\ i + 1 = 2 * k /\ 2 * k \in DOMAIN added
      BY <1>3, <2>2
    <3> HIDE DEF k
    <3>2. added[i] = ss[k] /\ added[i + 1] = Copy(ss[k], Other)
      BY <1>1, <3>1
    <3>3. ss[k].temporary => OnOther(ss[k])
      BY <1>3, <3>1 DEF Fresh, Mid
    <3>4. QED
      BY <3>1, <3>2, <3>3 DEF Copy
  <2>3. QED
    BY <1>3, <2>1, <2>2
<1>5. Mid(added)
  BY <1>2, <1>4 DEF Mid
<1>6. QED
  BY <1>5 DEF added

\* remove_in_rule takes a list from the second stage to the third.
LEMMA RemoveMakesOver ==
    ASSUME NEW ss \in Seq(Stream), Mid(ss)
    PROVE  Over(RemoveTemporaryStreams(ss)) /\ ~RemoveTemporaryCrashes(ss)
<1>1. DOMAIN ss = 1 .. Len(ss) /\ Len(ss) \in Nat /\ ss # <<>>
  BY Stages
<1>2. Len(ss) \in 1 .. Len(ss) /\ ss[Len(ss)].temporary
  <2>1. Len(ss) \in DOMAIN ss /\ Len(ss) + 1 \notin DOMAIN ss
    BY <1>1
  <2>2. QED
    BY <1>1, <2>1 DEF Mid
<1>3. ASSUME NEW i \in DOMAIN ss, ~ss[i].temporary PROVE i \in Visited(ss)
  <2> DEFINE before == {0} \cup {j \in 1 .. i - 1 : ss[j].temporary}
  <2>1. i - 1 \in before
    <3>1. CASE i = 1
      BY <3>1
    <3>2. CASE i # 1
      <4>1. i - 1 \in DOMAIN ss /\ i - 1 \in 1 .. i - 1 /\ (i - 1) + 1 = i
        BY <1>1, <3>2
      <4>2. ss[i - 1].temporary
        BY <1>3, <4>1 DEF Mid
      <4>3. QED
        BY <4>1, <4>2
    <3>3. QED
      BY <3>1, <3>2
  <2>2. \A j \in before : j \in Nat /\ j <= i - 1
    BY <1>1, <2>1
  <2> HIDE DEF before
  <2>3. Max(before) = i - 1
    BY <2>1, <2>2, MaxIs
  <2>4. (i - 1 - Max(before)) % 2 = 0
    BY <1>1, <2>3
  <2>5. QED
    BY <2>4 DEF Visited, before
<1>4. PICK kept : kept = Kept(ss)
  OBVIOUS
<1>5. /\ \A i \in kept : i \in 1 .. Len(ss) /\ ss[i].temporary
      /\ Len(ss) \in kept
  BY <1>1, <1>2, <1>3, <1>4 DEF Kept
<1>6. Cardinality(kept) \in Nat /\ Cardinality(kept) # 0
  <2>1. IsFiniteSet(kept)
    <3>1. kept \subseteq 1 .. Len(ss) /\ IsFiniteSet(1 .. Len(ss))
      BY <1>1, <1>5, FS_Interval
    <3>2. QED
      BY <3>1, FS_Subset
  <2>2. QED
    BY <1>5, <2>1, FS_CardinalityType, FS_EmptySet
<1>7. ASSUME NEW k \in 1 .. Cardinality(kept)
      PROVE  OnOther(RemoveTemporaryStreams(ss)[k])
  <2>1. PICK i : i = Nth(kept, k)
    OBVIOUS
  <2>2. i \in kept
    BY <1>1, <1>5, <2>1, RankExists
  <2>3. OnOther(ss[i]) /\ ss[i] \in Stream
    BY <1>1, <1>5, <2>2, ElementOfSeq DEF Mid
  <2>4. PICK s, b : s = ss[i] /\ b = (ss[i].temporary /\ i \notin Visited(ss))
    OBVIOUS
  <2>5. RemoveTemporaryStreams(ss)[k] = [s EXCEPT !.temporary = b]
    BY <1>4, <2>1, <2>4 DEF RemoveTemporaryStreams
  <2>6. s \in Stream => /\ [s EXCEPT !.temporary = b].port = s.port
                        /\ [s EXCEPT !.temporary = b].rtcp_port = s.rtcp_port
    BY DEF Stream
  <2>7. QED
    BY <2>3, <2>4, <2>5, <2>6 DEF OnOther
<1>8. DOMAIN RemoveTemporaryStreams(ss) = 1 .. Cardinality(kept)
  BY <1>4 DEF RemoveTemporaryStreams
<1>9. RemoveTemporaryStreams(ss) # <<>>
  <2>1. 1 \in DOMAIN RemoveTemporaryStreams(ss)
    BY <1>6, <1>8
  <2>2. QED
    BY <2>1
<1>10. Over(RemoveTemporaryStreams(ss))
  BY <1>7, <1>8, <1>9 DEF Over
<1>11. QED
  BY <1>4, <1>5, <1>10 DEF RemoveTemporaryCrashes

-----------------------------------------------------------------------------
(* What the module's functions do to the calls *)

LEMMA SidesAre ==
    /\ "client" \in Sides /\ "server" \in Sides
    /\ \A side \in Sides : side = "client" \/ side = "server"
    /\ Peer("client") = "server" /\ Peer("server") = "client"
BY DEF Sides, Peer

LEMMA AddInRuleEffect ==
    ASSUME TypeOK, NEW side \in Sides, NEW t \in Targets, AddInRule(side, t)
    PROVE  /\ streams' \in [Sides -> [Calls -> Seq(Stream)]]
           /\ \A s \in Sides, c \in Calls :
                 /\ s # side => streams'[s][c] = streams[s][c]
                 /\ streams'[s][c] = <<>> <=> streams[s][c] = <<>>
           /\ t = Other =>
                 \A c \in Calls :
                    /\ Fresh(streams[side][c]) \/ Mid(streams[side][c]) =>
                          Mid(streams'[side][c])
                    /\ Over(streams[side][c]) => streams'[side][c] = streams[side][c]
<1>1. t \in Port
  BY Ports DEF Targets
<1>2. streams \in [Sides -> [Calls -> Seq(Stream)]]
  BY DEF TypeOK
<1>3. /\ \A s \in Sides, c \in Calls : s # side => streams'[s][c] = streams[s][c]
      /\ \A c \in Calls : streams'[side][c] =
            IF c \in Matched(side) THEN AddTemporaryStreams(streams[side][c], t)
            ELSE streams[side][c]
  BY <1>2 DEF AddInRule
<1>4. ASSUME NEW c \in Calls
      PROVE  /\ streams'[side][c] \in Seq(Stream)
             /\ streams'[side][c] = <<>> <=> streams[side][c] = <<>>
  <2>1. PICK ss \in Seq(Stream) : ss = streams[side][c]
    BY <1>2
  <2>2. CASE c \in Matched(side)
    <3>1. AddTemporaryStreams(ss, t) \in Seq(Stream)
      BY <1>1, AddTemporaryType
    <3>2. ss # <<>>
      BY <2>1, <2>2 DEF Matched, ContainPort
    <3>3. ContainPort(AddTemporaryStreams(ss, t), t)
      BY <1>1, <3>2, AddTemporaryServes
    <3>4. AddTemporaryStreams(ss, t) # <<>>
      BY <3>3 DEF ContainPort
    <3>5. QED
      BY <1>3, <2>1, <2>2, <3>1, <3>2, <3>4
  <2>3. CASE c \notin Matched(side)
    BY <1>3, <2>1, <2>3
  <2>4. QED
    BY <2>2, <2>3
<1>5. streams' \in [Sides -> [Calls -> Seq(Stream)]]
  <2>1. PICK row : row = [c \in Calls |-> IF c \in Matched(side)
                          THEN AddTemporaryStreams(streams[side][c], t)
                          ELSE streams[side][c]]
    OBVIOUS
  <2>2. row \in [Calls -> Seq(Stream)]
    BY <1>3, <1>4, <2>1
  <2>3. streams' = [streams EXCEPT ![side] = row]
    BY <2>1 DEF AddInRule
  <2>4. QED
    BY <1>2, <2>2, <2>3
<1>6. ASSUME NEW c \in Calls, t = Other
      PROVE  /\ Fresh(streams[side][c]) \/ Mid(streams[side][c]) => Mid(streams'[side][c])
             /\ Over(streams[side][c]) => streams'[side][c] = streams[side][c]
  <2>1. PICK ss \in Seq(Stream) : ss = streams[side][c]
    BY <1>2
  <2>2. c \in Matched(side) <=> ContainPort(ss, First)
    BY <2>1 DEF Matched
  <2>3. QED
    BY <1>3, <1>6, <2>1, <2>2, Stages, AddMakesMid
<1>7. QED
  BY <1>3, <1>4, <1>5, <1>6

LEMMA RemoveInRuleEffect ==
    ASSUME TypeOK, NEW side \in Sides, RemoveInRule(side)
    PROVE  /\ streams' \in [Sides -> [Calls -> Seq(Stream)]]
           /\ fault' \in BOOLEAN
           /\ \A s \in Sides, c \in Calls : s # side => streams'[s][c] = streams[s][c]
           /\ \A c \in Calls :
                 /\ streams[side][c] = <<>> => streams'[side][c] = <<>>
                 /\ Mid(streams[side][c]) => Over(streams'[side][c])
                 /\ Over(streams[side][c]) => streams'[side][c] = streams[side][c]
           /\ fault' => \E c \in Calls : ~ (streams[side][c] = <<>> \/ Ready(streams[side][c]))
<1>1. streams \in [Sides -> [Calls -> Seq(Stream)]]
  BY DEF TypeOK
<1>2. /\ \A s \in Sides, c \in Calls : s # side => streams'[s][c] = streams[s][c]
      /\ \A c \in Calls : streams'[side][c] =
            IF c \in Matched(side) THEN RemoveTemporaryStreams(streams[side][c])
            ELSE streams[side][c]
      /\ fault' = \E c \in Matched(side) : RemoveTemporaryCrashes(streams[side][c])
  BY <1>1 DEF RemoveInRule
<1>3. streams' \in [Sides -> [Calls -> Seq(Stream)]]
  <2>1. PICK row : row = [c \in Calls |-> IF c \in Matched(side)
                          THEN RemoveTemporaryStreams(streams[side][c])
                          ELSE streams[side][c]]
    OBVIOUS
  <2>2. \A c \in Calls : /\ streams[side][c] \in Seq(Stream)
                         /\ RemoveTemporaryStreams(streams[side][c]) \in Seq(Stream)
    BY <1>1, RemoveTemporaryType
  <2>3. row \in [Calls -> Seq(Stream)]
    BY <2>1, <2>2
  <2>4. streams' = [streams EXCEPT ![side] = row]
    BY <2>1 DEF RemoveInRule
  <2>5. QED
    BY <1>1, <2>3, <2>4
<1>4. ASSUME NEW c \in Calls
      PROVE  /\ streams[side][c] = <<>> => streams'[side][c] = <<>>
             /\ Mid(streams[side][c]) => Over(streams'[side][c])
             /\ Over(streams[side][c]) => streams'[side][c] = streams[side][c]
             /\ c \in Matched(side) /\ RemoveTemporaryCrashes(streams[side][c]) =>
                   ~ (streams[side][c] = <<>> \/ Ready(streams[side][c]))
  <2>1. PICK ss \in Seq(Stream) : ss = streams[side][c]
    BY <1>1
  <2>2. c \in Matched(side) <=> ContainPort(ss, First)
    BY <2>1 DEF Matched
  <2>3. ContainPort(ss, First) => ss # <<>>
    BY DEF ContainPort
  <2>4. /\ Mid(ss) => ContainPort(ss, First)
        /\ Over(ss) => ~ContainPort(ss, First)
    BY Stages
  <2>5. Mid(ss) => Over(RemoveTemporaryStreams(ss)) /\ ~RemoveTemporaryCrashes(ss)
    BY RemoveMakesOver
  <2>6. QED
    BY <1>2, <2>1, <2>2, <2>3, <2>4, <2>5 DEF Ready
<1>5. Matched(side) \subseteq Calls
  BY DEF Matched
<1>6. fault' \in BOOLEAN
  BY <1>2
<1>7. QED
  BY <1>2, <1>3, <1>4, <1>5, <1>6

LEMMA ChangeSocketEffect ==
    ASSUME TypeOK, NEW side \in Sides, NEW t \in Targets, ChangeSocket(side, t)
    PROVE  /\ socket' \in [Sides -> [Calls -> Targets]]
           /\ \A s \in Sides, c \in Calls : s # side => socket'[s][c] = socket[s][c]
           /\ \A c \in Calls :
                 /\ Fresh(streams[side][c]) \/ Mid(streams[side][c]) =>
                       socket'[side][c] = t
                 /\ streams[side][c] = <<>> \/ Over(streams[side][c]) =>
                       socket'[side][c] = socket[side][c]
<1>1. /\ socket \in [Sides -> [Calls -> Targets]]
      /\ streams \in [Sides -> [Calls -> Seq(Stream)]]
  BY DEF TypeOK
<1>2. /\ \A s \in Sides, c \in Calls : s # side => socket'[s][c] = socket[s][c]
      /\ \A c \in Calls : socket'[side][c] = IF c \in Matched(side) THEN t
                                             ELSE socket[side][c]
  BY <1>1 DEF ChangeSocket
<1>3. socket' \in [Sides -> [Calls -> Targets]]
  BY <1>1 DEF ChangeSocket
<1>4. ASSUME NEW c \in Calls
      PROVE  /\ Fresh(streams[side][c]) \/ Mid(streams[side][c]) => socket'[side][c] = t
             /\ streams[side][c] = <<>> \/ Over(streams[side][c]) =>
                   socket'[side][c] = socket[side][c]
  <2>1. PICK ss \in Seq(Stream) : ss = streams[side][c]
    BY <1>1
  <2>2. c \in Matched(side) <=> ContainPort(ss, First)
    BY <2>1 DEF Matched
  <2>3. ContainPort(ss, First) => ss # <<>>
    BY DEF ContainPort
  <2>4. QED
    BY <1>2, <2>1, <2>2, <2>3, Stages
<1>5. QED
  BY <1>2, <1>3, <1>4

\* A request that is under way afterwards was under way before or is the new one.
LEMMA SendEffect ==
    ASSUME TypeOK, NEW m \in Message, Send(net, m)
    PROVE  /\ net' \in [Message -> Nat]
           /\ duplicates' \in 0 .. MaxDuplicates
           /\ gaveUp' \in BOOLEAN
           /\ \A n \in Message : net'[n] > 0 => net[n] > 0 \/ n = m
<1>1. PICK copies \in 0 .. 2 :
          /\ duplicates' = duplicates + (IF copies = 2 THEN 1 ELSE 0)
          /\ duplicates' <= MaxDuplicates
          /\ net' = [net EXCEPT ![m] = @ + copies]
          /\ gaveUp' = (gaveUp \/ copies = 0)
  BY DEF Send
<1>2. net \in [Message -> Nat] /\ duplicates \in 0 .. MaxDuplicates
  BY DEF TypeOK
<1>3. duplicates' \in 0 .. MaxDuplicates
  BY <1>1, <1>2, HandoverAssumption
<1>4. net' \in [Message -> Nat] /\ \A n \in Message : net'[n] > 0 => net[n] > 0 \/ n = m
  BY <1>1, <1>2
<1>5. gaveUp' \in BOOLEAN
  BY <1>1
<1>6. QED
  BY <1>3, <1>4, <1>5

LEMMA ReceiveEffect ==
    ASSUME TypeOK, NEW m \in Message, net[m] > 0, net' = Receive(m)
    PROVE  /\ net' \in [Message -> Nat]
           /\ \A n \in Message : net'[n] > 0 => net[n] > 0
<1>1. net \in [Message -> Nat]
  BY DEF TypeOK
<1>2. QED
  BY <1>1 DEF Receive

-----------------------------------------------------------------------------
(* The invariant *)

Untouched(c) == \A side \in Sides : streams[side][c] = <<>> /\ socket[side][c] = First

\* What holds of an undisturbed call while a handover is under way.
Good(c) == Untouched(c) \/ (Complete(c) /\ Paired(c))

LEMMA GoodIsEnough ==
    ASSUME NEW c \in Calls
    PROVE  (Good(c) => CallInv(c)) /\ (Good(c)' => CallInv(c)')
BY SidesAre DEF Good, Untouched, CallInv, Complete, Known

LEMMA BusyIsGood ==
    ASSUME IInv, Busy, NEW c \in Calls, c \notin disturbed
    PROVE  Good(c)
<1>1. CallInv(c)
  BY DEF IInv
<1>2. Known(c) => Complete(c)
  BY <1>1 DEF CallInv, HalfKnown
<1>3. CASE Complete(c)
  BY <1>1, <1>3 DEF Good, CallInv
<1>4. CASE ~Known(c)
  BY <1>1, <1>4 DEF Good, Untouched, CallInv, Known
<1>5. QED
  BY <1>2, <1>3, <1>4

LEMMA InitIInv == Init => IInv
<1>1. SUFFICES ASSUME Init PROVE IInv
  OBVIOUS
<1>2. TypeOK
  <2>1. First \in Targets /\ 0 \in 0 .. MaxHandovers /\ 0 \in 0 .. MaxDuplicates
    BY HandoverAssumption DEF Targets
  <2>2. <<>> \in Seq(Stream)
    OBVIOUS
  <2>3. QED
    BY <1>1, <2>1, <2>2 DEF Init, TypeOK
<1>3. ASSUME NEW c \in Calls PROVE CallInv(c)
  <2>1. Untouched(c)
    BY <1>1 DEF Init, Untouched
  <2>2. QED
    BY <2>1, GoodIsEnough DEF Good
<1>4. QED
  BY <1>1, <1>2, <1>3 DEF IInv, CrashOnlyDisturbed, Init

\* A handler of the server or the client changes its socket.
LEMMA ReregisterIInv ==
    ASSUME IInv, NEW side \in Sides, NEW w \in Workers, NEW m \in Message,
           Reregister(side, w, m)
    PROVE  IInv'
<1>1. TypeOK
  BY DEF IInv
<1>2. /\ m.kind = (IF side = "server" THEN "move" ELSE "moved")
      /\ net[m] > 0 /\ net' = Receive(m)
      /\ ChangeSocket(side, m.to)
      /\ pending' = [pending EXCEPT ![side][w] = m.to]
      /\ UNCHANGED <<streams, notification, timer, fault, handovers, duplicates, due,
                     disturbed, gaveUp>>
  BY DEF Reregister
<1>3. m.to \in Targets
  BY DEF Message
<1>4. /\ socket' \in [Sides -> [Calls -> Targets]]
      /\ \A s \in Sides, c \in Calls : s # side => socket'[s][c] = socket[s][c]
      /\ \A c \in Calls :
            /\ Fresh(streams[side][c]) \/ Mid(streams[side][c]) => socket'[side][c] = m.to
            /\ streams[side][c] = <<>> \/ Over(streams[side][c]) =>
                  socket'[side][c] = socket[side][c]
  BY <1>1, <1>2, <1>3, ChangeSocketEffect
<1>5. net' \in [Message -> Nat] /\ \A n \in Message : net'[n] > 0 => net[n] > 0
  BY <1>1, <1>2, ReceiveEffect
<1>6. /\ pending' \in [Sides -> [Workers -> Targets \cup {NULL}]]
      /\ \A s \in Sides, v \in Workers :
            pending'[s][v] = IF s = side /\ v = w THEN m.to ELSE pending[s][v]
  BY <1>1, <1>2, <1>3 DEF TypeOK
<1>7. TypeOK'
  BY <1>1, <1>2, <1>4, <1>5, <1>6 DEF TypeOK
<1>8. Busy
  BY <1>2 DEF Busy
<1>9. ASSUME NEW c \in Calls, c \notin disturbed PROVE Good(c)'
  <2>1. Good(c)
    BY <1>8, <1>9, BusyIsGood
  <2>2. CASE Untouched(c)
    <3>1. Untouched(c)'
      BY <1>2, <1>4, <2>2 DEF Untouched
    <3>2. QED
      BY <3>1 DEF Good
  <2>3. CASE Complete(c) /\ Paired(c)
    <3>1. /\ m.to = Other
          /\ side = "server" => Begun(c)
          /\ side = "client" => Halfway(c)
      BY <1>2, <2>3, SidesAre DEF Paired, RequestsTell
    <3>2. /\ socket["client"][c] \in Targets /\ socket["server"][c] \in Targets
          /\ streams["client"][c] \in Seq(Stream) /\ streams["server"][c] \in Seq(Stream)
      BY <1>1, SidesAre DEF TypeOK
    <3>3. CASE side = "server"
      <4>1. /\ socket'["client"][c] = socket["client"][c]
            /\ socket'["server"][c] = Other
        <5>1. \/ Fresh(streams["server"][c]) \/ Mid(streams["server"][c])
              \/ Over(streams["server"][c])
          BY <2>3, <3>2, SidesAre DEF Paired, SocketsAgree, Ready, Targets
        <5>2. Over(streams["server"][c]) => socket["server"][c] = Other
          BY <2>3, <3>2, Stages DEF Paired, OrderKept, Targets
        <5>3. QED
          BY <1>4, <3>1, <3>3, <5>1, <5>2, SidesAre
      <4>2. SocketsAgree(c)'
        BY <1>2, <2>3, <3>1, <3>3, <4>1, SidesAre, Ports
           DEF Paired, SocketsAgree, Begun
      <4>3. OrderKept(c)'
        BY <1>2, <2>3, <4>1, Ports DEF Paired, OrderKept
      <4>4. RequestsTell(c)'
        BY <1>2, <1>5, <2>3, <4>1 DEF Paired, RequestsTell, Begun, Halfway
      <4>5. PendingTells(c)'
        BY <1>2, <1>6, <2>3, <3>1, <3>3, <4>1, SidesAre
           DEF Paired, PendingTells, Begun, Halfway
      <4>6. QED
        BY <1>2, <2>3, <4>2, <4>3, <4>4, <4>5 DEF Good, Paired, Complete
    <3>4. CASE side = "client"
      <4>1. /\ socket'["server"][c] = socket["server"][c]
            /\ socket'["client"][c] = Other
        <5>1. Mid(streams["client"][c]) \/ Over(streams["client"][c])
          BY <3>1, <3>4 DEF Halfway, Begun, Ready
        <5>2. Over(streams["client"][c]) => socket["client"][c] = Other
          BY <2>3 DEF Paired, OrderKept
        <5>3. QED
          BY <1>4, <3>1, <3>4, <5>1, <5>2, SidesAre
      <4>2. SocketsAgree(c)'
        BY <1>2, <2>3, <3>1, <3>4, <4>1, SidesAre, Ports
           DEF Paired, SocketsAgree, Begun, Halfway
      <4>3. OrderKept(c)'
        BY <1>2, <2>3, <4>1, Ports DEF Paired, OrderKept
      <4>4. RequestsTell(c)'
        BY <1>2, <1>5, <2>3, <4>1 DEF Paired, RequestsTell, Begun, Halfway
      <4>5. PendingTells(c)'
        BY <1>2, <1>6, <2>3, <3>1, <3>4, <4>1, SidesAre
           DEF Paired, PendingTells, Begun, Halfway
      <4>6. QED
        BY <1>2, <2>3, <4>2, <4>3, <4>4, <4>5 DEF Good, Paired, Complete
    <3>5. QED
      BY <3>3, <3>4, SidesAre
  <2>4. QED
    BY <2>1, <2>2, <2>3 DEF Good
<1>10. ASSUME NEW c \in Calls PROVE CallInv(c)'
  BY <1>2, <1>9, GoodIsEnough DEF CallInv
<1>11. CrashOnlyDisturbed'
  BY <1>2 DEF IInv, CrashOnlyDisturbed
<1>12. QED
  BY <1>7, <1>10, <1>11 DEF IInv

\* The server adds its rule and answers.
LEMMA ServerMovedIInv ==
    ASSUME IInv, NEW w \in Workers, ServerMoved(w)
    PROVE  IInv'
<1>1. TypeOK
  BY DEF IInv
<1>2. PICK t : t = pending["server"][w]
  OBVIOUS
<1>3. PICK m : m = [kind |-> "moved", to |-> t]
  OBVIOUS
<1>4. /\ t # NULL /\ AddInRule("server", t) /\ Send(net, m)
      /\ pending' = [pending EXCEPT !["server"][w] = NULL]
      /\ UNCHANGED <<socket, notification, timer, fault, handovers, due, disturbed>>
  BY <1>2, <1>3 DEF ServerMoved
<1>5. t \in Targets /\ m \in Message /\ m.kind = "moved" /\ m.to = t
  BY <1>1, <1>2, <1>3, <1>4, SidesAre DEF TypeOK, Message
<1>6. /\ streams' \in [Sides -> [Calls -> Seq(Stream)]]
      /\ \A s \in Sides, c \in Calls :
            /\ s # "server" => streams'[s][c] = streams[s][c]
            /\ streams'[s][c] = <<>> <=> streams[s][c] = <<>>
      /\ t = Other =>
            \A c \in Calls :
               /\ Fresh(streams["server"][c]) \/ Mid(streams["server"][c]) =>
                     Mid(streams'["server"][c])
               /\ Over(streams["server"][c]) => streams'["server"][c] = streams["server"][c]
  BY <1>1, <1>4, <1>5, SidesAre, AddInRuleEffect
<1>7. /\ net' \in [Message -> Nat] /\ duplicates' \in 0 .. MaxDuplicates
      /\ gaveUp' \in BOOLEAN
      /\ \A n \in Message : net'[n] > 0 => net[n] > 0 \/ n = m
  BY <1>1, <1>4, <1>5, SendEffect
<1>8. /\ pending' \in [Sides -> [Workers -> Targets \cup {NULL}]]
      /\ \A s \in Sides, v \in Workers :
            pending'[s][v] = IF s = "server" /\ v = w THEN NULL ELSE pending[s][v]
  BY <1>1, <1>4, SidesAre DEF TypeOK
<1>9. TypeOK'
  BY <1>1, <1>4, <1>6, <1>7, <1>8 DEF TypeOK
<1>10. Busy
  BY <1>2, <1>4, SidesAre DEF Busy
<1>11. ASSUME NEW c \in Calls, c \notin disturbed PROVE Good(c)'
  <2>1. Good(c)
    BY <1>10, <1>11, BusyIsGood
  <2>2. CASE Untouched(c)
    <3>1. Untouched(c)'
      BY <1>4, <1>6, <2>2 DEF Untouched
    <3>2. QED
      BY <3>1 DEF Good
  <2>3. CASE Complete(c) /\ Paired(c)
    <3>1. t = Other /\ Begun(c) /\ socket["server"][c] = Other
      BY <1>2, <1>4, <2>3 DEF Paired, PendingTells
    <3>2. socket["client"][c] \in Targets
      BY <1>1, SidesAre DEF TypeOK
    <3>3. \/ Fresh(streams["server"][c]) \/ Mid(streams["server"][c])
          \/ Over(streams["server"][c])
      BY <2>3, <3>2, SidesAre DEF Paired, SocketsAgree, Ready, Targets
    <3>4. /\ streams'["client"][c] = streams["client"][c]
          /\ Ready(streams'["server"][c])
          /\ ~Over(streams["server"][c]) => Mid(streams'["server"][c])
      BY <1>6, <3>1, <3>3, SidesAre DEF Ready
    <3>5. socket["client"][c] = First => Mid(streams'["server"][c])
      <4>1. streams["server"][c] \in Seq(Stream)
        BY <1>1, SidesAre DEF TypeOK
      <4>2. QED
        BY <2>3, <3>4, <4>1, SidesAre, Stages DEF Paired, SocketsAgree
    <3>6. SocketsAgree(c)'
      BY <1>4, <2>3, <3>1, <3>4, <3>5, SidesAre, Ports DEF Paired, SocketsAgree, Begun
    <3>7. OrderKept(c)'
      BY <1>4, <2>3, <3>1, <3>4, Ports DEF Paired, OrderKept
    <3>8. RequestsTell(c)'
      BY <1>4, <1>5, <1>7, <2>3, <3>1, <3>4 DEF Paired, RequestsTell, Begun, Halfway
    <3>9. PendingTells(c)'
      BY <1>4, <1>8, <2>3, <3>1, <3>4, SidesAre DEF Paired, PendingTells, Begun, Halfway
    <3>10. Complete(c)'
      BY <1>6, <2>3 DEF Complete
    <3>11. QED
      BY <3>6, <3>7, <3>8, <3>9, <3>10 DEF Good, Paired
  <2>4. QED
    BY <2>1, <2>2, <2>3 DEF Good
<1>12. ASSUME NEW c \in Calls PROVE CallInv(c)'
  BY <1>4, <1>11, GoodIsEnough DEF CallInv
<1>13. CrashOnlyDisturbed'
  BY <1>4 DEF IInv, CrashOnlyDisturbed
<1>14. QED
  BY <1>9, <1>12, <1>13 DEF IInv

\* The client removes its rule and tells the server.
LEMMA ClientMovedIInv ==
    ASSUME IInv, NEW w \in Workers, ClientMoved(w)
    PROVE  IInv'
<1>1. TypeOK
  BY DEF IInv
<1>2. PICK t : t = pending["client"][w]
  OBVIOUS
<1>3. PICK m : m = [kind |-> "done", to |-> t]
  OBVIOUS
<1>4. /\ t # NULL /\ RemoveInRule("client") /\ Send(net, m)
      /\ pending' = [pending EXCEPT !["client"][w] = NULL]
      /\ UNCHANGED <<socket, notification, timer, handovers, due, disturbed>>
  BY <1>2, <1>3 DEF ClientMoved
<1>5. t \in Targets /\ m \in Message /\ m.kind = "done" /\ m.to = t
  BY <1>1, <1>2, <1>3, <1>4, SidesAre DEF TypeOK, Message
<1>6. /\ streams' \in [Sides -> [Calls -> Seq(Stream)]]
      /\ fault' \in BOOLEAN
      /\ \A s \in Sides, c \in Calls : s # "client" => streams'[s][c] = streams[s][c]
      /\ \A c \in Calls :
            /\ streams["client"][c] = <<>> => streams'["client"][c] = <<>>
            /\ Mid(streams["client"][c]) => Over(streams'["client"][c])
            /\ Over(streams["client"][c]) => streams'["client"][c] = streams["client"][c]
      /\ fault' => \E c \in Calls :
                      ~ (streams["client"][c] = <<>> \/ Ready(streams["client"][c]))
  BY <1>1, <1>4, SidesAre, RemoveInRuleEffect
<1>7. /\ net' \in [Message -> Nat] /\ duplicates' \in 0 .. MaxDuplicates
      /\ gaveUp' \in BOOLEAN
      /\ \A n \in Message : net'[n] > 0 => net[n] > 0 \/ n = m
  BY <1>1, <1>4, <1>5, SendEffect
<1>8. /\ pending' \in [Sides -> [Workers -> Targets \cup {NULL}]]
      /\ \A s \in Sides, v \in Workers :
            pending'[s][v] = IF s = "client" /\ v = w THEN NULL ELSE pending[s][v]
  BY <1>1, <1>4, SidesAre DEF TypeOK
<1>9. TypeOK'
  BY <1>1, <1>4, <1>6, <1>7, <1>8 DEF TypeOK
<1>10. Busy
  BY <1>2, <1>4, SidesAre DEF Busy
<1>11. ASSUME NEW c \in Calls, c \notin disturbed
       PROVE  /\ Good(c)'
              /\ streams["client"][c] = <<>> \/ Ready(streams["client"][c])
  <2>1. Good(c)
    BY <1>10, <1>11, BusyIsGood
  <2>2. CASE Untouched(c)
    <3>1. Untouched(c)'
      BY <1>4, <1>6, <2>2, SidesAre DEF Untouched
    <3>2. QED
      BY <2>2, <3>1, SidesAre DEF Good, Untouched
  <2>3. CASE Complete(c) /\ Paired(c)
    <3>1. t = Other /\ Halfway(c) /\ socket["client"][c] = Other
      BY <1>2, <1>4, <2>3 DEF Paired, PendingTells
    <3>2. /\ streams'["server"][c] = streams["server"][c]
          /\ Over(streams'["client"][c])
          /\ Ready(streams'["client"][c])
      BY <1>6, <3>1, SidesAre DEF Halfway, Begun, Ready
    <3>3. SocketsAgree(c)'
      BY <1>4, <2>3, <3>1, <3>2, SidesAre, Ports DEF Paired, SocketsAgree, Halfway
    <3>4. OrderKept(c)'
      BY <1>4, <2>3, <3>1, <3>2, Ports DEF Paired, OrderKept
    <3>5. RequestsTell(c)'
      BY <1>4, <1>5, <1>7, <2>3, <3>1, <3>2 DEF Paired, RequestsTell, Begun, Halfway
    <3>6. PendingTells(c)'
      BY <1>4, <1>8, <2>3, <3>1, <3>2, SidesAre DEF Paired, PendingTells, Begun, Halfway
    <3>7. Complete(c)'
      <4>1. streams'["client"][c] # <<>>
        BY <3>2 DEF Over
      <4>2. QED
        BY <2>3, <3>2, <4>1, SidesAre DEF Complete
    <3>8. QED
      BY <3>1, <3>3, <3>4, <3>5, <3>6, <3>7 DEF Good, Paired, Halfway, Begun
  <2>4. QED
    BY <2>1, <2>2, <2>3 DEF Good
<1>12. ASSUME NEW c \in Calls PROVE CallInv(c)'
  BY <1>4, <1>11, GoodIsEnough DEF CallInv
<1>13. CrashOnlyDisturbed'
  BY <1>4, <1>6, <1>11 DEF CrashOnlyDisturbed
<1>14. QED
  BY <1>9, <1>12, <1>13 DEF IInv

\* The server removes its rule.
LEMMA UnregisterIInv ==
    ASSUME IInv, NEW m \in Message, Unregister(m)
    PROVE  IInv'
<1>1. TypeOK
  BY DEF IInv
<1>2. /\ m.kind = "done" /\ net[m] > 0 /\ net' = Receive(m)
      /\ RemoveInRule("server")
      /\ UNCHANGED <<socket, notification, timer, pending, handovers, duplicates, due,
                     disturbed, gaveUp>>
  BY DEF Unregister
<1>3. /\ streams' \in [Sides -> [Calls -> Seq(Stream)]]
      /\ fault' \in BOOLEAN
      /\ \A s \in Sides, c \in Calls : s # "server" => streams'[s][c] = streams[s][c]
      /\ \A c \in Calls :
            /\ streams["server"][c] = <<>> => streams'["server"][c] = <<>>
            /\ Mid(streams["server"][c]) => Over(streams'["server"][c])
            /\ Over(streams["server"][c]) => streams'["server"][c] = streams["server"][c]
      /\ fault' => \E c \in Calls :
                      ~ (streams["server"][c] = <<>> \/ Ready(streams["server"][c]))
  BY <1>1, <1>2, SidesAre, RemoveInRuleEffect
<1>4. net' \in [Message -> Nat] /\ \A n \in Message : net'[n] > 0 => net[n] > 0
  BY <1>1, <1>2, ReceiveEffect
<1>5. TypeOK'
  BY <1>1, <1>2, <1>3, <1>4 DEF TypeOK
<1>6. Busy
  BY <1>2 DEF Busy
<1>7. ASSUME NEW c \in Calls, c \notin disturbed
      PROVE  /\ Good(c)'
             /\ streams["server"][c] = <<>> \/ Ready(streams["server"][c])
  <2>1. Good(c)
    BY <1>6, <1>7, BusyIsGood
  <2>2. CASE Untouched(c)
    <3>1. Untouched(c)'
      BY <1>2, <1>3, <2>2, SidesAre DEF Untouched
    <3>2. QED
      BY <2>2, <3>1, SidesAre DEF Good, Untouched
  <2>3. CASE Complete(c) /\ Paired(c)
    <3>1. Halfway(c) /\ socket["client"][c] = Other
      BY <1>2, <2>3 DEF Paired, RequestsTell
    <3>2. /\ streams'["client"][c] = streams["client"][c]
          /\ Over(streams'["server"][c])
          /\ Ready(streams'["server"][c])
      BY <1>3, <3>1, SidesAre DEF Halfway, Ready
    <3>3. SocketsAgree(c)'
      BY <1>2, <2>3, <3>1, <3>2, SidesAre, Ports DEF Paired, SocketsAgree
    <3>4. OrderKept(c)'
      BY <1>2, <2>3, <3>1, <3>2, Ports DEF Paired, OrderKept, Halfway
    <3>5. RequestsTell(c)'
      BY <1>2, <1>4, <2>3, <3>2 DEF Paired, RequestsTell, Begun, Halfway
    <3>6. PendingTells(c)'
      BY <1>2, <2>3, <3>2 DEF Paired, PendingTells, Begun, Halfway
    <3>7. Complete(c)'
      <4>1. streams'["server"][c] # <<>>
        BY <3>2 DEF Over
      <4>2. QED
        BY <2>3, <3>2, <4>1, SidesAre DEF Complete
    <3>8. QED
      BY <3>1, <3>3, <3>4, <3>5, <3>6, <3>7 DEF Good, Paired, Halfway
  <2>4. QED
    BY <2>1, <2>2, <2>3 DEF Good
<1>8. ASSUME NEW c \in Calls PROVE CallInv(c)'
  BY <1>2, <1>7, GoodIsEnough DEF CallInv
<1>9. CrashOnlyDisturbed'
  BY <1>2, <1>3, <1>7 DEF CrashOnlyDisturbed
<1>10. QED
  BY <1>5, <1>8, <1>9 DEF IInv

\* The client finds a notification: its rule is there before the server hears of it.
LEMMA CheckNotificationIInv ==
    ASSUME IInv, CheckNotification
    PROVE  IInv'
<1>1. TypeOK
  BY DEF IInv
<1>2. PICK t : t = notification
  OBVIOUS
<1>3. PICK m : m = [kind |-> "move", to |-> t]
  OBVIOUS
<1>4. /\ t # NULL /\ timer' = TRUE /\ AddInRule("client", t) /\ Send(net, m)
      /\ due' = due \cup {c \in Calls : Complete(c)}
      /\ disturbed' = disturbed \cup {c \in Calls : Known(c) /\ (~Complete(c) \/ t = First)}
      /\ UNCHANGED <<socket, notification, pending, fault, handovers>>
  BY <1>2, <1>3 DEF CheckNotification
<1>5. t \in Targets /\ m \in Message /\ m.kind = "move" /\ m.to = t
  BY <1>1, <1>2, <1>3, <1>4 DEF TypeOK, Message
<1>6. /\ streams' \in [Sides -> [Calls -> Seq(Stream)]]
      /\ \A s \in Sides, c \in Calls :
            /\ s # "client" => streams'[s][c] = streams[s][c]
            /\ streams'[s][c] = <<>> <=> streams[s][c] = <<>>
      /\ t = Other =>
            \A c \in Calls :
               /\ Fresh(streams["client"][c]) \/ Mid(streams["client"][c]) =>
                     Mid(streams'["client"][c])
               /\ Over(streams["client"][c]) => streams'["client"][c] = streams["client"][c]
  BY <1>1, <1>4, <1>5, SidesAre, AddInRuleEffect
<1>7. /\ net' \in [Message -> Nat] /\ duplicates' \in 0 .. MaxDuplicates
      /\ gaveUp' \in BOOLEAN
      /\ \A n \in Message : net'[n] > 0 => net[n] > 0 \/ n = m
  BY <1>1, <1>4, <1>5, SendEffect
<1>8. TypeOK'
  <2>1. due' \subseteq Calls /\ disturbed' \subseteq Calls /\ timer' \in BOOLEAN
    BY <1>1, <1>4 DEF TypeOK
  <2>2. QED
    BY <1>1, <1>4, <1>6, <1>7, <2>1 DEF TypeOK
<1>9. ASSUME NEW c \in Calls, c \notin disturbed' PROVE Good(c)'
  <2>1. /\ CallInv(c) /\ c \notin disturbed
        /\ ~Known(c) \/ (Complete(c) /\ t # First)
    BY <1>4, <1>9 DEF IInv
  <2>2. CASE ~Known(c)
    <3>1. Untouched(c)
      BY <2>1, <2>2 DEF CallInv, Known, Untouched
    <3>2. Untouched(c)'
      BY <1>4, <1>6, <3>1 DEF Untouched
    <3>3. QED
      BY <3>2 DEF Good
  <2>3. CASE Complete(c) /\ t # First
    <3>1. t = Other /\ Paired(c)
      BY <1>5, <2>1, <2>3 DEF Targets, CallInv
    <3>2. /\ socket["server"][c] \in Targets
          /\ streams["client"][c] \in Seq(Stream)
      BY <1>1, SidesAre DEF TypeOK
    <3>3. \/ Fresh(streams["client"][c]) \/ Mid(streams["client"][c])
          \/ Over(streams["client"][c])
      BY <3>1, <3>2, SidesAre DEF Paired, SocketsAgree, Ready, Targets
    <3>4. /\ streams'["server"][c] = streams["server"][c]
          /\ Ready(streams'["client"][c])
          /\ ~Over(streams["client"][c]) => Mid(streams'["client"][c])
      BY <1>6, <3>1, <3>3, SidesAre DEF Ready
    <3>5. socket["server"][c] = First => Mid(streams'["client"][c])
      BY <3>1, <3>2, <3>4, SidesAre, Stages DEF Paired, SocketsAgree
    <3>6. Over(streams'["client"][c]) => Over(streams["client"][c])
      <4>1. streams'["client"][c] \in Seq(Stream)
        BY <1>6, SidesAre
      <4>2. QED
        BY <3>4, <4>1, Stages
    <3>7. SocketsAgree(c)'
      BY <1>4, <3>1, <3>4, <3>5, SidesAre DEF Paired, SocketsAgree
    <3>8. OrderKept(c)'
      BY <1>4, <3>1, <3>4, <3>6 DEF Paired, OrderKept
    <3>9. RequestsTell(c)'
      BY <1>4, <1>5, <1>7, <3>1, <3>4 DEF Paired, RequestsTell, Begun, Halfway
    <3>10. PendingTells(c)'
      BY <1>4, <3>1, <3>4 DEF Paired, PendingTells, Begun, Halfway
    <3>11. Complete(c)'
      BY <1>6, <2>3 DEF Complete
    <3>12. QED
      BY <3>7, <3>8, <3>9, <3>10, <3>11 DEF Good, Paired
  <2>4. QED
    BY <2>1, <2>2, <2>3
<1>10. ASSUME NEW c \in Calls PROVE CallInv(c)'
  BY <1>9, GoodIsEnough DEF CallInv
<1>11. CrashOnlyDisturbed'
  BY <1>4 DEF IInv, CrashOnlyDisturbed
<1>12. QED
  BY <1>8, <1>10, <1>11 DEF IInv

\* A side learns the other side's endpoint of a call.
LEMMA LearnEndpointIInv ==
    ASSUME IInv, NEW side \in Sides, NEW c \in Calls, NEW sdp \in Sdps,
           LearnEndpoint(side, c, sdp)
    PROVE  IInv'
<1>1. TypeOK
  BY DEF IInv
<1>2. PICK sent : sent = ChangeMediaPorts(sdp, First)
  OBVIOUS
<1>3. /\ streams[side][c] = <<>>
      /\ streams' = [streams EXCEPT ![side][c] = sent]
      /\ disturbed' = IF Busy THEN disturbed \cup {c} ELSE disturbed
      /\ UNCHANGED <<socket, notification, timer, net, pending, fault, handovers,
                     duplicates, due, gaveUp>>
  BY <1>2 DEF LearnEndpoint
<1>4. sent \in Seq(Stream) /\ Fresh(sent) /\ sent # <<>>
  BY <1>2, AnnouncedIsFresh, Stages
<1>5. /\ streams' \in [Sides -> [Calls -> Seq(Stream)]]
      /\ \A s \in Sides, d \in Calls :
            streams'[s][d] = IF s = side /\ d = c THEN sent ELSE streams[s][d]
  BY <1>1, <1>3, <1>4 DEF TypeOK
<1>6. TypeOK'
  <2>1. disturbed' \subseteq Calls
    BY <1>1, <1>3 DEF TypeOK
  <2>2. QED
    BY <1>1, <1>3, <1>5, <2>1 DEF TypeOK
<1>7. Busy' <=> Busy
  BY <1>3 DEF Busy
<1>8. ASSUME NEW d \in Calls, d # c PROVE CallInv(d)'
  <2>1. \A s \in Sides : /\ streams'[s][d] = streams[s][d] /\ socket'[s][d] = socket[s][d]
    BY <1>3, <1>5, <1>8
  <2>2. CallInv(d) /\ (d \in disturbed' <=> d \in disturbed)
    BY <1>3, <1>8 DEF IInv
  <2>3. (Known(d)' <=> Known(d)) /\ (Complete(d)' <=> Complete(d))
    BY <2>1 DEF Known, Complete
  <2>4. HalfKnown(d) => HalfKnown(d)'
    BY <1>7, <2>1 DEF HalfKnown
  <2>5. Paired(d) => Paired(d)'
    <3>1. /\ SocketsAgree(d) => SocketsAgree(d)'
          /\ OrderKept(d) => OrderKept(d)'
      BY <2>1, SidesAre DEF SocketsAgree, OrderKept
    <3>2. /\ Begun(d) => Begun(d)'
          /\ Halfway(d) => Halfway(d)'
      BY <2>1, SidesAre DEF Begun, Halfway
    <3>3. /\ RequestsTell(d) => RequestsTell(d)'
          /\ PendingTells(d) => PendingTells(d)'
      BY <1>3, <2>1, <3>2, SidesAre DEF RequestsTell, PendingTells
    <3>4. QED
      BY <3>1, <3>3 DEF Paired
  <2>6. QED
    BY <2>1, <2>2, <2>3, <2>4, <2>5 DEF CallInv
<1>9. ASSUME c \notin disturbed' PROVE CallInv(c)'
  <2>1. CallInv(c) /\ c \notin disturbed /\ ~Busy
    BY <1>3, <1>9 DEF IInv
  <2>2. ~Complete(c)
    BY <1>3 DEF Complete
  <2>3. \A s \in Sides : /\ socket[s][c] = First
                         /\ streams[s][c] = <<>> \/ Fresh(streams[s][c])
    BY <2>1, <2>2 DEF CallInv, Known, HalfKnown
  <2>4. \A s \in Sides : /\ socket'[s][c] = First
                         /\ streams'[s][c] = <<>> \/ Fresh(streams'[s][c])
    BY <1>3, <1>4, <1>5, <2>3
  <2>5. HalfKnown(c)'
    BY <1>7, <2>1, <2>4 DEF HalfKnown
  <2>6. Complete(c)' => Paired(c)'
    <3>1. SUFFICES ASSUME Complete(c)' PROVE Paired(c)'
      OBVIOUS
    <3>2. \A s \in Sides : Fresh(streams'[s][c]) /\ socket'[s][c] = First
      BY <2>4, <3>1 DEF Complete
    <3>3. SocketsAgree(c)'
      BY <3>2, SidesAre, Ports DEF SocketsAgree
    <3>4. OrderKept(c)'
      BY <1>5, <3>2, SidesAre, Stages DEF OrderKept
    <3>5. RequestsTell(c)' /\ PendingTells(c)'
      BY <1>7, <2>1, SidesAre DEF Busy, RequestsTell, PendingTells
    <3>6. QED
      BY <3>3, <3>4, <3>5 DEF Paired
  <2>7. QED
    BY <2>4, <2>5, <2>6 DEF CallInv
<1>10. \A d \in Calls : CallInv(d)'
  BY <1>8, <1>9 DEF CallInv
<1>11. CrashOnlyDisturbed'
  BY <1>3 DEF IInv, CrashOnlyDisturbed
<1>12. QED
  BY <1>6, <1>10, <1>11 DEF IInv

\* A step that leaves calls, sockets, requests and handlers alone.
LEMMA NotificationIInv ==
    ASSUME IInv,
           notification' \in Targets \cup {NULL}, timer' \in BOOLEAN,
           handovers' \in 0 .. MaxHandovers,
           UNCHANGED <<streams, socket, net, pending, fault, duplicates, due, disturbed,
                       gaveUp>>
    PROVE  IInv'
<1>1. TypeOK'
  BY DEF IInv, TypeOK
<1>2. ASSUME NEW c \in Calls PROVE CallInv(c)'
  BY DEF IInv, CallInv, Known, Complete, HalfKnown, Busy, Paired, SocketsAgree,
         OrderKept, RequestsTell, PendingTells, Begun, Halfway
<1>3. QED
  BY <1>1, <1>2 DEF IInv, CrashOnlyDisturbed

LEMMA NextIInv == IInv /\ [Next]_vars => IInv'
<1>1. SUFFICES ASSUME IInv, [Next]_vars PROVE IInv'
  OBVIOUS
<1>2. TypeOK
  BY <1>1 DEF IInv
<1>3. ASSUME NEW side \in Sides, NEW c \in Calls, NEW sdp \in Sdps,
             LearnEndpoint(side, c, sdp)
      PROVE  IInv'
  BY <1>1, <1>3, LearnEndpointIInv
<1>4. ASSUME NEW t \in Targets, Notify(t) PROVE IInv'
  BY <1>1, <1>2, <1>4, NotificationIInv, HandoverAssumption DEF Notify, TypeOK
<1>5. CASE CheckNotification
  BY <1>1, <1>5, CheckNotificationIInv
<1>6. CASE EndNotification
  BY <1>1, <1>2, <1>6, NotificationIInv DEF EndNotification, TypeOK
<1>7. ASSUME NEW m \in Message, Handle(m) PROVE IInv'
  BY <1>1, <1>7, ReregisterIInv, UnregisterIInv DEF Handle
<1>8. ASSUME NEW w \in Workers, ServerMoved(w) \/ ClientMoved(w) PROVE IInv'
  BY <1>1, <1>8, ServerMovedIInv, ClientMovedIInv
<1>9. CASE UNCHANGED vars
  BY <1>1, <1>2, <1>9, NotificationIInv DEF vars, TypeOK
<1>10. QED
  BY <1>1, <1>3, <1>4, <1>5, <1>6, <1>7, <1>8, <1>9 DEF Next

-----------------------------------------------------------------------------
(* Theorems *)

THEOREM Invariant == Spec => []IInv
<1>1. QED
  BY InitIInv, NextIInv, PTL DEF Spec

\* Calls, sockets, requests and handlers keep their types: every list stays a
\* stream list, and a socket is one of the two the proxies listen on.
THEOREM HandoverTypeCorrect == Spec => []TypeOK
<1>1. IInv => TypeOK
  BY DEF IInv
<1>2. QED
  BY <1>1, Invariant, PTL

\* At every moment of any number of handovers each proxy takes the media of an
\* undisturbed call from the socket the other one sends from.
THEOREM MediaIsAccepted == Spec => []MediaAccepted
<1>1. ASSUME IInv, NEW c \in Calls, Complete(c), c \notin disturbed, NEW side \in Sides
      PROVE  ContainPort(streams[side][c], socket[Peer(side)][c])
  <2>1. Paired(c) /\ TypeOK
    BY <1>1 DEF IInv, CallInv
  <2>2. socket[Peer(side)][c] \in Targets /\ streams[side][c] \in Seq(Stream)
    BY <2>1, SidesAre, ZenonT(40) DEF TypeOK
  <2>3. CASE socket[Peer(side)][c] = First
    BY <2>1, <2>2, <2>3, Stages DEF Paired, SocketsAgree
  <2>4. CASE socket[Peer(side)][c] = Other
    BY <2>1, <2>2, <2>4, Stages DEF Paired, SocketsAgree, Ready
  <2>5. QED
    BY <2>2, <2>3, <2>4 DEF Targets
<1>2. IInv => MediaAccepted
  BY <1>1 DEF MediaAccepted
<1>3. QED
  BY <1>2, Invariant, PTL

\* No remove_in_rule crashes a proxy before a call has been set up in the middle
\* of a handover, or a handover has gone back to the port it came from.
THEOREM NoCrashBefore == Spec => []CrashOnlyDisturbed
<1>1. IInv => CrashOnlyDisturbed
  BY DEF IInv
<1>2. QED
  BY <1>1, Invariant, PTL

-----------------------------------------------------------------------------
(* Rewriting *)

\* A body that two proxies rewrite, one after the other, is the one the last of
\* them would have made of the original: nothing of the first remains.
THEOREM LastProxyDecides ==
    ASSUME NEW sdp \in Seq(Stream), NEW p \in Port, NEW q \in Port, p >= 10
    PROVE  ChangeMediaPorts(ChangeMediaPorts(sdp, p), q) = ChangeMediaPorts(sdp, q)
<1>1. PICK once : once = ChangeMediaPorts(sdp, p)
  OBVIOUS
<1>2. DOMAIN once = DOMAIN sdp /\ \A i \in DOMAIN sdp : sdp[i] \in Stream
  <2>1. DOMAIN once = DOMAIN sdp
    BY <1>1 DEF ChangeMediaPorts
  <2>2. DOMAIN sdp = 1 .. Len(sdp)
    OBVIOUS
  <2>3. QED
    BY <2>1, <2>2, ElementOfSeq
<1>3. p # 0
  OBVIOUS
<1>4. ASSUME NEW i \in DOMAIN sdp
      PROVE  /\ Active(once[i]) <=> Active(sdp[i])
             /\ once[i].rtcp_port # 0 <=>
                   sdp[i].rtcp_port # 0 \/ (~HasRtcp(sdp) /\ Active(sdp[i]))
             /\ ~Active(sdp[i]) => once[i].port = sdp[i].port
             /\ \A u, v : [once[i] EXCEPT !.port = u, !.rtcp_port = v] =
                          [sdp[i] EXCEPT !.port = u, !.rtcp_port = v]
  <2>1. PICK s, a, b :
            /\ s = sdp[i]
            /\ a = IF Active(sdp[i]) THEN p ELSE sdp[i].port
            /\ b = IF sdp[i].rtcp_port # 0 \/ (~HasRtcp(sdp) /\ Active(sdp[i]))
                   THEN p ELSE sdp[i].rtcp_port
    OBVIOUS
  <2>2. once[i] = [s EXCEPT !.port = a, !.rtcp_port = b]
    BY <1>1, <1>2, <2>1 DEF ChangeMediaPorts
  <2>3. s \in Stream => /\ once[i].port = a /\ once[i].rtcp_port = b
                        /\ \A u, v : [once[i] EXCEPT !.port = u, !.rtcp_port = v] =
                                     [s EXCEPT !.port = u, !.rtcp_port = v]
    BY <2>2 DEF Stream
  <2>4. once[i].port = a /\ once[i].rtcp_port = b
    BY <1>2, <2>1, <2>3
  <2>5. Active(once[i]) <=> Active(sdp[i])
    BY <2>1, <2>4 DEF Active
  <2>6. once[i].rtcp_port # 0 <=>
           sdp[i].rtcp_port # 0 \/ (~HasRtcp(sdp) /\ Active(sdp[i]))
    BY <1>3, <2>1, <2>4
  <2>7. \A u, v : [once[i] EXCEPT !.port = u, !.rtcp_port = v] =
                  [sdp[i] EXCEPT !.port = u, !.rtcp_port = v]
    BY <1>2, <2>1, <2>3, Zenon
  <2>8. ~Active(sdp[i]) => once[i].port = sdp[i].port
    BY <2>1, <2>4
  <2>9. QED
    BY <2>5, <2>6, <2>7, <2>8
<1>5. ASSUME NEW i \in DOMAIN sdp
      PROVE  ChangeMediaPorts(once, q)[i] = ChangeMediaPorts(sdp, q)[i]
  <2>1. PICK a, b :
            /\ a = IF Active(sdp[i]) THEN q ELSE sdp[i].port
            /\ b = IF sdp[i].rtcp_port # 0 \/ (~HasRtcp(sdp) /\ Active(sdp[i]))
                   THEN q ELSE sdp[i].rtcp_port
    OBVIOUS
  <2>2. ChangeMediaPorts(sdp, q)[i] = [sdp[i] EXCEPT !.port = a, !.rtcp_port = b]
    BY <2>1 DEF ChangeMediaPorts
  <2>3. HasRtcp(sdp) => HasRtcp(once)
    BY <1>2, <1>4 DEF HasRtcp
  <2>4. once[i].rtcp_port # 0 \/ (~HasRtcp(once) /\ Active(once[i])) <=>
           sdp[i].rtcp_port # 0 \/ (~HasRtcp(sdp) /\ Active(sdp[i]))
    BY <1>4, <2>3
  <2>5. ChangeMediaPorts(once, q)[i] =
           [once[i] EXCEPT !.port = IF Active(once[i]) THEN q ELSE once[i].port,
              !.rtcp_port = IF once[i].rtcp_port # 0 \/ (~HasRtcp(once) /\ Active(once[i]))
                            THEN q ELSE once[i].rtcp_port]
    BY <1>2 DEF ChangeMediaPorts
  <2>6. a = IF Active(once[i]) THEN q ELSE once[i].port
    BY <1>4, <2>1
  <2>7. b = IF once[i].rtcp_port # 0 \/ (~HasRtcp(once) /\ Active(once[i]))
            THEN q ELSE once[i].rtcp_port
    BY <1>4, <2>1, <2>4
  <2>8. ChangeMediaPorts(once, q)[i] = [once[i] EXCEPT !.port = a, !.rtcp_port = b]
    BY <2>5, <2>6, <2>7
  <2>9. QED
    BY <1>4, <2>2, <2>8
<1>6. ChangeMediaPorts(once, q) = ChangeMediaPorts(sdp, q)
  BY <1>2, <1>5 DEF ChangeMediaPorts
<1>7. QED
  BY <1>1, <1>6
=============================================================================
