------------------------- MODULE SipSinglePortProofs -------------------------
(***************************************************************************)
(* Proofs about SipSinglePort, for any numbers of calls, endpoints,        *)
(* sockets and messages: the type invariant, the two invariants that tie   *)
(* the connections list to the endpoints in shared memory, and where       *)
(* replies, packets under a handover rule and tagged packets go.           *)
(***************************************************************************)
EXTENDS SipSinglePort, SspStreamsProofs

(* The list of connections *)

\* find_connection_by_call_id reports a connection of that call if there is one.
LEMMA FindConnectionFinds ==
    ASSUME NEW table \in Seq(Connection), NEW c
    PROVE  LET i == FindConnection(table, c)
           IN  /\ i \in 0 .. Len(table)
               /\ i = 0 => \A j \in 1 .. Len(table) : table[j].call_id # c
               /\ i # 0 => table[i].call_id = c
<1> DEFINE found == {j \in DOMAIN table : table[j].call_id = c}
<1>1. Len(table) \in Nat /\ \A j \in found : j \in 1 .. Len(table)
  OBVIOUS
<1>2. /\ FirstOf(found) \in 0 .. Len(table)
      /\ FirstOf(found) = 0 <=> found = {}
      /\ FirstOf(found) # 0 => FirstOf(found) \in found
  <2> HIDE DEF found
  <2>1. QED
    BY <1>1, FirstOfPosition
<1>3. QED
  BY <1>2 DEF FindConnection

NewConnection(c) == [call_id |-> c, request_endpoint |-> NULL, response_endpoint |-> NULL]

\* find_connection_by_call_id or create_connection and push_connection: the list
\* afterwards has the call at position i, and is the list before with, perhaps,
\* a new connection at its end.
LEMMA FindOrPushFinds ==
    ASSUME connections \in Seq(Connection), NEW c \in CallIds
    PROVE  LET table == FindOrPush(c)
               i     == FindConnection(table, c)
           IN  /\ table \in Seq(Connection)
               /\ Len(table) >= Len(connections)
               /\ i \in 1 .. Len(table) /\ table[i].call_id = c
               /\ \A j \in 1 .. Len(connections) : table[j] = connections[j]
               /\ \A j \in 1 .. Len(table) : j > Len(connections) =>
                    /\ j = i /\ table[j] = NewConnection(c)
                    /\ FindConnection(connections, c) = 0
<1> DEFINE i0 == FindConnection(connections, c)
<1>1. /\ i0 \in 0 .. Len(connections)
      /\ i0 = 0 => \A j \in 1 .. Len(connections) : connections[j].call_id # c
      /\ i0 # 0 => connections[i0].call_id = c
  BY FindConnectionFinds
<1>2. CASE i0 # 0
  BY <1>1, <1>2 DEF FindOrPush
<1>3. CASE i0 = 0
  <2> DEFINE table == Append(connections, NewConnection(c))
             i     == FindConnection(table, c)
  <2>1. FindOrPush(c) = table
    BY <1>3 DEF FindOrPush, NewConnection
  <2>2. NewConnection(c) \in Connection
    BY DEF NewConnection, Connection
  <2>3. /\ table \in Seq(Connection) /\ Len(table) = Len(connections) + 1
        /\ \A j \in 1 .. Len(connections) : table[j] = connections[j]
        /\ table[Len(table)] = NewConnection(c)
    BY <2>2, AppendProperties
  <2>4. table[Len(table)].call_id = c
    BY <2>3 DEF NewConnection
  <2>5. Len(connections) \in Nat
    OBVIOUS
  <2> HIDE DEF table
  <2>6. /\ i \in 0 .. Len(table)
        /\ i = 0 => \A j \in 1 .. Len(table) : table[j].call_id # c
        /\ i # 0 => table[i].call_id = c
    BY <2>3, FindConnectionFinds
  <2> HIDE DEF i
  <2>7. i = Len(table)
    BY <1>1, <1>3, <2>3, <2>4, <2>5, <2>6
  <2>8. QED
    BY <1>3, <2>1, <2>3, <2>4, <2>5, <2>7 DEF i
<1>4. QED
  BY <1>2, <1>3

\* unlink_connection takes one element out of the list and keeps the order.
LEMMA RemoveAtKeeps ==
    ASSUME NEW S, NEW s \in Seq(S), NEW i \in 1 .. Len(s)
    PROVE  /\ RemoveAt(s, i) \in Seq(S)
           /\ Len(RemoveAt(s, i)) = Len(s) - 1
           /\ \A j \in 1 .. Len(s) - 1 :
                 RemoveAt(s, i)[j] = IF j < i THEN s[j] ELSE s[j + 1]
<1> DEFINE front == SubSeq(s, 1, i - 1)
           back  == SubSeq(s, i + 1, Len(s))
<1>1. Len(s) \in Nat /\ i \in Nat
  OBVIOUS
<1>2. /\ front \in Seq(S) /\ Len(front) = i - 1
      /\ \A j \in 1 .. i - 1 : front[j] = s[j]
  <2>1. \A j \in 1 .. i - 1 : s[j] \in S
    BY <1>1, ElementOfSeq
  <2>2. 1 \in Int /\ i - 1 \in Int
    BY <1>1
  <2>3. /\ front \in Seq(S)
        /\ Len(front) = IF 1 <= i - 1 THEN (i - 1) - 1 + 1 ELSE 0
        /\ \A j \in 1 .. (i - 1) - 1 + 1 : front[j] = s[1 + j - 1]
    BY <2>1, <2>2, SubSeqProperties
  <2> HIDE DEF front
  <2>4. QED
    BY <1>1, <2>3, SMTT(40)
<1>3. /\ back \in Seq(S) /\ Len(back) = Len(s) - i
      /\ \A j \in 1 .. Len(s) - i : back[j] = s[i + j]
  <2>1. \A j \in i + 1 .. Len(s) : s[j] \in S
    BY <1>1, ElementOfSeq
  <2>2. i + 1 \in Int /\ Len(s) \in Int
    BY <1>1
  <2>3. /\ back \in Seq(S)
        /\ Len(back) = IF i + 1 <= Len(s) THEN Len(s) - (i + 1) + 1 ELSE 0
        /\ \A j \in 1 .. Len(s) - (i + 1) + 1 : back[j] = s[(i + 1) + j - 1]
    BY <2>1, <2>2, SubSeqProperties
  <2> HIDE DEF back
  <2>4. QED
    BY <1>1, <2>3
<1>4. RemoveAt(s, i) = front \o back
  BY DEF RemoveAt
<1> HIDE DEF front, back
<1>5. /\ front \o back \in Seq(S)
      /\ Len(front \o back) = Len(front) + Len(back)
      /\ \A j \in 1 .. Len(front) + Len(back) :
            (front \o back)[j] = IF j <= Len(front) THEN front[j] ELSE back[j - Len(front)]
  BY <1>2, <1>3, ConcatProperties
<1>6. ASSUME NEW j \in 1 .. Len(s) - 1
      PROVE  (front \o back)[j] = IF j < i THEN s[j] ELSE s[j + 1]
  <2>1. CASE j < i
    BY <1>1, <1>2, <1>3, <1>5, <2>1
  <2>2. CASE ~ (j < i)
    <3>1. j - (i - 1) \in 1 .. Len(s) - i /\ ~ (j <= i - 1) /\ j \in 1 .. (i - 1) + (Len(s) - i)
      BY <1>1, <2>2
    <3>2. back[j - (i - 1)] = s[i + (j - (i - 1))]
      BY <1>3, <3>1
    <3>3. i + (j - (i - 1)) = j + 1
      BY <1>1
    <3>4. QED
      BY <1>2, <1>3, <1>5, <2>2, <3>1, <3>2, <3>3
  <2>3. QED
    BY <2>1, <2>2
<1>7. QED
  BY <1>1, <1>2, <1>3, <1>4, <1>5, <1>6

-----------------------------------------------------------------------------
(* The invariant and what follows from it *)

\* TypeOK is not inductive by itself: a datagram is sent from the socket of an
\* endpoint that TableOK knows to be allocated and to have one, and SiblingOK
\* says the same of the endpoint a sibling pointer leads to.
IInv == TypeOK /\ TableOK /\ SiblingOK

\* The endpoints of the list are allocated and belong to a call.
LEMMA InTableAllocated ==
    ASSUME IInv, NEW e \in Endpoints, InTable(e)
    PROVE  /\ endpoint[e] \in Endpoint
           /\ endpoint[e].call_id \in CallIds
           /\ endpoint[e].socket \in Sockets
<1>1. PICK i \in DOMAIN connections :
            e \in {connections[i].request_endpoint, connections[i].response_endpoint}
  BY DEF InTable
<1>2. connections[i] \in Connection
  BY ElementOfSeq DEF IInv, TypeOK
<1>3. e # NULL
  BY ConstantsAssumption DEF ConstantsAssumption
<1>4. endpoint[e] # NULL /\ endpoint[e].call_id = connections[i].call_id
      /\ endpoint[e].socket # NULL
  BY <1>1, <1>3 DEF IInv, TableOK
<1>5. endpoint[e] \in Endpoint
  BY <1>4 DEF IInv, TypeOK
<1>6. QED
  BY <1>2, <1>4, <1>5 DEF Connection, Endpoint

\* find_counter_endpoint returns the two endpoints of one connection.
LEMMA CounterpartsOfOneCall ==
    ASSUME IInv, NEW ip, NEW port, NEW pair \in FindCounterEndpoint(ip, port)
    PROVE  /\ pair[1] \in Endpoints /\ pair[2] \in Endpoints /\ pair[1] # pair[2]
           /\ InTable(pair[1]) /\ InTable(pair[2])
           /\ \E i \in DOMAIN connections :
                 {pair[1], pair[2]} = {connections[i].request_endpoint,
                                       connections[i].response_endpoint}
<1> DEFINE matching == {i \in DOMAIN connections :
                /\ Complete(connections[i])
                /\ \/ Matches(connections[i].request_endpoint, ip, port)
                   \/ Matches(connections[i].response_endpoint, ip, port)}
           i == MatchingConnection(ip, port)
           c == connections[i]
<1>1. i = FirstOf(matching)
  BY DEF MatchingConnection
<1>2. Len(connections) \in Nat /\ \A j \in matching : j \in 1 .. Len(connections)
  BY DEF IInv, TypeOK
<1>3. i # 0 => i \in matching
  <2> HIDE DEF matching
  <2>1. QED
    BY <1>1, <1>2, FirstOfPosition
<1>4. i # 0 /\ pair \in {<<c.request_endpoint, c.response_endpoint>>,
                         <<c.response_endpoint, c.request_endpoint>>}
  BY DEF FindCounterEndpoint
<1>5. i \in DOMAIN connections /\ Complete(c)
  BY <1>3, <1>4
<1> HIDE DEF i, matching
<1>6. c \in Connection
  BY <1>5, ElementOfSeq DEF IInv, TypeOK
<1>7. c.request_endpoint \in Endpoints /\ c.response_endpoint \in Endpoints
  BY <1>5, <1>6 DEF Connection, Complete
<1>8. c.request_endpoint # c.response_endpoint
  BY <1>5 DEF IInv, TableOK
<1>9. InTable(c.request_endpoint) /\ InTable(c.response_endpoint)
  BY <1>5 DEF InTable
<1>10. QED
  BY <1>4, <1>5, <1>7, <1>8, <1>9

\* The source of a packet, through the sibling pointer or not, is in the list.
LEMMA SourceInTable ==
    ASSUME IInv, NEW ip, NEW port, NEW pair \in FindCounterEndpoint(ip, port)
    PROVE  SrcEndpoint(pair) \in Endpoints /\ InTable(SrcEndpoint(pair))
<1>1. pair[1] \in Endpoints /\ pair[2] \in Endpoints /\ InTable(pair[1]) /\ InTable(pair[2])
  BY CounterpartsOfOneCall
<1>2. CASE endpoint[pair[2]].sibling = NULL
  BY <1>1, <1>2 DEF SrcEndpoint
<1>3. CASE endpoint[pair[2]].sibling # NULL
  <2>1. endpoint[pair[2]] \in Endpoint /\ endpoint[pair[2]] # NULL
    BY <1>1, InTableAllocated, NullAssumption DEF NullAssumption
  <2>2. endpoint[pair[2]].sibling \in Endpoints
    BY <1>3, <2>1 DEF Endpoint
  <2>3. InTable(endpoint[pair[2]].sibling)
    BY <1>1, <1>3, <2>1 DEF IInv, SiblingOK, InTable
  <2>4. QED
    BY <1>3, <2>2, <2>3 DEF SrcEndpoint
<1>4. QED
  BY <1>2, <1>3

\* TableOK reads of an endpoint whether it is allocated, its call and whether it
\* has a socket.
LEMMA TableKept ==
    ASSUME IInv, connections' = connections,
           \A e \in Endpoints : endpoint[e] # NULL =>
              /\ endpoint'[e] # NULL
              /\ endpoint'[e].call_id = endpoint[e].call_id
              /\ endpoint[e].socket # NULL => endpoint'[e].socket # NULL
    PROVE  TableOK'
<1>1. ASSUME NEW i \in DOMAIN connections,
             NEW e \in {connections[i].request_endpoint,
                        connections[i].response_endpoint} \ {NULL}
      PROVE  /\ endpoint'[e] # NULL
             /\ endpoint'[e].call_id = connections[i].call_id
             /\ endpoint'[e].socket # NULL
  <2>1. connections[i] \in Connection
    BY ElementOfSeq DEF IInv, TypeOK
  <2>2. e \in Endpoints
    BY <2>1 DEF Connection
  <2>3. endpoint[e] # NULL /\ endpoint[e].call_id = connections[i].call_id
        /\ endpoint[e].socket # NULL
    BY DEF IInv, TableOK
  <2>4. QED
    BY <2>2, <2>3
<1>2. QED
  BY <1>1 DEF IInv, TableOK

\* SiblingOK reads of an endpoint whether it is allocated, and its sibling.
LEMMA SiblingKept ==
    ASSUME IInv, connections' = connections,
           \A e \in Endpoints : endpoint'[e] # NULL /\ endpoint'[e].sibling # NULL =>
              endpoint[e] # NULL /\ endpoint[e].sibling = endpoint'[e].sibling
    PROVE  SiblingOK'
BY DEF IInv, SiblingOK

-----------------------------------------------------------------------------
(* The handlers keep the invariant *)

\* set_endpoint on an empty slot of the call of the message, in any of the two:
\* the new row differs from the one found in that slot only.
SlotSet(m, e, row) ==
    LET table == FindOrPush(m.call_id)
        i     == FindConnection(table, m.call_id)
    IN  /\ row.call_id = table[i].call_id
        /\ \/ /\ table[i].request_endpoint = NULL
              /\ row.request_endpoint = e
              /\ row.response_endpoint = table[i].response_endpoint
           \/ /\ table[i].response_endpoint = NULL
              /\ row.response_endpoint = e
              /\ row.request_endpoint = table[i].request_endpoint
        /\ connections' = [table EXCEPT ![i] = row]

LEMMA AttachedType ==
    ASSUME ConstantsAssumption, NEW m \in SipMessages, InitializesDialog(m), HasEndpoint(m)
    PROVE  Attached(m) \in Endpoint /\ ParseEndpoint(m) \in Endpoint
<1>1. m \in Message
  BY DEF ConstantsAssumption
<1>2. m.call_id \in CallIds /\ m.sdp \in Sdp
  BY <1>1 DEF Message, HasEndpoint
<1>3. m.sdp.ip \in Ips /\ m.sdp.streams \in Seq(Stream)
  BY <1>2 DEF Sdp
<1>4. FirstSocket \in Sockets
  BY DEF ConstantsAssumption
<1>5. QED
  BY <1>2, <1>3, <1>4 DEF Attached, ParseEndpoint, Endpoint

LEMMA SlotSetKeeps ==
    ASSUME IInv, NEW m \in SipMessages, NEW e \in Endpoints, Parses(m, e),
           NEW row \in Connection, SlotSet(m, e, row),
           endpoint' = [endpoint EXCEPT ![e] = Attached(m)],
           sent' = NULL, fault' = fault
    PROVE  IInv'
<1> DEFINE table == FindOrPush(m.call_id)
           i     == FindConnection(table, m.call_id)
<1>1. m.call_id \in CallIds
  BY ConstantsAssumption DEF ConstantsAssumption, Message
<1>2. /\ table \in Seq(Connection)
      /\ Len(table) >= Len(connections)
      /\ i \in 1 .. Len(table) /\ table[i].call_id = m.call_id
      /\ \A j \in 1 .. Len(connections) : table[j] = connections[j]
      /\ \A j \in 1 .. Len(table) : j > Len(connections) =>
           /\ j = i /\ table[j] = NewConnection(m.call_id)
           /\ FindConnection(connections, m.call_id) = 0
  BY <1>1, FindOrPushFinds DEF IInv, TypeOK
<1>3. /\ row.call_id = table[i].call_id
      /\ \/ /\ table[i].request_endpoint = NULL
            /\ row.request_endpoint = e
            /\ row.response_endpoint = table[i].response_endpoint
         \/ /\ table[i].response_endpoint = NULL
            /\ row.response_endpoint = e
            /\ row.request_endpoint = table[i].request_endpoint
      /\ connections' = [table EXCEPT ![i] = row]
  BY DEF SlotSet
<1> HIDE DEF table, i
<1>4. /\ connections' \in Seq(Connection) /\ Len(connections') = Len(table)
      /\ \A j \in 1 .. Len(table) : connections'[j] = IF j = i THEN row ELSE table[j]
  BY <1>2, <1>3, ExceptSeq
<1>5. Attached(m) \in Endpoint /\ Attached(m) # NULL
  BY AttachedType, ConstantsAssumption, NullAssumption DEF Parses, NullAssumption
<1>6. /\ Attached(m).call_id = m.call_id /\ Attached(m).sibling = NULL
      /\ Attached(m).socket = FirstSocket /\ FirstSocket # NULL
  BY ConstantsAssumption DEF Attached, ParseEndpoint, ConstantsAssumption
<1>7. endpoint[e] = NULL /\ e # NULL
  BY ConstantsAssumption DEF Parses, ConstantsAssumption
<1>8. /\ endpoint' \in [Endpoints -> Endpoint \cup {NULL}]
      /\ \A f \in Endpoints : endpoint'[f] = IF f = e THEN Attached(m) ELSE endpoint[f]
  BY <1>5 DEF IInv, TypeOK
<1>9. TypeOK'
  BY <1>4, <1>8 DEF IInv, TypeOK
<1>10. \A j \in 1 .. Len(connections) : connections[j] \in Connection
  BY ElementOfSeq DEF IInv, TypeOK
<1>11. TableOK'
  <2>1. \A j, k \in 1 .. Len(table) : table[j].call_id = table[k].call_id => j = k
    <3>1. ASSUME NEW j \in 1 .. Len(table), NEW k \in 1 .. Len(table), j > Len(connections),
                 table[j].call_id = table[k].call_id
          PROVE  j = k
      <4>1. \A l \in 1 .. Len(connections) : connections[l].call_id # m.call_id
        BY <1>2, <3>1, FindConnectionFinds DEF IInv, TypeOK
      <4>2. table[j].call_id = m.call_id
        BY <1>2, <3>1
      <4>3. ~ (k \in 1 .. Len(connections))
        BY <1>2, <3>1, <4>1, <4>2
      <4>4. k > Len(connections)
        BY <4>3, <1>2 DEF IInv, TypeOK
      <4>5. QED
        BY <1>2, <3>1, <4>4
    <3>2. ASSUME NEW j \in 1 .. Len(connections), NEW k \in 1 .. Len(connections),
                 table[j].call_id = table[k].call_id
          PROVE  j = k
      BY <1>2, <3>2 DEF IInv, TableOK
    <3>3. \A j \in 1 .. Len(table) : j > Len(connections) \/ j \in 1 .. Len(connections)
      BY <1>2 DEF IInv, TypeOK
    <3>4. QED
      BY <3>1, <3>2, <3>3
  <2>2. \A j \in 1 .. Len(table) :
           /\ table[j] \in Connection
           /\ table[j].request_endpoint # table[j].response_endpoint \/ table[j] = NewConnection(m.call_id)
           /\ \A f \in {table[j].request_endpoint, table[j].response_endpoint} \ {NULL} :
                /\ endpoint[f] # NULL /\ endpoint[f].call_id = table[j].call_id
                /\ endpoint[f].socket # NULL
    <3>1. ASSUME NEW j \in 1 .. Len(connections)
          PROVE  /\ table[j] = connections[j]
                 /\ table[j].request_endpoint # table[j].response_endpoint
                 /\ \A f \in {table[j].request_endpoint, table[j].response_endpoint} \ {NULL} :
                      /\ endpoint[f] # NULL /\ endpoint[f].call_id = table[j].call_id
                      /\ endpoint[f].socket # NULL
      BY <1>2 DEF IInv, TableOK
    <3>2. ASSUME NEW j \in 1 .. Len(table), j > Len(connections)
          PROVE  /\ table[j] = NewConnection(m.call_id)
                 /\ {table[j].request_endpoint, table[j].response_endpoint} \ {NULL} = {}
      <4>1. table[j] = NewConnection(m.call_id)
        BY <1>2, <3>2
      <4>2. QED
        BY <4>1 DEF NewConnection
    <3>3. \A j \in 1 .. Len(table) : j > Len(connections) \/ j \in 1 .. Len(connections)
      BY <1>2 DEF IInv, TypeOK
    <3>4. \A j \in 1 .. Len(table) : table[j] \in Connection
      BY <1>2, ElementOfSeq
    <3>5. QED
      BY <3>1, <3>2, <3>3, <3>4
  <2>3. ASSUME NEW j \in 1 .. Len(table)
        PROVE  /\ connections'[j].call_id = table[j].call_id
               /\ connections'[j].request_endpoint # connections'[j].response_endpoint
               /\ \A f \in {connections'[j].request_endpoint,
                            connections'[j].response_endpoint} \ {NULL} :
                    /\ endpoint'[f] # NULL
                    /\ endpoint'[f].call_id = connections'[j].call_id
                    /\ endpoint'[f].socket # NULL
    <3>1. CASE j = i
      <4>1. connections'[j] = row
        BY <1>4, <3>1
      <4>2. \A f \in {table[j].request_endpoint, table[j].response_endpoint} \ {NULL} :
               /\ f \in Endpoints /\ f # e
               /\ endpoint'[f] # NULL /\ endpoint'[f].call_id = table[j].call_id
               /\ endpoint'[f].socket # NULL
        BY <1>7, <1>8, <2>2 DEF Connection
      <4>3. /\ endpoint'[e] # NULL /\ endpoint'[e].call_id = table[j].call_id
            /\ endpoint'[e].socket # NULL
        BY <1>2, <1>5, <1>6, <1>8, <3>1
      <4>4. QED
        BY <1>3, <1>7, <3>1, <4>1, <4>2, <4>3
    <3>2. CASE j # i
      <4>1. connections'[j] = table[j] /\ j \in 1 .. Len(connections)
        BY <1>2, <1>4, <3>2 DEF IInv, TypeOK
      <4>2. table[j].request_endpoint # table[j].response_endpoint
        BY <1>2, <4>1 DEF IInv, TableOK
      <4>3. \A f \in {table[j].request_endpoint, table[j].response_endpoint} \ {NULL} :
               /\ f \in Endpoints /\ f # e
               /\ endpoint'[f] # NULL /\ endpoint'[f].call_id = table[j].call_id
               /\ endpoint'[f].socket # NULL
        BY <1>7, <1>8, <2>2 DEF Connection
      <4>4. QED
        BY <4>1, <4>2, <4>3
    <3>3. QED
      BY <3>1, <3>2
  <2>4. DOMAIN connections' = 1 .. Len(table)
    BY <1>4
  <2>5. QED
    BY <2>1, <2>3, <2>4 DEF TableOK
<1>12. SiblingOK'
  <2>1. ASSUME NEW f \in Endpoints, endpoint'[f] # NULL, endpoint'[f].sibling # NULL
        PROVE  \E j \in DOMAIN connections' :
                  /\ {f, endpoint'[f].sibling} =
                       {connections'[j].request_endpoint, connections'[j].response_endpoint}
                  /\ f # endpoint'[f].sibling
    <3>1. f # e /\ endpoint'[f] = endpoint[f]
      BY <1>6, <1>8, <2>1
    <3>2. PICK j \in DOMAIN connections :
             /\ {f, endpoint[f].sibling} =
                  {connections[j].request_endpoint, connections[j].response_endpoint}
             /\ f # endpoint[f].sibling
      BY <2>1, <3>1 DEF IInv, SiblingOK
    <3>3. j \in 1 .. Len(connections) /\ j \in 1 .. Len(table) /\ table[j] = connections[j]
      BY <1>2 DEF IInv, TypeOK
    <3>4. f # NULL /\ endpoint[f].sibling # NULL
      BY <2>1, <3>1, ConstantsAssumption DEF ConstantsAssumption
    <3>5. connections[j].request_endpoint # NULL /\ connections[j].response_endpoint # NULL
      BY <3>2, <3>4
    <3>6. connections'[j] = connections[j]
      BY <1>3, <1>4, <3>3, <3>5
    <3>7. j \in DOMAIN connections'
      BY <1>4, <3>3
    <3>8. QED
      BY <3>1, <3>2, <3>6, <3>7
  <2>2. QED
    BY <2>1 DEF SiblingOK
<1>13. QED
  BY <1>9, <1>11, <1>12 DEF IInv

LEMMA SetRequestEndpointKeeps ==
    ASSUME IInv, NEW m \in SipMessages, NEW e \in Endpoints, SetRequestEndpoint(m, e)
    PROVE  IInv'
<1> DEFINE table == FindOrPush(m.call_id)
           i     == FindConnection(table, m.call_id)
           row   == [table[i] EXCEPT !.request_endpoint = e]
<1>1. m.call_id \in CallIds
  BY ConstantsAssumption DEF ConstantsAssumption, Message
<1>2. table \in Seq(Connection) /\ i \in 1 .. Len(table)
  BY <1>1, FindOrPushFinds DEF IInv, TypeOK
<1>3. table[i] \in Connection
  <2> HIDE DEF table, i
  <2>1. QED
    BY <1>2, ElementOfSeq
<1>4. row \in Connection /\ row.call_id = table[i].call_id /\ row.request_endpoint = e
      /\ row.response_endpoint = table[i].response_endpoint
  <2> HIDE DEF table, i
  <2>1. QED
    BY <1>3 DEF Connection
<1>5. SlotSet(m, e, row)
  BY <1>4 DEF SetRequestEndpoint, SlotSet
<1>6. QED
  BY <1>4, <1>5, SlotSetKeeps DEF SetRequestEndpoint

LEMMA SetResponseEndpointKeeps ==
    ASSUME IInv, NEW m \in SipMessages, NEW e \in Endpoints, SetResponseEndpoint(m, e)
    PROVE  IInv'
<1> DEFINE table == FindOrPush(m.call_id)
           i     == FindConnection(table, m.call_id)
           row   == [table[i] EXCEPT !.response_endpoint = e]
<1>1. m.call_id \in CallIds
  BY ConstantsAssumption DEF ConstantsAssumption, Message
<1>2. table \in Seq(Connection) /\ i \in 1 .. Len(table)
  BY <1>1, FindOrPushFinds DEF IInv, TypeOK
<1>3. table[i] \in Connection
  <2> HIDE DEF table, i
  <2>1. QED
    BY <1>2, ElementOfSeq
<1>4. row \in Connection /\ row.call_id = table[i].call_id /\ row.response_endpoint = e
      /\ row.request_endpoint = table[i].request_endpoint
  <2> HIDE DEF table, i
  <2>1. QED
    BY <1>3 DEF Connection
<1>5. SlotSet(m, e, row)
  BY <1>4 DEF SetResponseEndpoint, SlotSet
<1>6. QED
  BY <1>4, <1>5, SlotSetKeeps DEF SetResponseEndpoint

LEMMA LeakEndpointKeeps ==
    ASSUME IInv, NEW m \in SipMessages, NEW e \in Endpoints, LeakEndpoint(m, e)
    PROVE  IInv'
<1>1. ParseEndpoint(m) \in Endpoint /\ ParseEndpoint(m).sibling = NULL
  BY AttachedType, ConstantsAssumption DEF LeakEndpoint, Parses, ParseEndpoint
<1>2. endpoint[e] = NULL /\ connections' = connections
  BY DEF LeakEndpoint, Parses
<1>3. /\ endpoint' \in [Endpoints -> Endpoint \cup {NULL}]
      /\ \A f \in Endpoints : endpoint'[f] = IF f = e THEN ParseEndpoint(m) ELSE endpoint[f]
  BY <1>1 DEF LeakEndpoint, IInv, TypeOK
<1>4. TypeOK'
  BY <1>2, <1>3 DEF LeakEndpoint, IInv, TypeOK
<1>5. TableOK'
  BY <1>2, <1>3, TableKept
<1>6. SiblingOK'
  BY <1>1, <1>2, <1>3, SiblingKept
<1>7. QED
  BY <1>4, <1>5, <1>6 DEF IInv

\* The end of a call: its row goes and its endpoints are freed.
LEMMA RemoveConnectionKeeps ==
    ASSUME IInv, NEW m \in SipMessages, RemoveConnection(m)
    PROVE  IInv'
<1> DEFINE i     == FindConnection(connections, m.call_id)
           freed == {connections[i].request_endpoint, connections[i].response_endpoint}
           n     == Len(connections)
<1>1. n \in Nat /\ i \in 0 .. n
  BY FindConnectionFinds DEF IInv, TypeOK
<1>2. CASE i = 0
  <2>1. UNCHANGED <<connections, endpoint>> /\ sent' = NULL /\ fault' = fault
    BY <1>2 DEF RemoveConnection
  <2>2. TypeOK'
    BY <2>1 DEF IInv, TypeOK
  <2>3. TableOK' /\ SiblingOK'
    BY <2>1, TableKept, SiblingKept
  <2>4. QED
    BY <2>2, <2>3 DEF IInv
<1>3. CASE i # 0
  <2>1. /\ connections' = RemoveAt(connections, i)
        /\ endpoint' = [e \in Endpoints |-> IF e \in freed THEN NULL ELSE endpoint[e]]
        /\ sent' = NULL /\ fault' = fault
    BY <1>3 DEF RemoveConnection
  <2>2. i \in 1 .. n
    BY <1>1, <1>3
  <2> HIDE DEF i
  <2>3. /\ connections' \in Seq(Connection) /\ Len(connections') = n - 1
        /\ \A j \in 1 .. n - 1 :
              connections'[j] = IF j < i THEN connections[j] ELSE connections[j + 1]
    BY <2>1, <2>2, RemoveAtKeeps DEF IInv, TypeOK
  <2>4. \A j \in 1 .. n : connections[j] \in Connection
    BY ElementOfSeq DEF IInv, TypeOK
  <2>5. TypeOK'
    BY <2>1, <2>3 DEF IInv, TypeOK
  <2> DEFINE was(j) == IF j < i THEN j ELSE j + 1
  <2>6. \A j \in 1 .. n - 1 : was(j) \in 1 .. n /\ was(j) # i
                              /\ connections'[j] = connections[was(j)]
    BY <1>1, <2>2, <2>3
  <2>7. \A j, k \in 1 .. n - 1 : was(j) = was(k) => j = k
    BY <1>1, <2>2
  <2>8. ASSUME NEW j \in 1 .. n, j # i,
               NEW e \in {connections[j].request_endpoint,
                          connections[j].response_endpoint} \ {NULL}
        PROVE  /\ e \in Endpoints /\ e \notin freed
               /\ endpoint'[e] # NULL /\ endpoint'[e].call_id = connections[j].call_id
               /\ endpoint'[e].socket # NULL
    <3>1. e \in Endpoints
      BY <2>4, <2>8 DEF Connection
    <3>2. /\ endpoint[e] # NULL /\ endpoint[e].call_id = connections[j].call_id
          /\ endpoint[e].socket # NULL
      BY DEF IInv, TableOK
    <3>3. connections[j].call_id # connections[i].call_id
      BY <2>2, <2>8 DEF IInv, TableOK
    <3>4. e \in freed => endpoint[e].call_id = connections[i].call_id
      BY <2>2, <2>8 DEF IInv, TableOK
    <3>5. e \notin freed
      BY <3>2, <3>3, <3>4
    <3>6. QED
      BY <2>1, <3>1, <3>2, <3>5
  <2>9. DOMAIN connections = 1 .. n /\ DOMAIN connections' = 1 .. n - 1
    BY <2>3 DEF IInv, TypeOK
  <2>10. TableOK'
    <3> HIDE DEF freed, was
    <3>1. ASSUME NEW j \in 1 .. n - 1
          PROVE  /\ connections'[j].request_endpoint # connections'[j].response_endpoint
                 /\ \A e \in {connections'[j].request_endpoint,
                              connections'[j].response_endpoint} \ {NULL} :
                      /\ endpoint'[e] # NULL
                      /\ endpoint'[e].call_id = connections'[j].call_id
                      /\ endpoint'[e].socket # NULL
      <4>1. was(j) \in 1 .. n /\ was(j) # i /\ connections'[j] = connections[was(j)]
        BY <2>6
      <4>2. connections[was(j)].request_endpoint # connections[was(j)].response_endpoint
        BY <2>9, <4>1 DEF IInv, TableOK
      <4>3. QED
        BY <2>8, <4>1, <4>2
    <3>2. ASSUME NEW j \in 1 .. n - 1, NEW k \in 1 .. n - 1,
                 connections'[j].call_id = connections'[k].call_id
          PROVE  j = k
      <4>1. was(j) = was(k)
        BY <2>6, <2>9, <3>2 DEF IInv, TableOK
      <4>2. QED
        BY <2>7, <4>1
    <3>3. QED
      BY <2>9, <3>1, <3>2 DEF TableOK
  <2>11. SiblingOK'
    <3>1. ASSUME NEW e \in Endpoints, endpoint'[e] # NULL, endpoint'[e].sibling # NULL
          PROVE  \E k \in DOMAIN connections' :
                    /\ {e, endpoint'[e].sibling} =
                         {connections'[k].request_endpoint, connections'[k].response_endpoint}
                    /\ e # endpoint'[e].sibling
      <4>1. e \notin freed /\ endpoint'[e] = endpoint[e]
        BY <2>1, <3>1
      <4>2. PICK j \in 1 .. n :
               /\ {e, endpoint[e].sibling} =
                    {connections[j].request_endpoint, connections[j].response_endpoint}
               /\ e # endpoint[e].sibling
        BY <2>9, <3>1, <4>1 DEF IInv, SiblingOK
      <4>3. j # i
        BY <4>1, <4>2
      <4>4. PICK k \in 1 .. n - 1 : was(k) = j
        <5>1. CASE j < i
          <6>1. j \in 1 .. n - 1 /\ was(j) = j
            BY <1>1, <2>2, <5>1
          <6>2. QED
            BY <6>1
        <5>2. CASE j > i
          <6>1. j - 1 \in 1 .. n - 1 /\ was(j - 1) = j
            BY <1>1, <2>2, <5>2
          <6>2. QED
            BY <6>1
        <5>3. QED
          BY <1>1, <2>2, <4>3, <5>1, <5>2
      <4>5. connections'[k] = connections[j]
        BY <2>6, <4>4
      <4>6. QED
        BY <2>9, <4>1, <4>2, <4>5
    <3>2. QED
      BY <3>1 DEF SiblingOK
  <2>12. QED
    BY <2>5, <2>10, <2>11 DEF IInv
<1>4. QED
  BY <1>2, <1>3

\* Filling in the sibling of the counterpart keeps the tables.
LEMMA CacheSiblingKeeps ==
    ASSUME IInv, NEW ip, NEW port, NEW pair \in FindCounterEndpoint(ip, port),
           CacheSibling(pair), connections' = connections
    PROVE  /\ endpoint' \in [Endpoints -> Endpoint \cup {NULL}]
           /\ TableOK' /\ SiblingOK'
<1> DEFINE dst == pair[2]
           src == SrcEndpoint(pair)
<1>1. dst \in Endpoints /\ InTable(dst) /\ pair[1] # dst
  BY CounterpartsOfOneCall
<1>2. endpoint[dst] \in Endpoint /\ endpoint[dst] # NULL
  BY <1>1, InTableAllocated, NullAssumption DEF NullAssumption
<1>3. src \in Endpoints
  BY SourceInTable
<1> DEFINE new == [endpoint[dst] EXCEPT !.sibling = src]
<1>4. /\ new \in Endpoint /\ new # NULL /\ new.sibling = src
      /\ new.call_id = endpoint[dst].call_id /\ new.socket = endpoint[dst].socket
  BY <1>2, <1>3, NullAssumption DEF Endpoint, NullAssumption
<1>5. endpoint \in [Endpoints -> Endpoint \cup {NULL}]
  BY DEF IInv, TypeOK
<1>6. /\ endpoint' \in [Endpoints -> Endpoint \cup {NULL}]
      /\ \A e \in Endpoints : endpoint'[e] = IF e = dst THEN new ELSE endpoint[e]
  <2>1. endpoint' = [endpoint EXCEPT ![dst] = new]
    BY DEF CacheSibling
  <2> HIDE DEF new, dst
  <2>2. QED
    BY <1>1, <1>4, <1>5, <2>1
<1> HIDE DEF new
<1>7. TableOK'
  BY <1>4, <1>6, TableKept
<1>8. SiblingOK'
  <2>1. CASE endpoint[dst].sibling # NULL
    <3>1. src = endpoint[dst].sibling
      BY <2>1 DEF SrcEndpoint
    <3>2. QED
      BY <1>2, <1>4, <1>6, <3>1, SiblingKept
  <2>2. CASE endpoint[dst].sibling = NULL
    <3>1. src = pair[1]
      BY <2>2 DEF SrcEndpoint
    <3>2. PICK i \in DOMAIN connections :
             {pair[1], dst} = {connections[i].request_endpoint,
                               connections[i].response_endpoint}
      BY CounterpartsOfOneCall
    <3>3. {dst, src} = {connections[i].request_endpoint,
                        connections[i].response_endpoint} /\ dst # src
      BY <1>1, <3>1, <3>2
    <3>4. QED
      BY <1>4, <1>6, <3>3 DEF IInv, SiblingOK
  <2>3. QED
    BY <2>1, <2>2
<1>9. QED
  BY <1>6, <1>7, <1>8

\* What SendTo sends to an endpoint of the list is a datagram.
LEMMA SendToType ==
    ASSUME IInv, NEW dst \in Endpoints, InTable(dst), NEW port \in Port \cup {-1},
           NEW tag, port # -1 => tag \in Tag \cup {NULL}, SendTo(dst, port, tag)
    PROVE  sent' \in Datagram \cup {NULL}
<1>1. CASE port = -1
  BY <1>1 DEF SendTo
<1>2. CASE port # -1
  <2>1. endpoint[dst].ip \in Ips /\ endpoint[dst].socket \in Sockets
    BY InTableAllocated DEF Endpoint
  <2>2. port \in Port /\ tag \in Tag \cup {NULL}
    BY <1>2
  <2>3. QED
    BY <1>2, <2>1, <2>2 DEF SendTo, Datagram
<1>3. QED
  BY <1>1, <1>2

LEMMA ForwardPacketKeeps ==
    ASSUME IInv, NEW p \in Packets, ForwardPacket(p)
    PROVE  IInv'
<1>1. p \in Packet
  BY ConstantsAssumption DEF ConstantsAssumption
<1> DEFINE out(pair) == FindDstPort(SrcEndpoint(pair), pair[2], p)
           tag(pair) == IF Mode = "single" \/ out(pair) = -1 THEN p.tag
                        ELSE [call_id |-> endpoint[SrcEndpoint(pair)].call_id,
                              media |-> endpoint[SrcEndpoint(pair)].streams[
                                            SourceStream(SrcEndpoint(pair), p)].media]
<1>2. PICK pair \in FindCounterEndpoint(p.ip, p.port) :
         CacheSibling(pair) /\ SendTo(pair[2], out(pair), tag(pair))
  BY DEF ForwardPacket
<1>3. UNCHANGED <<connections, fault>>
  BY DEF ForwardPacket
<1> DEFINE src == SrcEndpoint(pair)
           dst == pair[2]
           k   == SourceStream(src, p)
<1>4. src \in Endpoints /\ InTable(src) /\ dst \in Endpoints /\ InTable(dst)
  BY SourceInTable, CounterpartsOfOneCall
<1> HIDE DEF src, dst
<1>5. endpoint[src].streams \in Seq(Stream) /\ endpoint[src].call_id \in CallIds
      /\ endpoint[dst].streams \in Seq(Stream)
  BY <1>4, InTableAllocated DEF Endpoint
<1>6. k \in 0 .. Len(endpoint[src].streams)
  <2> DEFINE ss == endpoint[src].streams
             one == {i \in DOMAIN ss : p.port \in {ss[i].port, GetRtcpPort(ss[i])}}
             two == {i \in DOMAIN ss : p.port = GetRtcpPort(ss[i])}
  <2>1. Len(ss) \in Nat /\ (\A i \in one : i \in 1 .. Len(ss))
        /\ \A i \in two : i \in 1 .. Len(ss)
    BY <1>5
  <2>2. k = FirstOf(one) \/ k = FirstOf(two)
    BY DEF SourceStream, GetStreamType, GetStreamTypeRtcp
  <2> HIDE DEF one, two, k, ss
  <2>3. k \in 0 .. Len(ss)
    BY <2>1, <2>2, FirstOfPosition
  <2>4. QED
    BY <2>3 DEF ss
<1>7. FindDstPort(src, dst, p) \in Port \cup {-1}
      /\ (FindDstPort(src, dst, p) # -1 => k # 0)
  <2>1. p.kind = "rtp" \/ p.kind = "rtcp"
    BY <1>1 DEF Packet
  <2>2. CASE k = 0
    BY <2>2 DEF FindDstPort
  <2>3. CASE k # 0 /\ p.kind = "rtp"
    BY <1>5, <2>3, PortType DEF FindDstPort
  <2>4. CASE k # 0 /\ p.kind = "rtcp"
    BY <1>5, <2>4, PortType DEF FindDstPort
  <2>5. QED
    BY <2>1, <2>2, <2>3, <2>4
<1>8. out(pair) # -1 => tag(pair) \in Tag \cup {NULL}
  <2>1. CASE Mode = "single"
    BY <1>1, <2>1 DEF Packet
  <2>2. CASE Mode # "single" /\ out(pair) # -1
    <3>1. k \in 1 .. Len(endpoint[src].streams)
      BY <1>5, <1>6, <1>7, <2>2 DEF src, dst
    <3> HIDE DEF k
    <3>2. endpoint[src].streams[k] \in Stream
      BY <1>5, <3>1, ElementOfSeq
    <3>3. endpoint[src].streams[k].media \in Media
      BY <3>2 DEF Stream
    <3>4. QED
      BY <1>5, <2>2, <3>3 DEF Tag, src, k
  <2>3. QED
    BY <2>1, <2>2
<1>9. sent' \in Datagram \cup {NULL}
  <2>1. out(pair) \in Port \cup {-1}
    BY <1>7 DEF src, dst
  <2> HIDE DEF out, tag
  <2>2. QED
    BY <1>2, <1>4, <1>8, <2>1, SendToType DEF dst
<1>10. QED
  BY <1>2, <1>3, <1>9, CacheSiblingKeeps DEF IInv, TypeOK

LEMMA ForwardTaggedKeeps ==
    ASSUME IInv, NEW p \in Packets, ForwardTagged(p)
    PROVE  IInv'
<1> DEFINE i     == FindConnection(connections, p.tag.call_id)
           whole == i # 0 => Complete(connections[i])
           c     == connections[i]
           port  == GetCounterPort(c, p.ip, p.tag.media)
<1>1. PICK pair \in FindCounterEndpoint(p.ip, p.port) :
         /\ CacheSibling(pair)
         /\ fault' = ~whole
         /\ IF i = 0 \/ ~whole THEN sent' = NULL ELSE SendTo(pair[2], port, NULL)
  BY DEF ForwardTagged
<1>2. connections' = connections
  BY DEF ForwardTagged
<1>3. sent' \in Datagram \cup {NULL}
  <2>1. CASE i = 0 \/ ~whole
    BY <1>1, <2>1
  <2>2. CASE i # 0 /\ whole
    <3>1. i \in 1 .. Len(connections)
      BY <2>2, FindConnectionFinds DEF IInv, TypeOK
    <3> HIDE DEF i
    <3>2. c \in Connection /\ Complete(c)
      BY <2>2, <3>1, ElementOfSeq DEF IInv, TypeOK
    <3>3. InTable(c.request_endpoint) /\ InTable(c.response_endpoint)
      BY <3>1 DEF IInv, TypeOK, InTable
    <3>4. c.request_endpoint \in Endpoints /\ c.response_endpoint \in Endpoints
      BY <3>2 DEF Connection, Complete
    <3> DEFINE e == CounterOf(c, p.ip)
    <3>5. e \in {NULL, c.request_endpoint, c.response_endpoint}
      BY DEF CounterOf
    <3>6. port \in Port \cup {-1}
      <4>1. CASE e = NULL
        BY <4>1 DEF GetCounterPort
      <4>2. CASE e # NULL
        <5>1. endpoint[e].streams \in Seq(Stream)
          <6> HIDE DEF e
          <6>1. e \in Endpoints /\ InTable(e)
            BY <3>3, <3>4, <3>5, <4>2
          <6>2. QED
            BY <6>1, InTableAllocated DEF Endpoint
        <5>2. QED
          BY <4>2, <5>1, PortType DEF GetCounterPort
      <4>3. QED
        BY <4>1, <4>2
    <3>7. pair[2] \in Endpoints /\ InTable(pair[2])
      BY CounterpartsOfOneCall
    <3>8. SendTo(pair[2], port, NULL)
      BY <1>1, <2>2
    <3> HIDE DEF port
    <3>9. QED
      BY <3>6, <3>7, <3>8, SendToType
  <2>3. QED
    BY <2>1, <2>2
<1>4. fault' \in BOOLEAN
  BY <1>1
<1>5. QED
  BY <1>1, <1>2, <1>3, <1>4, CacheSiblingKeeps DEF IInv, TypeOK

-----------------------------------------------------------------------------
\* The script functions rewrite the streams or the socket of some endpoints of
\* the list and leave the rest of them alone.
LEMMA RewriteKeeps ==
    ASSUME IInv, NEW matched, \A e \in matched : e \in Endpoints /\ InTable(e),
           NEW new, \A e \in matched :
               /\ new[e] \in Endpoint
               /\ new[e].call_id = endpoint[e].call_id
               /\ new[e].sibling = endpoint[e].sibling
               /\ new[e].socket # NULL,
           endpoint' = [e \in Endpoints |-> IF e \in matched THEN new[e] ELSE endpoint[e]],
           connections' = connections, sent' = NULL, fault' \in BOOLEAN
    PROVE  IInv'
<1>1. \A e \in matched : endpoint[e] # NULL /\ new[e] # NULL
  BY InTableAllocated, NullAssumption DEF NullAssumption
<1>2. TypeOK'
  BY DEF IInv, TypeOK
<1>3. TableOK'
  BY <1>1, TableKept
<1>4. SiblingOK'
  BY <1>1, SiblingKept
<1>5. QED
  BY <1>2, <1>3, <1>4 DEF IInv

LEMMA AddInRuleKeeps ==
    ASSUME IInv, NEW ip, NEW port, NEW new_port \in Port, AddInRule(ip, port, new_port)
    PROVE  IInv'
<1> DEFINE matched == Matched(ip, port)
           new == [e \in matched |->
                     [endpoint[e] EXCEPT !.streams = AddTemporaryStreams(@, new_port)]]
<1>1. \A e \in matched : e \in Endpoints /\ InTable(e)
  BY DEF Matched
<1>2. /\ endpoint' = [e \in Endpoints |-> IF e \in matched THEN new[e] ELSE endpoint[e]]
      /\ connections' = connections /\ sent' = NULL /\ fault' = fault
  BY DEF AddInRule
<1> HIDE DEF matched
<1>3. ASSUME NEW e \in matched
      PROVE  /\ new[e] \in Endpoint
             /\ new[e].call_id = endpoint[e].call_id
             /\ new[e].sibling = endpoint[e].sibling
             /\ new[e].socket # NULL
  <2>1. endpoint[e] \in Endpoint /\ endpoint[e].socket \in Sockets
    BY <1>1, InTableAllocated
  <2>2. endpoint[e].streams \in Seq(Stream)
    BY <2>1 DEF Endpoint
  <2>3. AddTemporaryStreams(endpoint[e].streams, new_port) \in Seq(Stream)
    BY <2>2, AddTemporaryType
  <2>4. QED
    BY <2>1, <2>3, ConstantsAssumption DEF Endpoint, ConstantsAssumption
<1> HIDE DEF new
<1>4. QED
  BY <1>1, <1>2, <1>3, RewriteKeeps, ZenonT(40) DEF IInv, TypeOK

LEMMA RemoveInRuleKeeps ==
    ASSUME IInv, NEW ip, NEW port, RemoveInRule(ip, port)
    PROVE  IInv'
<1> DEFINE matched == Matched(ip, port)
           new == [e \in matched |->
                     [endpoint[e] EXCEPT !.streams = RemoveTemporaryStreams(@)]]
<1>1. \A e \in matched : e \in Endpoints /\ InTable(e)
  BY DEF Matched
<1>2. /\ endpoint' = [e \in Endpoints |-> IF e \in matched THEN new[e] ELSE endpoint[e]]
      /\ connections' = connections /\ sent' = NULL /\ fault' \in BOOLEAN
  BY DEF RemoveInRule
<1> HIDE DEF matched
<1>3. ASSUME NEW e \in matched
      PROVE  /\ new[e] \in Endpoint
             /\ new[e].call_id = endpoint[e].call_id
             /\ new[e].sibling = endpoint[e].sibling
             /\ new[e].socket # NULL
  <2>1. endpoint[e] \in Endpoint /\ endpoint[e].socket \in Sockets
    BY <1>1, InTableAllocated
  <2>2. endpoint[e].streams \in Seq(Stream)
    BY <2>1 DEF Endpoint
  <2>3. RemoveTemporaryStreams(endpoint[e].streams) \in Seq(Stream)
    BY <2>2, RemoveTemporaryType
  <2>4. QED
    BY <2>1, <2>3, ConstantsAssumption DEF Endpoint, ConstantsAssumption
<1> HIDE DEF new
<1>4. QED
  BY <1>1, <1>2, <1>3, RewriteKeeps

LEMMA ChangeSocketKeeps ==
    ASSUME IInv, NEW ip, NEW port, NEW socket \in Sockets, ChangeSocket(ip, port, socket)
    PROVE  IInv'
<1> DEFINE matched == Matched(ip, port)
           new == [e \in matched |-> [endpoint[e] EXCEPT !.socket = socket]]
<1>1. \A e \in matched : e \in Endpoints /\ InTable(e)
  BY DEF Matched
<1>2. /\ endpoint' = [e \in Endpoints |-> IF e \in matched THEN new[e] ELSE endpoint[e]]
      /\ connections' = connections /\ sent' = NULL /\ fault' = fault
  BY DEF ChangeSocket
<1> HIDE DEF matched
<1>3. ASSUME NEW e \in matched
      PROVE  /\ new[e] \in Endpoint
             /\ new[e].call_id = endpoint[e].call_id
             /\ new[e].sibling = endpoint[e].sibling
             /\ new[e].socket # NULL
  <2>1. endpoint[e] \in Endpoint
    BY <1>1, InTableAllocated
  <2>2. QED
    BY <2>1, ConstantsAssumption DEF Endpoint, ConstantsAssumption
<1> HIDE DEF new
<1>4. QED
  BY <1>1, <1>2, <1>3, RewriteKeeps, ZenonT(40) DEF IInv, TypeOK

-----------------------------------------------------------------------------
LEMMA InvariantInit == Init => IInv
<1> SUFFICES ASSUME Init PROVE IInv
  OBVIOUS
<1>1. connections = <<>> /\ DOMAIN connections = {}
  BY DEF Init
<1>2. TypeOK
  <2>1. connections \in Seq(Connection)
    BY <1>1, EmptySeq
  <2>2. QED
    BY <2>1 DEF Init, TypeOK
<1>3. TableOK
  BY <1>1 DEF TableOK
<1>4. SiblingOK
  BY DEF Init, SiblingOK
<1>5. QED
  BY <1>2, <1>3, <1>4 DEF IInv

LEMMA InvariantNext == IInv /\ [Next]_vars => IInv'
<1> SUFFICES ASSUME IInv, [Next]_vars PROVE IInv'
  OBVIOUS
<1>1. ASSUME NEW m \in SipMessages, NEW e \in Endpoints, SetRequestEndpoint(m, e)
      PROVE  IInv'
  BY <1>1, SetRequestEndpointKeeps
<1>2. ASSUME NEW m \in SipMessages, NEW e \in Endpoints, SetResponseEndpoint(m, e)
      PROVE  IInv'
  BY <1>2, SetResponseEndpointKeeps
<1>3. ASSUME NEW m \in SipMessages, NEW e \in Endpoints, LeakEndpoint(m, e)
      PROVE  IInv'
  BY <1>3, LeakEndpointKeeps
<1>4. ASSUME NEW m \in SipMessages, RemoveConnection(m)
      PROVE  IInv'
  BY <1>4, RemoveConnectionKeeps
<1>5. ASSUME NEW p \in Packets, DropPacket(p)
      PROVE  IInv'
  <2>1. UNCHANGED <<connections, endpoint, fault>> /\ sent' = NULL
    BY <1>5 DEF DropPacket
  <2>2. TypeOK'
    BY <2>1 DEF IInv, TypeOK
  <2>3. TableOK' /\ SiblingOK'
    BY <2>1, TableKept, SiblingKept
  <2>4. QED
    BY <2>2, <2>3 DEF IInv
<1>6. ASSUME NEW p \in Packets, ForwardPacket(p)
      PROVE  IInv'
  BY <1>6, ForwardPacketKeeps
<1>7. ASSUME NEW p \in Packets, ForwardTagged(p)
      PROVE  IInv'
  BY <1>7, ForwardTaggedKeeps
<1>8. ASSUME NEW r \in Rules
      PROVE  /\ AddInRule(r[1], r[2], r[3]) => IInv'
             /\ RemoveInRule(r[1], r[2]) => IInv'
             /\ \A s \in Sockets : ChangeSocket(r[1], r[2], s) => IInv'
  <2>1. r[3] \in Port
    BY ConstantsAssumption DEF ConstantsAssumption
  <2>2. QED
    BY <2>1, AddInRuleKeeps, RemoveInRuleKeeps, ChangeSocketKeeps
<1>9. CASE UNCHANGED vars
  <2>1. UNCHANGED <<connections, endpoint, sent, fault>>
    BY <1>9 DEF vars
  <2>2. TypeOK'
    BY <2>1 DEF IInv, TypeOK
  <2>3. TableOK' /\ SiblingOK'
    BY <2>1, TableKept, SiblingKept
  <2>4. QED
    BY <2>2, <2>3 DEF IInv
<1>10. QED
  BY <1>1, <1>2, <1>3, <1>4, <1>5, <1>6, <1>7, <1>8, <1>9 DEF Next, Receive, Script

\* The invariant of the module's data holds in every reachable state.
THEOREM Invariant == Spec => []IInv
<1>1. Init => IInv
  BY InvariantInit
<1>2. IInv /\ [Next]_vars => IInv'
  BY InvariantNext
<1>3. QED
  BY <1>1, <1>2, PTL DEF Spec

\* Every value the module keeps, and every datagram it sends, has its type: in
\* particular no datagram is sent to port -1 or through a NULL socket.
THEOREM TypeCorrect == Spec => []TypeOK
<1>1. IInv => TypeOK
  BY DEF IInv
<1>2. QED
  BY <1>1, Invariant, PTL

\* One connection per call, and its endpoints are allocated and its own
\* (find_connection_by_call_id, create_connection, push_connection,
\* remove_connection, destroy_connection).
THEOREM TableCorrect == Spec => []TableOK
<1>1. IInv => TableOK
  BY DEF IInv
<1>2. QED
  BY <1>1, Invariant, PTL

\* A sibling pointer (find_counter_endpoint) never dangles and never leaves its
\* call, in both modes and whatever becomes of other calls.
THEOREM SiblingCorrect == Spec => []SiblingOK
<1>1. IInv => SiblingOK
  BY DEF IInv
<1>2. QED
  BY <1>1, Invariant, PTL

-----------------------------------------------------------------------------
(* Replies: ReplyPath is no part of the invariant but follows from it. *)

\* An endpoint belongs to one connection.
LEMMA OneConnection ==
    ASSUME IInv, NEW e \in Endpoints,
           NEW i \in DOMAIN connections, NEW j \in DOMAIN connections,
           e \in {connections[i].request_endpoint, connections[i].response_endpoint},
           e \in {connections[j].request_endpoint, connections[j].response_endpoint}
    PROVE  i = j
<1>1. e # NULL
  BY ConstantsAssumption DEF ConstantsAssumption
<1>2. endpoint[e].call_id = connections[i].call_id
  BY <1>1 DEF IInv, TableOK
<1>3. endpoint[e].call_id = connections[j].call_id
  BY <1>1 DEF IInv, TableOK
<1>4. QED
  BY <1>2, <1>3 DEF IInv, TableOK

\* The source of a packet is the endpoint the packet matched, whether or not a
\* sibling pointer was followed to it.
LEMMA SourceMatched ==
    ASSUME IInv, NEW ip, NEW port, NEW pair \in FindCounterEndpoint(ip, port)
    PROVE  SrcEndpoint(pair) = pair[1]
<1>1. /\ pair[1] \in Endpoints /\ pair[2] \in Endpoints /\ pair[1] # pair[2]
      /\ InTable(pair[1]) /\ InTable(pair[2])
  BY CounterpartsOfOneCall
<1>2. PICK i \in DOMAIN connections :
            {pair[1], pair[2]} = {connections[i].request_endpoint,
                                  connections[i].response_endpoint}
  BY CounterpartsOfOneCall
<1>3. ASSUME endpoint[pair[2]].sibling # NULL
      PROVE  endpoint[pair[2]].sibling = pair[1]
  <2> DEFINE s == endpoint[pair[2]].sibling
  <2>1. endpoint[pair[2]] # NULL
    BY <1>1, InTableAllocated, NullAssumption DEF NullAssumption
  <2>2. PICK j \in DOMAIN connections :
              /\ {pair[2], s} = {connections[j].request_endpoint,
                                 connections[j].response_endpoint}
              /\ pair[2] # s
    BY <1>1, <1>3, <2>1 DEF IInv, SiblingOK
  <2>3. i = j
    BY <1>1, <1>2, <2>2, OneConnection
  <2>4. QED
    BY <1>1, <1>2, <2>2, <2>3
<1>4. QED
  BY <1>3 DEF SrcEndpoint

\* What find_counter_endpoint returns first is an endpoint at the address, and
\* there is a result as soon as a complete connection has such an endpoint.
LEMMA CounterMatches ==
    ASSUME IInv, NEW ip, NEW port
    PROVE  /\ \A pair \in FindCounterEndpoint(ip, port) :
                 pair = <<pair[1], pair[2]>> /\ Matches(pair[1], ip, port)
           /\ \A one, two \in FindCounterEndpoint(ip, port) : one = two
           /\ \A i \in DOMAIN connections :
                 /\ Complete(connections[i])
                 /\ \/ Matches(connections[i].request_endpoint, ip, port)
                    \/ Matches(connections[i].response_endpoint, ip, port)
                 => FindCounterEndpoint(ip, port) # {}
<1> DEFINE matching == {i \in DOMAIN connections :
                /\ Complete(connections[i])
                /\ \/ Matches(connections[i].request_endpoint, ip, port)
                   \/ Matches(connections[i].response_endpoint, ip, port)}
           m == MatchingConnection(ip, port)
           c == connections[m]
           result == IF Matches(c.request_endpoint, ip, port)
                     THEN <<c.request_endpoint, c.response_endpoint>>
                     ELSE <<c.response_endpoint, c.request_endpoint>>
<1>1. m = FirstOf(matching)
  BY DEF MatchingConnection
<1>2. Len(connections) \in Nat /\ \A j \in matching : j \in 1 .. Len(connections)
  BY DEF IInv, TypeOK
<1>3. (m = 0 <=> matching = {}) /\ (m # 0 => m \in matching)
  <2> HIDE DEF matching
  <2>1. QED
    BY <1>1, <1>2, FirstOfPosition
<1>4. FindCounterEndpoint(ip, port) = IF m = 0 THEN {} ELSE {result}
  BY DEF FindCounterEndpoint
<1>5. m # 0 => \/ Matches(c.request_endpoint, ip, port)
               \/ Matches(c.response_endpoint, ip, port)
  BY <1>3
<1>6. m # 0 => result = <<result[1], result[2]>> /\ Matches(result[1], ip, port)
  <2> HIDE DEF m
  <2>1. QED
    BY <1>5
<1>7. ASSUME NEW i \in DOMAIN connections, Complete(connections[i]),
             \/ Matches(connections[i].request_endpoint, ip, port)
             \/ Matches(connections[i].response_endpoint, ip, port)
      PROVE  m # 0
  <2>1. i \in matching
    BY <1>7
  <2>2. QED
    BY <1>3, <2>1
<1> HIDE DEF m, result, matching
<1>8. QED
  BY <1>4, <1>6, <1>7

\* If no address is at two endpoints, a packet from a stream of an endpoint
\* matches that endpoint and no other.
LEMMA MatchedIsSource ==
    ASSUME IInv, DistinctAddresses, NEW e \in Endpoints, InTable(e),
           NEW i \in DOMAIN endpoint[e].streams,
           NEW port \in {endpoint[e].streams[i].port, GetRtcpPort(endpoint[e].streams[i])},
           NEW pair \in FindCounterEndpoint(endpoint[e].ip, port)
    PROVE  pair[1] = e
<1>1. pair[1] \in Endpoints /\ InTable(pair[1])
  BY CounterpartsOfOneCall
<1>2. Matches(pair[1], endpoint[e].ip, port)
  BY CounterMatches
<1>3. endpoint[pair[1]].ip = endpoint[e].ip /\ ContainPort(endpoint[pair[1]].streams, port)
  BY <1>2 DEF Matches
<1>4. pair[1] # e =>
        /\ ~ContainPort(endpoint[pair[1]].streams, endpoint[e].streams[i].port)
        /\ ~ContainPort(endpoint[pair[1]].streams, GetRtcpPort(endpoint[e].streams[i]))
  BY <1>1, <1>3 DEF DistinctAddresses
<1>5. QED
  BY <1>3, <1>4

\* From there a packet comes back: its counterpart is the endpoint the first
\* packet came from.
LEMMA CounterOfCounter ==
    ASSUME IInv, DistinctAddresses,
           NEW ip, NEW port, NEW pair \in FindCounterEndpoint(ip, port),
           NEW k \in DOMAIN endpoint[pair[2]].streams,
           NEW back \in {endpoint[pair[2]].streams[k].port,
                         GetRtcpPort(endpoint[pair[2]].streams[k])}
    PROVE  FindCounterEndpoint(endpoint[pair[2]].ip, back) = {<<pair[2], pair[1]>>}
<1> DEFINE there == FindCounterEndpoint(endpoint[pair[2]].ip, back)
<1>1. /\ pair[1] \in Endpoints /\ pair[2] \in Endpoints /\ pair[1] # pair[2]
      /\ InTable(pair[1]) /\ InTable(pair[2])
  BY CounterpartsOfOneCall
<1>2. PICK i \in DOMAIN connections :
            {pair[1], pair[2]} = {connections[i].request_endpoint,
                                  connections[i].response_endpoint}
  BY CounterpartsOfOneCall
<1>3. Matches(pair[2], endpoint[pair[2]].ip, back)
  BY DEF Matches, ContainPort
<1>4. Complete(connections[i])
  BY <1>1, <1>2, ConstantsAssumption DEF Complete, ConstantsAssumption
<1>5. there # {}
  BY <1>2, <1>3, <1>4, CounterMatches
<1>6. ASSUME NEW other \in there
      PROVE  other = <<pair[2], pair[1]>>
  <2>1. other[1] = pair[2]
    BY <1>1, MatchedIsSource
  <2>2. /\ other[1] \in Endpoints /\ other[2] \in Endpoints /\ other[1] # other[2]
        /\ other = <<other[1], other[2]>>
    BY CounterpartsOfOneCall, CounterMatches
  <2>3. PICK j \in DOMAIN connections :
              {other[1], other[2]} = {connections[j].request_endpoint,
                                      connections[j].response_endpoint}
    BY CounterpartsOfOneCall
  <2>4. i = j
    BY <1>1, <1>2, <2>1, <2>3, OneConnection
  <2>5. other[2] = pair[1]
    BY <1>1, <1>2, <2>1, <2>2, <2>3, <2>4
  <2>6. QED
    BY <2>1, <2>2, <2>5
<1> HIDE DEF there
<1>7. QED
  BY <1>5, <1>6 DEF there

\* The port from which an endpoint sends a packet of a kind on a stream.
PortOf(s, kind) == IF kind = "rtp" THEN s.port ELSE GetRtcpPort(s)

\* The same, of the first stream of a media type, cast to unsigned short.
FirstPortOf(ss, kind, media) ==
    IF kind = "rtp" THEN GetStreamPort(ss, media) ELSE GetStreamRtcpPort(ss, media)

\* find_dst_port looks up the destination's first stream of the media type the
\* packet was sent on, if streams of different types do not share a port.
LEMMA DstPortOfMedia ==
    ASSUME IInv, NEW src \in Endpoints, InTable(src), NEW dst,
           DistinctPorts(endpoint[src].streams),
           NEW i \in DOMAIN endpoint[src].streams,
           NEW p, p.kind \in {"rtp", "rtcp"},
           p.port = PortOf(endpoint[src].streams[i], p.kind)
    PROVE  FindDstPort(src, dst, p) =
             FirstPortOf(endpoint[dst].streams, p.kind, endpoint[src].streams[i].media)
<1> DEFINE ss  == endpoint[src].streams
           one == {j \in DOMAIN ss : p.port \in {ss[j].port, GetRtcpPort(ss[j])}}
           two == {j \in DOMAIN ss : p.port = GetRtcpPort(ss[j])}
           k   == SourceStream(src, p)
<1>1. ss \in Seq(Stream)
  BY InTableAllocated DEF Endpoint
<1>2. Len(ss) \in Nat /\ (\A j \in one : j \in 1 .. Len(ss))
      /\ \A j \in two : j \in 1 .. Len(ss)
  BY <1>1
<1>3. k = IF p.kind = "rtp" THEN FirstOf(one) ELSE FirstOf(two)
  BY DEF SourceStream, GetStreamType, GetStreamTypeRtcp
<1>4. IF p.kind = "rtp" THEN i \in one ELSE i \in two
  BY DEF PortOf
<1>5. k # 0 /\ IF p.kind = "rtp" THEN k \in one ELSE k \in two
  <2> HIDE DEF one, two, k, ss
  <2>1. QED
    BY <1>2, <1>3, <1>4, FirstOfPosition
<1>6. k \in DOMAIN ss /\ p.port \in {ss[k].port, GetRtcpPort(ss[k])}
  BY <1>5
<1>7. p.port \in {ss[i].port, GetRtcpPort(ss[i])}
  BY <1>4
<1> HIDE DEF k
<1>8. ss[k].media = ss[i].media
  BY <1>6, <1>7 DEF DistinctPorts
<1> HIDE DEF ss
<1>9. QED
  BY <1>5, <1>8 DEF FindDstPort, FirstPortOf, k, ss

\* ReplyPath follows from the invariant: a packet from stream i of endpoint e
\* matches e and goes to its counterpart f, to a port of a stream k of f; a packet
\* from there matches f, goes to e, and has the media type of i.
LEMMA RepliesComeBack == IInv => ReplyPath
<1> SUFFICES ASSUME IInv, DistinctAddresses,
                    \A e \in Endpoints : InTable(e) => DistinctPorts(endpoint[e].streams),
                    NEW e \in Endpoints, InTable(e), NEW kind \in {"rtp", "rtcp"},
                    NEW i \in DOMAIN endpoint[e].streams
             PROVE  LET s    == endpoint[e].streams[i]
                        here == [ip |-> endpoint[e].ip, kind |-> kind, tag |-> NULL,
                                 port |-> PortOf(s, kind)]
                    IN  \A out \in Destination(here) :
                          Destination([here EXCEPT !.ip = out[1], !.port = out[2]]) =
                            {<<endpoint[e].ip,
                               FirstPortOf(endpoint[e].streams, kind, s.media)>>}
  BY DEF ReplyPath, PortOf, FirstPortOf
<1> DEFINE s    == endpoint[e].streams[i]
           here == [ip |-> endpoint[e].ip, kind |-> kind, tag |-> NULL,
                    port |-> PortOf(s, kind)]
<1> SUFFICES ASSUME NEW out \in Destination(here)
             PROVE  Destination([here EXCEPT !.ip = out[1], !.port = out[2]]) =
                      {<<endpoint[e].ip, FirstPortOf(endpoint[e].streams, kind, s.media)>>}
  OBVIOUS
<1>1. PICK pair \in FindCounterEndpoint(endpoint[e].ip, PortOf(s, kind)) :
        /\ out = <<endpoint[pair[2]].ip, FindDstPort(SrcEndpoint(pair), pair[2], here)>>
        /\ out[2] # -1
  <2>1. PICK pair \in FindCounterEndpoint(here.ip, here.port) :
          /\ out = <<endpoint[pair[2]].ip, FindDstPort(SrcEndpoint(pair), pair[2], here)>>
          /\ out \notin Ips \X {-1}
    BY DEF Destination
  <2>2. endpoint[pair[2]].ip \in Ips
    BY CounterpartsOfOneCall, InTableAllocated DEF Endpoint
  <2>3. QED
    BY <2>1, <2>2
<1> DEFINE f == pair[2]
<1>2. PortOf(s, kind) \in {s.port, GetRtcpPort(s)}
  BY DEF PortOf
<1>3. pair[1] = e /\ SrcEndpoint(pair) = e /\ f \in Endpoints /\ InTable(f) /\ e # f
  BY <1>2, MatchedIsSource, SourceMatched, CounterpartsOfOneCall
<1>4. endpoint[e] \in Endpoint /\ endpoint[f] \in Endpoint
  BY <1>3, InTableAllocated
<1>5. endpoint[e].streams \in Seq(Stream) /\ endpoint[f].streams \in Seq(Stream)
      /\ endpoint[e].ip \in Ips
  BY <1>4 DEF Endpoint
<1>6. out = <<endpoint[f].ip, FirstPortOf(endpoint[f].streams, kind, s.media)>>
  <2>1. here.kind = kind /\ here.port = PortOf(endpoint[e].streams[i], here.kind)
    OBVIOUS
  <2> HIDE DEF here
  <2>2. QED
    BY <1>1, <1>3, <2>1, DstPortOfMedia
<1>7. PICK k \in DOMAIN endpoint[f].streams :
        /\ endpoint[f].streams[k].media = s.media
        /\ out[2] = PortOf(endpoint[f].streams[k], kind)
  <2>1. \A j \in DOMAIN endpoint[f].streams : GetRtcpPort(endpoint[f].streams[j]) \in Port
    BY <1>3 DEF DistinctPorts
  <2>2. FirstPortOf(endpoint[f].streams, kind, s.media) # -1
    BY <1>1, <1>6
  <2>3. out[2] = FirstPortOf(endpoint[f].streams, kind, s.media)
    BY <1>6
  <2> HIDE DEF s, f
  <2>4. PICK k \in DOMAIN endpoint[f].streams :
          /\ endpoint[f].streams[k].media = s.media
          /\ GetStreamPort(endpoint[f].streams, s.media) = endpoint[f].streams[k].port
          /\ GetStreamRtcpPort(endpoint[f].streams, s.media)
               = GetRtcpPort(endpoint[f].streams[k])
    BY <1>5, <2>1, <2>2, PortsOfMedia DEF FirstPortOf
  <2>5. out[2] = PortOf(endpoint[f].streams[k], kind)
    BY <2>3, <2>4 DEF FirstPortOf, PortOf
  <2>6. QED
    BY <2>4, <2>5
<1> DEFINE back == [here EXCEPT !.ip = out[1], !.port = out[2]]
<1>8. /\ back.ip = endpoint[f].ip /\ back.kind = kind
      /\ back.port = PortOf(endpoint[f].streams[k], kind)
  BY <1>6, <1>7
<1>9. FindCounterEndpoint(back.ip, back.port) = {<<f, e>>}
  <2>1. PortOf(endpoint[f].streams[k], kind)
          \in {endpoint[f].streams[k].port, GetRtcpPort(endpoint[f].streams[k])}
    BY DEF PortOf
  <2>2. \A q \in {endpoint[f].streams[k].port, GetRtcpPort(endpoint[f].streams[k])} :
           FindCounterEndpoint(endpoint[f].ip, q) = {<<f, pair[1]>>}
    BY CounterOfCounter
  <2> HIDE DEF f, back
  <2>3. QED
    BY <1>3, <1>8, <2>1, <2>2
<1>10. SrcEndpoint(<<f, e>>) = f
  <2>1. <<f, e>> \in FindCounterEndpoint(back.ip, back.port)
    BY <1>9
  <2> HIDE DEF back
  <2>2. SrcEndpoint(<<f, e>>) = <<f, e>>[1]
    BY <2>1, SourceMatched
  <2>3. QED
    BY <2>2
<1>11. FindDstPort(f, e, back) = FirstPortOf(endpoint[e].streams, kind, s.media)
  <2> HIDE DEF f, back, s
  <2>1. QED
    BY <1>3, <1>7, <1>8, DstPortOfMedia
<1>12. FirstPortOf(endpoint[e].streams, kind, s.media) # -1
  <2>1. \A j \in DOMAIN endpoint[e].streams : GetRtcpPort(endpoint[e].streams[j]) \in Port
    BY DEF DistinctPorts
  <2>2. \A j \in DOMAIN endpoint[e].streams :
           /\ endpoint[e].streams[j].port # -1
           /\ GetRtcpPort(endpoint[e].streams[j]) # -1
    <3>1. \A j \in DOMAIN endpoint[e].streams : endpoint[e].streams[j] \in Stream
      BY <1>5, ElementOfSeq
    <3>2. QED
      BY <2>1, <3>1, PortIsNat DEF Stream
  <2> HIDE DEF s
  <2>3. \E j \in DOMAIN endpoint[e].streams : endpoint[e].streams[j].media = s.media
    BY DEF s
  <2>4. QED
    BY <1>5, <2>1, <2>2, <2>3, PortsOfMedia DEF FirstPortOf
<1>13. Destination(back) =
         {<<endpoint[e].ip, FirstPortOf(endpoint[e].streams, kind, s.media)>>}
  <2> HIDE DEF back, f, s
  <2>1. Destination(back) = {<<endpoint[e].ip, FindDstPort(f, e, back)>>} \ (Ips \X {-1})
    BY <1>9, <1>10 DEF Destination
  <2>2. QED
    BY <1>11, <1>12, <2>1
<1>14. QED
  BY <1>13

\* Forwarding is symmetric, with any number of calls, endpoints and packets: a
\* reply to where a packet went comes back to the endpoint that sent it, on the
\* first of its streams of that media type (find_counter_endpoint,
\* find_dst_port).
THEOREM RepliesReturn == Spec => []ReplyPath
<1>1. IInv => ReplyPath
  BY RepliesComeBack
<1>2. QED
  BY <1>1, Invariant, PTL

-----------------------------------------------------------------------------
(* add_in_rule makes before it breaks *)

\* find_dst_port as a function of the two lists.
DstPort(from, to, p) ==
    LET i == IF p.kind = "rtp" THEN GetStreamType(from, p.port)
                               ELSE GetStreamTypeRtcp(from, p.port)
    IN  IF i = 0 THEN -1
        ELSE IF p.kind = "rtp" THEN GetStreamPort(to, from[i].media)
                               ELSE GetStreamRtcpPort(to, from[i].media)

\* The list before a rule or after it.
Ruled(two, one, new) == two = one \/ two = AddTemporaryStreams(one, new)

\* A rule for the destination leaves the ports it is sent to, since a copy comes
\* after its stream.
LEMMA RuledPorts ==
    ASSUME NEW one \in Seq(Stream), NEW new \in Port \ {0}, NEW two, Ruled(two, one, new),
           NEW media
    PROVE  /\ GetStreamPort(two, media) = GetStreamPort(one, media)
           /\ GetStreamRtcpPort(two, media) = GetStreamRtcpPort(one, media)
<1>1. CASE two = one
  BY <1>1
<1>2. CASE two = AddTemporaryStreams(one, new)
  <2> DEFINE i == StreamOfMedia(one, media)
             j == StreamOfMedia(two, media)
  <2>1. j = IF i = 0 THEN 0 ELSE 2 * i - 1
    BY <1>2, AddedSearches
  <2>2. i \in 0 .. Len(one)
    <3> DEFINE found == {k \in DOMAIN one : one[k].media = media}
    <3>1. Len(one) \in Nat /\ \A k \in found : k \in 1 .. Len(one)
      OBVIOUS
    <3>2. i = FirstOf(found)
      BY DEF StreamOfMedia
    <3> HIDE DEF found, i
    <3>3. QED
      BY <3>1, <3>2, FirstOfPosition
  <2>3. i # 0 => two[j] = one[i] /\ j # 0
    <3> HIDE DEF i, j
    <3>1. \A k \in 1 .. Len(one) : two[2 * k - 1] = one[k]
      BY <1>2, AddTemporaryPositions
    <3>2. QED
      BY <2>1, <2>2, <3>1
  <2>4. QED
    BY <2>1, <2>3 DEF GetStreamPort, GetStreamRtcpPort
<1>3. QED
  BY <1>1, <1>2 DEF Ruled

\* No flow from another port than the new one is redirected by rules at either end.
LEMMA RuledFlow ==
    ASSUME NEW one \in Seq(Stream), NEW to \in Seq(Stream), NEW new \in Port \ {0},
           NEW two, Ruled(two, one, new), NEW to2, Ruled(to2, to, new),
           NEW p, two # one => p.port # new
    PROVE  DstPort(two, to2, p) = DstPort(one, to, p)
<1> DEFINE find(ss) == IF p.kind = "rtp" THEN GetStreamType(ss, p.port)
                                         ELSE GetStreamTypeRtcp(ss, p.port)
           i == find(one)
           j == find(two)
<1>1. i # 0 => j # 0 /\ two[j].media = one[i].media
  <2>1. CASE two = one
    BY <2>1
  <2>2. CASE two # one
    <3>1. two = AddTemporaryStreams(one, new) /\ p.port # new
      BY <2>2 DEF Ruled
    <3>2. j = IF i = 0 THEN 0 ELSE 2 * i - 1
      BY <3>1, AddedSearches
    <3>3. i \in 0 .. Len(one)
      BY SearchPosition
    <3> HIDE DEF i, j
    <3>4. \A k \in 1 .. Len(one) : two[2 * k - 1] = one[k]
      BY <3>1, AddTemporaryPositions
    <3>5. QED
      BY <3>2, <3>3, <3>4
  <2>3. QED
    BY <2>1, <2>2
<1>2. i = 0 => j = 0
  <2>1. CASE two = one
    BY <2>1
  <2>2. CASE two # one
    <3>1. two = AddTemporaryStreams(one, new) /\ p.port # new
      BY <2>2 DEF Ruled
    <3>2. QED
      BY <3>1, AddedSearches
  <2>3. QED
    BY <2>1, <2>2
<1>3. \A media : /\ GetStreamPort(to2, media) = GetStreamPort(to, media)
                 /\ GetStreamRtcpPort(to2, media) = GetStreamRtcpPort(to, media)
  BY RuledPorts
<1>4. DstPort(one, to, p) =
        IF i = 0 THEN -1 ELSE IF p.kind = "rtp" THEN GetStreamPort(to, one[i].media)
                                                ELSE GetStreamRtcpPort(to, one[i].media)
  BY DEF DstPort
<1>5. DstPort(two, to2, p) =
        IF j = 0 THEN -1 ELSE IF p.kind = "rtp" THEN GetStreamPort(to2, two[j].media)
                                                ELSE GetStreamRtcpPort(to2, two[j].media)
  BY DEF DstPort
<1> HIDE DEF i, j
<1>6. QED
  BY <1>1, <1>2, <1>3, <1>4, <1>5

\* A packet from the new port goes somewhere, if both ends have the same media types.
LEMMA RuledServes ==
    ASSUME NEW one \in Seq(Stream), one # <<>>, NEW to \in Seq(Stream),
           NEW new \in Port \ {0}, NEW to2, Ruled(to2, to, new),
           \A i \in DOMAIN one : \E j \in DOMAIN to : to[j].media = one[i].media,
           NEW p, p.port = new
    PROVE  DstPort(AddTemporaryStreams(one, new), to2, p) # -1
<1> DEFINE two == AddTemporaryStreams(one, new)
           I   == {i \in DOMAIN two : p.port \in {two[i].port, GetRtcpPort(two[i])}}
           J   == {i \in DOMAIN two : p.port = GetRtcpPort(two[i])}
           k   == IF p.kind = "rtp" THEN GetStreamType(two, p.port)
                                    ELSE GetStreamTypeRtcp(two, p.port)
<1>1. /\ two \in Seq(Stream) /\ Len(two) = 2 * Len(one)
      /\ \A i \in 1 .. Len(one) : /\ two[2 * i - 1] = one[i]
                                  /\ two[2 * i] = Copy(one[i], new)
  BY AddTemporaryPositions
<1> HIDE DEF two
<1>2. Len(one) \in Nat /\ 1 \in 1 .. Len(one) /\ DOMAIN two = 1 .. 2 * Len(one)
  BY <1>1
<1>3. 2 \in DOMAIN two /\ GetRtcpPort(two[2]) = new
  <2>1. two[2 * 1] = Copy(one[1], new)
    BY <1>1, <1>2
  <2>2. 2 \in DOMAIN two
    BY <1>2
  <2>3. QED
    BY <2>1, <2>2, CopyPorts
<1>4. 2 \in I /\ 2 \in J
  BY <1>3
<1>5. k \in DOMAIN two
  <2>1. Len(two) \in Nat /\ (\A i \in I : i \in 1 .. Len(two)) /\ (\A i \in J : i \in 1 .. Len(two))
    BY <1>1
  <2>2. k = IF p.kind = "rtp" THEN FirstOf(I) ELSE FirstOf(J)
    BY DEF GetStreamType, GetStreamTypeRtcp
  <2>3. I # {} /\ J # {}
    BY <1>4
  <2>4. I \subseteq DOMAIN two /\ J \subseteq DOMAIN two
    OBVIOUS
  <2> HIDE DEF I, J, k
  <2>5. /\ FirstOf(I) # 0 /\ FirstOf(I) \in I
        /\ FirstOf(J) # 0 /\ FirstOf(J) \in J
    BY <2>1, <2>3, FirstOfPosition
  <2>6. QED
    BY <2>2, <2>4, <2>5
<1>6. DstPort(two, to2, p) =
        IF k = 0 THEN -1 ELSE IF p.kind = "rtp" THEN GetStreamPort(to2, two[k].media)
                                                ELSE GetStreamRtcpPort(to2, two[k].media)
  BY DEF DstPort
<1> HIDE DEF k, I, J
<1>7. PICK i \in 1 .. Len(one) : k = 2 * i - 1 \/ k = 2 * i
  BY <1>2, <1>5, Halves
<1>8. two[k].media = one[i].media
  <2>1. two[2 * i - 1] = one[i] /\ two[2 * i] = Copy(one[i], new)
    BY <1>1
  <2>2. Copy(one[i], new).media = one[i].media
    BY DEF Copy
  <2>3. QED
    BY <1>7, <2>1, <2>2
<1>9. PICK j \in DOMAIN to : to[j].media = two[k].media
  BY <1>2, <1>8
<1>10. GetStreamPort(to, two[k].media) # -1 /\ GetStreamRtcpPort(to, two[k].media) # -1
  <2>1. PICK l \in DOMAIN to :
          /\ GetStreamPort(to, two[k].media) = to[l].port
          /\ GetStreamRtcpPort(to, two[k].media) = U16(GetRtcpPort(to[l]))
    BY <1>9, StreamOfMediaIs
  <2>2. to[l] \in Stream
    BY ElementOfSeq
  <2>3. to[l].port \in Port /\ to[l].rtcp_port \in Port
    BY <2>2 DEF Stream
  <2>4. to[l].port \in Nat /\ to[l].rtcp_port \in Nat /\ to[l].port # -1
    BY <2>3, PortIsNat
  <2>5. GetRtcpPort(to[l]) \in Nat
    BY <2>4 DEF GetRtcpPort
  <2>6. U16(GetRtcpPort(to[l])) # -1
    BY <2>5, U16Type, PortIsNat
  <2>7. QED
    BY <2>1, <2>4, <2>6
<1>11. k # 0
  BY <1>2, <1>5
<1>12. QED
  BY <1>6, <1>10, <1>11, RuledPorts DEF two

\* Destination as a function of the endpoints and of what find_counter_endpoint
\* returned.
DestinationOf(ends, pairs, p) ==
    {LET src == IF ends[pair[2]].sibling = NULL THEN pair[1] ELSE ends[pair[2]].sibling
     IN  <<ends[pair[2]].ip, DstPort(ends[src].streams, ends[pair[2]].streams, p)>>
     : pair \in pairs} \ (Ips \X {-1})

LEMMA DestinationIs ==
    ASSUME NEW p, p.kind \in {"rtp", "rtcp"}
    PROVE  /\ Destination(p) = DestinationOf(endpoint, FindCounterEndpoint(p.ip, p.port), p)
           /\ Destination(p)' = DestinationOf(endpoint', FindCounterEndpoint(p.ip, p.port)', p)
<1>1. CASE p.kind = "rtp"
  BY <1>1, ZenonT(60) DEF Destination, DestinationOf, SrcEndpoint, FindDstPort, SourceStream, DstPort
<1>2. CASE p.kind = "rtcp"
  BY <1>2, ZenonT(60) DEF Destination, DestinationOf, SrcEndpoint, FindDstPort, SourceStream, DstPort
<1>3. QED
  BY <1>1, <1>2

\* What add_in_rule does to the endpoints of the list.
LEMMA RuleEffect ==
    ASSUME IInv, NEW ip, NEW port, NEW new \in Port \ {0}, AddInRule(ip, port, new),
           NEW e \in Endpoints, InTable(e)
    PROVE  /\ endpoint'[e].ip = endpoint[e].ip
           /\ endpoint'[e].sibling = endpoint[e].sibling
           /\ endpoint[e].streams \in Seq(Stream)
           /\ Ruled(endpoint'[e].streams, endpoint[e].streams, new)
           /\ Matches(e, ip, port) =>
                endpoint'[e].streams = AddTemporaryStreams(endpoint[e].streams, new)
           /\ ~Matches(e, ip, port) => endpoint'[e].streams = endpoint[e].streams
<1>1. endpoint[e] \in Endpoint
  BY InTableAllocated
<1>2. endpoint' = [f \in Endpoints |->
             IF f \in Matched(ip, port)
             THEN [endpoint[f] EXCEPT !.streams = AddTemporaryStreams(@, new)]
             ELSE endpoint[f]]
  BY DEF AddInRule
<1>3. e \in Matched(ip, port) <=> Matches(e, ip, port)
  BY DEF Matched
<1>4. endpoint'[e] = IF Matches(e, ip, port)
                     THEN [endpoint[e] EXCEPT !.streams = AddTemporaryStreams(@, new)]
                     ELSE endpoint[e]
  BY <1>2, <1>3
<1>5. endpoint[e].streams \in Seq(Stream)
  BY <1>1 DEF Endpoint
<1>6. CASE Matches(e, ip, port)
  <2>1. /\ endpoint'[e].ip = endpoint[e].ip
        /\ endpoint'[e].sibling = endpoint[e].sibling
        /\ endpoint'[e].streams = AddTemporaryStreams(endpoint[e].streams, new)
    BY <1>1, <1>4, <1>6 DEF Endpoint
  <2>2. QED
    BY <1>5, <1>6, <2>1 DEF Ruled
<1>7. CASE ~Matches(e, ip, port)
  BY <1>4, <1>5, <1>7 DEF Ruled
<1>8. QED
  BY <1>6, <1>7

\* The rule lets the endpoints it touches match the new port and no other one.
LEMMA RuleMatches ==
    ASSUME IInv, NEW ip, NEW port, NEW new \in Port \ {0}, AddInRule(ip, port, new),
           Unused(ip, new), NEW e \in Endpoints, InTable(e)
    PROVE  /\ \A x, q : x # ip \/ q # new => (Matches(e, x, q)' <=> Matches(e, x, q))
           /\ Matches(e, ip, new)' <=> Matches(e, ip, port)
<1> DEFINE one == endpoint[e].streams
           two == endpoint'[e].streams
<1>1. /\ endpoint'[e].ip = endpoint[e].ip /\ one \in Seq(Stream)
      /\ Matches(e, ip, port) => two = AddTemporaryStreams(one, new)
      /\ ~Matches(e, ip, port) => two = one
  BY RuleEffect
<1>2. \A x, q : Matches(e, x, q) <=> endpoint[e].ip = x /\ ContainPort(one, q)
  BY DEF Matches
<1>3. \A x, q : Matches(e, x, q)' <=> endpoint[e].ip = x /\ ContainPort(two, q)
  BY <1>1 DEF Matches
<1>4. endpoint[e].ip = ip => ~ContainPort(one, new)
  BY DEF Unused
<1> HIDE DEF one, two
<1>5. CASE Matches(e, ip, port)
  <2>1. \A q : ContainPort(two, q) <=> ContainPort(one, q) \/ (q = new /\ one # <<>>)
    BY <1>1, <1>5, AddedPorts
  <2>2. endpoint[e].ip = ip /\ one # <<>>
    BY <1>2, <1>5 DEF ContainPort
  <2>3. QED
    BY <1>2, <1>3, <1>5, <2>1, <2>2
<1>6. CASE ~Matches(e, ip, port)
  BY <1>1, <1>2, <1>3, <1>4, <1>6
<1>7. QED
  BY <1>5, <1>6

\* find_counter_endpoint depends on which endpoints match, and on nothing else.
LEMMA CounterDependsOnMatches ==
    ASSUME IInv, connections' = connections, NEW x, NEW q, NEW x2, NEW q2,
           \A e \in Endpoints : InTable(e) => (Matches(e, x2, q2)' <=> Matches(e, x, q))
    PROVE  FindCounterEndpoint(x2, q2)' = FindCounterEndpoint(x, q)
<1> DEFINE one == {i \in DOMAIN connections :
                     /\ Complete(connections[i])
                     /\ \/ Matches(connections[i].request_endpoint, x, q)
                        \/ Matches(connections[i].response_endpoint, x, q)}
           two == {i \in DOMAIN connections :
                     /\ Complete(connections[i])
                     /\ \/ Matches(connections[i].request_endpoint, x2, q2)'
                        \/ Matches(connections[i].response_endpoint, x2, q2)'}
           m   == MatchingConnection(x, q)
<1>1. ASSUME NEW i \in DOMAIN connections, Complete(connections[i])
      PROVE  /\ Matches(connections[i].request_endpoint, x2, q2)'
                  <=> Matches(connections[i].request_endpoint, x, q)
             /\ Matches(connections[i].response_endpoint, x2, q2)'
                  <=> Matches(connections[i].response_endpoint, x, q)
  <2>1. connections[i] \in Connection
    BY ElementOfSeq DEF IInv, TypeOK
  <2>2. connections[i].request_endpoint \in Endpoints
        /\ connections[i].response_endpoint \in Endpoints
    BY <1>1, <2>1 DEF Connection, Complete
  <2>3. InTable(connections[i].request_endpoint) /\ InTable(connections[i].response_endpoint)
    BY DEF InTable
  <2>4. \A e \in Endpoints : InTable(e) => (Matches(e, x2, q2)' <=> Matches(e, x, q))
    OBVIOUS
  <2>5. PICK a \in Endpoints : a = connections[i].request_endpoint
    BY <2>2
  <2>6. PICK b \in Endpoints : b = connections[i].response_endpoint
    BY <2>2
  <2>7. (Matches(a, x2, q2)' <=> Matches(a, x, q)) /\ (Matches(b, x2, q2)' <=> Matches(b, x, q))
    BY <2>3, <2>4, <2>5, <2>6
  <2>8. a = connections'[i].request_endpoint /\ b = connections'[i].response_endpoint
    BY <2>5, <2>6
  <2>9. QED
    BY <2>5, <2>6, <2>7, <2>8 DEF Matches
<1>2. one = two
  BY <1>1
<1>3. m = FirstOf(one) /\ MatchingConnection(x2, q2)' = FirstOf(two)
  BY DEF MatchingConnection, Complete, Matches
<1>4. MatchingConnection(x2, q2)' = m
  BY <1>2, <1>3
<1>5. m # 0 => m \in DOMAIN connections /\ Complete(connections[m])
  <2>1. Len(connections) \in Nat /\ \A i \in one : i \in 1 .. Len(connections)
    BY DEF IInv, TypeOK
  <2>2. m # 0 => m \in one
    <3> HIDE DEF one, m
    <3>1. QED
      BY <1>3, <2>1, FirstOfPosition
  <2>3. QED
    BY <2>2
<1>6. FindCounterEndpoint(x, q) =
        {IF Matches(connections[i].request_endpoint, x, q)
         THEN <<connections[i].request_endpoint, connections[i].response_endpoint>>
         ELSE <<connections[i].response_endpoint, connections[i].request_endpoint>>
         : i \in {m} \ {0}}
  BY DEF FindCounterEndpoint
<1>7. FindCounterEndpoint(x2, q2)' =
        {IF Matches(connections[i].request_endpoint, x2, q2)'
         THEN <<connections[i].request_endpoint, connections[i].response_endpoint>>
         ELSE <<connections[i].response_endpoint, connections[i].request_endpoint>>
         : i \in {m} \ {0}}
  BY <1>4 DEF FindCounterEndpoint, Matches
<1> HIDE DEF m, one, two
<1>8. QED
  BY <1>1, <1>5, <1>6, <1>7

\* A source that was forwarded still is, to the same address.
LEMMA RuleKeepsFlow ==
    ASSUME IInv, NEW ip, NEW port, NEW new \in Port \ {0}, AddInRule(ip, port, new),
           Unused(ip, new), NEW p \in Packets, Destination(p) # {}
    PROVE  Destination(p)' = Destination(p)
<1> DEFINE found == FindCounterEndpoint(p.ip, p.port)
<1>1. p.kind \in {"rtp", "rtcp"}
  BY ConstantsAssumption DEF ConstantsAssumption, Packet
<1>2. \A pair \in found :
        /\ pair[1] \in Endpoints /\ pair[2] \in Endpoints
        /\ InTable(pair[1]) /\ InTable(pair[2])
        /\ SrcEndpoint(pair) = pair[1] /\ Matches(pair[1], p.ip, p.port)
  BY CounterpartsOfOneCall, SourceMatched, CounterMatches
<1>3. found # {}
  BY DEF Destination
<1>4. p.ip # ip \/ p.port # new
  BY <1>2, <1>3 DEF Matches, Unused
<1>5. FindCounterEndpoint(p.ip, p.port)' = found
  <2>1. connections' = connections
    BY DEF AddInRule
  <2>2. \A e \in Endpoints :
          InTable(e) => (Matches(e, p.ip, p.port)' <=> Matches(e, p.ip, p.port))
    BY <1>4, RuleMatches
  <2>3. QED
    BY <2>1, <2>2, CounterDependsOnMatches
<1> DEFINE srcOf(ends, pair) ==
             IF ends[pair[2]].sibling = NULL THEN pair[1] ELSE ends[pair[2]].sibling
<1>6. ASSUME NEW pair \in found
      PROVE  /\ srcOf(endpoint, pair) = pair[1] /\ srcOf(endpoint', pair) = pair[1]
             /\ endpoint'[pair[2]].ip = endpoint[pair[2]].ip
             /\ DstPort(endpoint'[pair[1]].streams, endpoint'[pair[2]].streams, p) =
                  DstPort(endpoint[pair[1]].streams, endpoint[pair[2]].streams, p)
  <2>1. /\ pair[1] \in Endpoints /\ pair[2] \in Endpoints
        /\ InTable(pair[1]) /\ InTable(pair[2])
        /\ SrcEndpoint(pair) = pair[1] /\ Matches(pair[1], p.ip, p.port)
    BY <1>2
  <2>2. /\ endpoint'[pair[2]].ip = endpoint[pair[2]].ip
        /\ endpoint'[pair[2]].sibling = endpoint[pair[2]].sibling
        /\ endpoint[pair[2]].streams \in Seq(Stream)
        /\ Ruled(endpoint'[pair[2]].streams, endpoint[pair[2]].streams, new)
    BY <2>1, RuleEffect
  <2>3. /\ endpoint[pair[1]].streams \in Seq(Stream)
        /\ Ruled(endpoint'[pair[1]].streams, endpoint[pair[1]].streams, new)
        /\ ~Matches(pair[1], ip, port) =>
             endpoint'[pair[1]].streams = endpoint[pair[1]].streams
    BY <2>1, RuleEffect
  <2>4. srcOf(endpoint, pair) = pair[1] /\ srcOf(endpoint', pair) = pair[1]
    BY <2>1, <2>2 DEF SrcEndpoint
  <2>5. endpoint'[pair[1]].streams # endpoint[pair[1]].streams => p.port # new
    BY <1>4, <2>1, <2>3 DEF Matches
  <2>6. DstPort(endpoint'[pair[1]].streams, endpoint'[pair[2]].streams, p) =
          DstPort(endpoint[pair[1]].streams, endpoint[pair[2]].streams, p)
    BY <2>2, <2>3, <2>5, RuledFlow
  <2>7. QED
    BY <2>2, <2>4, <2>6
<1>7. DestinationOf(endpoint', found, p) = DestinationOf(endpoint, found, p)
  <2> HIDE DEF found
  <2>1. QED
    BY <1>6 DEF DestinationOf
<1>8. QED
  BY <1>1, <1>5, <1>7, DestinationIs

\* A packet from the new port is served, if one from the old port was.
LEMMA RuleServesNew ==
    ASSUME IInv, NEW ip, NEW port, NEW new \in Port \ {0}, AddInRule(ip, port, new),
           Unused(ip, new), AnswersFit,
           NEW p \in Packets, p.ip = ip, p.port = port, Destination(p) # {}
    PROVE  Destination([p EXCEPT !.port = new])' # {}
<1> DEFINE moved == [p EXCEPT !.port = new]
           found == FindCounterEndpoint(ip, port)
<1>1. moved.kind \in {"rtp", "rtcp"} /\ moved.ip = ip /\ moved.port = new
  BY ConstantsAssumption DEF ConstantsAssumption, Packet
<1> HIDE DEF moved
<1>2. PICK pair \in found : TRUE
  BY DEF Destination
<1>3. /\ pair[1] \in Endpoints /\ pair[2] \in Endpoints /\ pair[1] # pair[2]
      /\ InTable(pair[1]) /\ InTable(pair[2])
      /\ SrcEndpoint(pair) = pair[1] /\ Matches(pair[1], ip, port)
  BY CounterpartsOfOneCall, SourceMatched, CounterMatches
<1>4. FindCounterEndpoint(moved.ip, moved.port)' = found
  <2>1. connections' = connections
    BY DEF AddInRule
  <2>2. \A e \in Endpoints : InTable(e) => (Matches(e, ip, new)' <=> Matches(e, ip, port))
    BY RuleMatches
  <2>3. FindCounterEndpoint(ip, new)' = found
    BY <2>1, <2>2, CounterDependsOnMatches
  <2>4. QED
    BY <1>1, <2>3
<1> DEFINE one == endpoint[pair[1]].streams
           to  == endpoint[pair[2]].streams
           to2 == endpoint'[pair[2]].streams
<1>5. /\ endpoint'[pair[2]].sibling = endpoint[pair[2]].sibling
      /\ to \in Seq(Stream) /\ Ruled(to2, to, new)
      /\ one \in Seq(Stream)
      /\ endpoint'[pair[1]].streams = AddTemporaryStreams(one, new)
  BY <1>3, RuleEffect
<1>6. (IF endpoint'[pair[2]].sibling = NULL THEN pair[1] ELSE endpoint'[pair[2]].sibling)
        = pair[1]
  BY <1>3, <1>5 DEF SrcEndpoint
<1>7. one # <<>>
  BY <1>3 DEF Matches, ContainPort
<1>8. \A i \in DOMAIN one : \E j \in DOMAIN to : to[j].media = one[i].media
  <2>1. PICK i \in DOMAIN connections :
              {pair[1], pair[2]} = {connections[i].request_endpoint,
                                    connections[i].response_endpoint}
    BY CounterpartsOfOneCall
  <2>2. Complete(connections[i])
    BY <1>3, <2>1, ConstantsAssumption DEF Complete, ConstantsAssumption
  <2>3. MediaOf(pair[1]) = MediaOf(pair[2])
    BY <1>3, <2>1, <2>2 DEF AnswersFit
  <2>4. QED
    BY <2>3 DEF MediaOf
<1>9. DstPort(AddTemporaryStreams(one, new), to2, moved) # -1
  <2> HIDE DEF one, to, to2
  <2>1. QED
    BY <1>1, <1>5, <1>7, <1>8, RuledServes
<1>10. <<endpoint'[pair[2]].ip, DstPort(endpoint'[pair[1]].streams, to2, moved)>>
         \in DestinationOf(endpoint', found, moved)
  <2> HIDE DEF found
  <2>1. QED
    BY <1>2, <1>5, <1>6, <1>9 DEF DestinationOf
<1>11. Destination(moved)' # {}
  BY <1>1, <1>4, <1>10, DestinationIs
<1>12. QED
  BY <1>11 DEF moved

\* A rule breaks no flow and serves the new port wherever it served the old one
\* (add_in_rule, add_temporary_streams, find_dst_port).
THEOREM RulesMakeFirst == Spec => MakeBeforeBreak
<1>1. ASSUME IInv, NEW r \in Rules, AddInRule(r[1], r[2], r[3]), Unused(r[1], r[3]),
             NEW p \in {q \in Packets : Destination(q) # {}}
      PROVE  /\ Destination(p)' = Destination(p)
             /\ p.ip = r[1] /\ p.port = r[2] /\ AnswersFit =>
                  Destination([p EXCEPT !.port = r[3]])' # {}
  <2>1. r[3] \in Port \ {0}
    BY ConstantsAssumption DEF ConstantsAssumption
  <2>2. QED
    BY <1>1, <2>1, RuleKeepsFlow, RuleServesNew
<1>2. IInv /\ [Next]_vars =>
        [\A r \in Rules :
          endpoint' # endpoint /\ AddInRule(r[1], r[2], r[3]) /\ Unused(r[1], r[3])
          => \A p \in {q \in Packets : Destination(q) # {}} :
               /\ Destination(p)' = Destination(p)
               /\ p.ip = r[1] /\ p.port = r[2] /\ AnswersFit =>
                    Destination([p EXCEPT !.port = r[3]])' # {}]_vars
  BY <1>1
<1>3. QED
  BY <1>2, Invariant, PTL DEF Spec, MakeBeforeBreak

-----------------------------------------------------------------------------
(* Tagged packets *)

\* What leaves for a tagged packet: the port is the one get_counter_port found in
\* the call with the tag's Call-ID, the address that of the counterpart.
LEMMA TaggedSends ==
    ASSUME IInv, NEW p, ForwardTagged(p), sent' # NULL
    PROVE  \E pair \in FindCounterEndpoint(p.ip, p.port), i \in DOMAIN connections :
             /\ i = FindConnection(connections, p.tag.call_id)
             /\ sent'.ip = endpoint[pair[2]].ip
             /\ sent'.port = GetCounterPort(connections[i], p.ip, p.tag.media)
             /\ sent'.port # -1
<1> DEFINE i    == FindConnection(connections, p.tag.call_id)
           port == GetCounterPort(connections[i], p.ip, p.tag.media)
<1>1. i \in 0 .. Len(connections)
  BY FindConnectionFinds DEF IInv, TypeOK
<1>2. PICK pair \in FindCounterEndpoint(p.ip, p.port) :
        i # 0 /\ SendTo(pair[2], port, NULL)
  BY DEF ForwardTagged
<1> HIDE DEF i
<1>3. i \in DOMAIN connections
  BY <1>1, <1>2 DEF IInv, TypeOK
<1>4. port # -1 /\ sent'.ip = endpoint[pair[2]].ip /\ sent'.port = port
  BY <1>2 DEF SendTo
<1>5. QED
  BY <1>2, <1>3, <1>4 DEF i

\* get_counter_port looks at the side of the call that is not at the address.
LEMMA CounterSide ==
    ASSUME NEW c, NEW here, NEW there, here # there,
           \/ /\ endpoint[c.request_endpoint].ip = here
              /\ endpoint[c.response_endpoint].ip = there
           \/ /\ endpoint[c.request_endpoint].ip = there
              /\ endpoint[c.response_endpoint].ip = here
    PROVE  /\ CounterOf(c, here) \in {c.request_endpoint, c.response_endpoint}
           /\ endpoint[CounterOf(c, here)].ip = there
<1>1. CASE endpoint[c.response_endpoint].ip = here
  BY <1>1 DEF CounterOf
<1>2. CASE endpoint[c.response_endpoint].ip # here
  BY <1>2 DEF CounterOf
<1>3. QED
  BY <1>1, <1>2

\* The call named in the tag is served, if it is one of those that match.
LEMMA TaggedServes ==
    ASSUME IInv, NEW p, ForwardTagged(p), sent' # NULL,
           NEW named \in CallsAt(p), connections[named].call_id = p.tag.call_id,
           OneFarAddress(p)
    PROVE  ArrivesAt(named, p.tag.media)
<1> PICK there \in Ips \ {p.ip} :
          \A i \in CallsAt(p) : {endpoint[connections[i].request_endpoint].ip,
                                 endpoint[connections[i].response_endpoint].ip}
                                  = {p.ip, there}
  BY DEF OneFarAddress
<1>1. PICK pair \in FindCounterEndpoint(p.ip, p.port), i \in DOMAIN connections :
             /\ i = FindConnection(connections, p.tag.call_id)
             /\ sent'.ip = endpoint[pair[2]].ip
             /\ sent'.port = GetCounterPort(connections[i], p.ip, p.tag.media)
             /\ sent'.port # -1
  BY TaggedSends
<1>2. named \in DOMAIN connections /\ Complete(connections[named])
  BY DEF CallsAt
<1>3. named = i
  <2>1. i # 0 /\ connections \in Seq(Connection)
    BY DEF IInv, TypeOK
  <2>2. connections[i].call_id = p.tag.call_id
    BY <1>1, <2>1, FindConnectionFinds
  <2>3. QED
    BY <1>2, <2>2 DEF IInv, TableOK
<1> DEFINE c == connections[named]
           e == CounterOf(c, p.ip)
<1>4. e \in {c.request_endpoint, c.response_endpoint} /\ endpoint[e].ip = there
  <2>1. {endpoint[c.request_endpoint].ip, endpoint[c.response_endpoint].ip} = {p.ip, there}
    OBVIOUS
  <2> HIDE DEF c
  <2>2. \/ /\ endpoint[c.request_endpoint].ip = p.ip
           /\ endpoint[c.response_endpoint].ip = there
        \/ /\ endpoint[c.request_endpoint].ip = there
           /\ endpoint[c.response_endpoint].ip = p.ip
    BY <2>1
  <2>3. QED
    BY <2>2, CounterSide
<1>5. endpoint[pair[2]].ip = there
  <2>1. PICK m \in DOMAIN connections :
              {pair[1], pair[2]} = {connections[m].request_endpoint,
                                    connections[m].response_endpoint}
    BY CounterpartsOfOneCall
  <2>2. /\ pair[1] \in Endpoints /\ pair[2] \in Endpoints
        /\ Matches(pair[1], p.ip, p.port)
    BY CounterpartsOfOneCall, CounterMatches
  <2>3. m \in CallsAt(p)
    BY <2>1, <2>2, ConstantsAssumption DEF CallsAt, Complete, ConstantsAssumption
  <2>4. {endpoint[pair[1]].ip, endpoint[pair[2]].ip} = {p.ip, there}
    BY <2>1, <2>3
  <2>5. endpoint[pair[1]].ip = p.ip
    BY <2>2 DEF Matches
  <2>6. QED
    BY <2>4, <2>5
<1>6. e \in Endpoints /\ InTable(e)
  <2>1. c \in Connection
    BY <1>2, ElementOfSeq DEF IInv, TypeOK
  <2>2. c.request_endpoint \in Endpoints /\ c.response_endpoint \in Endpoints
    BY <1>2, <2>1 DEF Connection, Complete
  <2>3. QED
    BY <1>2, <1>4, <2>2 DEF InTable
<1>7. sent'.port = GetStreamPort(endpoint[e].streams, p.tag.media)
  <2>1. e # NULL
    BY <1>6, ConstantsAssumption DEF ConstantsAssumption
  <2>2. QED
    BY <1>1, <1>3, <2>1 DEF GetCounterPort
<1> HIDE DEF e
<1>8. endpoint[e].streams \in Seq(Stream)
  BY <1>6, InTableAllocated DEF Endpoint
<1>9. \E k \in DOMAIN endpoint[e].streams :
        /\ endpoint[e].streams[k].media = p.tag.media
        /\ endpoint[e].streams[k].port = sent'.port
  BY <1>1, <1>7, <1>8, StreamOfMediaIs
<1>10. QED
  BY <1>1, <1>4, <1>5, <1>9 DEF ArrivesAt

\* A tagged packet reaches the call its tag names (find_counter_endpoint,
\* get_counter_port), under the conditions TaggedReachesCall states.
THEOREM TagsReachCall == Spec => TaggedReachesCall
<1>1. IInv => \A p \in Packets : sent' # NULL /\ ForwardTagged(p) /\ OneFarAddress(p) =>
          \A i \in CallsAt(p) :
              connections[i].call_id = p.tag.call_id => ArrivesAt(i, p.tag.media)
  BY TaggedServes
<1>2. QED
  BY <1>1, Invariant, PTL DEF Spec, TaggedReachesCall

=============================================================================
