----------------------- MODULE SipSinglePortRefinement -----------------------
(***************************************************************************)
(* The connections list of SipSinglePort implements the abstract table of  *)
(* calls, CallTable: proof for any numbers of calls and endpoints.         *)
(***************************************************************************)
EXTENDS SipSinglePortProofs

Slots == {"request_endpoint", "response_endpoint"}

\* What is remembered of a call is read from the only row that has its Call-ID.
LEMMA EndpointOfRow ==
    ASSUME NEW table \in Seq(Connection), NEW c, NEW slot,
           NEW j \in 1 .. Len(table), table[j].call_id = c,
           \A k \in 1 .. Len(table) : table[k].call_id = c => k = j
    PROVE  EndpointOf(table, c, slot) = table[j][slot]
<1> DEFINE i == FindConnection(table, c)
<1>1. /\ i \in 0 .. Len(table)
      /\ i = 0 => \A k \in 1 .. Len(table) : table[k].call_id # c
      /\ i # 0 => table[i].call_id = c
  BY FindConnectionFinds
<1>2. i = j /\ i # 0
  <2> HIDE DEF i
  <2>1. Len(table) \in Nat
    OBVIOUS
  <2>2. QED
    BY <1>1, <2>1
<1>3. QED
  BY <1>2 DEF EndpointOf

LEMMA EndpointOfNone ==
    ASSUME NEW table \in Seq(Connection), NEW c, NEW slot,
           \A k \in 1 .. Len(table) : table[k].call_id # c
    PROVE  EndpointOf(table, c, slot) = NULL
<1> DEFINE i == FindConnection(table, c)
<1>1. /\ i \in 0 .. Len(table)
      /\ i # 0 => table[i].call_id = c
  BY FindConnectionFinds
<1>2. i = 0
  <2> HIDE DEF i
  <2>1. Len(table) \in Nat
    OBVIOUS
  <2>2. QED
    BY <1>1, <2>1
<1>3. QED
  BY <1>2 DEF EndpointOf

\* An endpoint remembered of a call is allocated: a newly parsed one is not.
LEMMA RememberedIsAllocated ==
    ASSUME IInv, NEW c \in CallIds, NEW slot \in Slots, EndpointOf(connections, c, slot) # NULL
    PROVE  endpoint[EndpointOf(connections, c, slot)] # NULL
<1> DEFINE i == FindConnection(connections, c)
<1>1. /\ i \in 0 .. Len(connections)
      /\ i # 0 => connections[i].call_id = c
  BY FindConnectionFinds DEF IInv, TypeOK
<1>2. i # 0 /\ EndpointOf(connections, c, slot) = connections[i][slot]
  BY DEF EndpointOf
<1>3. i \in DOMAIN connections
  BY <1>1, <1>2 DEF IInv, TypeOK
<1> HIDE DEF i
<1>4. \A e \in {connections[i].request_endpoint, connections[i].response_endpoint} \ {NULL} :
         endpoint[e] # NULL
  BY <1>3 DEF IInv, TableOK
<1>5. QED
  BY <1>2, <1>4 DEF Slots

\* Filling a slot of one call: that call's row is the new one, and what is
\* remembered of the other calls stays.
LEMMA SlotSetCalls ==
    ASSUME IInv, IInv', NEW m \in SipMessages, NEW e, NEW row \in Connection,
           SlotSet(m, e, row), NEW slot \in Slots
    PROVE  LET table == FindOrPush(m.call_id)
               i     == FindConnection(table, m.call_id)
           IN  /\ EndpointOf(connections, m.call_id, slot) = table[i][slot]
               /\ EndpointOf(connections', m.call_id, slot) = row[slot]
               /\ \A c \in CallIds \ {m.call_id} :
                     EndpointOf(connections', c, slot) = EndpointOf(connections, c, slot)
<1> DEFINE table == FindOrPush(m.call_id)
           i     == FindConnection(table, m.call_id)
           n     == Len(connections)
<1>1. m.call_id \in CallIds
  BY ConstantsAssumption DEF ConstantsAssumption, Message
<1>2. /\ table \in Seq(Connection) /\ Len(table) >= n
      /\ i \in 1 .. Len(table) /\ table[i].call_id = m.call_id
      /\ \A j \in 1 .. n : table[j] = connections[j]
      /\ \A j \in 1 .. Len(table) : j > n =>
           /\ j = i /\ table[j] = NewConnection(m.call_id)
           /\ FindConnection(connections, m.call_id) = 0
  BY <1>1, FindOrPushFinds DEF IInv, TypeOK
<1>3. row.call_id = table[i].call_id /\ connections' = [table EXCEPT ![i] = row]
  BY DEF SlotSet
<1> HIDE DEF table, i
<1>4. /\ connections' \in Seq(Connection) /\ Len(connections') = Len(table)
      /\ \A j \in 1 .. Len(table) : connections'[j] = IF j = i THEN row ELSE table[j]
  BY <1>2, <1>3, ExceptSeq
<1>5. /\ connections \in Seq(Connection) /\ n \in Nat /\ Len(table) \in Nat
      /\ DOMAIN connections = 1 .. n /\ DOMAIN connections' = 1 .. Len(table)
  BY <1>2, <1>4 DEF IInv, TypeOK
<1>6. /\ \A j, k \in 1 .. n : connections[j].call_id = connections[k].call_id => j = k
      /\ \A j, k \in 1 .. Len(table) :
            connections'[j].call_id = connections'[k].call_id => j = k
  BY <1>5 DEF IInv, TableOK
<1>7. EndpointOf(connections', m.call_id, slot) = row[slot]
  <2>1. connections'[i] = row /\ row.call_id = m.call_id
    BY <1>2, <1>3, <1>4
  <2>2. \A k \in 1 .. Len(connections') : connections'[k].call_id = m.call_id => k = i
    BY <1>2, <1>4, <1>6, <2>1
  <2>3. EndpointOf(connections', m.call_id, slot) = connections'[i][slot]
    BY <1>2, <1>4, <2>1, <2>2, EndpointOfRow
  <2>4. QED
    BY <2>1, <2>3
<1>8. EndpointOf(connections, m.call_id, slot) = table[i][slot]
  <2>1. CASE i \in 1 .. n
    <3>1. connections[i] = table[i]
      BY <1>2, <2>1
    <3>2. EndpointOf(connections, m.call_id, slot) = connections[i][slot]
      BY <1>2, <1>5, <1>6, <2>1, <3>1, EndpointOfRow
    <3>3. QED
      BY <3>1, <3>2
  <2>2. CASE i \notin 1 .. n
    <3>1. i > n
      BY <1>2, <1>5, <2>2
    <3>2. table[i] = NewConnection(m.call_id) /\ FindConnection(connections, m.call_id) = 0
      BY <1>2, <3>1
    <3>3. table[i][slot] = NULL
      BY <3>2 DEF NewConnection, Slots
    <3>4. EndpointOf(connections, m.call_id, slot) = NULL
      BY <3>2 DEF EndpointOf
    <3>5. QED
      BY <3>3, <3>4
  <2>3. QED
    BY <2>1, <2>2
<1>9. ASSUME NEW c \in CallIds \ {m.call_id}
      PROVE  EndpointOf(connections', c, slot) = EndpointOf(connections, c, slot)
  <2>1. \A j \in 1 .. n : connections[j].call_id = c =>
           /\ j \in 1 .. Len(table) /\ j # i /\ connections'[j] = connections[j]
    BY <1>2, <1>4, <1>5, <1>9
  <2>2. \A j \in 1 .. Len(table) : connections'[j].call_id = c =>
           /\ j \in 1 .. n /\ connections'[j] = connections[j]
    <3>1. ASSUME NEW j \in 1 .. Len(table), connections'[j].call_id = c
          PROVE  j \in 1 .. n /\ connections'[j] = connections[j]
      <4>1. j # i
        BY <1>2, <1>3, <1>4, <1>9, <3>1
      <4>2. j \in 1 .. n
        BY <1>2, <1>5, <4>1
      <4>3. QED
        BY <1>2, <1>4, <4>1, <4>2
    <3>2. QED
      BY <3>1
  <2>3. CASE \E j \in 1 .. n : connections[j].call_id = c
    <3>1. PICK j \in 1 .. n : connections[j].call_id = c
      BY <2>3
    <3>2. EndpointOf(connections, c, slot) = connections[j][slot]
      BY <1>5, <1>6, <3>1, EndpointOfRow
    <3>3. connections'[j] = connections[j] /\ j \in 1 .. Len(connections')
      BY <1>4, <2>1, <3>1
    <3>4. \A k \in 1 .. Len(connections') : connections'[k].call_id = c => k = j
      BY <1>4, <1>6, <3>1, <3>3
    <3>5. EndpointOf(connections', c, slot) = connections'[j][slot]
      BY <1>4, <3>1, <3>3, <3>4, EndpointOfRow
    <3>6. QED
      BY <3>2, <3>3, <3>5
  <2>4. CASE \A j \in 1 .. n : connections[j].call_id # c
    <3>1. EndpointOf(connections, c, slot) = NULL
      BY <1>5, <2>4, EndpointOfNone
    <3>2. \A k \in 1 .. Len(connections') : connections'[k].call_id # c
      BY <1>4, <2>2, <2>4
    <3>3. EndpointOf(connections', c, slot) = NULL
      BY <1>4, <3>2, EndpointOfNone
    <3>4. QED
      BY <3>1, <3>3
  <2>5. QED
    BY <2>3, <2>4
<1>10. QED
  BY <1>7, <1>8, <1>9 DEF table, i

\* remove_connection forgets its call and no other.
LEMMA RemoveConnectionCalls ==
    ASSUME IInv, NEW m \in SipMessages, RemoveConnection(m), NEW slot \in Slots,
           NEW c \in CallIds
    PROVE  EndpointOf(connections', c, slot) =
              IF c = m.call_id THEN NULL ELSE EndpointOf(connections, c, slot)
<1> DEFINE i == FindConnection(connections, m.call_id)
           n == Len(connections)
<1>1. /\ n \in Nat /\ connections \in Seq(Connection) /\ i \in 0 .. n
      /\ i = 0 => \A j \in 1 .. n : connections[j].call_id # m.call_id
      /\ i # 0 => connections[i].call_id = m.call_id
  BY FindConnectionFinds DEF IInv, TypeOK
<1>2. \A j, k \in 1 .. n : connections[j].call_id = connections[k].call_id => j = k
  BY <1>1 DEF IInv, TableOK
<1>3. CASE i = 0
  <2>1. connections' = connections
    BY <1>3 DEF RemoveConnection
  <2>2. c = m.call_id => EndpointOf(connections, c, slot) = NULL
    BY <1>3 DEF EndpointOf
  <2>3. QED
    BY <2>1, <2>2
<1>4. CASE i # 0
  <2>1. connections' = RemoveAt(connections, i)
    BY <1>4 DEF RemoveConnection
  <2> HIDE DEF i
  <2>2. i \in 1 .. n
    BY <1>1, <1>4
  <2>3. /\ connections' \in Seq(Connection) /\ Len(connections') = n - 1
        /\ \A j \in 1 .. n - 1 :
              connections'[j] = IF j < i THEN connections[j] ELSE connections[j + 1]
    BY <1>1, <2>1, <2>2, RemoveAtKeeps
  <2> DEFINE was(j) == IF j < i THEN j ELSE j + 1
  <2>4. \A j \in 1 .. n - 1 : was(j) \in 1 .. n /\ was(j) # i
                              /\ connections'[j] = connections[was(j)]
    BY <1>1, <2>2, <2>3
  <2>5. \A j, k \in 1 .. n - 1 : was(j) = was(k) => j = k
    BY <1>1, <2>2
  <2>6. ASSUME NEW j \in 1 .. n, j # i
        PROVE  \E k \in 1 .. n - 1 : was(k) = j
    <3>1. CASE j < i
      <4>1. j \in 1 .. n - 1 /\ was(j) = j
        BY <1>1, <2>2, <3>1
      <4>2. QED
        BY <4>1
    <3>2. CASE j > i
      <4>1. j - 1 \in 1 .. n - 1 /\ was(j - 1) = j
        BY <1>1, <2>2, <3>2
      <4>2. QED
        BY <4>1
    <3>3. QED
      BY <1>1, <2>2, <2>6, <3>1, <3>2
  <2> HIDE DEF was
  <2>7. CASE c = m.call_id
    <3>1. \A k \in 1 .. n - 1 : connections'[k].call_id # c
      BY <1>1, <1>2, <1>4, <2>2, <2>4, <2>7
    <3>2. EndpointOf(connections', c, slot) = NULL
      BY <2>3, <3>1, EndpointOfNone
    <3>3. QED
      BY <2>7, <3>2
  <2>8. CASE c # m.call_id /\ \E j \in 1 .. n : connections[j].call_id = c
    <3>1. PICK j \in 1 .. n : connections[j].call_id = c
      BY <2>8
    <3>2. j # i
      BY <1>1, <1>4, <2>8, <3>1
    <3>3. PICK k \in 1 .. n - 1 : was(k) = j
      BY <2>6, <3>2
    <3>4. connections'[k] = connections[j]
      BY <2>4, <3>3
    <3>5. \A l \in 1 .. n - 1 : connections'[l].call_id = c => l = k
      BY <1>2, <2>4, <2>5, <3>1, <3>3, SMTT(40)
    <3>6. EndpointOf(connections', c, slot) = connections'[k][slot]
      BY <2>3, <3>1, <3>4, <3>5, EndpointOfRow
    <3>7. EndpointOf(connections, c, slot) = connections[j][slot]
      BY <1>1, <1>2, <3>1, EndpointOfRow
    <3>8. QED
      BY <2>8, <3>4, <3>6, <3>7
  <2>9. CASE c # m.call_id /\ \A j \in 1 .. n : connections[j].call_id # c
    <3>1. \A k \in 1 .. n - 1 : connections'[k].call_id # c
      BY <2>4, <2>9
    <3>2. EndpointOf(connections', c, slot) = NULL
      BY <2>3, <3>1, EndpointOfNone
    <3>3. EndpointOf(connections, c, slot) = NULL
      BY <1>1, <2>9, EndpointOfNone
    <3>4. QED
      BY <2>9, <3>2, <3>3
  <2>10. QED
    BY <2>7, <2>8, <2>9
<1>5. QED
  BY <1>3, <1>4

-----------------------------------------------------------------------------
(* The refinement *)

View(table, slot) == [c \in CallIds |-> EndpointOf(table, c, slot)]

\* SetRequestEndpoint is Offer.
LEMMA SetRequestEndpointOffers ==
    ASSUME IInv, IInv', NEW m \in SipMessages, NEW e \in Endpoints, SetRequestEndpoint(m, e)
    PROVE  \E c \in CallIds : Calls!Offer(c, e)
<1> DEFINE table == FindOrPush(m.call_id)
           i     == FindConnection(table, m.call_id)
           row   == [table[i] EXCEPT !.request_endpoint = e]
<1>1. m.call_id \in CallIds
  BY ConstantsAssumption DEF ConstantsAssumption, Message
<1>2. table \in Seq(Connection) /\ i \in 1 .. Len(table)
  BY <1>1, FindOrPushFinds DEF IInv, TypeOK
<1>3. table[i].request_endpoint = NULL /\ connections' = [table EXCEPT ![i] = row]
  BY DEF SetRequestEndpoint
<1>4. row \in Connection /\ row.call_id = table[i].call_id
      /\ row["request_endpoint"] = e /\ row["response_endpoint"] = table[i]["response_endpoint"]
  <2> HIDE DEF table, i
  <2>1. table[i] \in Connection
    BY <1>2, ElementOfSeq
  <2>2. QED
    BY <2>1 DEF Connection
<1>5. SlotSet(m, e, row)
  BY <1>3, <1>4 DEF SlotSet
<1>6. e \notin Calls!InUse
  <2>1. endpoint[e] = NULL /\ e # NULL
    BY ConstantsAssumption DEF SetRequestEndpoint, Parses, ConstantsAssumption
  <2>2. \A c \in CallIds : /\ EndpointOf(connections, c, "request_endpoint") # e
                           /\ EndpointOf(connections, c, "response_endpoint") # e
    BY <2>1, RememberedIsAllocated DEF Slots
  <2>3. QED
    BY <2>2 DEF Calls!InUse
<1> HIDE DEF row, table, i
<1>7. /\ EndpointOf(connections, m.call_id, "request_endpoint") = NULL
      /\ EndpointOf(connections', m.call_id, "request_endpoint") = e
      /\ EndpointOf(connections', m.call_id, "response_endpoint") =
            EndpointOf(connections, m.call_id, "response_endpoint")
      /\ \A c \in CallIds \ {m.call_id}, slot \in Slots :
            EndpointOf(connections', c, slot) = EndpointOf(connections, c, slot)
  BY <1>3, <1>4, <1>5, SlotSetCalls DEF table, i, Slots
<1>8. View(connections', "request_endpoint") =
         [View(connections, "request_endpoint") EXCEPT ![m.call_id] = e]
  BY <1>1, <1>7 DEF View, Slots
<1>9. View(connections', "response_endpoint") = View(connections, "response_endpoint")
  BY <1>1, <1>7 DEF View, Slots
<1>10. Calls!Offer(m.call_id, e)
  BY <1>1, <1>6, <1>7, <1>8, <1>9 DEF Calls!Offer, View
<1>11. QED
  BY <1>1, <1>10

\* SetResponseEndpoint is Answer.
LEMMA SetResponseEndpointAnswers ==
    ASSUME IInv, IInv', NEW m \in SipMessages, NEW e \in Endpoints, SetResponseEndpoint(m, e)
    PROVE  \E c \in CallIds : Calls!Answer(c, e)
<1> DEFINE table == FindOrPush(m.call_id)
           i     == FindConnection(table, m.call_id)
           row   == [table[i] EXCEPT !.response_endpoint = e]
<1>1. m.call_id \in CallIds
  BY ConstantsAssumption DEF ConstantsAssumption, Message
<1>2. table \in Seq(Connection) /\ i \in 1 .. Len(table)
  BY <1>1, FindOrPushFinds DEF IInv, TypeOK
<1>3. table[i].response_endpoint = NULL /\ connections' = [table EXCEPT ![i] = row]
  BY DEF SetResponseEndpoint
<1>4. row \in Connection /\ row.call_id = table[i].call_id
      /\ row["response_endpoint"] = e /\ row["request_endpoint"] = table[i]["request_endpoint"]
  <2> HIDE DEF table, i
  <2>1. table[i] \in Connection
    BY <1>2, ElementOfSeq
  <2>2. QED
    BY <2>1 DEF Connection
<1>5. SlotSet(m, e, row)
  BY <1>3, <1>4 DEF SlotSet
<1>6. e \notin Calls!InUse
  <2>1. endpoint[e] = NULL /\ e # NULL
    BY ConstantsAssumption DEF SetResponseEndpoint, Parses, ConstantsAssumption
  <2>2. \A c \in CallIds : /\ EndpointOf(connections, c, "request_endpoint") # e
                           /\ EndpointOf(connections, c, "response_endpoint") # e
    BY <2>1, RememberedIsAllocated DEF Slots
  <2>3. QED
    BY <2>2 DEF Calls!InUse
<1> HIDE DEF row, table, i
<1>7. /\ EndpointOf(connections, m.call_id, "response_endpoint") = NULL
      /\ EndpointOf(connections', m.call_id, "response_endpoint") = e
      /\ EndpointOf(connections', m.call_id, "request_endpoint") =
            EndpointOf(connections, m.call_id, "request_endpoint")
      /\ \A c \in CallIds \ {m.call_id}, slot \in Slots :
            EndpointOf(connections', c, slot) = EndpointOf(connections, c, slot)
  BY <1>3, <1>4, <1>5, SlotSetCalls DEF table, i, Slots
<1>8. View(connections', "response_endpoint") =
         [View(connections, "response_endpoint") EXCEPT ![m.call_id] = e]
  BY <1>1, <1>7 DEF View, Slots
<1>9. View(connections', "request_endpoint") = View(connections, "request_endpoint")
  BY <1>1, <1>7 DEF View, Slots
<1>10. Calls!Answer(m.call_id, e)
  BY <1>1, <1>6, <1>7, <1>8, <1>9 DEF Calls!Answer, View
<1>11. QED
  BY <1>1, <1>10

\* RemoveConnection is Forget, which may find nothing to forget.
LEMMA RemoveConnectionForgets ==
    ASSUME IInv, NEW m \in SipMessages, RemoveConnection(m)
    PROVE  \E c \in CallIds : Calls!Forget(c)
<1>1. m.call_id \in CallIds
  BY ConstantsAssumption DEF ConstantsAssumption, Message
<1>2. \A slot \in Slots, c \in CallIds : EndpointOf(connections', c, slot) =
         IF c = m.call_id THEN NULL ELSE EndpointOf(connections, c, slot)
  BY RemoveConnectionCalls
<1>3. \A slot \in Slots : View(connections', slot) =
         [View(connections, slot) EXCEPT ![m.call_id] = NULL]
  BY <1>1, <1>2 DEF View
<1>4. Calls!Forget(m.call_id)
  BY <1>1, <1>3 DEF Calls!Forget, View, Slots
<1>5. QED
  BY <1>1, <1>4

LEMMA RefinementInit == Init => Calls!Init
<1> SUFFICES ASSUME Init PROVE Calls!Init
  OBVIOUS
<1>1. connections = <<>> /\ connections \in Seq(Connection) /\ Len(connections) = 0
  BY EmptySeq DEF Init
<1>2. ASSUME NEW c \in CallIds, NEW slot \in Slots
      PROVE  EndpointOf(connections, c, slot) = NULL
  <2>1. \A k \in 1 .. Len(connections) : connections[k].call_id # c
    BY <1>1
  <2>2. QED
    BY <1>1, <2>1, EndpointOfNone
<1>3. QED
  BY <1>2 DEF Calls!Init, Slots

LEMMA RefinementNext == IInv /\ IInv' /\ [Next]_vars => [Calls!Next]_Calls!callVars
<1> SUFFICES ASSUME IInv, IInv', [Next]_vars PROVE [Calls!Next]_Calls!callVars
  OBVIOUS
<1>1. ASSUME NEW m \in SipMessages, NEW e \in Endpoints, SetRequestEndpoint(m, e)
      PROVE  Calls!Next
  BY <1>1, SetRequestEndpointOffers DEF Calls!Next
<1>2. ASSUME NEW m \in SipMessages, NEW e \in Endpoints, SetResponseEndpoint(m, e)
      PROVE  Calls!Next
  BY <1>2, SetResponseEndpointAnswers DEF Calls!Next
<1>3. ASSUME NEW m \in SipMessages, RemoveConnection(m)
      PROVE  Calls!Next
  BY <1>3, RemoveConnectionForgets DEF Calls!Next
<1>4. connections' = connections => UNCHANGED Calls!callVars
  BY DEF Calls!callVars
<1>5. ASSUME NEW m \in SipMessages, NEW e \in Endpoints, LeakEndpoint(m, e)
      PROVE  connections' = connections
  BY <1>5 DEF LeakEndpoint
<1>6. ASSUME NEW p \in Packets, DropPacket(p) \/ ForwardPacket(p) \/ ForwardTagged(p)
      PROVE  connections' = connections
  BY <1>6 DEF DropPacket, ForwardPacket, ForwardTagged
<1>7. ASSUME NEW r \in Rules,
             \/ AddInRule(r[1], r[2], r[3]) \/ RemoveInRule(r[1], r[2])
             \/ \E s \in Sockets : ChangeSocket(r[1], r[2], s)
      PROVE  connections' = connections
  BY <1>7 DEF AddInRule, RemoveInRule, ChangeSocket
<1>8. UNCHANGED vars => connections' = connections
  BY DEF vars
<1>9. QED
  BY <1>1, <1>2, <1>3, <1>4, <1>5, <1>6, <1>7, <1>8 DEF Next, Receive, Script

\* What the module remembers of the calls is the abstract table: the first offer
\* and the first answer of a call, until a message ends it; retransmissions, RTP
\* and the script functions change none of it, and no endpoint serves two calls
\* (set_endpoint in msg_received, remove_connection).
THEOREM ListImplementsCalls == Spec => ImplementsCalls
<1>1. Init => Calls!Init
  BY RefinementInit
<1>2. IInv /\ IInv' /\ [Next]_vars => [Calls!Next]_Calls!callVars
  BY RefinementNext
<1>3. QED
  BY <1>1, <1>2, Invariant, PTL DEF Spec, ImplementsCalls, Calls!Spec

=============================================================================
