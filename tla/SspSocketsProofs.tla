-------------------------- MODULE SspSocketsProofs ---------------------------
(***************************************************************************)
(* The counts of the socket list are the numbers of clients, a             *)
(* notification names the least used socket, and a report makes the server *)
(* notify with reason, for every number of workers, clients, sockets and   *)
(* reports.                                                                *)
(***************************************************************************)
EXTENDS SspSockets, FiniteSetTheorems, TLAPS

\* The search never leaves the list.
InList == \A w \in Workers :
    job[w].pc = "walk" => job[w].current \in DOMAIN Sockets /\ job[w].least \in DOMAIN Sockets

TypeInv == TypeOK /\ InList

-----------------------------------------------------------------------------
(* Type correctness *)

LEMMA IdleType == Idle \in Job /\ Idle.pc = "idle" /\ Idle.client = NULL
<1>1. Len(Sockets) \in Nat
  BY SocketsAssumption
<1>2. QED
  BY <1>1 DEF Idle, Job

LEMMA BooleansType ==
    ASSUME fault \in BOOLEAN, regular \in BOOLEAN, [Next]_vars
    PROVE  fault' \in BOOLEAN /\ regular' \in BOOLEAN
<1>1. CASE UNCHANGED vars
  BY <1>1 DEF vars
<1>2. ASSUME NEW w \in Workers, NEW c \in Clients, NEW s \in SocketSet,
             SubscribeClient(w, c, s)
      PROVE  fault' \in BOOLEAN /\ regular' \in BOOLEAN
  BY <1>2, Zenon DEF SubscribeClient
<1>3. ASSUME NEW w \in Workers, NEW c \in Clients, NEW s \in SocketSet,
             NEW t \in SocketSet, ChangeSocket(w, c, s, t)
      PROVE  fault' \in BOOLEAN /\ regular' \in BOOLEAN
  BY <1>3, Zenon DEF ChangeSocket
<1>4. ASSUME NEW w \in Workers, NEW r \in Reports, NotifyStarts(w, r) \/ ReportPasses(w, r)
      PROVE  fault' \in BOOLEAN /\ regular' \in BOOLEAN
  <2>1. CASE NotifyStarts(w, r)
    <3>1. fault' = (head \in {NULL, Wild}) /\ regular' = regular
      BY <2>1, Zenon DEF NotifyStarts
    <3>2. QED
      BY <3>1
  <2>2. CASE ReportPasses(w, r)
    BY <2>2, Zenon DEF ReportPasses
  <2>3. QED
    BY <1>4, <2>1, <2>2
<1>5. ASSUME NEW w \in Workers, Publish(w) \/ FindSocketItem(w)
      PROVE  fault' \in BOOLEAN /\ regular' \in BOOLEAN
  BY <1>5, Zenon DEF Publish, FindSocketItem
<1>6. ASSUME NEW w \in Workers,
             DecrementClientsCount(w) \/ IncrementClientsCount(w) \/ Walk(w)
      PROVE  fault' \in BOOLEAN /\ regular' \in BOOLEAN
  BY <1>6, Zenon DEF DecrementClientsCount, IncrementClientsCount, Walk
<1>7. QED
  BY <1>1, <1>2, <1>3, <1>4, <1>5, <1>6, Zenon DEF Next, Start, Step

LEMMA CountsType ==
    ASSUME NEW W, NEW S, NEW f \in [W -> [S -> Int]], NEW v, NEW s, NEW d \in Int
    PROVE  [f EXCEPT ![v][s] = f[v][s] + d] \in [W -> [S -> Int]]
<1>1. CASE v \in W
  <2>1. f[v] \in [S -> Int]
    BY <1>1
  <2>2. [f[v] EXCEPT ![s] = f[v][s] + d] \in [S -> Int]
    <3>1. CASE s \in S
      <4>1. f[v][s] + d \in Int
        BY <2>1, <3>1
      <4>2. QED
        BY <2>1, <4>1
    <3>2. CASE s \notin S
      BY <2>1, <3>2
    <3>3. QED
      BY <3>1, <3>2
  <2>3. QED
    BY <1>1, <2>2
<1>2. CASE v \notin W
  BY <1>2
<1>3. QED
  BY <1>1, <1>2

LEMMA InitType == Init => TypeInv
<1> SUFFICES ASSUME Init PROVE TypeInv
  OBVIOUS
<1>1. fault \in BOOLEAN /\ regular \in BOOLEAN /\ steady \subseteq Workers
  BY DEF Init
<1>2. job \in [Workers -> Job] /\ InList
  BY IdleType DEF Init, InList
<1>3. count \in [Workers -> [SocketSet -> Int]]
  BY DEF Init
<1>4. jobs \in 0 .. MaxJobs
  BY SocketsAssumption DEF Init
<1>5. head \in Workers \cup {NULL, Wild} /\ notified \in SocketSet \cup {NULL}
      /\ at \in [Clients -> SocketSet \cup {NULL}]
  BY DEF Init
<1>6. QED
  BY <1>1, <1>2, <1>3, <1>4, <1>5 DEF TypeInv, TypeOK

LEMMA StartType ==
    ASSUME TypeInv, NEW w \in Workers, Start(w)
    PROVE  TypeInv'
<1> USE DEF TypeInv, TypeOK
<1>1. DOMAIN Sockets = 1 .. Len(Sockets) /\ Len(Sockets) \in Nat /\ Len(Sockets) > 0
  BY SocketsAssumption
<1>2. jobs' \in 0 .. MaxJobs
  <2>1. jobs' = jobs + 1 /\ jobs < MaxJobs
    BY Zenon DEF Start, Starts, SubscribeClient, ChangeSocket, NotifyStarts, ReportPasses
  <2>2. QED
    BY <2>1, SocketsAssumption
<1>3. fault' \in BOOLEAN /\ regular' \in BOOLEAN
  BY BooleansType DEF Next
<1>4. CASE \E r \in Reports : ReportPasses(w, r)
  BY <1>2, <1>3, <1>4 DEF ReportPasses, InList
<1>5. CASE \E r \in Reports : NotifyStarts(w, r)
  <2> DEFINE walk == [Idle EXCEPT !.pc = "walk", !.list = head, !.current = 1, !.least = 1]
  <2>1. walk \in Job /\ walk.current = 1 /\ walk.least = 1
    <3>1. 1 \in 0 .. Len(Sockets)
      BY <1>1
    <3>2. QED
      BY <3>1, IdleType DEF Job
  <2>2. job' = [job EXCEPT ![w] = walk]
    BY <1>5 DEF NotifyStarts
  <2> HIDE DEF walk
  <2>3. job' \in [Workers -> Job] /\ InList'
    BY <1>1, <2>1, <2>2 DEF InList
  <2>4. QED
    BY <1>2, <1>3, <1>5, <2>3 DEF NotifyStarts
<1>6. ASSUME NEW c \in Clients, NEW s \in SocketSet, SubscribeClient(w, c, s)
      PROVE  TypeInv'
  <2> DEFINE pc   == IF head = NULL THEN "publish" ELSE "find new"
             next == [Idle EXCEPT !.client = c, !.to = s, !.pc = pc]
  <2>1. next \in Job /\ next.pc # "walk"
    BY IdleType, ZenonT(40) DEF Job
  <2>2. job' = [job EXCEPT ![w] = next]
    BY <1>6 DEF SubscribeClient
  <2> HIDE DEF next
  <2>3. job' \in [Workers -> Job] /\ InList'
    BY <2>1, <2>2 DEF InList
  <2>4. QED
    BY <1>2, <1>3, <1>6, <2>3 DEF SubscribeClient
<1>7. ASSUME NEW c \in Clients, NEW s \in SocketSet, NEW t \in SocketSet,
             ChangeSocket(w, c, s, t)
      PROVE  TypeInv'
  <2> DEFINE next == [Idle EXCEPT !.client = c, !.from = s, !.to = t, !.pc = "find old"]
  <2>1. next \in Job /\ next.pc # "walk"
    BY IdleType DEF Job
  <2>2. job' = [job EXCEPT ![w] = next]
    BY <1>7 DEF ChangeSocket
  <2> HIDE DEF next
  <2>3. job' \in [Workers -> Job] /\ InList'
    BY <2>1, <2>2 DEF InList
  <2>4. QED
    BY <1>2, <1>3, <1>7, <2>3 DEF ChangeSocket
<1>8. QED
  BY <1>4, <1>5, <1>6, <1>7 DEF Start

LEMMA StepType ==
    ASSUME TypeInv, NEW w \in Workers, Step(w)
    PROVE  TypeInv'
<1> USE DEF TypeInv, TypeOK
<1>1. DOMAIN Sockets = 1 .. Len(Sockets) /\ Len(Sockets) \in Nat /\ Len(Sockets) > 0
  BY SocketsAssumption
<1>2. fault' \in BOOLEAN /\ regular' \in BOOLEAN
  BY BooleansType DEF Next
<1>3. job[w] \in Job
  OBVIOUS
<1>4. CASE Publish(w)
  <2>1. [job[w] EXCEPT !.pc = "find new"] \in Job
    BY <1>3 DEF Job
  <2>2. [job[w] EXCEPT !.pc = "find new"].pc = "find new"
    BY <1>3 DEF Job
  <2>3. job' \in [Workers -> Job] /\ InList'
    BY <1>4, <2>1, <2>2 DEF Publish, InList
  <2>4. QED
    BY <1>2, <1>4, <2>3 DEF Publish
<1>5. CASE FindSocketItem(w)
  <2>1. job'[w] \in Job /\ job'[w].pc # "walk" /\ job' = [job EXCEPT ![w] = job'[w]]
    <3>1. job[w].pc \in {"find old", "find new"}
      BY <1>5 DEF FindSocketItem
    <3>2. CASE head # NULL
      <4> DEFINE pc   == IF job[w].pc = "find old" THEN "old" ELSE "new"
                 next == [job[w] EXCEPT !.list = head, !.pc = pc]
      <4>1. job' = [job EXCEPT ![w] = next]
        BY <1>5, <3>1, <3>2, Zenon DEF FindSocketItem
      <4>2. next \in Job /\ next.pc = pc
        BY <1>3 DEF Job
      <4> HIDE DEF next
      <4>3. QED
        BY <4>1, <4>2
    <3>3. CASE head = NULL
      <4>1. [job[w] EXCEPT !.pc = "find new"] \in Job
            /\ [job[w] EXCEPT !.pc = "find new"].pc = "find new"
        BY <1>3 DEF Job
      <4>2. QED
        BY <1>5, <3>1, <3>3, <4>1, IdleType DEF FindSocketItem
    <3>4. QED
      BY <3>2, <3>3
  <2>2. job' \in [Workers -> Job] /\ InList'
    BY <2>1 DEF InList
  <2>3. QED
    BY <1>2, <1>5, <2>2 DEF FindSocketItem
<1>6. CASE DecrementClientsCount(w)
  <2> DEFINE next == [job[w] EXCEPT !.pc = "find new", !.list = NULL]
  <2>1. next \in Job /\ next.pc = "find new" /\ job' = [job EXCEPT ![w] = next]
    BY <1>3, <1>6 DEF DecrementClientsCount, Job
  <2>2. job' \in [Workers -> Job] /\ InList'
    <3> HIDE DEF next
    <3>1. QED
      BY <2>1 DEF InList
  <2>3. at' \in [Clients -> SocketSet \cup {NULL}]
    BY <1>6 DEF DecrementClientsCount
  <2>4. count' \in [Workers -> [SocketSet -> Int]]
    <3> DEFINE v == job[w].list
               s == job[w].from
    <3>1. count' = [count EXCEPT ![v][s] = count[v][s] + (-1)]
      BY <1>6 DEF DecrementClientsCount
    <3>2. count \in [Workers -> [SocketSet -> Int]]
      OBVIOUS
    <3> HIDE DEF v, s
    <3>3. [count EXCEPT ![v][s] = count[v][s] + (-1)] \in [Workers -> [SocketSet -> Int]]
      <4>1. (-1) \in Int
        OBVIOUS
      <4>2. QED
        BY <3>2, <4>1, CountsType, Zenon
    <3>4. QED
      BY <3>1, <3>3
  <2>5. QED
    BY <1>2, <1>6, <2>2, <2>3, <2>4 DEF DecrementClientsCount
<1>7. CASE IncrementClientsCount(w)
  <2>1. job' = [job EXCEPT ![w] = Idle]
    BY <1>7 DEF IncrementClientsCount
  <2>2. job' \in [Workers -> Job] /\ InList'
    BY <2>1, IdleType DEF InList
  <2>3. at' \in [Clients -> SocketSet \cup {NULL}]
    <3>1. job[w].to \in SocketSet \cup {NULL}
      BY <1>3 DEF Job
    <3>2. QED
      BY <1>7, <3>1 DEF IncrementClientsCount
  <2>4. count' \in [Workers -> [SocketSet -> Int]]
    <3> DEFINE v == job[w].list
               s == job[w].to
    <3>1. count' = [count EXCEPT ![v][s] = count[v][s] + 1]
      BY <1>7 DEF IncrementClientsCount
    <3>2. count \in [Workers -> [SocketSet -> Int]]
      OBVIOUS
    <3> HIDE DEF v, s
    <3>3. [count EXCEPT ![v][s] = count[v][s] + 1] \in [Workers -> [SocketSet -> Int]]
      <4>1. 1 \in Int
        OBVIOUS
      <4>2. QED
        BY <3>2, <4>1, CountsType, Zenon
    <3>4. QED
      BY <3>1, <3>3
  <2>5. QED
    BY <1>2, <1>7, <2>2, <2>3, <2>4 DEF IncrementClientsCount
<1>8. CASE Walk(w)
  <2>1. job[w].current \in DOMAIN Sockets /\ Least(w) \in DOMAIN Sockets
    BY <1>8 DEF Walk, InList, Least
  <2>2. CASE LastPass(w)
    <3>1. notified' \in SocketSet
      BY <1>8, <2>1, <2>2 DEF Walk, SocketSet
    <3>2. job' \in [Workers -> Job] /\ InList'
      BY <1>8, <2>2, IdleType DEF Walk, InList
    <3>3. QED
      BY <1>2, <1>8, <3>1, <3>2 DEF Walk
  <2>3. CASE ~LastPass(w)
    <3> DEFINE next == [job[w] EXCEPT !.current = job[w].current + 1, !.least = Least(w)]
    <3>1. job[w].current + 1 \in DOMAIN Sockets
      BY <1>1, <2>1, <2>3 DEF LastPass
    <3>2. next \in Job /\ next.current = job[w].current + 1 /\ next.least = Least(w)
      <4>1. job[w].current + 1 \in 0 .. Len(Sockets) /\ Least(w) \in 0 .. Len(Sockets)
        BY <1>1, <2>1, <3>1
      <4>2. QED
        BY <1>3, <4>1 DEF Job
    <3>3. job' = [job EXCEPT ![w] = next]
      BY <1>8, <2>3 DEF Walk
    <3>4. job' \in [Workers -> Job] /\ InList'
      <4> HIDE DEF next
      <4>1. QED
        BY <2>1, <3>1, <3>2, <3>3 DEF InList
    <3>5. QED
      BY <1>2, <1>8, <2>3, <3>4 DEF Walk
  <2>4. QED
    BY <2>2, <2>3
<1>9. QED
  BY <1>4, <1>5, <1>6, <1>7, <1>8 DEF Step

\* Every count, item and socket a handler uses has its type; the search of notify
\* stays inside the list.
THEOREM SocketsTypeCorrect == Spec => []TypeOK
<1>1. TypeInv /\ UNCHANGED vars => TypeInv'
  BY DEF TypeInv, TypeOK, InList, vars
<1>2. TypeInv /\ [Next]_vars => TypeInv'
  BY <1>1, StartType, StepType DEF Next
<1>3. QED
  BY <1>2, InitType, PTL DEF Spec, TypeInv

-----------------------------------------------------------------------------
(* The counts *)

\* Before the first subscription there is nothing to count and nobody counts.
NothingYet ==
    head = NULL =>
        /\ \A v \in Workers, s \in SocketSet : count[v][s] = 0
        /\ \A c \in Clients : at[c] = NULL
        /\ \A w \in Workers : job[w].pc \in {"idle", "publish", "walk"}

\* A worker that handles a request of a client knows where the client is counted,
\* and changes the counts of the list everyone uses.
Handles(w) ==
    LET j == job[w] IN
    /\ j.pc \in {"publish", "find new", "new"} =>
          j.client \in Clients /\ j.to \in SocketSet /\ at[j.client] = NULL
    /\ j.pc \in {"find old", "old"} =>
          /\ j.client \in Clients /\ j.from \in SocketSet /\ j.to \in SocketSet
          /\ at[j.client] = j.from
    /\ j.pc \in {"old", "new"} => j.list = head /\ head # NULL
    /\ j.pc \in {"idle", "walk"} => j.client = NULL
    /\ j.pc = "walk" /\ ~fault => j.list = head /\ head # NULL

\* No two workers handle requests of one client.
Alone(v, w) == job[v].client = job[w].client => v = w \/ job[v].client = NULL

\* What a search has found: the least used of the items before the current one.
Searches(w) ==
    LET j == job[w] IN
    j.pc = "walk" /\ w \in steady /\ ~fault =>
        /\ j.least <= j.current
        /\ \A i \in DOMAIN Sockets : i < j.current =>
              /\ count[head][Sockets[j.least]] <= count[head][Sockets[i]]
              /\ i < j.least => count[head][Sockets[j.least]] < count[head][Sockets[i]]

CountsInv ==
    regular => /\ head # Wild
               /\ NothingYet
               /\ CountsAreClients
               /\ \A w \in Workers : Handles(w) /\ Searches(w)
               /\ \A v, w \in Workers : Alone(v, w)

Inv == TypeInv /\ CountsInv

LEMMA HandlesKept ==
    ASSUME Inv, regular, NEW v \in Workers, job'[v] = job[v],
           UNCHANGED <<head, count, fault, at, steady>>
    PROVE  Handles(v)' /\ Searches(v)'
<1>1. Handles(v)'
  BY DEF Inv, CountsInv, Handles
<1>2. Searches(v)'
  BY DEF Inv, CountsInv, Searches
<1>3. QED
  BY <1>1, <1>2

LEMMA AloneKept ==
    ASSUME Inv, regular, \A v \in Workers : job'[v].client \in {job[v].client, NULL}
    PROVE  \A u, v \in Workers : Alone(u, v)'
<1>1. ASSUME NEW u \in Workers, NEW v \in Workers PROVE Alone(u, v)'
  BY DEF Inv, CountsInv, Alone
<1>2. QED
  BY <1>1

LEMMA CountsInit == Init => CountsInv
<1> SUFFICES ASSUME Init, regular PROVE CountsInv
  BY DEF CountsInv
<1>1. head = NULL
  BY DEF Init
<1>2. NothingYet
  BY IdleType DEF Init, NothingYet
<1>3. CountsAreClients
  BY <1>1 DEF CountsAreClients
<1>4. \A w \in Workers : job[w] = Idle
  BY DEF Init
<1>5. \A w \in Workers : Handles(w) /\ Searches(w)
  BY <1>4, IdleType DEF Handles, Searches
<1>6. \A v, w \in Workers : Alone(v, w)
  BY <1>4 DEF Alone, Idle
<1>7. QED
  BY <1>1, <1>2, <1>3, <1>5, <1>6, SocketsAssumption DEF CountsInv

\* A handler is started, or nothing happens: no count changes.
LEMMA SubscribeCounts ==
    ASSUME Inv, NEW w \in Workers, NEW c \in Clients, NEW s \in SocketSet,
           SubscribeClient(w, c, s)
    PROVE  CountsInv'
<1> SUFFICES ASSUME regular' PROVE CountsInv'
  BY DEF CountsInv
<1> DEFINE pc   == IF head = NULL THEN "publish" ELSE "find new"
           next == [Idle EXCEPT !.client = c, !.to = s, !.pc = pc]
<1>1. regular /\ at[c] = NULL /\ \A v \in Workers : job[v].client # c
  BY Zenon DEF SubscribeClient, Disturbs
<1>2. next.pc = pc /\ next.client = c /\ next.to = s /\ next.list = NULL
  BY DEF Idle
<1>3. job' = [job EXCEPT ![w] = next]
  BY DEF SubscribeClient
<1>4. job'[w] = next /\ \A v \in Workers \ {w} : job'[v] = job[v]
  BY <1>3 DEF Inv, TypeInv, TypeOK
<1>5. UNCHANGED <<head, count, fault, at, steady>>
  BY DEF SubscribeClient
<1> HIDE DEF next
<1>6. NothingYet'
  BY <1>1, <1>2, <1>4, <1>5 DEF Inv, CountsInv, NothingYet
<1>7. CountsAreClients'
  BY <1>1, <1>5 DEF Inv, CountsInv, CountsAreClients, ClientsAt
<1>8. \A v \in Workers : Handles(v)' /\ Searches(v)'
  <2>1. Handles(w)' /\ Searches(w)'
    BY <1>1, <1>2, <1>4, <1>5 DEF Handles, Searches
  <2>2. ASSUME NEW v \in Workers \ {w} PROVE Handles(v)' /\ Searches(v)'
    BY <1>1, <1>4, <1>5, HandlesKept
  <2>3. QED
    BY <2>1, <2>2
<1>9. \A u, v \in Workers : Alone(u, v)'
  BY <1>1, <1>2, <1>4, ZenonT(40) DEF Inv, CountsInv, Alone
<1>10. QED
  BY <1>1, <1>5, <1>6, <1>7, <1>8, <1>9 DEF Inv, CountsInv

LEMMA ChangeCounts ==
    ASSUME Inv, NEW w \in Workers, NEW c \in Clients, NEW s \in SocketSet,
           NEW t \in SocketSet, ChangeSocket(w, c, s, t)
    PROVE  CountsInv'
<1> SUFFICES ASSUME regular' PROVE CountsInv'
  BY DEF CountsInv
<1> DEFINE next == [Idle EXCEPT !.client = c, !.from = s, !.to = t, !.pc = "find old"]
<1>1. regular /\ at[c] = s /\ \A v \in Workers : job[v].client # c
  BY Zenon DEF ChangeSocket, Disturbs
<1>2. next.pc = "find old" /\ next.client = c /\ next.from = s /\ next.to = t
  BY DEF Idle
<1>3. job' = [job EXCEPT ![w] = next]
  BY DEF ChangeSocket
<1>4. job'[w] = next /\ \A v \in Workers \ {w} : job'[v] = job[v]
  BY <1>3 DEF Inv, TypeInv, TypeOK
<1>5. UNCHANGED <<head, count, fault, at, steady>>
  BY DEF ChangeSocket
<1>6. head # NULL
  BY <1>1, SocketsAssumption DEF Inv, CountsInv, NothingYet
<1> HIDE DEF next
<1>7. NothingYet'
  BY <1>5, <1>6 DEF NothingYet
<1>8. CountsAreClients'
  BY <1>1, <1>5 DEF Inv, CountsInv, CountsAreClients, ClientsAt
<1>9. \A v \in Workers : Handles(v)' /\ Searches(v)'
  <2>1. Handles(w)' /\ Searches(w)'
    BY <1>1, <1>2, <1>4, <1>5 DEF Handles, Searches
  <2>2. ASSUME NEW v \in Workers \ {w} PROVE Handles(v)' /\ Searches(v)'
    BY <1>1, <1>4, <1>5, HandlesKept
  <2>3. QED
    BY <2>1, <2>2
<1>10. \A u, v \in Workers : Alone(u, v)'
  BY <1>1, <1>2, <1>4, ZenonT(40) DEF Inv, CountsInv, Alone
<1>11. QED
  BY <1>1, <1>5, <1>7, <1>8, <1>9, <1>10 DEF Inv, CountsInv

LEMMA NotifyCounts ==
    ASSUME Inv, NEW w \in Workers, NEW r \in Reports, NotifyStarts(w, r)
    PROVE  CountsInv'
<1> SUFFICES ASSUME regular' PROVE CountsInv'
  BY DEF CountsInv
<1> DEFINE walk == [Idle EXCEPT !.pc = "walk", !.list = head, !.current = 1, !.least = 1]
<1>1. regular /\ UNCHANGED <<head, count, at>> /\ steady' = steady \cup {w}
  BY Zenon DEF NotifyStarts
<1>2. ~fault /\ (~fault' => head # NULL)
  BY Zenon DEF NotifyStarts, Starts
<1>3. walk.pc = "walk" /\ walk.client = NULL /\ walk.list = head
      /\ walk.current = 1 /\ walk.least = 1
  BY DEF Idle
<1>4. job' = [job EXCEPT ![w] = walk]
  BY DEF NotifyStarts
<1>5. job'[w] = walk /\ \A v \in Workers \ {w} : job'[v] = job[v]
  BY <1>4 DEF Inv, TypeInv, TypeOK
<1> HIDE DEF walk
<1>6. NothingYet'
  BY <1>1, <1>3, <1>5 DEF Inv, CountsInv, NothingYet
<1>7. CountsAreClients'
  BY <1>1 DEF Inv, CountsInv, CountsAreClients, ClientsAt
<1>8. \A v \in Workers : Handles(v)'
  BY <1>1, <1>2, <1>3, <1>5, ZenonT(40) DEF Inv, CountsInv, Handles
<1>9. \A v \in Workers : Searches(v)'
  <2>1. DOMAIN Sockets \subseteq Nat \ {0}
    BY SocketsAssumption
  <2>2. Searches(w)'
    BY <1>3, <1>5, <2>1 DEF Searches
  <2>3. ASSUME NEW v \in Workers \ {w} PROVE Searches(v)'
    BY <1>1, <1>2, <1>5 DEF Inv, CountsInv, Searches
  <2>4. QED
    BY <2>2, <2>3
<1>10. \A u, v \in Workers : Alone(u, v)'
  BY <1>1, <1>3, <1>5 DEF Inv, CountsInv, Alone
<1>11. QED
  BY <1>1, <1>6, <1>7, <1>8, <1>9, <1>10 DEF Inv, CountsInv

LEMMA PublishCounts ==
    ASSUME Inv, NEW w \in Workers, Publish(w)
    PROVE  CountsInv'
<1> SUFFICES ASSUME regular' PROVE CountsInv'
  BY DEF CountsInv
<1> DEFINE next == [job[w] EXCEPT !.pc = "find new"]
<1>1. regular /\ head = NULL /\ ~fault /\ head' = w /\ job[w].pc = "publish"
      /\ UNCHANGED <<count, fault, at, steady>>
  BY Zenon DEF Publish
<1>2. next.pc = "find new" /\ next.client = job[w].client /\ next.to = job[w].to
  BY DEF Inv, TypeInv, TypeOK, Job
<1>3. job' = [job EXCEPT ![w] = next]
  BY DEF Publish
<1>4. job'[w] = next /\ \A v \in Workers \ {w} : job'[v] = job[v]
  BY <1>3 DEF Inv, TypeInv, TypeOK
<1> HIDE DEF next
<1>5. w # NULL /\ w # Wild
  BY SocketsAssumption
<1>6. CountsAreClients'
  <2>1. ASSUME NEW s \in SocketSet PROVE ClientsAt(s)' = {}
    BY <1>1, SocketsAssumption DEF Inv, CountsInv, NothingYet, ClientsAt
  <2>2. QED
    BY <1>1, <2>1, FS_EmptySet DEF Inv, CountsInv, NothingYet, CountsAreClients
<1>7. \A v \in Workers : job[v].pc \in {"idle", "publish"}
  BY <1>1 DEF Inv, CountsInv, NothingYet, Handles
<1>8. \A v \in Workers : Handles(v)' /\ Searches(v)'
  <2>1. Handles(w)' /\ Searches(w)'
    BY <1>1, <1>2, <1>4 DEF Inv, CountsInv, Handles, Searches
  <2>2. ASSUME NEW v \in Workers \ {w} PROVE Handles(v)' /\ Searches(v)'
    BY <1>1, <1>4, <1>7 DEF Inv, CountsInv, Handles, Searches
  <2>3. QED
    BY <2>1, <2>2
<1>9. \A u, v \in Workers : Alone(u, v)'
  BY <1>1, <1>2, <1>4, AloneKept
<1>10. QED
  BY <1>1, <1>5, <1>6, <1>8, <1>9 DEF NothingYet, CountsInv

LEMMA FindCounts ==
    ASSUME Inv, NEW w \in Workers, FindSocketItem(w)
    PROVE  CountsInv'
<1> SUFFICES ASSUME regular' PROVE CountsInv'
  BY DEF CountsInv
<1> DEFINE pc   == IF job[w].pc = "find old" THEN "old" ELSE "new"
           next == [job[w] EXCEPT !.list = head, !.pc = pc]
<1>1. regular /\ ~fault /\ job[w].pc \in {"find old", "find new"}
      /\ UNCHANGED <<head, count, at, steady>>
  BY Zenon DEF FindSocketItem
<1>2. head # NULL /\ head # Wild
  BY <1>1 DEF Inv, CountsInv, NothingYet
<1>3. ~fault'
  BY <1>2 DEF FindSocketItem
<1>4. next.pc = pc /\ next.list = head /\ next.client = job[w].client
      /\ next.from = job[w].from /\ next.to = job[w].to
  BY DEF Inv, TypeInv, TypeOK, Job
<1>5. job' = [job EXCEPT ![w] = next]
  BY <1>1, <1>2, Zenon DEF FindSocketItem
<1>6. job'[w] = next /\ \A v \in Workers \ {w} : job'[v] = job[v]
  BY <1>5 DEF Inv, TypeInv, TypeOK
<1> HIDE DEF next
<1>7. CountsAreClients'
  BY <1>1 DEF Inv, CountsInv, CountsAreClients, ClientsAt
<1>8. \A v \in Workers : Handles(v)'
  <2>1. Handles(w)'
    <3>1. Handles(w)
      BY <1>1 DEF Inv, CountsInv
    <3>2. CASE job[w].pc = "find old"
      BY <1>1, <1>2, <1>4, <1>6, <3>1, <3>2 DEF Handles
    <3>3. CASE job[w].pc = "find new"
      BY <1>1, <1>2, <1>4, <1>6, <3>1, <3>3 DEF Handles
    <3>4. QED
      BY <1>1, <3>2, <3>3
  <2>2. ASSUME NEW v \in Workers \ {w} PROVE Handles(v)'
    BY <1>1, <1>3, <1>6 DEF Inv, CountsInv, Handles
  <2>3. QED
    BY <2>1, <2>2
<1>9. \A v \in Workers : Searches(v)'
  BY <1>1, <1>3, <1>4, <1>6, ZenonT(40) DEF Inv, CountsInv, Searches
<1>10. \A u, v \in Workers : Alone(u, v)'
  BY <1>1, <1>4, <1>6, AloneKept
<1>11. QED
  BY <1>1, <1>2, <1>7, <1>8, <1>9, <1>10 DEF NothingYet, CountsInv

LEMMA DecrementCounts ==
    ASSUME Inv, NEW w \in Workers, DecrementClientsCount(w)
    PROVE  CountsInv'
<1> SUFFICES ASSUME regular' PROVE CountsInv'
  BY DEF CountsInv
<1> DEFINE next == [job[w] EXCEPT !.pc = "find new", !.list = NULL]
<1>1. regular /\ ~fault /\ ~fault' /\ job[w].pc = "old" /\ head' = head /\ steady' = {}
  BY Zenon DEF DecrementClientsCount
<1>0. PICK c \in Clients, s \in SocketSet : job[w].client = c /\ job[w].from = s
  BY <1>1 DEF Inv, CountsInv, Handles
<1>2. job[w].list = head /\ head \in Workers /\ c \in Clients /\ s \in SocketSet
      /\ job[w].to \in SocketSet /\ at[c] = s
  BY <1>1, <1>0 DEF Inv, CountsInv, Handles, TypeInv, TypeOK
<1>3. next.pc = "find new" /\ next.client = c /\ next.to = job[w].to
  BY <1>0 DEF Inv, TypeInv, TypeOK, Job
<1>4. job'[w] = next /\ \A v \in Workers \ {w} : job'[v] = job[v]
  BY DEF DecrementClientsCount, Inv, TypeInv, TypeOK
<1>5. at' = [at EXCEPT ![c] = NULL]
  BY <1>0 DEF DecrementClientsCount
<1>6. count' = [count EXCEPT ![head][s] = @ - 1]
  BY <1>0, <1>2 DEF DecrementClientsCount
<1>7. at'[c] = NULL /\ \A d \in Clients \ {c} : at'[d] = at[d]
  BY <1>2, <1>5 DEF Inv, TypeInv, TypeOK
<1>8. count'[head][s] = count[head][s] - 1
      /\ \A t \in SocketSet \ {s} : count'[head][t] = count[head][t]
  BY <1>2, <1>6 DEF Inv, TypeInv, TypeOK
<1> HIDE DEF next
<1>9. CountsAreClients'
  <2>1. \A t \in SocketSet : count[head][t] = Cardinality(ClientsAt(t))
    BY <1>1, <1>2, SocketsAssumption DEF Inv, CountsInv, CountsAreClients
  <2>2. ClientsAt(s)' = ClientsAt(s) \ {c}
    <3>1. s # NULL
      BY <1>2, SocketsAssumption
    <3>2. \A d \in Clients : at'[d] = s <=> at[d] = s /\ d # c
      BY <1>7, <3>1
    <3>3. QED
      BY <3>2 DEF ClientsAt
  <2>3. \A t \in SocketSet \ {s} : ClientsAt(t)' = ClientsAt(t)
    BY <1>2, <1>7, SocketsAssumption DEF ClientsAt
  <2>4. IsFiniteSet(ClientsAt(s)) /\ c \in ClientsAt(s)
    BY <1>2, SocketsAssumption, FS_Subset DEF ClientsAt
  <2>5. Cardinality(ClientsAt(s)') = Cardinality(ClientsAt(s)) - 1
    BY <2>2, <2>4, FS_RemoveElement
  <2>6. QED
    <3>1. \A t \in SocketSet : count'[head][t] = Cardinality(ClientsAt(t)')
      BY <1>2, <1>8, <2>1, <2>3, <2>5
    <3>2. QED
      BY <1>1, <3>1 DEF CountsAreClients
<1>10. \A v \in Workers : Handles(v)' /\ Searches(v)'
  <2>1. Handles(w)' /\ Searches(w)'
    BY <1>1, <1>2, <1>3, <1>4, <1>7 DEF Handles, Searches
  <2>2. ASSUME NEW v \in Workers \ {w} PROVE Handles(v)' /\ Searches(v)'
    <3>1. job[v].client # c
      BY <1>0, <1>1, <1>2, <2>2, SocketsAssumption DEF Inv, CountsInv, Alone
    <3>2. Handles(v) /\ job'[v] = job[v]
      BY <1>1, <1>4 DEF Inv, CountsInv
    <3>3. Handles(v)'
      BY <1>1, <1>7, <3>1, <3>2 DEF Handles
    <3>4. Searches(v)'
      BY <1>1 DEF Searches
    <3>5. QED
      BY <3>3, <3>4
  <2>3. QED
    BY <2>1, <2>2
<1>11. \A u, v \in Workers : Alone(u, v)'
  BY <1>0, <1>1, <1>3, <1>4, AloneKept
<1>12. NothingYet' /\ head' # Wild
  BY <1>1, <1>2, SocketsAssumption DEF NothingYet
<1>13. QED
  BY <1>9, <1>10, <1>11, <1>12 DEF CountsInv

LEMMA IncrementCounts ==
    ASSUME Inv, NEW w \in Workers, IncrementClientsCount(w)
    PROVE  CountsInv'
<1> SUFFICES ASSUME regular' PROVE CountsInv'
  BY DEF CountsInv
<1>1. regular /\ ~fault /\ ~fault' /\ job[w].pc = "new" /\ head' = head /\ steady' = {}
  BY Zenon DEF IncrementClientsCount
<1>0. PICK c \in Clients, s \in SocketSet : job[w].client = c /\ job[w].to = s
  BY <1>1 DEF Inv, CountsInv, Handles
<1>2. job[w].list = head /\ head \in Workers /\ c \in Clients /\ s \in SocketSet
      /\ at[c] = NULL
  BY <1>1, <1>0 DEF Inv, CountsInv, Handles, TypeInv, TypeOK
<1>3. job'[w] = Idle /\ \A v \in Workers \ {w} : job'[v] = job[v]
  BY DEF IncrementClientsCount, Inv, TypeInv, TypeOK
<1>4. at' = [at EXCEPT ![c] = s]
  BY <1>0 DEF IncrementClientsCount
<1>5. count' = [count EXCEPT ![head][s] = @ + 1]
  BY <1>0, <1>2 DEF IncrementClientsCount
<1>6. at'[c] = s /\ \A d \in Clients \ {c} : at'[d] = at[d]
  BY <1>2, <1>4 DEF Inv, TypeInv, TypeOK
<1>7. count'[head][s] = count[head][s] + 1
      /\ \A t \in SocketSet \ {s} : count'[head][t] = count[head][t]
  BY <1>2, <1>5 DEF Inv, TypeInv, TypeOK
<1>8. CountsAreClients'
  <2>1. \A t \in SocketSet : count[head][t] = Cardinality(ClientsAt(t))
    BY <1>1, <1>2, SocketsAssumption DEF Inv, CountsInv, CountsAreClients
  <2>2. ClientsAt(s)' = ClientsAt(s) \cup {c}
    <3>1. \A d \in Clients : at'[d] = s <=> at[d] = s \/ d = c
      BY <1>6
    <3>2. QED
      BY <1>2, <3>1 DEF ClientsAt
  <2>3. \A t \in SocketSet \ {s} : ClientsAt(t)' = ClientsAt(t)
    BY <1>2, <1>6, SocketsAssumption DEF ClientsAt
  <2>4. IsFiniteSet(ClientsAt(s)) /\ c \notin ClientsAt(s)
    BY <1>2, SocketsAssumption, FS_Subset DEF ClientsAt
  <2>5. Cardinality(ClientsAt(s)') = Cardinality(ClientsAt(s)) + 1
    BY <2>2, <2>4, FS_AddElement
  <2>6. QED
    <3>1. \A t \in SocketSet : count'[head][t] = Cardinality(ClientsAt(t)')
      BY <1>2, <1>7, <2>1, <2>3, <2>5
    <3>2. QED
      BY <1>1, <3>1 DEF CountsAreClients
<1>9. \A v \in Workers : Handles(v)' /\ Searches(v)'
  <2>1. Handles(w)' /\ Searches(w)'
    BY <1>3 DEF Handles, Searches, Idle
  <2>2. ASSUME NEW v \in Workers \ {w} PROVE Handles(v)' /\ Searches(v)'
    <3>1. job[v].client # c
      BY <1>0, <1>1, <1>2, <2>2, SocketsAssumption DEF Inv, CountsInv, Alone
    <3>2. QED
      BY <1>1, <1>3, <1>6, <3>1, ZenonT(40) DEF Inv, CountsInv, Handles, Searches
  <2>3. QED
    BY <2>1, <2>2
<1>10. \A u, v \in Workers : Alone(u, v)'
  BY <1>1, <1>3, IdleType, AloneKept
<1>11. NothingYet' /\ head' # Wild
  BY <1>1, <1>2, SocketsAssumption DEF NothingYet
<1>12. QED
  BY <1>8, <1>9, <1>10, <1>11 DEF CountsInv

\* The item a pass chooses is the least used one up to the current item.
LEMMA PassChooses ==
    ASSUME Inv, NEW w \in Workers, Walk(w), w \in steady, regular
    PROVE  /\ head \in Workers /\ Least(w) \in DOMAIN Sockets
           /\ Least(w) <= job[w].current
           /\ CountOf(w, Least(w)) = count[head][Sockets[Least(w)]]
           /\ \A i \in DOMAIN Sockets : i <= job[w].current =>
                /\ count[head][Sockets[Least(w)]] <= count[head][Sockets[i]]
                /\ i < Least(w) => count[head][Sockets[Least(w)]] < count[head][Sockets[i]]
<1> DEFINE k(i) == count[head][Sockets[i]]
<1>1. ~fault /\ job[w].pc = "walk"
  BY DEF Walk
<1>2. job[w].list = head /\ head \in Workers
  BY <1>1 DEF Inv, CountsInv, Handles, TypeInv, TypeOK
<1>3. DOMAIN Sockets \subseteq Nat /\ \A i \in DOMAIN Sockets : Sockets[i] \in SocketSet
  BY SocketsAssumption DEF SocketSet
<1>4. \A i \in DOMAIN Sockets : k(i) \in Int
  BY <1>2, <1>3 DEF Inv, TypeInv, TypeOK
<1>5. job[w].current \in DOMAIN Sockets /\ job[w].least \in DOMAIN Sockets
  BY <1>1 DEF Inv, TypeInv, InList
<1>6. /\ job[w].least <= job[w].current
      /\ \A i \in DOMAIN Sockets : i < job[w].current =>
            k(job[w].least) <= k(i) /\ (i < job[w].least => k(job[w].least) < k(i))
  BY <1>1 DEF Inv, CountsInv, Searches
<1>7. Least(w) = IF k(job[w].least) > k(job[w].current) THEN job[w].current ELSE job[w].least
  BY <1>2 DEF Least, CountOf
<1>8. CountOf(w, Least(w)) = k(Least(w))
  BY <1>2 DEF CountOf
<1> HIDE DEF k
<1>9. \A i \in DOMAIN Sockets : i <= job[w].current =>
            k(Least(w)) <= k(i) /\ (i < Least(w) => k(Least(w)) < k(i))
  BY <1>3, <1>4, <1>5, <1>6, <1>7
<1>10. Least(w) \in DOMAIN Sockets /\ Least(w) <= job[w].current
  BY <1>3, <1>5, <1>6, <1>7
<1>11. QED
  BY <1>2, <1>8, <1>9, <1>10 DEF k

LEMMA WalkCounts ==
    ASSUME Inv, NEW w \in Workers, Walk(w)
    PROVE  CountsInv'
<1> SUFFICES ASSUME regular' PROVE CountsInv'
  BY DEF CountsInv
<1>1. regular /\ ~fault /\ job[w].pc = "walk" /\ UNCHANGED <<head, count, fault, at, steady>>
  BY Zenon DEF Walk
<1>2. CountsAreClients'
  BY <1>1 DEF Inv, CountsInv, CountsAreClients, ClientsAt
<1>3. head # NULL /\ head # Wild /\ Handles(w)
  BY <1>1 DEF Inv, CountsInv, Handles
<1>4. CASE LastPass(w)
  <2>1. job'[w] = Idle /\ \A v \in Workers \ {w} : job'[v] = job[v]
    BY <1>4 DEF Walk, Inv, TypeInv, TypeOK
  <2>2. \A v \in Workers : Handles(v)' /\ Searches(v)'
    <3>1. Handles(w)' /\ Searches(w)'
      BY <2>1, IdleType DEF Handles, Searches
    <3>2. ASSUME NEW v \in Workers \ {w} PROVE Handles(v)' /\ Searches(v)'
      BY <1>1, <2>1, HandlesKept
    <3>3. QED
      BY <3>1, <3>2
  <2>3. \A u, v \in Workers : Alone(u, v)'
    BY <1>1, <2>1, IdleType, AloneKept
  <2>4. QED
    BY <1>1, <1>2, <1>3, <2>2, <2>3 DEF NothingYet, CountsInv
<1>5. CASE ~LastPass(w)
  <2> DEFINE next == [job[w] EXCEPT !.current = job[w].current + 1, !.least = Least(w)]
  <2>1. job' = [job EXCEPT ![w] = next]
    BY <1>5 DEF Walk
  <2>2. next.pc = "walk" /\ next.client = job[w].client /\ next.list = job[w].list
        /\ next.current = job[w].current + 1 /\ next.least = Least(w)
    BY <1>1 DEF Inv, TypeInv, TypeOK, Job
  <2>3. job'[w] = next /\ \A v \in Workers \ {w} : job'[v] = job[v]
    BY <2>1 DEF Inv, TypeInv, TypeOK
  <2> HIDE DEF next
  <2>4. \A v \in Workers : Handles(v)'
    BY <1>1, <1>3, <2>2, <2>3, ZenonT(40) DEF Inv, CountsInv, Handles
  <2>5. \A u, v \in Workers : Alone(u, v)'
    BY <1>1, <2>2, <2>3 DEF Inv, CountsInv, Alone
  <2>6. ASSUME NEW v \in Workers \ {w} PROVE Searches(v)'
    BY <1>1, <2>3 DEF Inv, CountsInv, Searches
  <2>7. Searches(w)'
    <3> SUFFICES ASSUME w \in steady PROVE Searches(w)'
      BY <1>1 DEF Searches
    <3>1. DOMAIN Sockets \subseteq Nat /\ job[w].current \in DOMAIN Sockets
      BY <1>1, SocketsAssumption DEF Inv, TypeInv, InList
    <3>2. Least(w) \in Nat /\ Least(w) <= job[w].current + 1
      BY <1>1, <3>1, PassChooses
    <3>3. \A i \in DOMAIN Sockets : i < job[w].current + 1 => i <= job[w].current
      BY <3>1
    <3>4. QED
      BY <1>1, <2>2, <2>3, <3>2, <3>3, PassChooses DEF Searches
  <2>8. QED
    BY <1>1, <1>2, <1>3, <2>4, <2>5, <2>6, <2>7 DEF NothingYet, CountsInv
<1>6. QED
  BY <1>4, <1>5

LEMMA CountsStep == Inv /\ [Next]_vars => Inv'
<1> SUFFICES ASSUME Inv, [Next]_vars PROVE Inv'
  OBVIOUS
<1>1. CASE UNCHANGED vars
  BY <1>1 DEF Inv, TypeInv, TypeOK, InList, CountsInv, NothingYet, CountsAreClients,
              ClientsAt, Handles, Searches, Alone, vars
<1>2. ASSUME NEW w \in Workers, Start(w) PROVE Inv'
  <2>1. ASSUME NEW r \in Reports, ReportPasses(w, r) PROVE CountsInv'
    BY <2>1 DEF ReportPasses, Inv, CountsInv, NothingYet, CountsAreClients, ClientsAt,
                Handles, Searches, Alone
  <2>2. TypeInv'
    BY <1>2, StartType DEF Inv
  <2>3. QED
    BY <1>2, <2>1, <2>2, SubscribeCounts, ChangeCounts, NotifyCounts, Zenon DEF Start, Inv
<1>3. ASSUME NEW w \in Workers, Step(w) PROVE Inv'
  <2>1. TypeInv'
    BY <1>3, StepType DEF Inv
  <2>2. QED
    BY <1>3, <2>1, PublishCounts, FindCounts, DecrementCounts, IncrementCounts, WalkCounts,
       Zenon DEF Step, Inv
<1>4. QED
  BY <1>1, <1>2, <1>3 DEF Next

\* The count of every socket is the number of clients at it, whatever the interleaving
\* of the workers, until a request overlaps another one of its client or comes in
\* where the client is not counted, or two workers make a list at once.
THEOREM SocketCounts == Spec => []CountsAreClients
<1>1. Init => Inv
  BY InitType, CountsInit DEF Inv
<1>2. Inv => CountsAreClients
  BY DEF Inv, CountsInv, CountsAreClients
<1>3. QED
  BY <1>1, <1>2, CountsStep, PTL DEF Spec

\* Until then a notification names the first of the sockets with the fewest clients,
\* if no count changes during the search.
THEOREM SocketLeast == Spec => LeastIsChosen
<1> DEFINE least(w) ==
       Walk(w) /\ w \in steady /\ regular /\ job'[w] = Idle =>
          \E i \in DOMAIN Sockets :
             /\ notified' = Sockets[i]
             /\ \A j \in DOMAIN Sockets :
                  LET here  == Cardinality(ClientsAt(Sockets[i]))
                      there == Cardinality(ClientsAt(Sockets[j]))
                  IN  here <= there /\ (j < i => here < there)
<1>1. ASSUME Inv, NEW w \in Workers, Walk(w), w \in steady, regular, job'[w] = Idle
      PROVE  \E i \in DOMAIN Sockets :
               /\ notified' = Sockets[i]
               /\ \A j \in DOMAIN Sockets :
                    LET here  == Cardinality(ClientsAt(Sockets[i]))
                        there == Cardinality(ClientsAt(Sockets[j]))
                    IN  here <= there /\ (j < i => here < there)
  <2> DEFINE k(i) == count[head][Sockets[i]]
  <2>1. \A i \in DOMAIN Sockets : Sockets[i] \in SocketSet
    BY DEF SocketSet
  <2>2. head \in Workers /\ head # NULL
    BY <1>1, PassChooses, SocketsAssumption
  <2>3. \A i \in DOMAIN Sockets :
           k(i) = Cardinality(ClientsAt(Sockets[i])) /\ k(i) \in Nat
    <3>1. ASSUME NEW i \in DOMAIN Sockets
          PROVE  k(i) = Cardinality(ClientsAt(Sockets[i])) /\ k(i) \in Nat
      <4>1. k(i) = Cardinality(ClientsAt(Sockets[i]))
        BY <1>1, <2>1, <2>2 DEF Inv, CountsInv, CountsAreClients
      <4>2. IsFiniteSet(ClientsAt(Sockets[i]))
        BY SocketsAssumption, FS_Subset DEF ClientsAt
      <4>3. QED
        BY <4>1, <4>2, FS_CardinalityType
    <3>2. QED
      BY <3>1
  <2>4. LastPass(w) /\ notified' = Sockets[Least(w)]
    <3>1. ASSUME ~LastPass(w) PROVE FALSE
      <4>1. job'[w] = [job[w] EXCEPT !.current = job[w].current + 1, !.least = Least(w)]
        BY <1>1, <3>1 DEF Walk, Inv, TypeInv, TypeOK
      <4>2. job'[w].pc = "walk"
        <5>1. job[w] \in Job /\ job[w].pc = "walk"
          BY <1>1 DEF Walk, Inv, TypeInv, TypeOK
        <5>2. QED
          BY <4>1, <5>1 DEF Job
      <4>3. QED
        BY <1>1, <4>2, IdleType
    <3>2. QED
      BY <1>1, <3>1 DEF Walk
  <2>5. job[w].current \in DOMAIN Sockets /\ DOMAIN Sockets = 1 .. Len(Sockets)
    BY <1>1, SocketsAssumption DEF Walk, Inv, TypeInv, InList
  <2> HIDE DEF k
  <2>6. /\ Least(w) \in DOMAIN Sockets /\ Least(w) <= job[w].current
        /\ \A i \in DOMAIN Sockets : i <= job[w].current =>
              k(Least(w)) <= k(i) /\ (i < Least(w) => k(Least(w)) < k(i))
    BY <1>1, PassChooses DEF k
  <2>7. k(Least(w)) = 0 \/ job[w].current = Len(Sockets)
    BY <1>1, <2>4, PassChooses DEF LastPass, k
  <2>8. \A i \in DOMAIN Sockets : k(Least(w)) <= k(i) /\ (i < Least(w) => k(Least(w)) < k(i))
    BY <2>3, <2>5, <2>6, <2>7
  <2>9. QED
    BY <2>3, <2>4, <2>6, <2>8
<1>2. Inv /\ [Next]_vars => [\A w \in Workers : least(w)]_vars
  BY <1>1
<1>3. Init => Inv
  BY InitType, CountsInit DEF Inv
<1>4. QED
  BY <1>2, <1>3, CountsStep, PTL DEF Spec, LeastIsChosen

-----------------------------------------------------------------------------
(* The look at the packet loss *)

\* The blocks the first four passes of the loop look at.
LEMMA FirstBlocks ==
    /\ BlockOfPass(0) = 0 /\ BlockOfPass(1) = 0
    /\ BlockOfPass(2) = 1 /\ BlockOfPass(3) = 3
BY DEF BlockOfPass

\* So a loop of at most four passes looks at no byte behind the blocks.
LEMMA LooksAtBlocks ==
    ASSUME NEW r \in Report, Len(r.lost) <= 4, NEW i \in 0 .. Len(r.lost) - 1
    PROVE  \E b \in DOMAIN r.lost : FractionLost(r, BlockOfPass(i)) = r.lost[b]
<1>1. r.lost \in Seq(Byte)
  BY DEF Report
<1>2. Len(r.lost) \in Nat /\ DOMAIN r.lost = 1 .. Len(r.lost)
  BY <1>1
<1>3. i \in {0, 1, 2, 3}
  BY <1>2
<1>4. BlockOfPass(i) \in 0 .. Len(r.lost) - 1
  BY <1>2, <1>3, FirstBlocks
<1>5. PICK k : k = BlockOfPass(i)
  OBVIOUS
<1>6. k < Len(r.lost) /\ k + 1 \in DOMAIN r.lost
  BY <1>2, <1>4, <1>5
<1>7. QED
  BY <1>5, <1>6 DEF FractionLost

\* A report of up to four blocks makes the server notify only for a block above the
\* threshold, and passes only if the first block, and the second one of three or
\* more, is not above it: for every threshold, negative ones included.
THEOREM ReportsRead == Spec => ReportsAreRead
<1>1. ASSUME NEW w \in Workers, NEW r \in Reports, NotifyStarts(w, r), Len(r.lost) <= 4
      PROVE  Lossy(r)
  <2>1. r \in Report
    BY SocketsAssumption
  <2>2. PICK i \in 0 .. Len(r.lost) - 1 : Exceeds(FractionLost(r, BlockOfPass(i)), Threshold)
    BY <1>1 DEF NotifyStarts, ExceedsLimit
  <2>3. PICK b \in DOMAIN r.lost : FractionLost(r, BlockOfPass(i)) = r.lost[b]
    BY <1>1, <2>1, LooksAtBlocks
  <2>4. QED
    BY <2>2, <2>3 DEF Lossy
<1>2. ASSUME NEW w \in Workers, NEW r \in Reports, ReportPasses(w, r), r.type # "other",
             NEW b \in DOMAIN r.lost, b = 1 \/ (b = 2 /\ Len(r.lost) >= 3)
      PROVE  ~Exceeds(r.lost[b], Threshold)
  <2>1. r.lost \in Seq(Byte)
    BY SocketsAssumption DEF Report
  <2>2. Len(r.lost) \in Nat /\ b \in 1 .. Len(r.lost)
    BY <2>1
  <2>3. \A i \in 0 .. Len(r.lost) - 1 :
           ~Exceeds(FractionLost(r, BlockOfPass(i)), Threshold)
    BY <1>2 DEF ReportPasses, ExceedsLimit
  <2>4. CASE b = 1
    <3>1. 0 \in 0 .. Len(r.lost) - 1 /\ 0 < Len(r.lost) /\ 0 + 1 = b
      BY <2>2, <2>4
    <3>2. FractionLost(r, BlockOfPass(0)) = r.lost[b]
      BY <3>1, FirstBlocks DEF FractionLost
    <3>3. QED
      BY <2>3, <3>1, <3>2
  <2>5. CASE b = 2 /\ Len(r.lost) >= 3
    <3>1. 2 \in 0 .. Len(r.lost) - 1 /\ 1 < Len(r.lost) /\ 1 + 1 = b
      BY <2>2, <2>5
    <3>2. FractionLost(r, BlockOfPass(2)) = r.lost[b]
      BY <3>1, FirstBlocks DEF FractionLost
    <3>3. QED
      BY <2>3, <3>1, <3>2
  <2>6. QED
    BY <1>2, <2>4, <2>5
<1>3. [\A w \in Workers, r \in Reports :
         /\ NotifyStarts(w, r) /\ Len(r.lost) <= 4 => Lossy(r)
         /\ ReportPasses(w, r) /\ r.type # "other" =>
              \A b \in DOMAIN r.lost :
                 b = 1 \/ (b = 2 /\ Len(r.lost) >= 3) =>
                    ~Exceeds(r.lost[b], Threshold)]_vars
  BY <1>1, <1>2
<1>4. QED
  BY <1>3, PTL DEF ReportsAreRead
=============================================================================
