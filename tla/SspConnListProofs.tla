-------------------------- MODULE SspConnListProofs --------------------------
(***************************************************************************)
(* The shared connections list, for any workers, calls, endpoints and      *)
(* memory. The cells keep their types whatever workers do to each other.   *)
(* Until two of them meet in one of the ways hazard names, the cells       *)
(* linked from head are a list of different calls (Shape), out of which no *)
(* more than what is being pushed or removed is missing; so no handler     *)
(* uses memory that is not there, no connection is lost, and the list      *)
(* implements the table of calls.                                          *)
(***************************************************************************)
EXTENDS SspConnList, WellFoundedInduction, TLAPS

Pointer == Cells \cup {NULL}

\* A worker's variables; all but an idle worker's are about a message.
Good(l) == l \in Local /\ (l.pc # "idle" => l.job \in Job)

IInv == /\ head \in Pointer \cup {Wild}
        /\ mem \in [Cells -> Connection \cup {NULL}]
        /\ endpoint \in [Endpoints -> {"free", "parsed", "attached"}]
        /\ local \in [Workers -> Local]
        /\ \A w \in Workers : Good(local[w])
        /\ jobs \in 0 .. MaxJobs
        /\ fault \in BOOLEAN /\ hazard \in BOOLEAN

-----------------------------------------------------------------------------
(* Records *)

LEMMA IdleGood == Good(Idle)
BY DEF Good, Idle, Local, PCs

LEMMA LocalFields ==
    ASSUME NEW l \in Local
    PROVE  /\ l.pc \in PCs /\ l.cur \in Pointer /\ l.conn \in Pointer
           /\ l.prev \in Pointer /\ l.next \in Pointer /\ l.dst \in Endpoints \cup {NULL}
BY DEF Local, Pointer

LEMMA JobFields ==
    ASSUME NEW job \in Job
    PROVE  job.call_id \in CallIds /\ job.side \in Sides
           /\ job.endpoint \in Endpoints \cup {NULL}
BY DEF Job

\* The changes handlers make to a worker's variables.
LEMMA LocalChanges ==
    ASSUME NEW l \in Local, l.job \in Job, NEW pc \in PCs, NEW k \in Pointer, NEW n \in Pointer,
           NEW e \in Endpoints \cup {NULL}
    PROVE  /\ Good([l EXCEPT !.pc = pc])
           /\ Good([l EXCEPT !.cur = k])
           /\ Good([l EXCEPT !.pc = pc, !.cur = k])
           /\ Good([l EXCEPT !.pc = pc, !.conn = n, !.cur = k])
           /\ Good([l EXCEPT !.conn = n, !.pc = pc])
           /\ Good([l EXCEPT !.pc = pc, !.prev = k, !.next = n])
           /\ Good([l EXCEPT !.pc = pc, !.dst = e])
BY ZenonT(40) DEF Good, Local, Pointer

\* A search that ends, with or without a connection, leaves the worker good.
LEMMA SearchEnds ==
    ASSUME NEW l \in Local, l.job \in Job, NEW k \in Pointer
    PROVE  Good(NotFound(l)) /\ Good(Found(l, k))
<1>1. "create" \in PCs /\ "check" \in PCs /\ "unlink_read" \in PCs /\ NULL \in Pointer
  BY DEF PCs, Pointer
<1>2. Good(NotFound(l))
  BY <1>1, LocalChanges, IdleGood DEF NotFound
<1>3. PICK pc : pc = IF l.job.op = "initial" THEN "check" ELSE "unlink_read"
  OBVIOUS
<1>4. pc \in PCs
  BY <1>1, <1>3
<1>5. Found(l, k) = [l EXCEPT !.pc = pc, !.conn = k, !.cur = NULL]
  BY <1>3, Zenon DEF Found
<1>6. Good([l EXCEPT !.pc = pc, !.conn = k, !.cur = NULL])
  BY <1>4 DEF Good, Local, Pointer
<1>7. QED
  BY <1>2, <1>5, <1>6

\* The assignments to a connection leave it one.
LEMMA ConnectionChanges ==
    ASSUME NEW c \in Connection, NEW k \in Pointer, NEW side \in Sides,
           NEW e \in Endpoints \cup {NULL}
    PROVE  /\ [c EXCEPT !.prev = k] \in Connection
           /\ [c EXCEPT !.next = k] \in Connection
           /\ [c EXCEPT ![side] = e] \in Connection
           /\ c[side] \in Endpoints \cup {NULL}
<1>1. [c EXCEPT !.prev = k] \in Connection /\ [c EXCEPT !.next = k] \in Connection
  BY DEF Connection, Pointer
<1>2. CASE side = "request_endpoint"
  BY <1>1, <1>2 DEF Connection
<1>3. CASE side = "response_endpoint"
  BY <1>1, <1>3 DEF Connection
<1>4. QED
  BY <1>2, <1>3 DEF Sides

-----------------------------------------------------------------------------
(* Steps *)

LEMMA LocalStep ==
    ASSUME IInv, NEW w \in Workers, NEW l, Good(l), Become(w, l)
    PROVE  local' \in [Workers -> Local] /\ \A v \in Workers : Good(local'[v])
<1>1. l \in Local /\ local \in [Workers -> Local] /\ local' = [local EXCEPT ![w] = l]
  BY DEF IInv, Good, Become
<1>2. ASSUME NEW v \in Workers PROVE Good(local'[v])
  <2>1. local'[v] = IF v = w THEN l ELSE local[v]
    BY <1>1
  <2>2. QED
    BY <2>1 DEF IInv
<1>3. QED
  BY <1>1, <1>2

LEMMA WorkerGood ==
    ASSUME IInv, NEW w \in Workers
    PROVE  local[w] \in Local /\ (local[w].pc # "idle" => local[w].job \in Job)
BY DEF IInv, Good

LEMMA MemFields ==
    ASSUME IInv, NEW k \in Allocated
    PROVE  /\ k \in Cells /\ mem[k] \in Connection
           /\ mem[k].prev \in Pointer /\ mem[k].next \in Pointer
BY DEF IInv, Allocated, Connection, Pointer

LEMMA MemStep ==
    ASSUME IInv, NEW k, NEW c \in Connection \cup {NULL}, mem' = [mem EXCEPT ![k] = c]
    PROVE  mem' \in [Cells -> Connection \cup {NULL}]
BY DEF IInv

LEMMA ReceiveIInv ==
    ASSUME IInv, NEW w \in Workers, NEW c \in CallIds, NEW side \in Sides,
           \/ \E e \in Endpoints : ReceiveInitial(w, c, side, e)
           \/ ReceiveFinal(w, c)
           \/ ReceiveMedia(w, c, side)
    PROVE  IInv'
<1>1. ASSUME NEW job \in Job, NEW pc \in PCs, Receive(w, job, pc),
             endpoint' \in [Endpoints -> {"free", "parsed", "attached"}]
      PROVE  IInv'
  <2>1. PICK l : l = [Idle EXCEPT !.pc = pc, !.job = job]
    OBVIOUS
  <2>2. Good(l)
    BY <2>1 DEF Good, Idle, Local
  <2>3. Become(w, l)
    BY <1>1, <2>1 DEF Receive
  <2>4. local' \in [Workers -> Local] /\ \A v \in Workers : Good(local'[v])
    BY <2>2, <2>3, LocalStep
  <2>5. jobs' \in 0 .. MaxJobs
    <3>1. jobs < MaxJobs /\ jobs' = jobs + 1
      BY <1>1, Zenon DEF Receive
    <3>2. jobs \in 0 .. MaxJobs /\ MaxJobs \in Nat
      BY ListAssumption, Zenon DEF IInv
    <3>3. QED
      BY <3>1, <3>2
  <2>6. head' = head /\ mem' = mem /\ fault' = fault /\ hazard' = hazard
    BY <1>1, Zenon DEF Receive
  <2>7. QED
    BY <1>1, <2>4, <2>5, <2>6 DEF IInv
<1>2. "find_head" \in PCs /\ "match_head" \in PCs
  BY DEF PCs
<1>3. ASSUME NEW e \in Endpoints, ReceiveInitial(w, c, side, e) PROVE IInv'
  <2>1. PICK job : job = [op |-> "initial", call_id |-> c, side |-> side, endpoint |-> e]
    OBVIOUS
  <2>2. job \in Job
    BY <2>1 DEF Job
  <2>3. endpoint' \in [Endpoints -> {"free", "parsed", "attached"}]
    BY <1>3 DEF ReceiveInitial, IInv
  <2>4. Receive(w, job, "find_head")
    BY <1>3, <2>1, Zenon DEF ReceiveInitial
  <2>5. QED
    BY <1>1, <1>2, <2>2, <2>3, <2>4
<1>4. CASE ReceiveFinal(w, c)
  <2>1. PICK job : job = [op |-> "final", call_id |-> c, side |-> "request_endpoint",
                          endpoint |-> NULL]
    OBVIOUS
  <2>2. job \in Job
    BY <2>1 DEF Job, Sides
  <2>3. Receive(w, job, "find_head") /\ endpoint' = endpoint
    BY <1>4, <2>1, Zenon DEF ReceiveFinal
  <2>4. QED
    BY <1>1, <1>2, <2>2, <2>3 DEF IInv
<1>5. CASE ReceiveMedia(w, c, side)
  <2>1. PICK job : job = [op |-> "media", call_id |-> c, side |-> side, endpoint |-> NULL]
    OBVIOUS
  <2>2. job \in Job
    BY <2>1 DEF Job
  <2>3. Receive(w, job, "match_head") /\ endpoint' = endpoint
    BY <1>5, <2>1, Zenon DEF ReceiveMedia
  <2>4. QED
    BY <1>1, <1>2, <2>2, <2>3 DEF IInv
<1>6. QED
  BY <1>3, <1>4, <1>5

-----------------------------------------------------------------------------
LEMMA FindIInv ==
    ASSUME IInv, NEW w \in Workers, FindHead(w) \/ Find(w)
    PROVE  IInv'
<1>1. PICK l : l = local[w]
  OBVIOUS
<1>2. l \in Local /\ l.job \in Job
  BY <1>1, WorkerGood DEF FindHead, Find, At
<1>3. "find" \in PCs
  BY DEF PCs
<1>4. ASSUME NEW n, Good(n), Become(w, n), UNCHANGED <<shared, jobs, fault, hazard>>
      PROVE  IInv'
  BY <1>4, LocalStep DEF IInv, shared
<1>5. CASE FindHead(w)
  <2>1. PICK k : k = head
    OBVIOUS
  <2>2. k \in Pointer
    BY <1>5, <2>1 DEF FindHead, IInv
  <2>3. PICK n : n = IF k = NULL THEN NotFound(l) ELSE [l EXCEPT !.pc = "find", !.cur = k]
    OBVIOUS
  <2>4. Good(n)
    BY <1>2, <1>3, <2>2, <2>3, LocalChanges, SearchEnds
  <2>5. Become(w, n)
    BY <1>1, <1>5, <2>1, <2>3, Zenon DEF FindHead
  <2>6. QED
    BY <1>4, <1>5, <2>4, <2>5 DEF FindHead
<1>6. CASE Find(w)
  <2>1. PICK k : k = l.cur
    OBVIOUS
  <2>2. k \in Allocated
    BY <1>1, <1>6, <2>1 DEF Find
  <2>3. PICK next : next = mem[k].next
    OBVIOUS
  <2>4. k \in Pointer /\ next \in Pointer
    BY <2>2, <2>3, MemFields DEF Pointer
  <2>5. PICK n : n = CASE mem[k].call_id = l.job.call_id -> Found(l, k)
                       [] mem[k].call_id # l.job.call_id /\ next = NULL -> NotFound(l)
                       [] OTHER -> [l EXCEPT !.cur = next]
    OBVIOUS
  <2>6. n = Found(l, k) \/ n = NotFound(l) \/ n = [l EXCEPT !.cur = next]
    BY <2>5
  <2>7. Good(n)
    BY <1>2, <1>3, <2>4, <2>6, LocalChanges, SearchEnds
  <2>8. Become(w, n)
    BY <1>1, <1>6, <2>1, <2>3, <2>5 DEF Find
  <2>9. QED
    BY <1>4, <1>6, <2>7, <2>8 DEF Find
<1>7. QED
  BY <1>5, <1>6

LEMMA PushIInv ==
    ASSUME IInv, NEW w \in Workers,
           \/ \E k \in Cells : Create(w, k)
           \/ CreateFails(w) \/ Push(w) \/ PushFirst(w) \/ PushHead(w) \/ PushWalk(w)
           \/ PushLink(w)
    PROVE  IInv'
<1>1. PICK l : l = local[w]
  OBVIOUS
<1>2. /\ l \in Local /\ l.job \in Job
      /\ l.cur \in Pointer /\ l.conn \in Pointer
  BY <1>1, WorkerGood, LocalFields
     DEF Create, CreateFails, Push, PushFirst, PushHead, PushWalk, PushLink, At
<1>3. /\ {"check", "push", "push_first", "push_head", "push_walk", "push_link"} \subseteq PCs
      /\ NULL \in Pointer /\ NULL \in Endpoints \cup {NULL}
  BY DEF PCs, Pointer
<1>4. ASSUME NEW k \in Cells, Create(w, k) PROVE IInv'
  <2>1. PICK c : c = [call_id |-> l.job.call_id, prev |-> NULL, next |-> NULL,
                      request_endpoint |-> NULL, response_endpoint |-> NULL]
    OBVIOUS
  <2>2. c \in Connection
    <3>1. l.job.call_id \in CallIds
      BY <1>2, JobFields
    <3>2. QED
      BY <2>1, <3>1 DEF Connection
  <2>3. k \in Pointer
    BY DEF Pointer
  <2>4. mem' = [mem EXCEPT ![k] = c]
    BY <1>1, <1>4, <2>1, Zenon DEF Create
  <2>5. Become(w, [l EXCEPT !.conn = k, !.pc = "push"])
    BY <1>1, <1>4, Zenon DEF Create
  <2>6. mem' \in [Cells -> Connection \cup {NULL}]
    BY <2>2, <2>4, MemStep
  <2>7. local' \in [Workers -> Local] /\ \A v \in Workers : Good(local'[v])
    BY <1>2, <1>3, <2>3, <2>5, LocalChanges, LocalStep
  <2>8. QED
    BY <1>4, <2>6, <2>7 DEF Create, IInv
<1>5. CASE CreateFails(w)
  BY <1>5, IdleGood, LocalStep DEF CreateFails, IInv, shared
<1>6. CASE PushFirst(w)
  <2>1. Become(w, [l EXCEPT !.pc = "check"]) /\ head' = l.conn
    BY <1>1, <1>6 DEF PushFirst
  <2>2. local' \in [Workers -> Local] /\ \A v \in Workers : Good(local'[v])
    BY <1>2, <1>3, <2>1, LocalChanges, LocalStep
  <2>3. hazard' \in BOOLEAN
    BY <1>6, Zenon DEF PushFirst, IInv
  <2>4. QED
    BY <1>2, <1>6, <2>1, <2>2, <2>3 DEF PushFirst, IInv
<1>7. CASE PushWalk(w)
  <2>1. PICK next : next = mem[l.cur].next
    OBVIOUS
  <2>2. next \in Pointer
    BY <1>1, <1>7, <2>1, MemFields DEF PushWalk
  <2>3. PICK n : n = IF next = NULL THEN [l EXCEPT !.pc = "push_link"]
                                    ELSE [l EXCEPT !.cur = next]
    OBVIOUS
  <2>4. Become(w, n)
    BY <1>1, <1>7, <2>1, <2>3, Zenon DEF PushWalk
  <2>5. Good(n)
    BY <1>2, <1>3, <2>2, <2>3, LocalChanges
  <2>6. local' \in [Workers -> Local] /\ \A v \in Workers : Good(local'[v])
    BY <2>4, <2>5, LocalStep
  <2>7. QED
    BY <1>7, <2>6 DEF PushWalk, IInv, shared
<1>8. CASE PushLink(w)
  <2>1. PICK a, b : a = l.conn /\ b = l.cur
    OBVIOUS
  <2>2. a \in Allocated /\ b \in Allocated /\ a \in Pointer /\ b \in Pointer
    BY <1>1, <1>2, <1>8, <2>1 DEF PushLink
  <2>3. PICK m : m = [mem EXCEPT ![a].prev = b]
    OBVIOUS
  <2>4. m \in [Cells -> Connection \cup {NULL}] /\ m[b] \in Connection
    <3>1. mem \in [Cells -> Connection \cup {NULL}]
      BY DEF IInv
    <3>2. PICK c : c = [mem[a] EXCEPT !.prev = b]
      OBVIOUS
    <3>3. c \in Connection
      BY <2>2, <3>2, MemFields, ConnectionChanges DEF Sides
    <3>4. m = [mem EXCEPT ![a] = c]
      BY <2>3, <3>2
    <3>5. QED
      BY <2>2, <3>1, <3>3, <3>4, MemFields
  <2>5. mem' = [m EXCEPT ![b].next = a]
    BY <1>1, <1>8, <2>1, <2>3 DEF PushLink
  <2>6. mem' \in [Cells -> Connection \cup {NULL}]
    <3>1. PICK c : c = [m[b] EXCEPT !.next = a]
      OBVIOUS
    <3>2. c \in Connection
      BY <2>2, <2>4, <3>1, ConnectionChanges DEF Sides
    <3>3. mem' = [m EXCEPT ![b] = c]
      BY <2>5, <3>1
    <3>4. QED
      BY <2>4, <3>2, <3>3
  <2>7. Become(w, [l EXCEPT !.pc = "check", !.cur = NULL])
    BY <1>1, <1>8 DEF PushLink
  <2>8. local' \in [Workers -> Local] /\ \A v \in Workers : Good(local'[v])
    BY <1>2, <1>3, <2>7, LocalChanges, LocalStep
  <2>9. hazard' \in BOOLEAN
    BY <1>8, Zenon DEF PushLink, IInv
  <2>10. QED
    BY <1>8, <2>6, <2>8, <2>9 DEF PushLink, IInv
<1>9. CASE Push(w)
  <2>1. PICK pc : pc = IF head = NULL THEN "push_first" ELSE "push_head"
    OBVIOUS
  <2>2. Become(w, [l EXCEPT !.pc = pc]) /\ pc \in PCs
    BY <1>1, <1>3, <1>9, <2>1, Zenon DEF Push
  <2>3. local' \in [Workers -> Local] /\ \A v \in Workers : Good(local'[v])
    BY <1>2, <2>2, LocalChanges, LocalStep
  <2>4. QED
    BY <1>9, <2>3 DEF Push, IInv, shared
<1>10. CASE PushHead(w)
  <2>1. PICK h : h = head
    OBVIOUS
  <2>2. Become(w, [l EXCEPT !.pc = "push_walk", !.cur = h]) /\ h \in Pointer
    BY <1>1, <1>10, <2>1 DEF PushHead, Pointer
  <2>3. local' \in [Workers -> Local] /\ \A v \in Workers : Good(local'[v])
    BY <1>2, <1>3, <2>2, LocalChanges, LocalStep
  <2>4. QED
    BY <1>10, <2>3 DEF PushHead, IInv, shared
<1>11. QED
  BY <1>4, <1>5, <1>6, <1>7, <1>8, <1>9, <1>10

LEMMA EndpointIInv ==
    ASSUME IInv, NEW w \in Workers,
           CheckEndpoint(w) \/ SetEndpoint(w) \/ AttachEndpoint(w)
    PROVE  IInv'
<1>1. PICK l : l = local[w]
  OBVIOUS
<1>2. l \in Local /\ l.job \in Job
  BY <1>1, WorkerGood DEF CheckEndpoint, SetEndpoint, AttachEndpoint, At
<1>3. /\ {"set", "attach"} \subseteq PCs
      /\ NULL \in Pointer /\ NULL \in Endpoints \cup {NULL}
  BY DEF PCs, Pointer
<1>4. CASE CheckEndpoint(w)
  <2>1. PICK n : /\ n = [l EXCEPT !.pc = "set"] \/ n = Idle
                 /\ Become(w, n)
    BY <1>1, <1>4 DEF CheckEndpoint
  <2>2. Good(n)
    BY <1>2, <1>3, <2>1, LocalChanges, IdleGood
  <2>3. local' \in [Workers -> Local] /\ \A v \in Workers : Good(local'[v])
    BY <2>1, <2>2, LocalStep
  <2>4. QED
    BY <1>4, <2>3 DEF CheckEndpoint, IInv, shared
<1>5. CASE SetEndpoint(w)
  <2>1. PICK k, side, e, c : /\ k = l.conn /\ side = l.job.side /\ e = l.job.endpoint
                             /\ c = [mem[k] EXCEPT ![side] = e]
    OBVIOUS
  <2>2. mem[k] \in Connection
    BY <1>1, <1>5, <2>1, MemFields DEF SetEndpoint
  <2>3. side \in Sides /\ e \in Endpoints \cup {NULL}
    BY <1>2, <2>1, JobFields
  <2>4. c \in Connection
    BY <1>3, <2>1, <2>2, <2>3, ConnectionChanges
  <2>5. mem' = [mem EXCEPT ![k] = c]
    BY <1>1, <1>5, <2>1 DEF SetEndpoint
  <2>6. mem' \in [Cells -> Connection \cup {NULL}]
    BY <2>4, <2>5, MemStep
  <2>7. Become(w, [l EXCEPT !.pc = "attach"])
    BY <1>1, <1>5 DEF SetEndpoint
  <2>8. local' \in [Workers -> Local] /\ \A v \in Workers : Good(local'[v])
    BY <1>2, <1>3, <2>7, LocalChanges, LocalStep
  <2>9. hazard' \in BOOLEAN
    BY <1>5, Zenon DEF SetEndpoint, IInv
  <2>10. QED
    BY <1>5, <2>6, <2>8, <2>9 DEF SetEndpoint, IInv
<1>6. CASE AttachEndpoint(w)
  <2>1. local' \in [Workers -> Local] /\ \A v \in Workers : Good(local'[v])
    BY <1>6, IdleGood, LocalStep DEF AttachEndpoint
  <2>2. endpoint' \in [Endpoints -> {"free", "parsed", "attached"}]
    BY <1>6 DEF AttachEndpoint, IInv
  <2>3. QED
    BY <1>6, <2>1, <2>2 DEF AttachEndpoint, IInv
<1>7. QED
  BY <1>4, <1>5, <1>6

LEMMA RemoveIInv ==
    ASSUME IInv, NEW w \in Workers,
           UnlinkRead(w) \/ Unlink(w) \/ UnlinkNext(w) \/ Destroy(w)
    PROVE  IInv'
<1>1. PICK l : l = local[w]
  OBVIOUS
<1>2. /\ l \in Local /\ l.job \in Job
      /\ l.prev \in Pointer /\ l.next \in Pointer
  BY <1>1, WorkerGood, LocalFields DEF UnlinkRead, Unlink, UnlinkNext, Destroy, At
<1>3. /\ {"unlink", "unlink_next", "destroy"} \subseteq PCs
      /\ NULL \in Pointer /\ NULL \in Endpoints \cup {NULL}
  BY DEF PCs, Pointer
<1>4. CASE UnlinkRead(w)
  <2>1. PICK p, n : p = mem[l.conn].prev /\ n = mem[l.conn].next
    OBVIOUS
  <2>2. p \in Pointer /\ n \in Pointer
    BY <1>1, <1>4, <2>1, MemFields DEF UnlinkRead
  <2>3. Become(w, [l EXCEPT !.pc = "unlink", !.prev = p, !.next = n])
    BY <1>1, <1>4, <2>1 DEF UnlinkRead
  <2>4. Good([l EXCEPT !.pc = "unlink", !.prev = p, !.next = n])
    BY <1>2, <1>3, <2>2 DEF Good, Local, Pointer
  <2>5. local' \in [Workers -> Local] /\ \A v \in Workers : Good(local'[v])
    BY <2>3, <2>4, LocalStep
  <2>6. QED
    BY <1>4, <2>5 DEF UnlinkRead, IInv, shared
<1>5. CASE Unlink(w)
  <2>1. PICK pc : pc = IF l.next = NULL THEN "destroy" ELSE "unlink_next"
    OBVIOUS
  <2>2. Become(w, [l EXCEPT !.pc = pc])
    BY <1>1, <1>5, <2>1, Zenon DEF Unlink
  <2>3. local' \in [Workers -> Local] /\ \A v \in Workers : Good(local'[v])
    BY <1>2, <1>3, <2>1, <2>2, LocalChanges, LocalStep
  <2>4. mem' \in [Cells -> Connection \cup {NULL}]
    <3>1. CASE l.prev = NULL
      BY <1>1, <1>5, <3>1 DEF Unlink, IInv
    <3>2. CASE l.prev # NULL
      <4>1. PICK k, c : k = l.prev /\ c = [mem[k] EXCEPT !.next = l.next]
        OBVIOUS
      <4>2. k \in Allocated
        BY <1>1, <1>5, <3>2, <4>1 DEF Unlink
      <4>3. c \in Connection
        BY <1>2, <1>3, <4>1, <4>2, MemFields, ConnectionChanges DEF Sides
      <4>4. mem' = [mem EXCEPT ![k] = c]
        BY <1>1, <1>5, <3>2, <4>1 DEF Unlink
      <4>5. QED
        BY <4>3, <4>4, MemStep
    <3>3. QED
      BY <3>1, <3>2
  <2>5. head' \in Pointer \cup {Wild}
    BY <1>1, <1>2, <1>5 DEF Unlink, IInv
  <2>6. hazard' \in BOOLEAN
    BY <1>5, Zenon DEF Unlink, IInv
  <2>7. QED
    BY <1>5, <2>3, <2>4, <2>5, <2>6 DEF Unlink, IInv
<1>6. CASE UnlinkNext(w)
  <2>1. PICK k, c : k = l.next /\ c = [mem[k] EXCEPT !.prev = l.prev]
    OBVIOUS
  <2>2. k \in Allocated
    BY <1>1, <1>6, <2>1 DEF UnlinkNext
  <2>3. c \in Connection
    BY <1>2, <1>3, <2>1, <2>2, MemFields, ConnectionChanges DEF Sides
  <2>4. mem' = [mem EXCEPT ![k] = c]
    BY <1>1, <1>6, <2>1 DEF UnlinkNext
  <2>5. mem' \in [Cells -> Connection \cup {NULL}]
    BY <2>3, <2>4, MemStep
  <2>6. Become(w, [l EXCEPT !.pc = "destroy"])
    BY <1>1, <1>6 DEF UnlinkNext
  <2>7. local' \in [Workers -> Local] /\ \A v \in Workers : Good(local'[v])
    BY <1>2, <1>3, <2>6, LocalChanges, LocalStep
  <2>8. QED
    BY <1>6, <2>5, <2>7 DEF UnlinkNext, IInv
<1>7. CASE Destroy(w)
  <2>1. local' \in [Workers -> Local] /\ \A v \in Workers : Good(local'[v])
    BY <1>7, IdleGood, LocalStep DEF Destroy
  <2>2. mem' \in [Cells -> Connection \cup {NULL}]
    BY <1>7, MemStep DEF Destroy
  <2>3. endpoint' \in [Endpoints -> {"free", "parsed", "attached"}]
    <3>1. PICK es : endpoint' = [e \in Endpoints |-> IF e \in es THEN "free" ELSE endpoint[e]]
      BY <1>7, Zenon DEF Destroy
    <3>2. QED
      BY <3>1 DEF IInv
  <2>4. hazard' \in BOOLEAN
    BY <1>7, Zenon DEF Destroy, IInv
  <2>5. QED
    BY <1>7, <2>1, <2>2, <2>3, <2>4 DEF Destroy, IInv
<1>8. QED
  BY <1>4, <1>5, <1>6, <1>7

LEMMA MediaIInv ==
    ASSUME IInv, NEW w \in Workers, MatchHead(w) \/ Match(w) \/ Send(w) \/ Crash(w)
    PROVE  IInv'
<1>1. PICK l : l = local[w]
  OBVIOUS
<1>2. /\ {"match", "send"} \subseteq PCs
      /\ NULL \in Pointer /\ NULL \in Endpoints \cup {NULL}
  BY DEF PCs, Pointer
<1>3. CASE MatchHead(w)
  <2>1. l \in Local /\ l.job \in Job
    BY <1>1, <1>3, WorkerGood DEF MatchHead, At
  <2>2. PICK k : k = head
    OBVIOUS
  <2>3. k \in Pointer
    BY <1>3, <2>2 DEF MatchHead, IInv
  <2>4. PICK n : n = IF k = NULL THEN Idle ELSE [l EXCEPT !.pc = "match", !.cur = k]
    OBVIOUS
  <2>5. Good(n)
    BY <1>2, <2>1, <2>3, <2>4, LocalChanges, IdleGood
  <2>6. Become(w, n)
    BY <1>1, <1>3, <2>2, <2>4, Zenon DEF MatchHead
  <2>7. local' \in [Workers -> Local] /\ \A v \in Workers : Good(local'[v])
    BY <2>5, <2>6, LocalStep
  <2>8. QED
    BY <1>3, <2>7 DEF MatchHead, IInv, shared
<1>4. CASE Match(w)
  <2>1. l \in Local /\ l.job \in Job
    BY <1>1, <1>4, WorkerGood DEF Match, At
  <2>2. PICK k, hit, dst, next :
            /\ k = l.cur /\ hit = (Complete(k) /\ mem[k].call_id = l.job.call_id)
            /\ dst = mem[k][OtherSide(l.job.side)] /\ next = mem[k].next
    OBVIOUS
  <2>3. mem[k] \in Connection /\ next \in Pointer
    BY <1>1, <1>4, <2>2, MemFields DEF Match
  <2>4. dst \in Endpoints \cup {NULL}
    <3>1. PICK side : side = OtherSide(l.job.side)
      OBVIOUS
    <3>2. \E s \in Sides : s # l.job.side
      BY DEF Sides
    <3>3. side \in Sides
      BY <3>1, <3>2, Zenon DEF OtherSide
    <3>4. QED
      BY <1>2, <2>2, <2>3, <3>1, <3>3, ConnectionChanges
  <2>5. PICK n : n = CASE hit -> [l EXCEPT !.pc = "send", !.dst = dst]
                       [] ~hit /\ next = NULL -> Idle
                       [] ~hit /\ next # NULL -> [l EXCEPT !.cur = next]
    OBVIOUS
  <2>6. Become(w, n)
    BY <1>1, <1>4, <2>2, <2>5 DEF Match
  <2>7. \/ n = [l EXCEPT !.pc = "send", !.dst = dst]
        \/ n = Idle
        \/ n = [l EXCEPT !.cur = next]
    <3>1. hit \/ ~hit
      OBVIOUS
    <3>2. QED
      BY <2>5, <3>1
  <2>8. Good(n)
    <3>1. Good([l EXCEPT !.pc = "send", !.dst = dst])
      BY <1>2, <2>1, <2>4 DEF Good, Local
    <3>2. Good([l EXCEPT !.cur = next])
      BY <2>1, <2>3 DEF Good, Local, Pointer
    <3>3. QED
      BY <2>7, <3>1, <3>2, IdleGood
  <2>9. local' \in [Workers -> Local] /\ \A v \in Workers : Good(local'[v])
    BY <2>6, <2>8, LocalStep
  <2>10. hazard' \in BOOLEAN
    BY <1>4, Zenon DEF Match, IInv
  <2>11. QED
    BY <1>4, <2>9, <2>10 DEF Match, IInv, shared
<1>5. CASE Send(w)
  BY <1>5, IdleGood, LocalStep DEF Send, IInv, shared
<1>6. CASE Crash(w)
  BY <1>6 DEF Crash, IInv, shared
<1>7. QED
  BY <1>3, <1>4, <1>5, <1>6

-----------------------------------------------------------------------------
(* Theorems *)

LEMMA InitIInv == Init => IInv
<1> SUFFICES ASSUME Init PROVE IInv
  OBVIOUS
<1>1. 0 \in 0 .. MaxJobs
  BY ListAssumption
<1>2. hazard \in BOOLEAN
  BY Zenon DEF Init
<1>3. local \in [Workers -> Local] /\ \A w \in Workers : Good(local[w])
  BY IdleGood DEF Init, Good
<1>4. QED
  BY <1>1, <1>2, <1>3 DEF Init, IInv, Pointer

LEMMA NextIInv == IInv /\ [Next]_vars => IInv'
<1> SUFFICES ASSUME IInv, [Next]_vars PROVE IInv'
  OBVIOUS
<1>1. ASSUME NEW w \in Workers, Step(w) PROVE IInv'
  BY <1>1, FindIInv, PushIInv, EndpointIInv, RemoveIInv, MediaIInv DEF Step
<1>2. ASSUME NEW w \in Workers, NEW c \in CallIds,
             \/ \E side \in Sides, e \in Endpoints : ReceiveInitial(w, c, side, e)
             \/ ReceiveFinal(w, c)
             \/ \E side \in Sides : ReceiveMedia(w, c, side)
      PROVE  IInv'
  <2>1. PICK side \in Sides : \/ \E e \in Endpoints : ReceiveInitial(w, c, side, e)
                              \/ ReceiveFinal(w, c)
                              \/ ReceiveMedia(w, c, side)
    BY <1>2 DEF Sides
  <2>2. QED
    BY <2>1, ReceiveIInv
<1>3. CASE UNCHANGED vars
  BY <1>3 DEF vars, IInv
<1>4. QED
  BY <1>1, <1>2, <1>3 DEF Next

\* Every cell of the shared list is a connection or free, every pointer an address
\* or NULL, even after workers have got in each other's way.
THEOREM ListTypeCorrect == Spec => []TypeOK
<1>1. IInv => TypeOK
  BY DEF IInv, TypeOK, Pointer
<1>2. QED
  BY <1>1, InitIInv, NextIInv, PTL DEF Spec

-----------------------------------------------------------------------------
(* The shape of the list.  The operators below are about any memory m, head h,
   endpoints ep and workers' variables L, so that they can be cited of a state
   and of the next one. *)

Elem(n, s, i) == IF i \in 1 .. n THEN s[i] ELSE NULL
ListCells(n, s) == {s[i] : i \in 1 .. n}
EndsOf(c) == {c.request_endpoint, c.response_endpoint} \ {NULL}
Ptrs(l) == {l.cur, l.conn, l.prev, l.next}
NewCell(c) == [call_id |-> c, prev |-> NULL, next |-> NULL,
               request_endpoint |-> NULL, response_endpoint |-> NULL]

Pushing(l)  == l.pc \in {"push", "push_first", "push_head", "push_walk", "push_link"}
Seeks(l)    == l.pc = "create" \/ Pushing(l)
Removing(l) == l.pc \in {"unlink_next", "destroy"}

\* The worker has parsed an endpoint and not put it into a connection yet.
Brings(l) ==
    /\ \/ l.pc \in {"find_head", "find", "check", "set"}
       \/ Seeks(l)
    /\ l.job.op = "initial"

\* s[1], ..., s[n] are the cells of the list, with one call each.
Links(m, h, n, s) ==
    /\ h = Elem(n, s, 1)
    /\ \A i \in 1 .. n : m[s[i]] # NULL /\ m[s[i]].next = Elem(n, s, i + 1)
    /\ \A i, j \in 1 .. n : m[s[i]].call_id = m[s[j]].call_id => i = j

\* They lead back, too, or someone is about to make them.
Backs(m, L, n, s) ==
    \A i \in 1 .. n :
        \/ m[s[i]].prev = Elem(n, s, i - 1)
        \/ \E w \in Workers : /\ L[w].pc = "unlink_next"
                              /\ L[w].next = s[i] /\ L[w].conn = m[s[i]].prev

\* The cells a worker refers to are allocated.
PtrsOK(m, l) == \A k \in Ptrs(l) : k = NULL \/ (k \in Cells /\ m[k] # NULL)

\* What a worker remembers of the list is still so.
LocalOK(m, ep, n, s, l) ==
    /\ l.pc = "find" =>
         \E i \in 1 .. n : /\ l.cur = s[i]
                           /\ \A j \in 1 .. i - 1 : m[s[j]].call_id # l.job.call_id
    /\ l.pc \in {"push_walk", "push_link", "match", "send"} => l.cur \in ListCells(n, s)
    /\ l.pc = "push_link" => m[l.cur].next = NULL
    /\ l.pc \in {"check", "set", "attach", "unlink_read", "unlink"} =>
         l.conn \in ListCells(n, s)
    /\ Seeks(l) => \A i \in 1 .. n : m[s[i]].call_id # l.job.call_id
    /\ l.pc \in {"create", "push", "push_first"} => l.cur = NULL
    /\ l.pc = "push_first" => n = 0
    /\ l.pc = "push_head" => n # 0
    /\ Pushing(l) => /\ l.conn # NULL /\ l.conn \notin ListCells(n, s)
                     /\ m[l.conn] = NewCell(l.job.call_id)
    /\ Removing(l) => l.conn # NULL /\ l.conn \notin ListCells(n, s)
    /\ l.pc = "unlink_next" =>
         \E i \in 1 .. n : l.next = s[i] /\ l.prev = Elem(n, s, i - 1)
    /\ Seeks(l) \/ l.pc \in {"check", "set", "attach"} => l.job.op = "initial"
    /\ l.pc = "set" => m[l.conn][l.job.side] = NULL
    /\ l.pc = "attach" => l.job.endpoint \in EndsOf(m[l.conn])
    /\ l.pc = "send" => l.dst \in EndsOf(m[l.cur]) /\ ep[l.dst] = "attached"
    /\ Brings(l) => l.job.endpoint \in Endpoints /\ ep[l.job.endpoint] = "parsed"

\* What a worker has read before it unlinks a cell is so, or it has read the prev
\* pointer that another one is about to set.
UnlinkOK(L, n, s, l) ==
    \E i \in 1 .. n : /\ l.conn = s[i] /\ l.next = Elem(n, s, i + 1)
                      /\ \/ l.prev = Elem(n, s, i - 1)
                         \/ \E v \in Workers : Removing(L[v]) /\ L[v].conn = l.prev

\* A cell that is pushed is known to no other worker.
Private(L) ==
    \A w, v \in Workers : Pushing(L[w]) /\ v # w => L[w].conn \notin Ptrs(L[v])

\* The cells and endpoints, the workers' variables and the list are of their types.
Typed(m, ep, L, n, s) ==
    /\ m \in [Cells -> Connection \cup {NULL}]
    /\ ep \in [Endpoints -> {"free", "parsed", "attached"}]
    /\ \A w \in Workers : Good(L[w])
    /\ n \in Nat /\ s \in [1 .. n -> Cells]

\* w's variables become l.
Moves(L, L2, w, l) == L2[w] = l /\ \A v \in Workers \ {w} : L2[v] = L[v]

\* An endpoint is in one place.
EndpointsOK(m, ep, L) ==
    /\ \A k \in Cells : m[k] # NULL => \A e \in EndsOf(m[k]) : ep[e] # "free"
    /\ \A k1, k2 \in Cells, a, b \in Sides :
         m[k1] # NULL /\ m[k2] # NULL /\ m[k1][a] = m[k2][b] /\ m[k1][a] # NULL
           => k1 = k2 /\ a = b
    /\ \A w \in Workers, k \in Cells :
         Brings(L[w]) /\ m[k] # NULL => L[w].job.endpoint \notin EndsOf(m[k])
    /\ \A w, v \in Workers :
         Brings(L[w]) /\ Brings(L[v]) /\ L[w].job.endpoint = L[v].job.endpoint => w = v

\* What is allocated is in the list or in somebody's hands.
Kept(m, L, n, s) ==
    \A k \in Cells : m[k] # NULL =>
        \/ k \in ListCells(n, s)
        \/ \E w \in Workers : (Pushing(L[w]) \/ Removing(L[w])) /\ L[w].conn = k

Shape(m, h, ep, L, n, s) ==
    /\ Links(m, h, n, s)
    /\ Backs(m, L, n, s)
    /\ \A w \in Workers : PtrsOK(m, L[w]) /\ LocalOK(m, ep, n, s, L[w])
    /\ \A w \in Workers : L[w].pc = "unlink" => UnlinkOK(L, n, s, L[w])
    /\ Private(L)
    /\ EndpointsOK(m, ep, L)
    /\ Kept(m, L, n, s)

\* The inductive invariant: until a hazard the list is a list.
ListInv ==
    /\ IInv
    /\ hazard \/ /\ ~fault
                 /\ \E n \in Nat : \E s \in [1 .. n -> Cells] :
                      Shape(mem, head, endpoint, local, n, s)

-----------------------------------------------------------------------------
(* Steps that leave the list alone *)

LEMMA IdleOK ==
    ASSUME NEW m, NEW ep, NEW n, NEW s
    PROVE  /\ PtrsOK(m, Idle) /\ LocalOK(m, ep, n, s, Idle)
           /\ ~Pushing(Idle) /\ ~Removing(Idle) /\ ~Brings(Idle) /\ Idle.pc = "idle"
           /\ Ptrs(Idle) = {NULL}
BY DEF Idle, PtrsOK, LocalOK, Pushing, Removing, Brings, Seeks, Ptrs

\* What is in the list is allocated; a cell is in it once.
LEMMA ListFacts ==
    ASSUME NEW m, NEW h, NEW ep, NEW L, NEW n, NEW s,
           Typed(m, ep, L, n, s), Links(m, h, n, s)
    PROVE  /\ \A i \in 1 .. n : /\ s[i] \in Cells /\ s[i] # NULL /\ m[s[i]] \in Connection
                                /\ s[i] \in ListCells(n, s)
           /\ \A i, j \in 1 .. n : s[i] = s[j] => i = j
           /\ \A k \in ListCells(n, s) : \E i \in 1 .. n : k = s[i]
           /\ NULL \notin ListCells(n, s)
<1>1. \A i \in 1 .. n : /\ s[i] \in Cells /\ s[i] # NULL /\ m[s[i]] \in Connection
                        /\ s[i] \in ListCells(n, s)
  BY ListAssumption DEF Typed, Links, ListCells
<1>2. \A i, j \in 1 .. n : s[i] = s[j] => i = j
  BY DEF Links
<1>3. \A k \in ListCells(n, s) : \E i \in 1 .. n : k = s[i]
  BY DEF ListCells
<1>4. QED
  BY <1>1, <1>2, <1>3

\* w's next variables l refer to nothing it did not know but cells of the list and
\* cells that are taken out, and fit the list as it is.
LEMMA QuietStep ==
    ASSUME NEW m, NEW h, NEW ep, NEW L, NEW n, NEW s,
           Typed(m, ep, L, n, s), Shape(m, h, ep, L, n, s),
           NEW w \in Workers, NEW l, NEW L2, Moves(L, L2, w, l),
           LocalOK(m, ep, n, s, l),
           \A k \in Ptrs(l) : \/ k = NULL \/ k \in ListCells(n, s) \/ k \in Ptrs(L[w])
                              \/ \E v \in Workers : Removing(L[v]) /\ L[v].conn = k,
           ~Removing(L[w]),
           Pushing(l) <=> Pushing(L[w]),
           Pushing(l) => l.conn = L[w].conn,
           l.pc = "unlink" => UnlinkOK(L, n, s, l),
           Brings(l) => /\ \A k \in Cells : m[k] # NULL => l.job.endpoint \notin EndsOf(m[k])
                        /\ \A v \in Workers \ {w} :
                             Brings(L[v]) => L[v].job.endpoint # l.job.endpoint
    PROVE  Shape(m, h, ep, L2, n, s)
<1>1. L2[w] = l /\ \A v \in Workers \ {w} : L2[v] = L[v]
  BY DEF Moves
<1>2. Links(m, h, n, s)
  BY DEF Shape
<1>3. Backs(m, L2, n, s)
  BY <1>1 DEF Shape, Backs, Removing
<1>4. ASSUME NEW v \in Workers, NEW k \in Ptrs(l), Pushing(L[v]), v # w
      PROVE  L[v].conn # k
  <2>1. L[v].conn # NULL /\ L[v].conn \notin ListCells(n, s)
    BY <1>4 DEF Shape, LocalOK
  <2>2. L[v].conn \notin Ptrs(L[w])
    BY <1>4 DEF Shape, Private
  <2>3. ASSUME NEW u \in Workers, Removing(L[u]) PROVE L[v].conn # L[u].conn
    <3>1. u # v
      BY <1>4, <2>3 DEF Pushing, Removing
    <3>2. QED
      BY <1>4, <3>1 DEF Shape, Private, Ptrs
  <2>4. QED
    BY <2>1, <2>2, <2>3
<1>5. ASSUME NEW k \in Ptrs(l) PROVE k = NULL \/ (k \in Cells /\ m[k] # NULL)
  <2>1. CASE k \in ListCells(n, s)
    BY <1>2, <2>1, ListFacts, ListAssumption DEF Links
  <2>2. CASE k \in Ptrs(L[w])
    BY <2>2 DEF Shape, PtrsOK
  <2>3. ASSUME NEW v \in Workers, L[v].conn = k PROVE k = NULL \/ (k \in Cells /\ m[k] # NULL)
    BY <2>3 DEF Shape, PtrsOK, Ptrs
  <2>4. QED
    BY <2>1, <2>2, <2>3
<1>6. \A v \in Workers : PtrsOK(m, L2[v]) /\ LocalOK(m, ep, n, s, L2[v])
  <2>1. PtrsOK(m, l)
    BY <1>5 DEF PtrsOK
  <2>2. QED
    BY <1>1, <2>1 DEF Shape
<1>7. ASSUME NEW v \in Workers, L2[v].pc = "unlink" PROVE UnlinkOK(L2, n, s, L2[v])
  <2>1. UnlinkOK(L, n, s, L2[v])
    BY <1>1, <1>7 DEF Shape
  <2>2. \A u \in Workers : Removing(L[u]) => L2[u] = L[u]
    BY <1>1
  <2>3. QED
    BY <2>1, <2>2 DEF UnlinkOK
<1>8. Private(L2)
  BY <1>1, <1>4 DEF Shape, Private, Ptrs
<1>9. EndpointsOK(m, ep, L2)
  BY <1>1 DEF Shape, EndpointsOK
<1>10. Kept(m, L2, n, s)
  BY <1>1 DEF Shape, Kept
<1>11. QED
  BY <1>2, <1>3, <1>6, <1>7, <1>8, <1>9, <1>10 DEF Shape

-----------------------------------------------------------------------------
(* The handlers' steps that only read: searching, checking, matching, sending *)

LEMMA StateTyped ==
    ASSUME IInv, NEW n \in Nat, NEW s \in [1 .. n -> Cells]
    PROVE  Typed(mem, endpoint, local, n, s)
BY DEF IInv, Typed

\* Become, in terms of the values of local before and after.
LEMMA BecomeMoves ==
    ASSUME IInv, NEW w \in Workers, NEW l, Become(w, l)
    PROVE  Moves(local, local', w, l)
BY DEF IInv, Become, Moves

\* An endpoint a worker brings is nowhere else.
LEMMA BringsAlone ==
    ASSUME NEW m, NEW ep, NEW L, EndpointsOK(m, ep, L), NEW w \in Workers, Brings(L[w])
    PROVE  /\ \A k \in Cells : m[k] # NULL => L[w].job.endpoint \notin EndsOf(m[k])
           /\ \A v \in Workers \ {w} :
                Brings(L[v]) => L[v].job.endpoint # L[w].job.endpoint
BY DEF EndpointsOK

\* A worker that neither pushes nor removes anything ends its handler.
LEMMA EndStep ==
    ASSUME NEW m, NEW h, NEW ep, NEW L, NEW n, NEW s,
           Typed(m, ep, L, n, s), Shape(m, h, ep, L, n, s),
           NEW w \in Workers, NEW L2, Moves(L, L2, w, Idle),
           ~Removing(L[w]), ~Pushing(L[w])
    PROVE  Shape(m, h, ep, L2, n, s)
BY IdleOK, QuietStep

\* A search that finds nothing.
LEMMA NotFoundStep ==
    ASSUME NEW m, NEW h, NEW ep, NEW L, NEW n, NEW s,
           Typed(m, ep, L, n, s), Shape(m, h, ep, L, n, s),
           NEW w \in Workers, L[w].pc \in {"find_head", "find"},
           \A i \in 1 .. n : m[s[i]].call_id # L[w].job.call_id,
           NEW L2, Moves(L, L2, w, NotFound(L[w]))
    PROVE  Shape(m, h, ep, L2, n, s)
<1>1. ~Removing(L[w]) /\ ~Pushing(L[w])
  BY DEF Removing, Pushing
<1>2. CASE L[w].job.op # "initial"
  BY <1>1, <1>2, EndStep DEF NotFound
<1>3. CASE L[w].job.op = "initial"
  <2>1. PICK l : l = [L[w] EXCEPT !.pc = "create", !.cur = NULL]
    OBVIOUS
  <2>2. L[w] \in Local
    BY DEF Typed, Good
  <2>3. /\ l.pc = "create" /\ l.job = L[w].job /\ l.cur = NULL /\ l.conn = L[w].conn
        /\ l.prev = L[w].prev /\ l.next = L[w].next
    BY <2>1, <2>2 DEF Local
  <2>4. Brings(L[w]) /\ Brings(l)
    BY <1>3, <2>3 DEF Brings, Seeks
  <2>5. LocalOK(m, ep, n, s, L[w])
    BY DEF Shape
  <2>6. LocalOK(m, ep, n, s, l)
    BY <1>3, <2>3, <2>4, <2>5 DEF LocalOK, Seeks, Pushing, Removing
  <2>7. \A k \in Ptrs(l) : k = NULL \/ k \in Ptrs(L[w])
    BY <2>3 DEF Ptrs
  <2>8. ~Pushing(l) /\ l.pc # "unlink"
    BY <2>3 DEF Pushing
  <2>9. /\ \A k \in Cells : m[k] # NULL => l.job.endpoint \notin EndsOf(m[k])
        /\ \A v \in Workers \ {w} : Brings(L[v]) => L[v].job.endpoint # l.job.endpoint
    BY <2>3, <2>4, BringsAlone DEF Shape
  <2>10. Moves(L, L2, w, l)
    BY <1>3, <2>1 DEF NotFound
  <2>11. QED
    BY <1>1, <2>6, <2>7, <2>8, <2>9, <2>10, QuietStep
<1>4. QED
  BY <1>2, <1>3

\* A search that finds the cell k of the list.
LEMMA FoundStep ==
    ASSUME NEW m, NEW h, NEW ep, NEW L, NEW n, NEW s,
           Typed(m, ep, L, n, s), Shape(m, h, ep, L, n, s),
           NEW w \in Workers, L[w].pc = "find", NEW k \in ListCells(n, s),
           NEW L2, Moves(L, L2, w, Found(L[w], k))
    PROVE  Shape(m, h, ep, L2, n, s)
<1>1. PICK l : l = Found(L[w], k)
  OBVIOUS
<1>2. PICK pc : pc = IF L[w].job.op = "initial" THEN "check" ELSE "unlink_read"
  OBVIOUS
<1>3. L[w] \in Local
  BY DEF Typed, Good
<1>4. l = [L[w] EXCEPT !.pc = pc, !.conn = k, !.cur = NULL]
  BY <1>1, <1>2, Zenon DEF Found
<1>5. /\ l.pc = pc /\ l.job = L[w].job /\ l.cur = NULL /\ l.conn = k
      /\ l.prev = L[w].prev /\ l.next = L[w].next
  BY <1>3, <1>4 DEF Local
<1>6. ~Removing(L[w]) /\ ~Pushing(L[w]) /\ ~Pushing(l) /\ l.pc # "unlink"
  BY <1>2, <1>5 DEF Removing, Pushing
<1>7. LocalOK(m, ep, n, s, L[w])
  BY DEF Shape
<1>8. Brings(l) => Brings(L[w])
  BY <1>5 DEF Brings, Seeks
<1>9. LocalOK(m, ep, n, s, l)
  <2>1. CASE L[w].job.op = "initial"
    BY <1>2, <1>5, <1>7, <1>8, <2>1 DEF LocalOK, Seeks, Pushing, Removing
  <2>2. CASE L[w].job.op # "initial"
    BY <1>2, <1>5, <1>7, <2>2 DEF LocalOK, Seeks, Pushing, Removing, Brings
  <2>3. QED
    BY <2>1, <2>2
<1>10. \A j \in Ptrs(l) : j = NULL \/ j \in ListCells(n, s) \/ j \in Ptrs(L[w])
  BY <1>5 DEF Ptrs
<1>11. Brings(l) =>
         /\ \A j \in Cells : m[j] # NULL => l.job.endpoint \notin EndsOf(m[j])
         /\ \A v \in Workers \ {w} : Brings(L[v]) => L[v].job.endpoint # l.job.endpoint
  BY <1>5, <1>8, BringsAlone DEF Shape
<1>12. QED
  BY <1>1, <1>6, <1>9, <1>10, <1>11, QuietStep

\* find_connection_by_call_id leaves the list as it is and comes to the right end.
LEMMA FindShape ==
    ASSUME IInv, NEW n \in Nat, NEW s \in [1 .. n -> Cells],
           Shape(mem, head, endpoint, local, n, s),
           NEW w \in Workers, FindHead(w) \/ Find(w)
    PROVE  Shape(mem', head', endpoint', local', n, s)
<1>1. Typed(mem, endpoint, local, n, s)
  BY StateTyped
<1>2. PICK l : l = local[w]
  OBVIOUS
<1>3. /\ l \in Local
      /\ LocalOK(mem, endpoint, n, s, l)
      /\ EndpointsOK(mem, endpoint, local)
      /\ Links(mem, head, n, s)
  BY <1>2, WorkerGood DEF Shape
<1>4. mem' = mem /\ head' = head /\ endpoint' = endpoint
  BY DEF FindHead, Find, shared
<1>5. l.pc \in {"find_head", "find"}
  BY <1>2 DEF FindHead, Find, At
<1>6. ~Removing(l) /\ ~Pushing(l)
  BY <1>5 DEF Removing, Pushing
<1>7. ASSUME \A i \in 1 .. n : mem[s[i]].call_id # l.job.call_id, Become(w, NotFound(l))
      PROVE  Shape(mem', head', endpoint', local', n, s)
  BY <1>1, <1>2, <1>4, <1>5, <1>7, BecomeMoves, NotFoundStep
<1>8. ASSUME NEW i \in 1 .. n, \A j \in 1 .. i - 1 : mem[s[j]].call_id # l.job.call_id,
             NEW r, Become(w, r),
             r.pc = "find" /\ r.job = l.job /\ r.cur = s[i] /\ r.conn = l.conn
             /\ r.prev = l.prev /\ r.next = l.next
      PROVE  Shape(mem', head', endpoint', local', n, s)
  <2>1. Brings(r) => Brings(l)
    BY <1>5, <1>8 DEF Brings, Seeks
  <2>2. LocalOK(mem, endpoint, n, s, r)
    BY <1>3, <1>8, <2>1 DEF LocalOK, Seeks, Pushing, Removing
  <2>3. \A j \in Ptrs(r) : j = NULL \/ j \in ListCells(n, s) \/ j \in Ptrs(l)
    BY <1>8 DEF Ptrs, ListCells
  <2>4. Brings(r) =>
          /\ \A j \in Cells : mem[j] # NULL => r.job.endpoint \notin EndsOf(mem[j])
          /\ \A v \in Workers \ {w} : Brings(local[v]) => local[v].job.endpoint # r.job.endpoint
    BY <1>2, <1>3, <1>8, <2>1, BringsAlone
  <2>5. ~Pushing(r) /\ r.pc # "unlink"
    BY <1>8 DEF Pushing
  <2>6. QED
    BY <1>1, <1>2, <1>4, <1>6, <1>8, <2>2, <2>3, <2>4, <2>5, BecomeMoves, QuietStep
<1>9. CASE FindHead(w)
  <2>1. CASE head = NULL
    <3>1. n = 0
      BY <1>1, <1>3, <2>1, ListFacts DEF Links, Elem
    <3>2. QED
      BY <1>2, <1>7, <1>9, <2>1, <3>1 DEF FindHead
  <2>2. CASE head # NULL
    <3>1. 1 \in 1 .. n /\ head = s[1]
      BY <1>3, <2>2 DEF Links, Elem
    <3>2. PICK r : r = [l EXCEPT !.pc = "find", !.cur = head]
      OBVIOUS
    <3>3. Become(w, r)
      BY <1>2, <1>9, <2>2, <3>2 DEF FindHead
    <3>4. /\ r.pc = "find" /\ r.job = l.job /\ r.cur = head /\ r.conn = l.conn
          /\ r.prev = l.prev /\ r.next = l.next
      BY <1>3, <3>2 DEF Local
    <3>5. QED
      BY <1>8, <3>1, <3>3, <3>4
  <2>3. QED
    BY <2>1, <2>2
<1>10. CASE Find(w)
  <2>1. PICK k, next : k = l.cur /\ next = mem[k].next
    OBVIOUS
  <2>2. l.pc = "find"
    BY <1>2, <1>10 DEF Find, At
  <2>3. PICK i \in 1 .. n :
            k = s[i] /\ \A j \in 1 .. i - 1 : mem[s[j]].call_id # l.job.call_id
    BY <1>3, <2>1, <2>2 DEF LocalOK
  <2>4. next = Elem(n, s, i + 1) /\ k \in ListCells(n, s)
    BY <1>3, <2>1, <2>3 DEF Links, ListCells
  <2>5. CASE mem[k].call_id = l.job.call_id
    <3>1. Become(w, Found(l, k))
      BY <1>2, <1>10, <2>1, <2>5 DEF Find
    <3>2. QED
      BY <1>1, <1>2, <1>4, <2>2, <2>4, <3>1, BecomeMoves, FoundStep
  <2>6. CASE mem[k].call_id # l.job.call_id /\ next = NULL
    <3>1. Become(w, NotFound(l))
      BY <1>2, <1>10, <2>1, <2>6 DEF Find
    <3>2. n = i
      BY <1>1, <1>3, <2>4, <2>6, ListFacts DEF Elem
    <3>3. \A j \in 1 .. n : mem[s[j]].call_id # l.job.call_id
      BY <2>3, <2>6, <3>2
    <3>4. QED
      BY <1>7, <3>1, <3>3
  <2>7. CASE mem[k].call_id # l.job.call_id /\ next # NULL
    <3>1. PICK r : r = [l EXCEPT !.cur = next]
      OBVIOUS
    <3>2. Become(w, r)
      BY <1>2, <1>10, <2>1, <2>7, <3>1 DEF Find
    <3>3. /\ r.pc = "find" /\ r.job = l.job /\ r.cur = next /\ r.conn = l.conn
          /\ r.prev = l.prev /\ r.next = l.next
      BY <1>3, <2>2, <3>1 DEF Local
    <3>4. i + 1 \in 1 .. n /\ next = s[i + 1]
      BY <2>4, <2>7 DEF Elem
    <3>5. \A j \in 1 .. (i + 1) - 1 : mem[s[j]].call_id # l.job.call_id
      BY <2>3, <2>7
    <3>6. QED
      BY <1>8, <3>2, <3>3, <3>4, <3>5
  <2>8. QED
    BY <2>5, <2>6, <2>7
<1>11. QED
  BY <1>9, <1>10

\* The walk to the end of the list in push_connection.
LEMMA PushWalkShape ==
    ASSUME IInv, NEW n \in Nat, NEW s \in [1 .. n -> Cells],
           Shape(mem, head, endpoint, local, n, s), NEW w \in Workers, PushWalk(w)
    PROVE  Shape(mem', head', endpoint', local', n, s)
<1>1. Typed(mem, endpoint, local, n, s)
  BY StateTyped
<1>2. PICK l, next : l = local[w] /\ next = mem[l.cur].next
  OBVIOUS
<1>3. /\ l \in Local
      /\ LocalOK(mem, endpoint, n, s, l)
      /\ EndpointsOK(mem, endpoint, local)
      /\ Links(mem, head, n, s)
  BY <1>2, WorkerGood DEF Shape
<1>4. mem' = mem /\ head' = head /\ endpoint' = endpoint
  BY DEF PushWalk, shared
<1>5. l.pc = "push_walk"
  BY <1>2 DEF PushWalk, At
<1>6. PICK i \in 1 .. n : l.cur = s[i]
  BY <1>3, <1>5 DEF LocalOK, ListCells
<1>7. next = Elem(n, s, i + 1)
  BY <1>2, <1>3, <1>6 DEF Links
<1>8. PICK r : r = IF next = NULL THEN [l EXCEPT !.pc = "push_link"] ELSE [l EXCEPT !.cur = next]
  OBVIOUS
<1>9. Become(w, r)
  BY <1>2, <1>8, Zenon DEF PushWalk
<1>10. /\ r.pc \in {"push_walk", "push_link"}
       /\ r.pc = "push_link" => next = NULL
       /\ r.cur = IF next = NULL THEN l.cur ELSE next
       /\ r.job = l.job /\ r.conn = l.conn /\ r.prev = l.prev /\ r.next = l.next
  BY <1>3, <1>5, <1>8 DEF Local
<1>11. r.cur \in ListCells(n, s)
  BY <1>6, <1>7, <1>10 DEF ListCells, Elem
<1>12. Brings(r) => Brings(l)
  BY <1>5, <1>10 DEF Brings, Seeks, Pushing
<1>13. LocalOK(mem, endpoint, n, s, r)
  <2>1. r.pc = "push_link" => mem[r.cur].next = NULL
    BY <1>2, <1>10
  <2>2. QED
    BY <1>3, <1>5, <1>10, <1>11, <1>12, <2>1 DEF LocalOK, Seeks, Pushing, Removing
<1>14. \A j \in Ptrs(r) : j = NULL \/ j \in ListCells(n, s) \/ j \in Ptrs(l)
  BY <1>10, <1>11 DEF Ptrs
<1>15. Brings(r) =>
         /\ \A j \in Cells : mem[j] # NULL => r.job.endpoint \notin EndsOf(mem[j])
         /\ \A v \in Workers \ {w} : Brings(local[v]) => local[v].job.endpoint # r.job.endpoint
  BY <1>2, <1>3, <1>10, <1>12, BringsAlone
<1>16. ~Removing(l) /\ Pushing(l) /\ Pushing(r) /\ r.pc # "unlink"
  BY <1>5, <1>10 DEF Pushing, Removing
<1>17. QED
  BY <1>1, <1>2, <1>4, <1>9, <1>10, <1>13, <1>14, <1>15, <1>16, BecomeMoves, QuietStep

\* The two readings of the head in push_connection.
LEMMA PushHeadShape ==
    ASSUME IInv, NEW n \in Nat, NEW s \in [1 .. n -> Cells],
           Shape(mem, head, endpoint, local, n, s), NEW w \in Workers, Push(w) \/ PushHead(w)
    PROVE  Shape(mem', head', endpoint', local', n, s)
<1>1. Typed(mem, endpoint, local, n, s)
  BY StateTyped
<1>2. PICK l, h : l = local[w] /\ h = head
  OBVIOUS
<1>3. /\ l \in Local
      /\ LocalOK(mem, endpoint, n, s, l)
      /\ EndpointsOK(mem, endpoint, local)
      /\ h = Elem(n, s, 1)
  BY <1>2, WorkerGood DEF Shape, Links, Push, PushHead, At
<1>4. mem' = mem /\ head' = head /\ endpoint' = endpoint
  BY DEF Push, PushHead, shared
<1>5. /\ n = 0 => h = NULL
      /\ n # 0 => h # NULL /\ h \in ListCells(n, s)
  <2>1. CASE n = 0
    <3>1. 1 \notin 1 .. n
      BY <2>1
    <3>2. QED
      BY <1>3, <2>1, <3>1, Zenon DEF Elem
  <2>2. CASE n # 0
    <3>1. 1 \in 1 .. n /\ h = s[1]
      BY <1>3, <2>2 DEF Elem
    <3>2. QED
      BY <2>2, <3>1, ListAssumption DEF ListCells
  <2>3. QED
    BY <2>1, <2>2
<1>6. PICK r : /\ Become(w, r)
               /\ \/ /\ l.pc = "push"
                     /\ r = [l EXCEPT !.pc = IF h = NULL THEN "push_first" ELSE "push_head"]
                  \/ l.pc = "push_head" /\ r = [l EXCEPT !.pc = "push_walk", !.cur = h]
  BY <1>2, Zenon DEF Push, PushHead, At
<1>7. /\ Pushing(l) /\ Pushing(r) /\ ~Removing(l) /\ r.pc \notin {"unlink", "push_link"}
      /\ r.job = l.job /\ r.conn = l.conn /\ r.prev = l.prev /\ r.next = l.next
  BY <1>3, <1>6 DEF Local, Pushing, Removing
<1>8. /\ r.pc = "push_walk" => r.cur \in ListCells(n, s)
      /\ r.pc = "push_first" => n = 0 /\ r.cur = NULL
      /\ r.pc = "push_head" => n # 0
      /\ r.pc \in {"push_walk", "push_first", "push_head"}
      /\ r.cur = l.cur \/ r.cur \in ListCells(n, s)
  <2>1. CASE l.pc = "push"
    <3>1. l.cur = NULL
      BY <1>3, <2>1 DEF LocalOK
    <3>2. r.cur = NULL /\ r.pc = IF h = NULL THEN "push_first" ELSE "push_head"
      BY <1>3, <1>6, <2>1, <3>1 DEF Local
    <3>3. QED
      BY <1>5, <3>1, <3>2
  <2>2. CASE l.pc = "push_head"
    <3>1. r.cur = h /\ r.pc = "push_walk"
      BY <1>3, <1>6, <2>2 DEF Local
    <3>2. n # 0
      BY <1>3, <2>2 DEF LocalOK
    <3>3. QED
      BY <1>5, <3>1, <3>2
  <2>3. QED
    BY <1>6, <2>1, <2>2
<1>9. Brings(r) => Brings(l)
  BY <1>7 DEF Brings, Seeks
<1>10. LocalOK(mem, endpoint, n, s, r)
  <2>1. Seeks(l) /\ Seeks(r) /\ ~Removing(r) /\ r.pc # "create"
    BY <1>7, <1>8 DEF Seeks, Removing
  <2>2. QED
    BY <1>3, <1>7, <1>8, <1>9, <2>1 DEF LocalOK
<1>11. \A j \in Ptrs(r) : j = NULL \/ j \in ListCells(n, s) \/ j \in Ptrs(l)
  BY <1>7, <1>8 DEF Ptrs
<1>12. Brings(r) =>
         /\ \A j \in Cells : mem[j] # NULL => r.job.endpoint \notin EndsOf(mem[j])
         /\ \A v \in Workers \ {w} : Brings(local[v]) => local[v].job.endpoint # r.job.endpoint
  BY <1>2, <1>3, <1>7, <1>9, BringsAlone
<1>13. QED
  BY <1>1, <1>2, <1>4, <1>6, <1>7, <1>10, <1>11, <1>12, BecomeMoves, QuietStep

\* Looking whether the slot is taken leaves the list as it is.
LEMMA CheckEndpointShape ==
    ASSUME IInv, NEW n \in Nat, NEW s \in [1 .. n -> Cells],
           Shape(mem, head, endpoint, local, n, s), NEW w \in Workers, CheckEndpoint(w)
    PROVE  Shape(mem', head', endpoint', local', n, s)
<1>1. Typed(mem, endpoint, local, n, s)
  BY StateTyped
<1>2. PICK l : l = local[w]
  OBVIOUS
<1>3. /\ l \in Local
      /\ LocalOK(mem, endpoint, n, s, l)
      /\ EndpointsOK(mem, endpoint, local)
  BY <1>2, WorkerGood DEF Shape
<1>4. mem' = mem /\ head' = head /\ endpoint' = endpoint
  BY DEF CheckEndpoint, shared
<1>5. l.pc = "check"
  BY <1>2 DEF CheckEndpoint, At
<1>6. ~Removing(l) /\ ~Pushing(l)
  BY <1>5 DEF Pushing, Removing
<1>7. CASE mem[l.conn][l.job.side] = NULL
  <2>1. PICK r : r = [l EXCEPT !.pc = "set"]
    OBVIOUS
  <2>2. Become(w, r)
    BY <1>2, <1>7, <2>1 DEF CheckEndpoint
  <2>3. /\ r.pc = "set" /\ r.job = l.job /\ r.cur = l.cur /\ r.conn = l.conn
        /\ r.prev = l.prev /\ r.next = l.next
    BY <1>3, <2>1 DEF Local
  <2>4. Brings(r) => Brings(l)
    BY <1>5, <2>3 DEF Brings, Seeks
  <2>5. LocalOK(mem, endpoint, n, s, r)
    BY <1>3, <1>5, <1>7, <2>3, <2>4 DEF LocalOK, Seeks, Pushing, Removing
  <2>6. \A k \in Ptrs(r) : k \in Ptrs(l)
    BY <2>3 DEF Ptrs
  <2>7. Brings(r) =>
          /\ \A k \in Cells : mem[k] # NULL => r.job.endpoint \notin EndsOf(mem[k])
          /\ \A v \in Workers \ {w} : Brings(local[v]) => local[v].job.endpoint # r.job.endpoint
    BY <1>2, <1>3, <2>3, <2>4, BringsAlone
  <2>8. ~Pushing(r) /\ r.pc # "unlink"
    BY <2>3 DEF Pushing
  <2>9. QED
    BY <1>1, <1>2, <1>4, <1>6, <2>2, <2>5, <2>6, <2>7, <2>8, BecomeMoves, QuietStep
<1>8. CASE mem[l.conn][l.job.side] # NULL
  <2>1. Become(w, Idle)
    BY <1>2, <1>8 DEF CheckEndpoint
  <2>2. QED
    BY <1>1, <1>2, <1>4, <1>6, <2>1, BecomeMoves, EndStep
<1>9. QED
  BY <1>7, <1>8

\* remove_connection reads the neighbours of a cell of the list.
LEMMA UnlinkReadShape ==
    ASSUME IInv, NEW n \in Nat, NEW s \in [1 .. n -> Cells],
           Shape(mem, head, endpoint, local, n, s), NEW w \in Workers, UnlinkRead(w)
    PROVE  Shape(mem', head', endpoint', local', n, s)
<1>1. Typed(mem, endpoint, local, n, s)
  BY StateTyped
<1>2. PICK l, prev, next : /\ l = local[w]
                           /\ prev = mem[l.conn].prev /\ next = mem[l.conn].next
  OBVIOUS
<1>3. /\ l \in Local
      /\ LocalOK(mem, endpoint, n, s, l)
      /\ Links(mem, head, n, s)
      /\ Backs(mem, local, n, s)
  BY <1>2, WorkerGood DEF Shape
<1>4. mem' = mem /\ head' = head /\ endpoint' = endpoint
  BY DEF UnlinkRead, shared
<1>5. l.pc = "unlink_read"
  BY <1>2 DEF UnlinkRead, At
<1>6. ~Removing(l) /\ ~Pushing(l)
  BY <1>5 DEF Pushing, Removing
<1>7. PICK i \in 1 .. n : l.conn = s[i]
  BY <1>3, <1>5 DEF LocalOK, ListCells
<1>8. next = Elem(n, s, i + 1)
  BY <1>2, <1>3, <1>7 DEF Links
<1>9. \/ prev = Elem(n, s, i - 1)
      \/ \E v \in Workers : Removing(local[v]) /\ local[v].conn = prev
  BY <1>2, <1>3, <1>7 DEF Backs, Removing
<1>10. PICK r : r = [l EXCEPT !.pc = "unlink", !.prev = prev, !.next = next]
  OBVIOUS
<1>11. Become(w, r)
  BY <1>2, <1>10 DEF UnlinkRead
<1>12. /\ r.pc = "unlink" /\ r.job = l.job /\ r.cur = l.cur /\ r.conn = l.conn
       /\ r.prev = prev /\ r.next = next
  BY <1>3, <1>10 DEF Local
<1>13. ~Brings(r) /\ ~Pushing(r)
  BY <1>12 DEF Brings, Seeks, Pushing
<1>14. LocalOK(mem, endpoint, n, s, r)
  BY <1>3, <1>5, <1>12, <1>13 DEF LocalOK, Seeks, Pushing, Removing
<1>15. UnlinkOK(local, n, s, r)
  BY <1>7, <1>8, <1>9, <1>12 DEF UnlinkOK
<1>16. \A k \in Ptrs(r) : \/ k = NULL \/ k \in ListCells(n, s) \/ k \in Ptrs(l)
                          \/ \E v \in Workers : Removing(local[v]) /\ local[v].conn = k
  BY <1>8, <1>9, <1>12 DEF Ptrs, Elem, ListCells
<1>17. QED
  BY <1>1, <1>2, <1>4, <1>6, <1>11, <1>13, <1>14, <1>15, <1>16, BecomeMoves, QuietStep

\* find_counter_endpoint walks along the list, and what it finds has a socket.
LEMMA MatchShape ==
    ASSUME IInv, NEW n \in Nat, NEW s \in [1 .. n -> Cells],
           Shape(mem, head, endpoint, local, n, s), NEW w \in Workers,
           MatchHead(w) \/ Match(w), ~hazard'
    PROVE  Shape(mem', head', endpoint', local', n, s)
<1>1. Typed(mem, endpoint, local, n, s)
  BY StateTyped
<1>2. PICK l : l = local[w]
  OBVIOUS
<1>3. /\ l \in Local
      /\ LocalOK(mem, endpoint, n, s, l)
      /\ Links(mem, head, n, s)
  BY <1>2, WorkerGood DEF Shape
<1>4. mem' = mem /\ head' = head /\ endpoint' = endpoint
  BY DEF MatchHead, Match, shared
<1>5. l.pc \in {"match_head", "match"}
  BY <1>2 DEF MatchHead, Match, At
<1>6. ~Removing(l) /\ ~Pushing(l)
  BY <1>5 DEF Pushing, Removing
<1>7. CASE Become(w, Idle)
  BY <1>1, <1>2, <1>4, <1>6, <1>7, BecomeMoves, EndStep
<1>8. ASSUME NEW r, Become(w, r), r.cur \in ListCells(n, s),
             \/ r.pc = "match"
             \/ r.pc = "send" /\ r.dst \in EndsOf(mem[r.cur]) /\ endpoint[r.dst] = "attached",
             r.conn = l.conn /\ r.prev = l.prev /\ r.next = l.next
      PROVE  Shape(mem', head', endpoint', local', n, s)
  <2>1. ~Brings(r) /\ ~Pushing(r) /\ r.pc # "unlink"
    BY <1>8 DEF Brings, Seeks, Pushing
  <2>2. LocalOK(mem, endpoint, n, s, r)
    BY <1>8, <2>1 DEF LocalOK, Seeks, Removing
  <2>3. \A k \in Ptrs(r) : k \in ListCells(n, s) \/ k \in Ptrs(l)
    BY <1>8 DEF Ptrs
  <2>4. QED
    BY <1>1, <1>2, <1>4, <1>6, <1>8, <2>1, <2>2, <2>3, BecomeMoves, QuietStep
<1>9. CASE MatchHead(w)
  <2>1. CASE head = NULL
    BY <1>7, <1>9, <2>1 DEF MatchHead
  <2>2. CASE head # NULL
    <3>1. head \in ListCells(n, s)
      BY <1>3, <2>2 DEF Links, Elem, ListCells
    <3>2. PICK r : r = [l EXCEPT !.pc = "match", !.cur = head]
      OBVIOUS
    <3>3. Become(w, r)
      BY <1>2, <1>9, <2>2, <3>2 DEF MatchHead
    <3>4. r.pc = "match" /\ r.cur = head /\ r.conn = l.conn /\ r.prev = l.prev /\ r.next = l.next
      BY <1>3, <3>2 DEF Local
    <3>5. QED
      BY <1>8, <3>1, <3>3, <3>4
  <2>3. QED
    BY <2>1, <2>2
<1>10. CASE Match(w)
  <2>1. PICK k, hit, dst, next :
            /\ k = l.cur /\ hit = (Complete(k) /\ mem[k].call_id = l.job.call_id)
            /\ dst = mem[k][OtherSide(l.job.side)] /\ next = mem[k].next
    OBVIOUS
  <2>2. l.pc = "match" /\ l.job \in Job
    BY <1>2, <1>10, WorkerGood DEF Match, At
  <2>3. PICK i \in 1 .. n : k = s[i]
    BY <1>3, <2>1, <2>2 DEF LocalOK, ListCells
  <2>4. next = Elem(n, s, i + 1) /\ k \in ListCells(n, s) /\ mem[k] \in Connection
    <3>1. k \in ListCells(n, s) /\ mem[k] \in Connection
      BY <1>1, <1>3, <2>3, ListFacts
    <3>2. QED
      BY <1>3, <2>1, <2>3, <3>1 DEF Links
  <2>5. CASE hit
    <3>1. PICK r : r = [l EXCEPT !.pc = "send", !.dst = dst]
      OBVIOUS
    <3>2. Become(w, r)
      BY <1>2, <1>10, <2>1, <2>5, <3>1 DEF Match
    <3>3. /\ r.pc = "send" /\ r.cur = k /\ r.dst = dst /\ r.conn = l.conn
          /\ r.prev = l.prev /\ r.next = l.next
      BY <1>3, <2>1, <3>1 DEF Local
    <3>4. PICK side : side = OtherSide(l.job.side)
      OBVIOUS
    <3>5. side \in Sides
      <4>1. \E x \in Sides : x # l.job.side
        BY DEF Sides
      <4>2. QED
        BY <3>4, <4>1, Zenon DEF OtherSide
    <3>6. Complete(k)
      BY <2>1, <2>5
    <3>7. dst \in EndsOf(mem[k]) /\ dst \in EndpointsOf(k)
      BY <2>1, <3>4, <3>5, <3>6 DEF EndsOf, EndpointsOf, Complete, Sides
    <3>8. endpoint[dst] # "free" /\ endpoint[dst] # "parsed"
      <4>1. Complete(k) => \A e \in EndpointsOf(k) : endpoint[e] # "free"
        BY <1>2, <1>10, <2>1, Zenon DEF Match
      <4>2. hazard' = (hazard \/ (hit /\ endpoint[dst] = "parsed"))
        BY <1>2, <1>10, <2>1, Zenon DEF Match
      <4>3. QED
        BY <2>5, <3>6, <3>7, <4>1, <4>2
    <3>9. endpoint[dst] = "attached"
      <4>1. dst \in Endpoints
        BY <2>4, <3>7 DEF EndsOf, Connection
      <4>2. QED
        BY <3>8, <4>1 DEF IInv
    <3>10. QED
      BY <1>8, <2>4, <3>2, <3>3, <3>7, <3>9
  <2>6. CASE ~hit /\ next = NULL
    <3>1. Become(w, Idle)
      BY <1>2, <1>10, <2>1, <2>6 DEF Match
    <3>2. QED
      BY <1>7, <3>1
  <2>7. CASE ~hit /\ next # NULL
    <3>1. PICK r : r = [l EXCEPT !.cur = next]
      OBVIOUS
    <3>2. Become(w, r)
      BY <1>2, <1>10, <2>1, <2>7, <3>1 DEF Match
    <3>3. r.pc = "match" /\ r.cur = next /\ r.conn = l.conn /\ r.prev = l.prev /\ r.next = l.next
      BY <1>3, <2>2, <3>1 DEF Local
    <3>4. next \in ListCells(n, s)
      BY <2>4, <2>7 DEF Elem, ListCells
    <3>5. QED
      BY <1>8, <3>2, <3>3, <3>4
  <2>8. QED
    BY <2>5, <2>6, <2>7
<1>11. QED
  BY <1>9, <1>10

\* So do the ends of a handler that only gives its job up.
LEMMA EndShape ==
    ASSUME IInv, NEW n \in Nat, NEW s \in [1 .. n -> Cells],
           Shape(mem, head, endpoint, local, n, s), NEW w \in Workers,
           CreateFails(w) \/ Send(w)
    PROVE  Shape(mem', head', endpoint', local', n, s)
<1>1. Typed(mem, endpoint, local, n, s)
  BY StateTyped
<1>2. ~Removing(local[w]) /\ ~Pushing(local[w])
  BY DEF CreateFails, Send, At, Pushing, Removing
<1>3. mem' = mem /\ head' = head /\ endpoint' = endpoint /\ Become(w, Idle)
  BY DEF CreateFails, Send, shared
<1>4. QED
  BY <1>1, <1>2, <1>3, BecomeMoves, EndStep

-----------------------------------------------------------------------------
(* Endpoints: parsed, and given their socket *)

\* An endpoint goes from "free" to "parsed", or to "attached" where it is used.
LEMMA EndpointStep ==
    ASSUME NEW m, NEW h, NEW ep, NEW L, NEW n, NEW s,
           Typed(m, ep, L, n, s), Shape(m, h, ep, L, n, s), NEW e \in Endpoints, NEW ep2,
           \A f \in Endpoints : f # e => ep2[f] = ep[f],
           \/ ep[e] = "free" /\ ep2[e] = "parsed"
           \/ /\ ep[e] # "free" /\ ep2[e] = "attached"
              /\ \A w \in Workers : Brings(L[w]) => L[w].job.endpoint # e
    PROVE  Shape(m, h, ep2, L, n, s)
<1>1. Links(m, h, n, s) /\ Backs(m, L, n, s) /\ Private(L) /\ Kept(m, L, n, s)
  BY DEF Shape
<1>2. ASSUME NEW w \in Workers PROVE LocalOK(m, ep2, n, s, L[w])
  <2>1. LocalOK(m, ep, n, s, L[w])
    BY DEF Shape
  <2>2. L[w].pc = "send" => ep2[L[w].dst] = "attached"
    <3>1. SUFFICES ASSUME L[w].pc = "send" PROVE ep2[L[w].dst] = "attached"
      OBVIOUS
    <3>2. L[w].dst \in Endpoints /\ ep[L[w].dst] = "attached"
      <4>1. /\ L[w].cur \in ListCells(n, s) /\ L[w].dst \in EndsOf(m[L[w].cur])
            /\ ep[L[w].dst] = "attached"
        BY <2>1, <3>1 DEF LocalOK
      <4>2. m[L[w].cur] \in Connection
        BY <1>1, <4>1, ListFacts
      <4>3. QED
        BY <4>1, <4>2 DEF EndsOf, Connection
    <3>3. QED
      BY <3>2
  <2>3. Brings(L[w]) => L[w].job.endpoint \in Endpoints /\ ep2[L[w].job.endpoint] = "parsed"
    <3>1. Brings(L[w]) => L[w].job.endpoint \in Endpoints /\ ep[L[w].job.endpoint] = "parsed"
      BY <2>1 DEF LocalOK
    <3>2. QED
      BY <3>1
  <2>4. QED
    BY <2>1, <2>2, <2>3 DEF LocalOK
<1>3. EndpointsOK(m, ep2, L)
  <2>1. ASSUME NEW k \in Cells, m[k] # NULL, NEW f \in EndsOf(m[k]) PROVE ep2[f] # "free"
    <3>1. ep[f] # "free"
      BY <2>1 DEF Shape, EndpointsOK
    <3>2. f \in Endpoints
      <4>1. m[k] \in Connection
        BY <2>1 DEF Typed
      <4>2. QED
        BY <2>1, <4>1 DEF EndsOf, Connection
    <3>3. QED
      BY <3>1, <3>2
  <2>2. QED
    BY <2>1 DEF Shape, EndpointsOK
<1>4. QED
  BY <1>1, <1>2, <1>3 DEF Shape

\* A handler that begins refers to nothing yet.
LEMMA ReceiveShape ==
    ASSUME IInv, NEW n \in Nat, NEW s \in [1 .. n -> Cells],
           Shape(mem, head, endpoint, local, n, s), NEW w \in Workers,
           NEW c \in CallIds, NEW side \in Sides,
           \/ \E e \in Endpoints : ReceiveInitial(w, c, side, e)
           \/ ReceiveFinal(w, c)
           \/ ReceiveMedia(w, c, side)
    PROVE  Shape(mem', head', endpoint', local', n, s)
<1>1. Typed(mem, endpoint, local, n, s)
  BY StateTyped
<1>2. ~Removing(local[w]) /\ ~Pushing(local[w]) /\ ~Brings(local[w])
  BY DEF ReceiveInitial, ReceiveFinal, ReceiveMedia, Receive, At, Removing, Pushing, Brings, Seeks
<1>3. ASSUME NEW ep, Typed(mem, ep, local, n, s), Shape(mem, head, ep, local, n, s),
             NEW job, NEW pc \in {"find_head", "match_head"},
             NEW r, r = [Idle EXCEPT !.pc = pc, !.job = job], Become(w, r),
             pc = "find_head" /\ job.op = "initial" =>
                 /\ job.endpoint \in Endpoints /\ ep[job.endpoint] = "parsed"
                 /\ \A k \in Cells : mem[k] # NULL => job.endpoint \notin EndsOf(mem[k])
                 /\ \A v \in Workers \ {w} :
                      Brings(local[v]) => local[v].job.endpoint # job.endpoint
      PROVE  Shape(mem, head, ep, local', n, s)
  <2>1. /\ r.pc = pc /\ r.job = job
        /\ Ptrs(r) = {NULL}
    BY <1>3 DEF Idle, Ptrs
  <2>2. ~Pushing(r) /\ r.pc # "unlink" /\ (Brings(r) => pc = "find_head" /\ job.op = "initial")
    BY <2>1 DEF Pushing, Brings, Seeks
  <2>3. LocalOK(mem, ep, n, s, r)
    BY <1>3, <2>1, <2>2 DEF LocalOK, Seeks, Pushing, Removing
  <2>4. Brings(r) =>
          /\ \A k \in Cells : mem[k] # NULL => r.job.endpoint \notin EndsOf(mem[k])
          /\ \A v \in Workers \ {w} : Brings(local[v]) => local[v].job.endpoint # r.job.endpoint
    BY <1>3, <2>1, <2>2
  <2>5. QED
    BY <1>2, <1>3, <2>1, <2>2, <2>3, <2>4, BecomeMoves, QuietStep
<1>4. ASSUME NEW e \in Endpoints, ReceiveInitial(w, c, side, e)
      PROVE  Shape(mem', head', endpoint', local', n, s)
  <2>1. /\ endpoint[e] = "free" /\ endpoint' = [endpoint EXCEPT ![e] = "parsed"]
        /\ mem' = mem /\ head' = head
    BY <1>4 DEF ReceiveInitial, Receive
  <2>2. PICK ep : ep = endpoint'
    OBVIOUS
  <2>3. /\ ep \in [Endpoints -> {"free", "parsed", "attached"}]
        /\ ep[e] = "parsed" /\ \A f \in Endpoints : f # e => ep[f] = endpoint[f]
    BY <2>1, <2>2 DEF IInv
  <2>4. Typed(mem, ep, local, n, s) /\ Shape(mem, head, ep, local, n, s)
    BY <1>1, <2>1, <2>3, EndpointStep DEF Typed
  <2>5. PICK job : job = [op |-> "initial", call_id |-> c, side |-> side, endpoint |-> e]
    OBVIOUS
  <2>6. job.endpoint = e
    BY <2>5
  <2>7. PICK r : r = [Idle EXCEPT !.pc = "find_head", !.job = job]
    OBVIOUS
  <2>8. Become(w, r)
    BY <1>4, <2>5, <2>7 DEF ReceiveInitial, Receive
  <2>9. \A k \in Cells : mem[k] # NULL => e \notin EndsOf(mem[k])
    BY <2>1 DEF Shape, EndpointsOK
  <2>10. \A v \in Workers \ {w} : Brings(local[v]) => local[v].job.endpoint # e
    BY <2>1 DEF Shape, LocalOK
  <2>11. Shape(mem, head, ep, local', n, s)
    BY <1>3, <2>3, <2>4, <2>6, <2>7, <2>8, <2>9, <2>10
  <2>12. QED
    BY <2>1, <2>2, <2>11
<1>5. CASE ReceiveFinal(w, c)
  <2>1. PICK job : job = [op |-> "final", call_id |-> c, side |-> "request_endpoint",
                          endpoint |-> NULL]
    OBVIOUS
  <2>2. PICK r : r = [Idle EXCEPT !.pc = "find_head", !.job = job]
    OBVIOUS
  <2>3. Become(w, r) /\ mem' = mem /\ head' = head /\ endpoint' = endpoint
    BY <1>5, <2>1, <2>2 DEF ReceiveFinal, Receive
  <2>4. job.op # "initial"
    BY <2>1
  <2>5. QED
    BY <1>1, <1>3, <2>2, <2>3, <2>4
<1>6. CASE ReceiveMedia(w, c, side)
  <2>1. PICK job : job = [op |-> "media", call_id |-> c, side |-> side, endpoint |-> NULL]
    OBVIOUS
  <2>2. PICK r : r = [Idle EXCEPT !.pc = "match_head", !.job = job]
    OBVIOUS
  <2>3. Become(w, r) /\ mem' = mem /\ head' = head /\ endpoint' = endpoint
    BY <1>6, <2>1, <2>2 DEF ReceiveMedia, Receive
  <2>4. QED
    BY <1>1, <1>3, <2>2, <2>3
<1>7. QED
  BY <1>4, <1>5, <1>6

\* Filling an empty slot hands the endpoint over to the connection.
LEMMA AttachShape ==
    ASSUME IInv, NEW n \in Nat, NEW s \in [1 .. n -> Cells],
           Shape(mem, head, endpoint, local, n, s), NEW w \in Workers, AttachEndpoint(w)
    PROVE  Shape(mem', head', endpoint', local', n, s)
<1>1. Typed(mem, endpoint, local, n, s)
  BY StateTyped
<1>2. PICK l, e : l = local[w] /\ e = l.job.endpoint
  OBVIOUS
<1>3. LocalOK(mem, endpoint, n, s, l) /\ Links(mem, head, n, s)
  BY <1>2 DEF Shape
<1>4. l.pc = "attach"
  BY <1>2 DEF AttachEndpoint, At
<1>5. ~Removing(l) /\ ~Pushing(l)
  BY <1>4 DEF Pushing, Removing
<1>6. l.conn \in ListCells(n, s) /\ e \in EndsOf(mem[l.conn])
  BY <1>2, <1>3, <1>4 DEF LocalOK
<1>7. /\ l.conn \in Cells /\ mem[l.conn] \in Connection /\ mem[l.conn] # NULL
      /\ e \in Endpoints
  <2>1. l.conn \in Cells /\ mem[l.conn] \in Connection
    BY <1>1, <1>3, <1>6, ListFacts
  <2>2. mem[l.conn] # NULL
    BY <1>3, <1>6 DEF Links, ListCells
  <2>3. QED
    BY <1>6, <2>1, <2>2 DEF EndsOf, Connection
<1>8. \A v \in Workers : Brings(local[v]) => local[v].job.endpoint # e
  BY <1>6, <1>7 DEF Shape, EndpointsOK
<1>9. PICK ep : ep = endpoint'
  OBVIOUS
<1>10. /\ ep \in [Endpoints -> {"free", "parsed", "attached"}]
       /\ ep[e] = "attached" /\ \A f \in Endpoints : f # e => ep[f] = endpoint[f]
       /\ endpoint[e] # "free"
  BY <1>2, <1>7, <1>9 DEF AttachEndpoint, IInv
<1>11. Typed(mem, ep, local, n, s) /\ Shape(mem, head, ep, local, n, s)
  BY <1>1, <1>7, <1>8, <1>10, EndpointStep DEF Typed
<1>12. mem' = mem /\ head' = head /\ Become(w, Idle)
  BY DEF AttachEndpoint
<1>13. QED
  BY <1>2, <1>5, <1>9, <1>11, <1>12, BecomeMoves, EndStep

-----------------------------------------------------------------------------
(* Steps that write to the cells *)

\* The endpoints stay where they are.
LEMMA EndpointsStay ==
    ASSUME NEW m, NEW ep, NEW L, EndpointsOK(m, ep, L), NEW m2, NEW L2,
           \A k \in Cells : m2[k] # NULL =>
               /\ m[k] # NULL
               /\ m2[k].request_endpoint = m[k].request_endpoint
               /\ m2[k].response_endpoint = m[k].response_endpoint,
           \A w \in Workers : Brings(L2[w]) =>
               Brings(L[w]) /\ L2[w].job.endpoint = L[w].job.endpoint
    PROVE  EndpointsOK(m2, ep, L2)
<1>1. \A k \in Cells : m2[k] # NULL => m[k] # NULL /\ EndsOf(m2[k]) = EndsOf(m[k])
  BY DEF EndsOf
<1>2. \A k \in Cells, a \in Sides : m2[k] # NULL => m2[k][a] = m[k][a]
  BY DEF Sides
<1>3. \A k \in Cells : m2[k] # NULL => \A e \in EndsOf(m2[k]) : ep[e] # "free"
  BY <1>1 DEF EndpointsOK
<1>4. \A k1, k2 \in Cells, a, b \in Sides :
         m2[k1] # NULL /\ m2[k2] # NULL /\ m2[k1][a] = m2[k2][b] /\ m2[k1][a] # NULL
           => k1 = k2 /\ a = b
  BY <1>1, <1>2 DEF EndpointsOK
<1>5. \A w \in Workers, k \in Cells :
         Brings(L2[w]) /\ m2[k] # NULL => L2[w].job.endpoint \notin EndsOf(m2[k])
  BY <1>1 DEF EndpointsOK
<1>6. \A w, v \in Workers :
         Brings(L2[w]) /\ Brings(L2[v]) /\ L2[w].job.endpoint = L2[v].job.endpoint => w = v
  BY DEF EndpointsOK
<1>7. QED
  BY <1>3, <1>4, <1>5, <1>6 DEF EndpointsOK

\* create_connection: the new cell is in nobody's hands but its creator's.
LEMMA CreateShape ==
    ASSUME IInv, NEW n \in Nat, NEW s \in [1 .. n -> Cells],
           Shape(mem, head, endpoint, local, n, s), NEW w \in Workers, NEW k \in Cells,
           Create(w, k)
    PROVE  Shape(mem', head', endpoint', local', n, s)
<1>1. Typed(mem, endpoint, local, n, s)
  BY StateTyped
<1>2. PICK l, c, r :
          l = local[w] /\ c = l.job.call_id /\ r = [l EXCEPT !.conn = k, !.pc = "push"]
  OBVIOUS
<1>3. /\ l \in Local /\ l.pc = "create"
      /\ LocalOK(mem, endpoint, n, s, l) /\ PtrsOK(mem, l)
      /\ Links(mem, head, n, s)
  BY <1>2, WorkerGood DEF Shape, Create, At
<1>4. Moves(local, local', w, r)
  <2>1. Become(w, r)
    BY <1>2, Zenon DEF Create
  <2>2. QED
    BY <2>1, BecomeMoves
<1>5. PICK L : L = local'
  OBVIOUS
<1>6. L[w] = r /\ \A v \in Workers \ {w} : L[v] = local[v]
  BY <1>4, <1>5 DEF Moves
<1>7. PICK m : m = mem'
  OBVIOUS
<1>8. m = [mem EXCEPT ![k] = NewCell(c)] /\ mem[k] = NULL
  BY <1>2, <1>7 DEF Create, NewCell
<1>9. m[k] = NewCell(c) /\ \A j \in Cells : j # k => m[j] = mem[j]
  BY <1>1, <1>8 DEF Typed
<1>10. head' = head /\ endpoint' = endpoint
  BY DEF Create
<1>11. NewCell(c) # NULL /\ EndsOf(NewCell(c)) = {} /\ \A a \in Sides : NewCell(c)[a] = NULL
  <2>1. c \in CallIds
    BY <1>2, <1>3, WorkerGood, JobFields
  <2>2. NewCell(c) \in Connection
    BY <2>1 DEF NewCell, Connection
  <2>3. NewCell(c) # NULL
    BY <2>2, ListAssumption
  <2>4. QED
    BY <2>3 DEF NewCell, EndsOf, Sides
<1>12. /\ r.pc = "push" /\ r.job = l.job /\ r.cur = l.cur /\ r.conn = k
       /\ r.prev = l.prev /\ r.next = l.next
  BY <1>2, <1>3 DEF Local
<1>13. \A i \in 1 .. n : s[i] \in Cells /\ s[i] # k /\ m[s[i]] = mem[s[i]]
  BY <1>1, <1>3, <1>8, <1>9, ListFacts DEF Links
<1>14. k # NULL /\ k \notin ListCells(n, s)
  BY <1>13, ListAssumption DEF ListCells
<1>15. \A v \in Workers : k \notin Ptrs(local[v])
  BY <1>8, <1>14 DEF Shape, PtrsOK
<1>16. Links(m, head, n, s)
  BY <1>3, <1>13 DEF Links
<1>17. Backs(m, L, n, s)
  <2>1. \A v \in Workers : local[v].pc = "unlink_next" => L[v] = local[v]
    BY <1>2, <1>3, <1>6
  <2>2. Backs(mem, local, n, s)
    BY DEF Shape
  <2>3. QED
    BY <1>13, <2>1, <2>2 DEF Backs
<1>18. \A j : j = NULL \/ (j \in Cells /\ mem[j] # NULL) => j = NULL \/ (j \in Cells /\ m[j] # NULL)
  BY <1>8, <1>9
<1>19. Pushing(r) /\ Brings(r) = Brings(l)
  BY <1>2, <1>3, <1>12 DEF Pushing, Brings, Seeks
<1>20. PtrsOK(m, r) /\ LocalOK(m, endpoint, n, s, r)
  <2>3. PtrsOK(m, r)
    <3>1. \A j \in Ptrs(r) : j = k \/ j \in Ptrs(l)
      BY <1>12 DEF Ptrs
    <3>2. m[k] # NULL
      BY <1>9, <1>11
    <3>3. QED
      BY <1>3, <1>18, <3>1, <3>2 DEF PtrsOK
  <2>4. \A i \in 1 .. n : m[s[i]].call_id # r.job.call_id
    BY <1>3, <1>12, <1>13 DEF LocalOK, Seeks
  <2>5. Brings(r) => r.job.endpoint \in Endpoints /\ endpoint[r.job.endpoint] = "parsed"
    BY <1>3, <1>12, <1>19 DEF LocalOK
  <2>6. r.job.op = "initial"
    BY <1>3, <1>12 DEF LocalOK, Seeks
  <2>7. LocalOK(m, endpoint, n, s, r)
    BY <1>2, <1>3, <1>9, <1>12, <1>14, <2>4, <2>5, <2>6 DEF LocalOK, Seeks, Pushing, Removing
  <2>8. QED
    BY <2>3, <2>7
<1>21. ASSUME NEW v \in Workers, v # w
       PROVE  PtrsOK(m, L[v]) /\ LocalOK(m, endpoint, n, s, L[v])
  <2>1. L[v] = local[v] /\ PtrsOK(mem, local[v]) /\ LocalOK(mem, endpoint, n, s, local[v])
    BY <1>6, <1>21 DEF Shape
  <2>2. \A j \in ListCells(n, s) : m[j] = mem[j]
    BY <1>13 DEF ListCells
  <2>3. Pushing(local[v]) => m[local[v].conn] = mem[local[v].conn]
    <3>1. local[v].conn # k
      BY <1>15 DEF Ptrs
    <3>2. Pushing(local[v]) => local[v].conn \in Cells
      BY <2>1 DEF PtrsOK, Ptrs, LocalOK
    <3>3. QED
      BY <1>9, <3>1, <3>2
  <2>4. PtrsOK(m, local[v])
    BY <1>18, <2>1 DEF PtrsOK
  <2>5. LocalOK(m, endpoint, n, s, local[v])
    BY <1>13, <2>1, <2>2, <2>3 DEF LocalOK
  <2>6. QED
    BY <2>1, <2>4, <2>5
<1>22. ASSUME NEW v \in Workers, L[v].pc = "unlink" PROVE UnlinkOK(L, n, s, L[v])
  <2>1. L[v] = local[v]
    BY <1>2, <1>6, <1>12, <1>22
  <2>2. \A u \in Workers : Removing(local[u]) => L[u] = local[u]
    BY <1>2, <1>3, <1>6 DEF Removing
  <2>3. UnlinkOK(local, n, s, local[v])
    BY <1>22, <2>1 DEF Shape
  <2>4. QED
    BY <2>1, <2>2, <2>3 DEF UnlinkOK
<1>23. Private(L)
  <2>1. ASSUME NEW v \in Workers, Pushing(local[v]), v # w PROVE local[v].conn \notin Ptrs(r)
    <3>1. local[v].conn \notin Ptrs(l)
      BY <1>2, <2>1 DEF Shape, Private
    <3>2. local[v].conn # k
      BY <1>15 DEF Ptrs
    <3>3. QED
      BY <1>12, <3>1, <3>2 DEF Ptrs
  <2>2. ASSUME NEW v \in Workers, v # w PROVE k \notin Ptrs(local[v])
    BY <1>15
  <2>3. QED
    BY <1>6, <1>12, <2>1, <2>2 DEF Shape, Private
<1>24. EndpointsOK(m, endpoint, L)
  <2>1. \A e \in EndsOf(m[k]) : endpoint[e] # "free"
    BY <1>9, <1>11
  <2>2. \A j \in Cells, a \in Sides : m[j][a] # NULL => j # k
    BY <1>9, <1>11
  <2>3. \A v \in Workers : Brings(L[v]) =>
            Brings(local[v]) /\ L[v].job.endpoint = local[v].job.endpoint
    BY <1>2, <1>6, <1>12, <1>19
  <2>4. EndpointsOK(mem, endpoint, local)
    BY DEF Shape
  <2>5. \A j \in Cells : m[j] # NULL => \A e \in EndsOf(m[j]) : endpoint[e] # "free"
    BY <1>9, <2>1, <2>4 DEF EndpointsOK
  <2>6. \A k1, k2 \in Cells, a, b \in Sides :
          m[k1] # NULL /\ m[k2] # NULL /\ m[k1][a] = m[k2][b] /\ m[k1][a] # NULL
            => k1 = k2 /\ a = b
    BY <1>9, <2>2, <2>4 DEF EndpointsOK
  <2>7. \A v \in Workers, j \in Cells :
          Brings(L[v]) /\ m[j] # NULL => L[v].job.endpoint \notin EndsOf(m[j])
    BY <1>9, <1>11, <2>3, <2>4 DEF EndpointsOK
  <2>8. \A u, v \in Workers :
          Brings(L[u]) /\ Brings(L[v]) /\ L[u].job.endpoint = L[v].job.endpoint => u = v
    BY <2>3, <2>4 DEF EndpointsOK
  <2>9. QED
    BY <2>5, <2>6, <2>7, <2>8 DEF EndpointsOK
<1>25. Kept(m, L, n, s)
  <2>1. ASSUME NEW j \in Cells, m[j] # NULL
        PROVE  \/ j \in ListCells(n, s)
               \/ \E v \in Workers : (Pushing(L[v]) \/ Removing(L[v])) /\ L[v].conn = j
    <3>1. CASE j = k
      BY <1>6, <1>12, <1>19, <3>1
    <3>2. CASE j # k
      <4>1. \/ j \in ListCells(n, s)
            \/ \E v \in Workers : /\ Pushing(local[v]) \/ Removing(local[v])
                                  /\ local[v].conn = j
        BY <1>9, <2>1, <3>2 DEF Shape, Kept
      <4>2. ~Pushing(local[w]) /\ ~Removing(local[w])
        BY <1>2, <1>3 DEF Pushing, Removing
      <4>3. QED
        BY <1>6, <4>1, <4>2
    <3>3. QED
      BY <3>1, <3>2
  <2>2. QED
    BY <2>1 DEF Kept
<1>26. \A v \in Workers : PtrsOK(m, L[v]) /\ LocalOK(m, endpoint, n, s, L[v])
  BY <1>6, <1>20, <1>21
<1>27. Shape(m, head, endpoint, L, n, s)
  BY <1>16, <1>17, <1>22, <1>23, <1>24, <1>25, <1>26 DEF Shape
<1>28. QED
  BY <1>5, <1>7, <1>10, <1>27

\* push_connection to an empty list: without a hazard nobody else is about to do so.
LEMMA PushFirstShape ==
    ASSUME IInv, NEW n \in Nat, NEW s \in [1 .. n -> Cells],
           Shape(mem, head, endpoint, local, n, s), NEW w \in Workers, PushFirst(w), ~hazard',
           NEW s2, s2 = [i \in 1 .. 1 |-> local[w].conn]
    PROVE  s2 \in [1 .. 1 -> Cells] /\ n = 0 /\ Shape(mem', head', endpoint', local', 1, s2)
<1>1. Typed(mem, endpoint, local, n, s)
  BY StateTyped
<1>2. PICK l, k, r : l = local[w] /\ k = l.conn /\ r = [l EXCEPT !.pc = "check"]
  OBVIOUS
<1>3. /\ l \in Local /\ l.pc = "push_first" /\ l.job.call_id \in CallIds
      /\ LocalOK(mem, endpoint, n, s, l) /\ PtrsOK(mem, l)
  BY <1>2, WorkerGood, JobFields DEF Shape, PushFirst, At
<1>4. /\ n = 0 /\ l.cur = NULL /\ l.job.op = "initial"
      /\ k # NULL /\ k \in Cells /\ mem[k] # NULL /\ mem[k] = NewCell(l.job.call_id)
  BY <1>2, <1>3 DEF LocalOK, PtrsOK, Ptrs, Pushing, Seeks
<1>5. mem[k].call_id = l.job.call_id /\ mem[k].prev = NULL /\ mem[k].next = NULL
  BY <1>4 DEF NewCell
<1>6. mem' = mem /\ endpoint' = endpoint /\ head' = k
  BY <1>2 DEF PushFirst
<1>7. PICK L : L = local'
  OBVIOUS
<1>8. L[w] = r /\ \A v \in Workers \ {w} : L[v] = local[v]
  <2>1. Become(w, r)
    BY <1>2 DEF PushFirst
  <2>2. QED
    BY <1>7, <2>1, BecomeMoves DEF Moves
<1>9. /\ r.pc = "check" /\ r.job = l.job /\ r.cur = l.cur /\ r.conn = k
      /\ r.prev = l.prev /\ r.next = l.next
  BY <1>2, <1>3 DEF Local
<1>10. s2 \in [1 .. 1 -> Cells] /\ ListCells(1, s2) = {k} /\ \A i \in 1 .. 1 : i = 1 /\ s2[i] = k
  <2>1. s2 \in [1 .. 1 -> Cells] /\ \A i \in 1 .. 1 : i = 1 /\ s2[i] = k
    BY <1>2, <1>4
  <2>2. QED
    BY <2>1 DEF ListCells
<1>11. Links(mem, k, 1, s2)
  BY <1>4, <1>5, <1>10 DEF Links, Elem
<1>12. Backs(mem, L, 1, s2)
  BY <1>5, <1>10 DEF Backs, Elem
<1>13. Brings(l) /\ Brings(r)
  BY <1>3, <1>4, <1>9 DEF Brings, Seeks, Pushing
<1>14. PtrsOK(mem, r) /\ LocalOK(mem, endpoint, 1, s2, r)
  <2>1. PtrsOK(mem, r)
    BY <1>2, <1>3, <1>9 DEF PtrsOK, Ptrs
  <2>2. r.job.endpoint \in Endpoints /\ endpoint[r.job.endpoint] = "parsed"
    BY <1>3, <1>9, <1>13 DEF LocalOK
  <2>3. LocalOK(mem, endpoint, 1, s2, r)
    BY <1>4, <1>9, <1>10, <2>2 DEF LocalOK, Seeks, Pushing, Removing
  <2>4. QED
    BY <2>1, <2>3
<1>15. ASSUME NEW v \in Workers, v # w
       PROVE  /\ PtrsOK(mem, local[v]) /\ LocalOK(mem, endpoint, 1, s2, local[v])
              /\ local[v].pc # "unlink"
              /\ Pushing(local[v]) => local[v].conn # k /\ k \notin Ptrs(local[v])
  <2>1. PtrsOK(mem, local[v]) /\ LocalOK(mem, endpoint, 0, s, local[v])
    BY <1>4 DEF Shape
  <2>2. ListCells(0, s) = {} /\ 1 .. 0 = {}
    BY DEF ListCells
  <2>3. ~Pushes(v, l.job.call_id) /\ ~(local[v].pc = "push_first" /\ local[v].cur = NULL)
    BY <1>2, <1>3, <1>4, <1>15, Zenon DEF PushFirst, PushHazard, Others
  <2>4. local[v].pc \notin {"find", "push_head", "push_walk", "push_link", "match", "send",
                            "check", "set", "attach", "unlink_read", "unlink", "push_first",
                            "unlink_next"}
    BY <2>1, <2>2, <2>3 DEF LocalOK
  <2>5. Pushing(local[v]) => local[v].conn # k /\ k \notin Ptrs(local[v])
    BY <1>2, <1>3, <1>15 DEF Shape, Private, Pushing, Ptrs
  <2>6. Removing(local[v]) => local[v].conn # k
    BY <1>2, <1>3, <1>15 DEF Shape, Private, Pushing, Ptrs
  <2>7. Seeks(local[v]) => mem[k].call_id # local[v].job.call_id
    BY <1>5, <2>3 DEF Seeks, Pushes, Pushing
  <2>8. LocalOK(mem, endpoint, 1, s2, local[v])
    BY <1>10, <2>1, <2>4, <2>5, <2>6, <2>7 DEF LocalOK
  <2>9. QED
    BY <2>1, <2>4, <2>5, <2>8
<1>16. \A v \in Workers : PtrsOK(mem, L[v]) /\ LocalOK(mem, endpoint, 1, s2, L[v])
  BY <1>8, <1>14, <1>15
<1>17. ~Pushing(L[w]) /\ \A v \in Workers : L[v].pc # "unlink"
  BY <1>8, <1>9, <1>15 DEF Pushing
<1>18. EndpointsOK(mem, endpoint, L)
  <2>1. EndpointsOK(mem, endpoint, local)
    BY DEF Shape
  <2>2. \A v \in Workers : Brings(L[v]) =>
            Brings(local[v]) /\ L[v].job.endpoint = local[v].job.endpoint
    BY <1>2, <1>8, <1>9, <1>13
  <2>3. QED
    BY <2>1, <2>2, EndpointsStay
<1>19. Kept(mem, L, 1, s2)
  <2>1. ASSUME NEW j \in Cells, mem[j] # NULL
        PROVE  \/ j = k
               \/ \E v \in Workers : (Pushing(L[v]) \/ Removing(L[v])) /\ L[v].conn = j
    <3>1. j \notin ListCells(n, s)
      BY <1>4 DEF ListCells
    <3>2. PICK v \in Workers : (Pushing(local[v]) \/ Removing(local[v])) /\ local[v].conn = j
      BY <2>1, <3>1 DEF Shape, Kept
    <3>3. QED
      BY <1>2, <1>8, <3>2
  <2>2. QED
    BY <1>10, <2>1 DEF Kept
<1>20. Private(L)
  <2>1. ASSUME NEW u \in Workers, NEW v \in Workers, Pushing(L[u]), v # u
        PROVE  L[u].conn \notin Ptrs(L[v])
    <3>1. u # w /\ L[u] = local[u]
      BY <1>8, <1>17, <2>1
    <3>2. CASE v = w
      <4>1. Ptrs(r) = Ptrs(l)
        BY <1>2, <1>9 DEF Ptrs
      <4>2. local[u].conn \notin Ptrs(local[w])
        BY <2>1, <3>1, <3>2 DEF Shape, Private
      <4>3. QED
        BY <1>2, <1>8, <3>1, <3>2, <4>1, <4>2
    <3>3. CASE v # w
      BY <1>8, <2>1, <3>1, <3>3 DEF Shape, Private
    <3>4. QED
      BY <3>2, <3>3
  <2>2. QED
    BY <2>1 DEF Private
<1>21. Shape(mem, k, endpoint, L, 1, s2)
  BY <1>11, <1>12, <1>16, <1>17, <1>18, <1>19, <1>20 DEF Shape
<1>22. QED
  BY <1>4, <1>6, <1>7, <1>10, <1>21

\* push_connection behind the last cell.
LEMMA PushLinkShape ==
    ASSUME IInv, NEW n \in Nat, NEW s \in [1 .. n -> Cells],
           Shape(mem, head, endpoint, local, n, s), NEW w \in Workers, PushLink(w), ~hazard',
           NEW s2, s2 = [i \in 1 .. n + 1 |-> IF i = n + 1 THEN local[w].conn ELSE s[i]]
    PROVE  /\ s2 \in [1 .. n + 1 -> Cells]
           /\ Shape(mem', head', endpoint', local', n + 1, s2)
<1>1. Typed(mem, endpoint, local, n, s)
  BY StateTyped
<1>2. PICK l, k, q, r : /\ l = local[w] /\ k = l.conn /\ q = l.cur
                        /\ r = [l EXCEPT !.pc = "check", !.cur = NULL]
  OBVIOUS
<1>3. /\ l \in Local /\ l.pc = "push_link" /\ l.job.call_id \in CallIds
      /\ LocalOK(mem, endpoint, n, s, l) /\ PtrsOK(mem, l)
      /\ Links(mem, head, n, s)
  BY <1>2, WorkerGood, JobFields DEF Shape, PushLink, At
<1>4. /\ q \in ListCells(n, s) /\ mem[q].next = NULL
      /\ l.job.op = "initial"
      /\ \A i \in 1 .. n : mem[s[i]].call_id # l.job.call_id
      /\ k # NULL /\ k \in Cells /\ k \notin ListCells(n, s)
      /\ mem[k] # NULL /\ mem[k] = NewCell(l.job.call_id)
  BY <1>2, <1>3 DEF LocalOK, PtrsOK, Ptrs, Pushing, Seeks
<1>5. mem[k].call_id = l.job.call_id /\ mem[k].prev = NULL /\ mem[k].next = NULL
  BY <1>4 DEF NewCell
<1>6. n >= 1 /\ n \in 1 .. n /\ q = s[n]
  <2>1. PICK i \in 1 .. n : q = s[i]
    BY <1>4 DEF ListCells
  <2>2. NULL = Elem(n, s, i + 1)
    BY <1>3, <1>4, <2>1 DEF Links
  <2>3. i + 1 \notin 1 .. n
    BY <1>1, <1>3, <2>2, ListFacts DEF Elem
  <2>4. i = n
    BY <2>3
  <2>5. QED
    BY <2>1, <2>4
<1>7. k # q /\ q \in Cells /\ mem[q] \in Connection /\ mem[k] \in Connection
  BY <1>1, <1>3, <1>4, ListFacts DEF Typed
<1>8. PICK L, m : L = local' /\ m = mem'
  OBVIOUS
<1>9. L[w] = r /\ \A v \in Workers \ {w} : L[v] = local[v]
  <2>1. Become(w, r)
    BY <1>2 DEF PushLink
  <2>2. QED
    BY <1>8, <2>1, BecomeMoves DEF Moves
<1>10. /\ r.pc = "check" /\ r.job = l.job /\ r.cur = NULL /\ r.conn = k
       /\ r.prev = l.prev /\ r.next = l.next
  BY <1>2, <1>3 DEF Local
<1>11. /\ m[k] = [mem[k] EXCEPT !.prev = q] /\ m[q] = [mem[q] EXCEPT !.next = k]
       /\ \A j \in Cells : j # k /\ j # q => m[j] = mem[j]
  <2>1. m = [mem EXCEPT ![k].prev = q, ![q].next = k]
    BY <1>2, <1>8 DEF PushLink
  <2>2. QED
    BY <1>1, <1>4, <1>7, <2>1 DEF Typed
<1>12. /\ m[k].call_id = l.job.call_id /\ m[k].prev = q /\ m[k].next = NULL
       /\ m[k].request_endpoint = mem[k].request_endpoint
       /\ m[k].response_endpoint = mem[k].response_endpoint
       /\ m[q].call_id = mem[q].call_id /\ m[q].prev = mem[q].prev /\ m[q].next = k
       /\ m[q].request_endpoint = mem[q].request_endpoint
       /\ m[q].response_endpoint = mem[q].response_endpoint
       /\ m[k] \in Connection /\ m[q] \in Connection
  BY <1>4, <1>5, <1>7, <1>11 DEF Connection
<1>13. ASSUME NEW j \in Cells
       PROVE  /\ mem[j] # NULL <=> m[j] # NULL
              /\ mem[j] # NULL => /\ m[j].call_id = mem[j].call_id
                                  /\ m[j].request_endpoint = mem[j].request_endpoint
                                  /\ m[j].response_endpoint = mem[j].response_endpoint
                                  /\ j # k => m[j].prev = mem[j].prev
                                  /\ j # q => m[j].next = mem[j].next
  <2>1. m[k] # NULL /\ m[q] # NULL /\ mem[q] # NULL
    BY <1>7, <1>12, ListAssumption
  <2>2. CASE j = k
    BY <1>4, <1>5, <1>12, <2>1, <2>2
  <2>3. CASE j = q
    BY <1>7, <1>12, <2>1, <2>3
  <2>4. CASE j # k /\ j # q
    BY <1>11, <2>4
  <2>5. QED
    BY <2>2, <2>3, <2>4
<1>14. /\ s2 \in [1 .. n + 1 -> Cells] /\ s2[n + 1] = k
       /\ \A i \in 1 .. n : s2[i] = s[i] /\ s[i] \in Cells /\ s[i] # k /\ mem[s[i]] # NULL
       /\ \A i \in 1 .. n + 1 : i \in 1 .. n \/ i = n + 1
  <2>1. \A i \in 1 .. n : s[i] \in Cells /\ s[i] # k /\ mem[s[i]] # NULL
    <3>1. \A i \in 1 .. n : s[i] \in Cells /\ s[i] \in ListCells(n, s)
      BY <1>1, <1>3, ListFacts
    <3>2. \A i \in 1 .. n : mem[s[i]] # NULL
      BY <1>3 DEF Links
    <3>3. QED
      BY <1>4, <3>1, <3>2
  <2>2. n + 1 \in 1 .. n + 1 /\ \A i \in 1 .. n + 1 : i \in 1 .. n \/ i = n + 1
    BY <1>6
  <2>3. QED
    BY <1>2, <1>4, <2>1, <2>2
<1>15. \A j : j \in ListCells(n + 1, s2) <=> j \in ListCells(n, s) \/ j = k
  BY <1>14 DEF ListCells
<1>16. /\ \A i \in 1 .. n : Elem(n + 1, s2, i) = Elem(n, s, i)
       /\ Elem(n + 1, s2, 0) = NULL /\ Elem(n, s, 0) = NULL
       /\ Elem(n + 1, s2, n + 1) = k /\ Elem(n + 1, s2, n + 2) = NULL
  BY <1>6, <1>14 DEF Elem
<1>17. \A i \in 1 .. n : i - 1 = 0 \/ i - 1 \in 1 .. n
  OBVIOUS
<1>18. \A i \in 1 .. n : i = n \/ i + 1 \in 1 .. n
  OBVIOUS
<1>19. Links(m, head, n + 1, s2)
  <2>1. head = Elem(n + 1, s2, 1)
    BY <1>3, <1>6, <1>16 DEF Links
  <2>2. ASSUME NEW i \in 1 .. n + 1
        PROVE  m[s2[i]] # NULL /\ m[s2[i]].next = Elem(n + 1, s2, i + 1)
    <3>1. CASE i = n + 1
      BY <1>4, <1>12, <1>13, <1>14, <1>16, <3>1
    <3>2. CASE i = n
      BY <1>6, <1>12, <1>13, <1>14, <1>16, <3>2, SMTT(40)
    <3>3. CASE i \in 1 .. n /\ i # n
      <4>1. s[i] # q
        BY <1>1, <1>3, <1>6, <3>3, ListFacts
      <4>2. mem[s[i]].next = Elem(n, s, i + 1) /\ i + 1 \in 1 .. n
        BY <1>3, <1>18, <3>3 DEF Links
      <4>3. QED
        <5>1. s2[i] = s[i] /\ s[i] \in Cells /\ mem[s[i]] # NULL
          BY <1>14, <3>3
        <5>2. m[s[i]] # NULL /\ m[s[i]].next = mem[s[i]].next
          BY <1>13, <4>1, <5>1
        <5>3. Elem(n + 1, s2, i + 1) = Elem(n, s, i + 1)
          BY <1>16, <4>2
        <5>4. QED
          BY <4>2, <5>1, <5>2, <5>3
    <3>4. QED
      BY <1>14, <3>1, <3>2, <3>3
  <2>3. ASSUME NEW i \in 1 .. n + 1, NEW j \in 1 .. n + 1, m[s2[i]].call_id = m[s2[j]].call_id
        PROVE  i = j
    <3>1. \A x \in 1 .. n : m[s2[x]].call_id = mem[s[x]].call_id
      BY <1>13, <1>14
    <3>2. m[s2[n + 1]].call_id = l.job.call_id
      BY <1>12, <1>14
    <3>3. \A x \in 1 .. n : mem[s[x]].call_id # l.job.call_id
      BY <1>4
    <3>4. \A x, y \in 1 .. n : mem[s[x]].call_id = mem[s[y]].call_id => x = y
      BY <1>3 DEF Links
    <3>5. (i \in 1 .. n \/ i = n + 1) /\ (j \in 1 .. n \/ j = n + 1)
      BY <1>14
    <3>6. QED
      BY <2>3, <3>1, <3>2, <3>3, <3>4, <3>5, ZenonT(40)
  <2>4. QED
    BY <2>1, <2>2, <2>3 DEF Links
<1>20. Backs(m, L, n + 1, s2)
  <2>1. ASSUME NEW i \in 1 .. n + 1
        PROVE  \/ m[s2[i]].prev = Elem(n + 1, s2, i - 1)
               \/ \E v \in Workers : /\ L[v].pc = "unlink_next"
                                     /\ L[v].next = s2[i] /\ L[v].conn = m[s2[i]].prev
    <3>1. CASE i = n + 1
      BY <1>6, <1>12, <1>14, <1>16, <3>1 DEF Elem
    <3>2. CASE i \in 1 .. n
      <4>1. m[s2[i]].prev = mem[s[i]].prev /\ s2[i] = s[i]
        BY <1>13, <1>14, <3>2
      <4>2. Elem(n + 1, s2, i - 1) = Elem(n, s, i - 1)
        BY <1>16, <1>17, <3>2
      <4>3. \A v \in Workers : local[v].pc = "unlink_next" => L[v] = local[v]
        BY <1>2, <1>3, <1>9
      <4>4. QED
        BY <3>2, <4>1, <4>2, <4>3, SMTT(40) DEF Shape, Backs
    <3>3. QED
      BY <1>14, <3>1, <3>2
  <2>2. QED
    BY <2>1 DEF Backs
<1>21. Brings(l) /\ Brings(r)
  BY <1>3, <1>4, <1>10 DEF Brings, Seeks, Pushing
<1>22. PtrsOK(m, r) /\ LocalOK(m, endpoint, n + 1, s2, r)
  <2>1. PtrsOK(m, r)
    <3>1. \A j \in Ptrs(r) : j = NULL \/ j \in Ptrs(l)
      BY <1>2, <1>10 DEF Ptrs
    <3>2. QED
      BY <1>3, <1>13, <3>1 DEF PtrsOK
  <2>2. r.job.endpoint \in Endpoints /\ endpoint[r.job.endpoint] = "parsed"
    BY <1>3, <1>10, <1>21 DEF LocalOK
  <2>3. LocalOK(m, endpoint, n + 1, s2, r)
    BY <1>4, <1>10, <1>15, <2>2 DEF LocalOK, Seeks, Pushing, Removing
  <2>4. QED
    BY <2>1, <2>3
<1>23. ASSUME NEW v \in Workers, v # w
       PROVE  /\ PtrsOK(m, local[v]) /\ LocalOK(m, endpoint, n + 1, s2, local[v])
              /\ local[v].pc = "unlink" => UnlinkOK(L, n + 1, s2, local[v])
  <2>1. PICK x : x = local[v]
    OBVIOUS
  <2>2. PtrsOK(mem, x) /\ LocalOK(mem, endpoint, n, s, x) /\ k \notin Ptrs(x)
        /\ (Pushing(x) => x.conn # k)
    BY <1>2, <1>3, <1>23, <2>1 DEF Shape, Private, Pushing, Ptrs
  <2>3. /\ ~Pushes(v, l.job.call_id) /\ ~(x.pc = "push_link" /\ x.cur = q)
        /\ ~(x.conn = q /\ x.pc = "unlink")
    <3>1. q # NULL
      BY <1>1, <1>3, <1>4, ListFacts
    <3>2. QED
      BY <1>2, <1>3, <1>23, <2>1, <3>1, Zenon DEF PushLink, PushHazard, Others, Unlinks
  <2>4. PtrsOK(m, x)
    BY <1>13, <2>2 DEF PtrsOK
  <2>5. x.pc # "push_link"
    <3>1. x.pc = "push_link" => x.cur \in ListCells(n, s) /\ mem[x.cur].next = NULL
      BY <2>2 DEF LocalOK
    <3>2. ASSUME NEW i \in 1 .. n, mem[s[i]].next = NULL PROVE i = n
      <4>1. Elem(n, s, i + 1) = NULL
        BY <1>3, <3>2 DEF Links
      <4>2. QED
        BY <1>1, <1>3, <1>18, <4>1, ListFacts DEF Elem
    <3>3. x.pc = "push_link" => x.cur = q
      BY <1>6, <3>1, <3>2 DEF ListCells
    <3>4. QED
      BY <2>3, <3>3
  <2>6. Seeks(x) => x.job.call_id # l.job.call_id
    BY <2>1, <2>3 DEF Seeks, Pushes, Pushing
  <2>7. Seeks(x) => \A i \in 1 .. n + 1 : m[s2[i]].call_id # x.job.call_id
    <3>1. Seeks(x) => \A i \in 1 .. n : m[s2[i]].call_id # x.job.call_id
      BY <1>13, <1>14, <2>2 DEF LocalOK
    <3>2. Seeks(x) => m[s2[n + 1]].call_id # x.job.call_id
      BY <1>12, <1>14, <2>6
    <3>3. QED
      BY <1>14, <3>1, <3>2
  <2>8. Pushing(x) => /\ x.conn # NULL /\ x.conn \notin ListCells(n + 1, s2)
                      /\ m[x.conn] = NewCell(x.job.call_id)
    <3>1. SUFFICES ASSUME Pushing(x)
                   PROVE  /\ x.conn # NULL /\ x.conn \notin ListCells(n + 1, s2)
                          /\ m[x.conn] = NewCell(x.job.call_id)
      OBVIOUS
    <3>2. /\ x.conn # NULL /\ x.conn \notin ListCells(n, s) /\ x.conn \in Cells
          /\ mem[x.conn] = NewCell(x.job.call_id)
      BY <2>2, <3>1 DEF LocalOK, PtrsOK, Ptrs
    <3>3. x.conn # k /\ x.conn # q
      BY <1>4, <2>2, <3>1, <3>2
    <3>4. QED
      BY <1>11, <1>15, <3>2, <3>3
  <2>9. Removing(x) => x.conn # NULL /\ x.conn \notin ListCells(n + 1, s2)
    BY <1>15, <2>2 DEF LocalOK, Ptrs
  <2>10. x.pc = "find" =>
          \E i \in 1 .. n + 1 : /\ x.cur = s2[i]
                                /\ \A j \in 1 .. i - 1 : m[s2[j]].call_id # x.job.call_id
    <3>1. SUFFICES ASSUME x.pc = "find"
                   PROVE  \E i \in 1 .. n + 1 :
                             /\ x.cur = s2[i]
                             /\ \A j \in 1 .. i - 1 : m[s2[j]].call_id # x.job.call_id
      OBVIOUS
    <3>2. PICK i \in 1 .. n : /\ x.cur = s[i]
                              /\ \A j \in 1 .. i - 1 : mem[s[j]].call_id # x.job.call_id
      BY <2>2, <3>1 DEF LocalOK
    <3>3. \A j \in 1 .. i - 1 : j \in 1 .. n
      OBVIOUS
    <3>4. \A j \in 1 .. i - 1 : m[s2[j]].call_id # x.job.call_id
      BY <1>13, <1>14, <3>2, <3>3
    <3>5. i \in 1 .. n + 1
      OBVIOUS
    <3>6. QED
      BY <1>14, <3>2, <3>4, <3>5
  <2>11. x.pc = "unlink_next" =>
          \E i \in 1 .. n + 1 : x.next = s2[i] /\ x.prev = Elem(n + 1, s2, i - 1)
    <3>1. x.pc = "unlink_next" =>
            \E i \in 1 .. n : x.next = s[i] /\ x.prev = Elem(n, s, i - 1)
      BY <2>2 DEF LocalOK
    <3>2. \A i \in 1 .. n : i \in 1 .. n + 1 /\ Elem(n + 1, s2, i - 1) = Elem(n, s, i - 1)
      BY <1>16, <1>17
    <3>3. QED
      BY <1>14, <3>1, <3>2
  <2>12. \A j \in ListCells(n, s) :
            /\ j \in ListCells(n + 1, s2) /\ EndsOf(m[j]) = EndsOf(mem[j])
            /\ \A a \in Sides : m[j][a] = mem[j][a]
    <3>1. \A j \in ListCells(n, s) : j \in Cells /\ mem[j] # NULL
      BY <1>14 DEF ListCells
    <3>2. QED
      BY <1>13, <1>15, <3>1 DEF EndsOf, Sides
  <2>13. x.pc # "idle" => x.job.side \in Sides
    BY <2>1, WorkerGood, JobFields
  <2>14. (x.pc = "push_first" => FALSE) /\ n + 1 # 0
    BY <1>6, <2>2 DEF LocalOK
  <2>15. LocalOK(m, endpoint, n + 1, s2, x)
    BY <2>2, <2>5, <2>7, <2>8, <2>9, <2>10, <2>11, <2>12, <2>13, <2>14 DEF LocalOK
  <2>16. x.pc = "unlink" => UnlinkOK(L, n + 1, s2, x)
    <3>1. SUFFICES ASSUME x.pc = "unlink" PROVE UnlinkOK(L, n + 1, s2, x)
      OBVIOUS
    <3>2. PICK i \in 1 .. n :
              /\ x.conn = s[i] /\ x.next = Elem(n, s, i + 1)
              /\ \/ x.prev = Elem(n, s, i - 1)
                 \/ \E u \in Workers : Removing(local[u]) /\ local[u].conn = x.prev
      BY <2>1, <3>1 DEF Shape, UnlinkOK
    <3>3. i # n
      BY <1>6, <2>3, <3>1, <3>2
    <3>4. /\ Elem(n + 1, s2, i + 1) = Elem(n, s, i + 1)
          /\ Elem(n + 1, s2, i - 1) = Elem(n, s, i - 1)
      BY <1>16, <1>17, <1>18, <3>3
    <3>5. \A u \in Workers : Removing(local[u]) => L[u] = local[u]
      BY <1>2, <1>3, <1>9 DEF Removing
    <3>6. i \in 1 .. n + 1 /\ s2[i] = s[i]
      BY <1>14
    <3>7. QED
      BY <3>2, <3>4, <3>5, <3>6 DEF UnlinkOK
  <2>17. QED
    BY <2>1, <2>4, <2>15, <2>16
<1>24. \A v \in Workers : PtrsOK(m, L[v]) /\ LocalOK(m, endpoint, n + 1, s2, L[v])
  BY <1>9, <1>22, <1>23
<1>25. \A v \in Workers : L[v].pc = "unlink" => UnlinkOK(L, n + 1, s2, L[v])
  BY <1>9, <1>10, <1>23
<1>26. Private(L)
  <2>1. ~Pushing(r) /\ \A j \in Ptrs(r) : j = NULL \/ j \in Ptrs(l)
    BY <1>2, <1>10 DEF Pushing, Ptrs
  <2>2. \A v \in Workers : Pushing(local[v]) => local[v].conn # NULL
    BY DEF Shape, LocalOK
  <2>3. ASSUME NEW v \in Workers, NEW u \in Workers, Pushing(L[v]), u # v
        PROVE  L[v].conn \notin Ptrs(L[u])
    <3>1. v # w /\ L[v] = local[v]
      BY <1>9, <2>1, <2>3
    <3>2. local[v].conn \notin Ptrs(local[u]) /\ local[v].conn # NULL
      BY <2>2, <2>3, <3>1 DEF Shape, Private
    <3>3. QED
      BY <1>2, <1>9, <2>1, <3>1, <3>2
  <2>4. QED
    BY <2>3 DEF Private
<1>27. EndpointsOK(m, endpoint, L)
  <2>1. EndpointsOK(mem, endpoint, local)
    BY DEF Shape
  <2>2. \A v \in Workers : Brings(L[v]) =>
            Brings(local[v]) /\ L[v].job.endpoint = local[v].job.endpoint
    BY <1>2, <1>9, <1>10, <1>21
  <2>3. QED
    BY <1>13, <2>1, <2>2, EndpointsStay
<1>28. Kept(m, L, n + 1, s2)
  <2>1. ASSUME NEW j \in Cells, m[j] # NULL, j # k
        PROVE  \/ j \in ListCells(n, s)
               \/ \E v \in Workers : (Pushing(L[v]) \/ Removing(L[v])) /\ L[v].conn = j
    <3>1. mem[j] # NULL
      BY <1>13, <2>1
    <3>2. \/ j \in ListCells(n, s)
          \/ \E v \in Workers : (Pushing(local[v]) \/ Removing(local[v])) /\ local[v].conn = j
      BY <3>1 DEF Shape, Kept
    <3>3. QED
      BY <1>2, <1>9, <2>1, <3>2
  <2>2. QED
    BY <1>15, <2>1 DEF Kept
<1>29. Shape(m, head, endpoint, L, n + 1, s2)
  BY <1>19, <1>20, <1>24, <1>25, <1>26, <1>27, <1>28 DEF Shape
<1>30. head' = head /\ endpoint' = endpoint
  BY DEF PushLink
<1>31. QED
  BY <1>8, <1>14, <1>29, <1>30

\* A handler puts the endpoint it brings into its side of the connection.
LEMMA SetEndpointShape ==
    ASSUME IInv, NEW n \in Nat, NEW s \in [1 .. n -> Cells],
           Shape(mem, head, endpoint, local, n, s), NEW w \in Workers, SetEndpoint(w), ~hazard'
    PROVE  Shape(mem', head', endpoint', local', n, s)
<1>1. Typed(mem, endpoint, local, n, s)
  BY StateTyped
<1>2. PICK l, k, side, e, r : /\ l = local[w] /\ k = l.conn /\ side = l.job.side
                              /\ e = l.job.endpoint /\ r = [l EXCEPT !.pc = "attach"]
  OBVIOUS
<1>3. /\ l \in Local /\ l.pc = "set" /\ side \in Sides
      /\ LocalOK(mem, endpoint, n, s, l) /\ PtrsOK(mem, l)
      /\ Links(mem, head, n, s)
  BY <1>2, WorkerGood, JobFields DEF Shape, SetEndpoint, At
<1>4. /\ k \in ListCells(n, s) /\ mem[k][side] = NULL /\ l.job.op = "initial" /\ Brings(l)
      /\ e \in Endpoints /\ endpoint[e] = "parsed"
  BY <1>2, <1>3 DEF LocalOK, Brings
<1>5. k \in Cells /\ mem[k] \in Connection /\ e # NULL
  BY <1>1, <1>3, <1>4, ListFacts, ListAssumption
<1>6. mem[k] # NULL
  BY <1>3, <1>4 DEF Links, ListCells
<1>7. PICK L, m : L = local' /\ m = mem'
  OBVIOUS
<1>8. L[w] = r /\ \A v \in Workers \ {w} : L[v] = local[v]
  <2>1. Become(w, r)
    BY <1>2 DEF SetEndpoint
  <2>2. QED
    BY <1>7, <2>1, BecomeMoves DEF Moves
<1>9. /\ r.pc = "attach" /\ r.job = l.job /\ r.cur = l.cur /\ r.conn = k
      /\ r.prev = l.prev /\ r.next = l.next
  BY <1>2, <1>3 DEF Local
<1>10. m[k] = [mem[k] EXCEPT ![side] = e] /\ \A j \in Cells : j # k => m[j] = mem[j]
  <2>1. m = [mem EXCEPT ![k][side] = e]
    BY <1>2, <1>7 DEF SetEndpoint
  <2>2. QED
    BY <1>1, <1>5, <2>1 DEF Typed
<1>11. /\ m[k].call_id = mem[k].call_id /\ m[k].prev = mem[k].prev /\ m[k].next = mem[k].next
       /\ m[k][side] = e /\ \A a \in Sides : a # side => m[k][a] = mem[k][a]
       /\ m[k] \in Connection
  <2>1. CASE side = "request_endpoint"
    BY <1>4, <1>5, <1>10, <2>1 DEF Connection, Sides
  <2>2. CASE side = "response_endpoint"
    BY <1>4, <1>5, <1>10, <2>2 DEF Connection, Sides
  <2>3. QED
    BY <1>3, <2>1, <2>2 DEF Sides
<1>12. ASSUME NEW j \in Cells
       PROVE  /\ mem[j] # NULL <=> m[j] # NULL
              /\ mem[j] # NULL =>
                    /\ m[j].call_id = mem[j].call_id
                    /\ m[j].prev = mem[j].prev /\ m[j].next = mem[j].next
                    /\ \A a \in Sides : \/ m[j][a] = mem[j][a]
                                        \/ j = k /\ a = side /\ m[j][a] = e
                    /\ \A f : f \in EndsOf(m[j]) <=> f \in EndsOf(mem[j]) \/ (j = k /\ f = e)
  <2>1. CASE j = k
    <3>1. m[k] # NULL
      BY <1>11, ListAssumption
    <3>2. \A f : f \in EndsOf(m[k]) <=> f \in EndsOf(mem[k]) \/ f = e
      <4>1. CASE side = "request_endpoint"
        BY <1>4, <1>5, <1>11, <4>1 DEF EndsOf, Sides
      <4>2. CASE side = "response_endpoint"
        BY <1>4, <1>5, <1>11, <4>2 DEF EndsOf, Sides
      <4>3. QED
        BY <1>3, <4>1, <4>2 DEF Sides
    <3>3. QED
      BY <1>6, <1>11, <2>1, <3>1, <3>2
  <2>2. CASE j # k
    BY <1>10, <2>2
  <2>3. QED
    BY <2>1, <2>2
<1>13. \A i \in 1 .. n : s[i] \in Cells /\ mem[s[i]] # NULL
  BY <1>3 DEF Links
<1>14. Links(m, head, n, s)
  BY <1>3, <1>12, <1>13 DEF Links
<1>15. Backs(m, L, n, s)
  <2>1. \A v \in Workers : local[v].pc = "unlink_next" => L[v] = local[v]
    BY <1>2, <1>3, <1>8
  <2>2. Backs(mem, local, n, s)
    BY DEF Shape
  <2>3. QED
    BY <1>12, <1>13, <2>1, <2>2 DEF Backs
<1>16. ~Brings(r) /\ ~Pushing(r) /\ ~Pushing(l) /\ ~Removing(l)
  BY <1>3, <1>9 DEF Brings, Seeks, Pushing, Removing
<1>17. PtrsOK(m, r) /\ LocalOK(m, endpoint, n, s, r)
  <2>1. PtrsOK(m, r)
    <3>1. \A j \in Ptrs(r) : j \in Ptrs(l)
      BY <1>2, <1>9 DEF Ptrs
    <3>2. QED
      BY <1>3, <1>12, <3>1 DEF PtrsOK
  <2>2. e \in EndsOf(m[k])
    BY <1>5, <1>6, <1>12
  <2>3. LocalOK(m, endpoint, n, s, r)
    BY <1>2, <1>4, <1>9, <1>16, <2>2 DEF LocalOK, Seeks, Pushing, Removing
  <2>4. QED
    BY <2>1, <2>3
<1>18. ASSUME NEW v \in Workers, v # w
       PROVE  PtrsOK(m, local[v]) /\ LocalOK(m, endpoint, n, s, local[v])
  <2>1. PICK x : x = local[v]
    OBVIOUS
  <2>2. PtrsOK(mem, x) /\ LocalOK(mem, endpoint, n, s, x)
    BY <2>1 DEF Shape
  <2>3. PtrsOK(m, x)
    BY <1>12, <2>2 DEF PtrsOK
  <2>4. x.pc = "set" => m[x.conn][x.job.side] = NULL
    <3>1. SUFFICES ASSUME x.pc = "set" PROVE m[x.conn][x.job.side] = NULL
      OBVIOUS
    <3>2. ~(x.conn = k /\ x.job.side = side)
      BY <1>2, <1>18, <2>1, <3>1, Zenon DEF SetEndpoint, SetHazard, Others
    <3>3. x.job.side \in Sides
      BY <2>1, <3>1, WorkerGood, JobFields
    <3>4. x.conn \in ListCells(n, s) /\ mem[x.conn][x.job.side] = NULL
      BY <2>2, <3>1 DEF LocalOK
    <3>5. x.conn \in Cells /\ mem[x.conn] # NULL
      BY <1>13, <3>4 DEF ListCells
    <3>6. QED
      BY <1>12, <3>2, <3>3, <3>4, <3>5
  <2>5. \A j \in ListCells(n, s) : /\ m[j].next = mem[j].next
                                   /\ \A f : f \in EndsOf(mem[j]) => f \in EndsOf(m[j])
    BY <1>12, <1>13 DEF ListCells
  <2>6. \A i \in 1 .. n : m[s[i]].call_id = mem[s[i]].call_id
    BY <1>12, <1>13
  <2>7. Pushing(x) => m[x.conn] = NewCell(x.job.call_id)
    <3>1. SUFFICES ASSUME Pushing(x) PROVE m[x.conn] = NewCell(x.job.call_id)
      OBVIOUS
    <3>2. /\ x.conn \in Cells /\ x.conn \notin ListCells(n, s)
          /\ mem[x.conn] = NewCell(x.job.call_id)
      BY <2>2, <3>1 DEF LocalOK, PtrsOK, Ptrs
    <3>3. x.conn # k
      BY <1>4, <3>2
    <3>4. QED
      BY <1>10, <3>2, <3>3
  <2>8. LocalOK(m, endpoint, n, s, x)
    <3>1. x.pc = "find" =>
            \E i \in 1 .. n : /\ x.cur = s[i]
                              /\ \A j \in 1 .. i - 1 : m[s[j]].call_id # x.job.call_id
      <4>1. \A i \in 1 .. n : \A j \in 1 .. i - 1 : j \in 1 .. n
        OBVIOUS
      <4>2. QED
        BY <2>2, <2>6, <4>1 DEF LocalOK
    <3>2. x.pc = "attach" => x.job.endpoint \in EndsOf(m[x.conn])
      BY <2>2, <2>5 DEF LocalOK
    <3>3. x.pc = "send" => x.dst \in EndsOf(m[x.cur]) /\ endpoint[x.dst] = "attached"
      BY <2>2, <2>5 DEF LocalOK
    <3>4. Seeks(x) => \A i \in 1 .. n : m[s[i]].call_id # x.job.call_id
      BY <2>2, <2>6 DEF LocalOK
    <3>5. x.pc = "push_link" => m[x.cur].next = NULL
      BY <2>2, <2>5 DEF LocalOK
    <3>6. QED
      BY <2>2, <2>4, <2>7, <3>1, <3>2, <3>3, <3>4, <3>5 DEF LocalOK
  <2>9. QED
    BY <2>1, <2>3, <2>8
<1>19. \A v \in Workers : PtrsOK(m, L[v]) /\ LocalOK(m, endpoint, n, s, L[v])
  BY <1>8, <1>17, <1>18
<1>20. ASSUME NEW v \in Workers, L[v].pc = "unlink" PROVE UnlinkOK(L, n, s, L[v])
  <2>1. L[v] = local[v] /\ UnlinkOK(local, n, s, local[v])
    BY <1>8, <1>9, <1>20 DEF Shape
  <2>2. \A u \in Workers : Removing(local[u]) => L[u] = local[u]
    BY <1>2, <1>8, <1>16
  <2>3. QED
    BY <2>1, <2>2 DEF UnlinkOK
<1>21. Private(L)
  <2>1. \A j \in Ptrs(r) : j \in Ptrs(l)
    BY <1>2, <1>9 DEF Ptrs
  <2>2. QED
    BY <1>2, <1>8, <1>16, <2>1 DEF Shape, Private
<1>22. EndpointsOK(m, endpoint, L)
  <2>1. EndpointsOK(mem, endpoint, local)
    BY DEF Shape
  <2>2. \A v \in Workers : Brings(L[v]) => v # w /\ L[v] = local[v]
    BY <1>8, <1>16
  <2>3. /\ \A j \in Cells : mem[j] # NULL => e \notin EndsOf(mem[j])
        /\ \A v \in Workers \ {w} : Brings(local[v]) => local[v].job.endpoint # e
    BY <1>2, <1>4, <2>1, BringsAlone
  <2>4. \A j \in Cells, a \in Sides : mem[j] # NULL => mem[j][a] # e
    BY <1>5, <2>3 DEF EndsOf, Sides
  <2>5. \A j \in Cells : m[j] # NULL => \A f \in EndsOf(m[j]) : endpoint[f] # "free"
    <3>1. endpoint[e] # "free"
      BY <1>4
    <3>2. QED
      BY <1>12, <2>1, <3>1 DEF EndpointsOK
  <2>6. ASSUME NEW k1 \in Cells, NEW k2 \in Cells, NEW a \in Sides, NEW b \in Sides,
               m[k1] # NULL /\ m[k2] # NULL /\ m[k1][a] = m[k2][b] /\ m[k1][a] # NULL
        PROVE  k1 = k2 /\ a = b
    <3>1. mem[k1] # NULL /\ mem[k2] # NULL
      BY <1>12, <2>6
    <3>2. /\ \/ m[k1][a] = mem[k1][a]
             \/ k1 = k /\ a = side /\ m[k1][a] = e
          /\ \/ m[k2][b] = mem[k2][b]
             \/ k2 = k /\ b = side /\ m[k2][b] = e
      BY <1>12, <3>1
    <3>3. mem[k1][a] # e /\ mem[k2][b] # e
      BY <2>4, <3>1
    <3>4. mem[k1][a] = mem[k2][b] /\ mem[k1][a] # NULL => k1 = k2 /\ a = b
      BY <2>1, <3>1 DEF EndpointsOK
    <3>5. QED
      BY <2>6, <3>2, <3>3, <3>4
  <2>7. ASSUME NEW v \in Workers, NEW j \in Cells, Brings(L[v]), m[j] # NULL
        PROVE  L[v].job.endpoint \notin EndsOf(m[j])
    <3>1. v # w /\ L[v] = local[v] /\ mem[j] # NULL
      BY <1>12, <2>2, <2>7
    <3>2. local[v].job.endpoint \notin EndsOf(mem[j]) /\ local[v].job.endpoint # e
      BY <2>1, <2>3, <2>7, <3>1 DEF EndpointsOK
    <3>3. QED
      BY <1>12, <3>1, <3>2
  <2>8. \A u, v \in Workers :
          Brings(L[u]) /\ Brings(L[v]) /\ L[u].job.endpoint = L[v].job.endpoint => u = v
    BY <2>1, <2>2 DEF EndpointsOK
  <2>9. QED
    BY <2>5, <2>6, <2>7, <2>8 DEF EndpointsOK
<1>23. Kept(m, L, n, s)
  BY <1>2, <1>8, <1>12, <1>16 DEF Shape, Kept
<1>24. Shape(m, head, endpoint, L, n, s)
  BY <1>14, <1>15, <1>19, <1>20, <1>21, <1>22, <1>23 DEF Shape
<1>25. head' = head /\ endpoint' = endpoint
  BY DEF SetEndpoint
<1>26. QED
  BY <1>7, <1>24, <1>25

\* Changes that leave what a worker remembers of the list as it is.
LEMMA LocalStays ==
    ASSUME NEW m, NEW ep, NEW n \in Nat, NEW s \in [1 .. n -> Cells], NEW x, NEW m2, NEW ep2,
           LocalOK(m, ep, n, s, x),
           x.pc # "idle" => x.job.side \in Sides,
           \A j \in ListCells(n, s) :
               /\ m2[j].call_id = m[j].call_id /\ m2[j].next = m[j].next
               /\ m2[j].request_endpoint = m[j].request_endpoint
               /\ m2[j].response_endpoint = m[j].response_endpoint,
           Pushing(x) => m2[x.conn] = m[x.conn],
           x.pc = "send" => ep2[x.dst] = ep[x.dst],
           Brings(x) => ep2[x.job.endpoint] = ep[x.job.endpoint]
    PROVE  LocalOK(m2, ep2, n, s, x)
<1>1. \A j \in ListCells(n, s) : EndsOf(m2[j]) = EndsOf(m[j]) /\ \A a \in Sides : m2[j][a] = m[j][a]
  BY DEF EndsOf, Sides
<1>2. \A i \in 1 .. n : m2[s[i]].call_id = m[s[i]].call_id
  BY DEF ListCells
<1>3. x.pc = "find" =>
        \E i \in 1 .. n : /\ x.cur = s[i]
                          /\ \A j \in 1 .. i - 1 : m2[s[j]].call_id # x.job.call_id
  <2>1. \A i \in 1 .. n : \A j \in 1 .. i - 1 : j \in 1 .. n
    OBVIOUS
  <2>2. QED
    BY <1>2, <2>1 DEF LocalOK
<1>4. x.pc = "set" => m2[x.conn][x.job.side] = NULL
  BY <1>1 DEF LocalOK
<1>5. x.pc = "attach" => x.job.endpoint \in EndsOf(m2[x.conn])
  BY <1>1 DEF LocalOK
<1>6. x.pc = "send" => x.dst \in EndsOf(m2[x.cur]) /\ ep2[x.dst] = "attached"
  BY <1>1 DEF LocalOK
<1>7. Seeks(x) => \A i \in 1 .. n : m2[s[i]].call_id # x.job.call_id
  BY <1>2 DEF LocalOK
<1>8. x.pc = "push_link" => m2[x.cur].next = NULL
  BY <1>1 DEF LocalOK
<1>9. QED
  BY <1>3, <1>4, <1>5, <1>6, <1>7, <1>8 DEF LocalOK

\* The second assignment of remove_connection: the next cell leads back past the
\* one that is taken out.
LEMMA UnlinkNextShape ==
    ASSUME IInv, NEW n \in Nat, NEW s \in [1 .. n -> Cells],
           Shape(mem, head, endpoint, local, n, s), NEW w \in Workers, UnlinkNext(w)
    PROVE  Shape(mem', head', endpoint', local', n, s)
<1>1. Typed(mem, endpoint, local, n, s)
  BY StateTyped
<1>2. PICK l, k, r : l = local[w] /\ k = l.next /\ r = [l EXCEPT !.pc = "destroy"]
  OBVIOUS
<1>3. /\ l \in Local /\ l.pc = "unlink_next"
      /\ LocalOK(mem, endpoint, n, s, l) /\ PtrsOK(mem, l)
      /\ Links(mem, head, n, s)
  BY <1>2, WorkerGood DEF Shape, UnlinkNext, At
<1>4. PICK i \in 1 .. n : k = s[i] /\ l.prev = Elem(n, s, i - 1)
  BY <1>2, <1>3 DEF LocalOK
<1>5. k \in Cells /\ mem[k] \in Connection /\ k \in ListCells(n, s)
  BY <1>1, <1>3, <1>4, ListFacts
<1>6. PICK L, m : L = local' /\ m = mem'
  OBVIOUS
<1>7. L[w] = r /\ \A v \in Workers \ {w} : L[v] = local[v]
  <2>1. Become(w, r)
    BY <1>2 DEF UnlinkNext
  <2>2. QED
    BY <1>6, <2>1, BecomeMoves DEF Moves
<1>8. /\ r.pc = "destroy" /\ r.job = l.job /\ r.cur = l.cur /\ r.conn = l.conn
      /\ r.prev = l.prev /\ r.next = l.next
  BY <1>2, <1>3 DEF Local
<1>9. m[k] = [mem[k] EXCEPT !.prev = l.prev] /\ \A j \in Cells : j # k => m[j] = mem[j]
  <2>1. m = [mem EXCEPT ![k].prev = l.prev]
    BY <1>2, <1>6 DEF UnlinkNext
  <2>2. QED
    BY <1>1, <1>5, <2>1 DEF Typed
<1>10. /\ m[k].call_id = mem[k].call_id /\ m[k].prev = l.prev /\ m[k].next = mem[k].next
       /\ m[k].request_endpoint = mem[k].request_endpoint
       /\ m[k].response_endpoint = mem[k].response_endpoint
       /\ m[k] \in Connection
  <2>1. l.prev \in Cells \cup {NULL}
    BY <1>3 DEF Local
  <2>2. QED
    BY <1>5, <1>9, <2>1 DEF Connection
<1>11. ASSUME NEW j \in Cells
       PROVE  /\ mem[j] # NULL <=> m[j] # NULL
              /\ mem[j] # NULL => /\ m[j].call_id = mem[j].call_id /\ m[j].next = mem[j].next
                                  /\ m[j].request_endpoint = mem[j].request_endpoint
                                  /\ m[j].response_endpoint = mem[j].response_endpoint
                                  /\ m[j].prev = IF j = k THEN l.prev ELSE mem[j].prev
  <2>1. m[k] # NULL /\ mem[k] # NULL
    BY <1>5, <1>10, ListAssumption
  <2>2. CASE j = k
    BY <1>10, <2>1, <2>2
  <2>3. CASE j # k
    BY <1>9, <2>3
  <2>4. QED
    BY <2>2, <2>3
<1>12. \A j \in 1 .. n : s[j] \in Cells /\ mem[s[j]] # NULL
  BY <1>3 DEF Links
<1>13. Links(m, head, n, s)
  BY <1>3, <1>11, <1>12 DEF Links
<1>14. Backs(m, L, n, s)
  <2>1. ASSUME NEW j \in 1 .. n
        PROVE  \/ m[s[j]].prev = Elem(n, s, j - 1)
               \/ \E v \in Workers : /\ L[v].pc = "unlink_next"
                                     /\ L[v].next = s[j] /\ L[v].conn = m[s[j]].prev
    <3>1. CASE j = i
      BY <1>4, <1>10, <3>1
    <3>2. CASE j # i
      <4>1. s[j] # k
        BY <1>1, <1>3, <1>4, <3>2, ListFacts
      <4>2. m[s[j]].prev = mem[s[j]].prev
        BY <1>11, <1>12, <4>1
      <4>3. \/ mem[s[j]].prev = Elem(n, s, j - 1)
            \/ \E v \in Workers : /\ local[v].pc = "unlink_next"
                                  /\ local[v].next = s[j] /\ local[v].conn = mem[s[j]].prev
        BY DEF Shape, Backs
      <4>4. \A v \in Workers : local[v].next = s[j] => L[v] = local[v]
        BY <1>2, <1>7, <4>1
      <4>5. QED
        BY <4>2, <4>3, <4>4
    <3>3. QED
      BY <3>1, <3>2
  <2>2. QED
    BY <2>1 DEF Backs
<1>15. ~Brings(r) /\ ~Pushing(r) /\ ~Pushing(l) /\ Removing(l) /\ Removing(r)
  BY <1>3, <1>8 DEF Brings, Seeks, Pushing, Removing
<1>16. ASSUME NEW v \in Workers PROVE PtrsOK(m, L[v]) /\ LocalOK(m, endpoint, n, s, L[v])
  <2>1. PICK x : x = local[v]
    OBVIOUS
  <2>2. PtrsOK(mem, x) /\ LocalOK(mem, endpoint, n, s, x)
    BY <2>1 DEF Shape
  <2>3. PtrsOK(m, x)
    BY <1>11, <2>2 DEF PtrsOK
  <2>4. Pushing(x) => m[x.conn] = mem[x.conn]
    <3>1. Pushing(x) => x.conn \in Cells /\ x.conn \notin ListCells(n, s)
      BY <2>2 DEF LocalOK, PtrsOK, Ptrs
    <3>2. QED
      BY <1>5, <1>9, <3>1
  <2>5. \A j \in ListCells(n, s) :
            /\ m[j].call_id = mem[j].call_id /\ m[j].next = mem[j].next
            /\ m[j].request_endpoint = mem[j].request_endpoint
            /\ m[j].response_endpoint = mem[j].response_endpoint
    BY <1>11, <1>12 DEF ListCells
  <2>6. x.pc # "idle" => x.job.side \in Sides
    BY <2>1, WorkerGood, JobFields
  <2>7. LocalOK(m, endpoint, n, s, x)
    BY <2>2, <2>4, <2>5, <2>6, LocalStays
  <2>8. CASE v = w
    <3>1. Ptrs(r) = Ptrs(l)
      BY <1>8 DEF Ptrs
    <3>2. PtrsOK(m, r)
      BY <1>2, <2>1, <2>3, <2>8, <3>1 DEF PtrsOK
    <3>3. LocalOK(m, endpoint, n, s, r)
      BY <1>3, <1>8, <1>15 DEF LocalOK, Seeks
    <3>4. QED
      BY <1>7, <2>8, <3>2, <3>3
  <2>9. CASE v # w
    BY <1>7, <2>1, <2>3, <2>7, <2>9
  <2>10. QED
    BY <2>8, <2>9
<1>17. ASSUME NEW v \in Workers, L[v].pc = "unlink" PROVE UnlinkOK(L, n, s, L[v])
  <2>1. L[v] = local[v] /\ UnlinkOK(local, n, s, local[v])
    BY <1>7, <1>8, <1>17 DEF Shape
  <2>2. \A u \in Workers : Removing(local[u]) => Removing(L[u]) /\ L[u].conn = local[u].conn
    BY <1>2, <1>7, <1>8, <1>15
  <2>3. QED
    BY <2>1, <2>2 DEF UnlinkOK
<1>18. Private(L)
  <2>1. Ptrs(r) = Ptrs(l)
    BY <1>8 DEF Ptrs
  <2>2. QED
    BY <1>2, <1>7, <1>15, <2>1 DEF Shape, Private
<1>19. EndpointsOK(m, endpoint, L)
  <2>1. EndpointsOK(mem, endpoint, local)
    BY DEF Shape
  <2>2. \A v \in Workers : Brings(L[v]) =>
            Brings(local[v]) /\ L[v].job.endpoint = local[v].job.endpoint
    BY <1>7, <1>15
  <2>3. \A j \in Cells : m[j] # NULL =>
            /\ mem[j] # NULL
            /\ m[j].request_endpoint = mem[j].request_endpoint
            /\ m[j].response_endpoint = mem[j].response_endpoint
    BY <1>11
  <2>4. QED
    BY <2>1, <2>2, <2>3, EndpointsStay
<1>20. Kept(m, L, n, s)
  <2>1. \A v \in Workers : /\ L[v].conn = local[v].conn
                           /\ Pushing(local[v]) \/ Removing(local[v]) =>
                                Pushing(L[v]) \/ Removing(L[v])
    BY <1>2, <1>7, <1>8, <1>15
  <2>2. \A j \in Cells : m[j] # NULL => mem[j] # NULL
    BY <1>11
  <2>3. QED
    BY <2>1, <2>2 DEF Shape, Kept
<1>21. Shape(m, head, endpoint, L, n, s)
  BY <1>13, <1>14, <1>16, <1>17, <1>18, <1>19, <1>20 DEF Shape
<1>22. head' = head /\ endpoint' = endpoint
  BY DEF UnlinkNext
<1>23. QED
  BY <1>6, <1>21, <1>22

\* destroy_connection: nobody refers to the cell, and its endpoints go with it.
LEMMA DestroyShape ==
    ASSUME IInv, NEW n \in Nat, NEW s \in [1 .. n -> Cells],
           Shape(mem, head, endpoint, local, n, s), NEW w \in Workers, Destroy(w), ~hazard'
    PROVE  Shape(mem', head', endpoint', local', n, s)
<1>1. Typed(mem, endpoint, local, n, s)
  BY StateTyped
<1>2. PICK l, k, es : l = local[w] /\ k = l.conn /\ es = EndsOf(mem[k])
  OBVIOUS
<1>3. /\ l \in Local /\ l.pc = "destroy"
      /\ LocalOK(mem, endpoint, n, s, l) /\ PtrsOK(mem, l)
      /\ Links(mem, head, n, s)
  BY <1>2, WorkerGood DEF Shape, Destroy, At
<1>4. k # NULL /\ k \in Cells /\ k \notin ListCells(n, s) /\ mem[k] # NULL
  BY <1>2, <1>3 DEF LocalOK, PtrsOK, Ptrs, Removing
<1>5. PICK L, m, ep : L = local' /\ m = mem' /\ ep = endpoint'
  OBVIOUS
<1>6. L[w] = Idle /\ \A v \in Workers \ {w} : L[v] = local[v]
  <2>1. Become(w, Idle)
    BY DEF Destroy
  <2>2. QED
    BY <1>5, <2>1, BecomeMoves DEF Moves
<1>7. m[k] = NULL /\ \A j \in Cells : j # k => m[j] = mem[j]
  BY <1>1, <1>2, <1>4, <1>5 DEF Destroy, Typed
<1>8. \A e \in Endpoints : e \notin es => ep[e] = endpoint[e]
  <2>1. ep = [e \in Endpoints |-> IF e \in es THEN "free" ELSE endpoint[e]]
    BY <1>2, <1>5 DEF Destroy, EndpointsOf, EndsOf
  <2>2. QED
    BY <2>1
<1>9. \A v \in Workers \ {w} : k \notin Ptrs(local[v])
  <2>1. \A v \in Workers \ {w} : ~Holds(v, k)
    BY <1>2, Zenon DEF Destroy, UnlinkHazard, Others
  <2>2. QED
    BY <2>1 DEF Holds, Ptrs
<1>10. \A j \in 1 .. n : s[j] \in Cells /\ mem[s[j]] # NULL /\ s[j] # k /\ m[s[j]] = mem[s[j]]
  BY <1>3, <1>4, <1>7 DEF Links, ListCells
<1>11. Links(m, head, n, s)
  BY <1>3, <1>10 DEF Links
<1>12. Backs(m, L, n, s)
  <2>1. \A v \in Workers : local[v].pc = "unlink_next" => L[v] = local[v]
    BY <1>2, <1>3, <1>6
  <2>2. QED
    BY <1>10, <2>1 DEF Shape, Backs
<1>13. \A j \in Cells : \A f \in EndsOf(mem[j]) : mem[j] # NULL /\ j # k => f \in Endpoints /\ f \notin es
  <2>1. \A j \in Cells : \A f \in EndsOf(mem[j]) : mem[j] # NULL =>
            f \in Endpoints /\ f # NULL /\ \E a \in Sides : mem[j][a] = f
    BY <1>1 DEF Typed, Connection, EndsOf, Sides
  <2>2. QED
    BY <1>2, <1>4, <2>1 DEF Shape, EndpointsOK
<1>14. \A v \in Workers : Brings(local[v]) =>
            local[v].job.endpoint \in Endpoints /\ local[v].job.endpoint \notin es
  BY <1>2, <1>4 DEF Shape, EndpointsOK, LocalOK
<1>15. ASSUME NEW v \in Workers PROVE PtrsOK(m, L[v]) /\ LocalOK(m, ep, n, s, L[v])
  <2>1. CASE v = w
    BY <1>6, <2>1, IdleOK
  <2>2. CASE v # w
    <3>1. PICK x : x = local[v]
      OBVIOUS
    <3>2. PtrsOK(mem, x) /\ LocalOK(mem, endpoint, n, s, x) /\ k \notin Ptrs(x)
      BY <1>9, <2>2, <3>1 DEF Shape
    <3>3. PtrsOK(m, x)
      BY <1>7, <3>2 DEF PtrsOK
    <3>4. Pushing(x) => m[x.conn] = mem[x.conn]
      BY <1>7, <3>2 DEF LocalOK, PtrsOK, Ptrs
    <3>5. x.pc = "send" => ep[x.dst] = endpoint[x.dst]
      <4>1. x.pc = "send" => x.cur \in ListCells(n, s) /\ x.dst \in EndsOf(mem[x.cur])
        BY <3>2 DEF LocalOK
      <4>2. \A j \in ListCells(n, s) : j \in Cells /\ mem[j] # NULL /\ j # k
        BY <1>10 DEF ListCells
      <4>3. QED
        BY <1>8, <1>13, <4>1, <4>2
    <3>6. Brings(x) => ep[x.job.endpoint] = endpoint[x.job.endpoint]
      BY <1>8, <1>14, <3>1
    <3>7. x.pc # "idle" => x.job.side \in Sides
      BY <3>1, WorkerGood, JobFields
    <3>8. \A j \in ListCells(n, s) : m[j] = mem[j]
      BY <1>10 DEF ListCells
    <3>9. LocalOK(m, ep, n, s, x)
      BY <3>2, <3>4, <3>5, <3>6, <3>7, <3>8, LocalStays
    <3>10. QED
      BY <1>6, <2>2, <3>1, <3>3, <3>9
  <2>3. QED
    BY <2>1, <2>2
<1>16. ASSUME NEW v \in Workers, L[v].pc = "unlink" PROVE UnlinkOK(L, n, s, L[v])
  <2>1. v # w /\ L[v] = local[v] /\ UnlinkOK(local, n, s, local[v])
    BY <1>6, <1>16, IdleOK DEF Shape
  <2>2. local[v].prev # k
    BY <1>9, <2>1 DEF Ptrs
  <2>3. \A u \in Workers : local[u].conn = local[v].prev => L[u] = local[u]
    BY <1>2, <1>6, <2>2
  <2>4. QED
    BY <2>1, <2>3 DEF UnlinkOK
<1>17. Private(L)
  <2>1. ~Pushing(Idle) /\ Ptrs(Idle) = {NULL}
    BY IdleOK
  <2>2. \A v \in Workers : Pushing(local[v]) => local[v].conn # NULL
    BY DEF Shape, LocalOK
  <2>3. QED
    BY <1>6, <2>1, <2>2 DEF Shape, Private
<1>18. EndpointsOK(m, ep, L)
  <2>1. EndpointsOK(mem, endpoint, local)
    BY DEF Shape
  <2>2. \A v \in Workers : Brings(L[v]) =>
            Brings(local[v]) /\ L[v].job.endpoint = local[v].job.endpoint
    BY <1>6, IdleOK
  <2>3. EndpointsOK(m, endpoint, L)
    BY <1>7, <2>1, <2>2, EndpointsStay
  <2>4. \A j \in Cells : m[j] # NULL => \A f \in EndsOf(m[j]) : ep[f] # "free"
    BY <1>7, <1>8, <1>13, <2>1 DEF EndpointsOK
  <2>5. QED
    BY <2>3, <2>4 DEF EndpointsOK
<1>19. Kept(m, L, n, s)
  <2>1. ASSUME NEW j \in Cells, m[j] # NULL
        PROVE  \/ j \in ListCells(n, s)
               \/ \E v \in Workers : (Pushing(L[v]) \/ Removing(L[v])) /\ L[v].conn = j
    <3>1. mem[j] # NULL /\ j # k
      BY <1>7, <2>1
    <3>2. \/ j \in ListCells(n, s)
          \/ \E v \in Workers : (Pushing(local[v]) \/ Removing(local[v])) /\ local[v].conn = j
      BY <3>1 DEF Shape, Kept
    <3>3. QED
      BY <1>2, <1>6, <3>1, <3>2
  <2>2. QED
    BY <2>1 DEF Kept
<1>20. Shape(m, head, ep, L, n, s)
  BY <1>11, <1>12, <1>15, <1>16, <1>17, <1>18, <1>19 DEF Shape
<1>21. head' = head
  BY DEF Destroy
<1>22. QED
  BY <1>5, <1>20, <1>21

-----------------------------------------------------------------------------
(* Taking a cell out *)

\* The list s without its cell i; j is a's place in the list before.
Cut(n, s, i) == [a \in 1 .. n - 1 |-> IF a < i THEN s[a] ELSE s[a + 1]]
Was(n, i, a, j) == /\ a \in 1 .. n - 1 /\ j \in 1 .. n /\ j # i
                   /\ a = IF j < i THEN j ELSE j - 1

IsCut(n, s, i, s2) ==
    /\ n - 1 \in Nat /\ s2 \in [1 .. n - 1 -> Cells]
    /\ \A a \in 1 .. n - 1 : \E j \in 1 .. n : Was(n, i, a, j)
    /\ \A j \in 1 .. n : j # i => \E a \in 1 .. n - 1 : Was(n, i, a, j)
    /\ \A a, j : Was(n, i, a, j) =>
         /\ s2[a] = s[j]
         /\ Elem(n - 1, s2, a + 1) = Elem(n, s, IF j = i - 1 THEN i + 1 ELSE j + 1)
         /\ Elem(n - 1, s2, a - 1) = Elem(n, s, IF j = i + 1 THEN i - 1 ELSE j - 1)
    /\ Elem(n - 1, s2, 1) = Elem(n, s, IF i = 1 THEN 2 ELSE 1)

\* Where the elements of a list are when one of them is cut out.
LEMMA CutFacts ==
    ASSUME NEW n \in Nat, NEW s \in [1 .. n -> Cells], NEW i \in 1 .. n,
           NEW s2, s2 = Cut(n, s, i)
    PROVE  IsCut(n, s, i, s2)
<1>1. n - 1 \in Nat /\ s2 \in [1 .. n - 1 -> Cells]
  <2>1. \A a \in 1 .. n - 1 : (IF a < i THEN s[a] ELSE s[a + 1]) \in Cells
    OBVIOUS
  <2>2. QED
    BY <2>1 DEF Cut
<1>2. \A a \in 1 .. n - 1 : s2[a] = IF a < i THEN s[a] ELSE s[a + 1]
  BY DEF Cut
<1>3. ASSUME NEW a \in 1 .. n - 1 PROVE \E j \in 1 .. n : Was(n, i, a, j)
  <2>1. CASE a < i
    BY <2>1 DEF Was
  <2>2. CASE ~(a < i)
    <3>1. Was(n, i, a, a + 1) /\ a + 1 \in 1 .. n
      BY <2>2 DEF Was
    <3>2. QED
      BY <3>1
  <2>3. QED
    BY <2>1, <2>2
<1>4. ASSUME NEW j \in 1 .. n, j # i PROVE \E a \in 1 .. n - 1 : Was(n, i, a, j)
  <2>1. CASE j < i
    BY <2>1 DEF Was
  <2>2. CASE ~(j < i)
    <3>1. Was(n, i, j - 1, j) /\ j - 1 \in 1 .. n - 1
      BY <1>4, <2>2 DEF Was
    <3>2. QED
      BY <3>1
  <2>3. QED
    BY <2>1, <2>2
<1>5. ASSUME NEW a, NEW j, Was(n, i, a, j)
      PROVE  /\ s2[a] = s[j]
             /\ Elem(n - 1, s2, a + 1) = Elem(n, s, IF j = i - 1 THEN i + 1 ELSE j + 1)
             /\ Elem(n - 1, s2, a - 1) = Elem(n, s, IF j = i + 1 THEN i - 1 ELSE j - 1)
  <2>1. /\ a \in 1 .. n - 1 /\ j \in 1 .. n /\ j # i /\ a = IF j < i THEN j ELSE j - 1
    BY <1>5 DEF Was
  <2>2. s2[a] = s[j]
    BY <1>2, <2>1
  <2>3. Elem(n - 1, s2, a + 1) = Elem(n, s, IF j = i - 1 THEN i + 1 ELSE j + 1)
    BY <1>2, <2>1 DEF Elem
  <2>4. Elem(n - 1, s2, a - 1) = Elem(n, s, IF j = i + 1 THEN i - 1 ELSE j - 1)
    BY <1>2, <2>1 DEF Elem
  <2>5. QED
    BY <2>2, <2>3, <2>4
<1>6. Elem(n - 1, s2, 1) = Elem(n, s, IF i = 1 THEN 2 ELSE 1)
  BY <1>2 DEF Elem
<1>7. QED
  BY <1>1, <1>3, <1>4, <1>5, <1>6 DEF IsCut

\* The first assignment of remove_connection.  Without a hazard nobody refers to the
\* cell and no neighbour is being taken out, so that what was read is still so.
LEMMA UnlinkShape ==
    ASSUME IInv, NEW n \in Nat, NEW s \in [1 .. n -> Cells],
           Shape(mem, head, endpoint, local, n, s), NEW w \in Workers, Unlink(w), ~hazard',
           NEW i \in 1 .. n, local[w].conn = s[i], NEW s2, s2 = Cut(n, s, i)
    PROVE  Shape(mem', head', endpoint', local', n - 1, s2)
<1>1. Typed(mem, endpoint, local, n, s)
  BY StateTyped
<1>2. PICK l, k, pc, r :
          /\ l = local[w] /\ k = l.conn
          /\ pc = IF l.next = NULL THEN "destroy" ELSE "unlink_next"
          /\ r = [l EXCEPT !.pc = pc]
  OBVIOUS
<1>3. /\ l \in Local /\ l.pc = "unlink" /\ k = s[i]
      /\ LocalOK(mem, endpoint, n, s, l) /\ PtrsOK(mem, l)
      /\ Links(mem, head, n, s) /\ Backs(mem, local, n, s)
  BY <1>2, WorkerGood DEF Shape, Unlink, At
<1>4. /\ \A j \in 1 .. n : /\ s[j] \in Cells /\ s[j] # NULL /\ mem[s[j]] \in Connection
                           /\ s[j] \in ListCells(n, s)
      /\ \A j, x \in 1 .. n : s[j] = s[x] => j = x
      /\ NULL \notin ListCells(n, s)
  BY <1>1, <1>3, ListFacts
<1>5. PICK L, m, h : L = local' /\ m = mem' /\ h = head'
  OBVIOUS
<1>6. L[w] = r /\ \A v \in Workers \ {w} : L[v] = local[v]
  <2>1. Become(w, r)
    BY <1>2 DEF Unlink
  <2>2. QED
    BY <1>5, <2>1, BecomeMoves DEF Moves
<1>7. /\ r.pc = pc /\ r.job = l.job /\ r.cur = l.cur /\ r.conn = k
      /\ r.prev = l.prev /\ r.next = l.next
  BY <1>2, <1>3 DEF Local
<1>8. ~Pushing(l) /\ ~Removing(l) /\ ~Brings(l) /\ ~Pushing(r) /\ Removing(r) /\ ~Brings(r)
  BY <1>2, <1>3, <1>7 DEF Pushing, Removing, Brings, Seeks
\* What no hazard means.
<1>9. \A v \in Workers \ {w} :
          /\ k \notin Ptrs(local[v])
          /\ \A q \in {l.prev, l.next} : q # NULL /\ local[v].conn = q =>
                local[v].pc \notin {"unlink", "unlink_next", "destroy"}
  <2>1. \A v \in Workers \ {w} : ~Holds(v, k) /\ \A q \in {l.prev, l.next} \ {NULL} : ~Unlinks(v, q)
    BY <1>2, Zenon DEF Unlink, UnlinkHazard, Others
  <2>2. QED
    BY <2>1 DEF Holds, Ptrs, Unlinks
<1>10. l.next = Elem(n, s, i + 1) /\ l.prev = Elem(n, s, i - 1)
  <2>1. PICK j \in 1 .. n :
            /\ k = s[j] /\ l.next = Elem(n, s, j + 1)
            /\ \/ l.prev = Elem(n, s, j - 1)
               \/ \E v \in Workers : Removing(local[v]) /\ local[v].conn = l.prev
    BY <1>2, <1>3 DEF Shape, UnlinkOK
  <2>2. j = i
    BY <1>3, <1>4, <2>1
  <2>3. ~\E v \in Workers : Removing(local[v]) /\ local[v].conn = l.prev
    <3>1. SUFFICES ASSUME NEW v \in Workers, Removing(local[v]), local[v].conn = l.prev
                   PROVE  FALSE
      OBVIOUS
    <3>2. v # w
      BY <1>2, <1>8, <3>1
    <3>3. l.prev # NULL
      BY <3>1 DEF Shape, LocalOK
    <3>4. QED
      BY <1>9, <3>1, <3>2, <3>3 DEF Removing
  <2>4. QED
    BY <2>1, <2>2, <2>3
<1>11. /\ l.prev = NULL => i = 1 /\ m = mem /\ h = l.next
       /\ l.prev # NULL => /\ i # 1 /\ i - 1 \in 1 .. n /\ l.prev = s[i - 1] /\ h = head
                           /\ m[l.prev] = [mem[l.prev] EXCEPT !.next = l.next]
                           /\ \A j \in Cells : j # l.prev => m[j] = mem[j]
  <2>1. CASE l.prev = NULL
    <3>1. m = mem /\ h = l.next
      BY <1>2, <1>5, <2>1 DEF Unlink
    <3>2. i - 1 \notin 1 .. n
      BY <1>4, <1>10, <2>1 DEF Elem
    <3>3. QED
      BY <2>1, <3>1, <3>2
  <2>2. CASE l.prev # NULL
    <3>1. i - 1 \in 1 .. n /\ l.prev = s[i - 1]
      BY <1>10, <2>2 DEF Elem
    <3>2. h = head /\ m = [mem EXCEPT ![l.prev].next = l.next]
      BY <1>2, <1>5, <2>2 DEF Unlink
    <3>3. l.prev \in Cells
      BY <1>4, <3>1
    <3>4. QED
      BY <1>1, <2>2, <3>1, <3>2, <3>3 DEF Typed
  <2>3. QED
    BY <2>1, <2>2
<1>12. ASSUME NEW j \in Cells
       PROVE  /\ mem[j] # NULL <=> m[j] # NULL
              /\ mem[j] # NULL =>
                    /\ m[j].call_id = mem[j].call_id /\ m[j].prev = mem[j].prev
                    /\ m[j].request_endpoint = mem[j].request_endpoint
                    /\ m[j].response_endpoint = mem[j].response_endpoint
                    /\ m[j].next = IF j = l.prev THEN l.next ELSE mem[j].next
  <2>1. CASE l.prev = NULL
    BY <1>11, <2>1, ListAssumption
  <2>2. CASE l.prev # NULL /\ j # l.prev
    BY <1>11, <2>2
  <2>3. CASE l.prev # NULL /\ j = l.prev
    <3>1. mem[j] \in Connection /\ m[j] = [mem[j] EXCEPT !.next = l.next]
      BY <1>4, <1>11, <2>3
    <3>2. l.next \in Cells \cup {NULL}
      BY <1>3 DEF Local
    <3>3. m[j] \in Connection
      BY <3>1, <3>2 DEF Connection
    <3>4. m[j] # NULL /\ mem[j] # NULL
      BY <3>1, <3>3, ListAssumption
    <3>5. QED
      BY <2>3, <3>1, <3>4 DEF Connection
  <2>4. QED
    BY <2>1, <2>2, <2>3
<1>13. /\ n - 1 \in Nat /\ s2 \in [1 .. n - 1 -> Cells]
       /\ \A a \in 1 .. n - 1 : \E j \in 1 .. n : Was(n, i, a, j)
       /\ \A j \in 1 .. n : j # i => \E a \in 1 .. n - 1 : Was(n, i, a, j)
       /\ \A a, j : Was(n, i, a, j) =>
            /\ s2[a] = s[j]
            /\ Elem(n - 1, s2, a + 1) = Elem(n, s, IF j = i - 1 THEN i + 1 ELSE j + 1)
            /\ Elem(n - 1, s2, a - 1) = Elem(n, s, IF j = i + 1 THEN i - 1 ELSE j - 1)
       /\ Elem(n - 1, s2, 1) = Elem(n, s, IF i = 1 THEN 2 ELSE 1)
  <2>1. IsCut(n, s, i, s2)
    BY CutFacts
  <2>2. QED
    BY <2>1 DEF IsCut
<1>14. \A a, j : Was(n, i, a, j) => a \in 1 .. n - 1 /\ j \in 1 .. n /\ j # i
  BY DEF Was
<1>15. \A q : q \in ListCells(n - 1, s2) <=> q \in ListCells(n, s) /\ q # k
  <2>1. ASSUME NEW q, q \in ListCells(n - 1, s2) PROVE q \in ListCells(n, s) /\ q # k
    <3>1. PICK a \in 1 .. n - 1 : q = s2[a]
      BY <2>1 DEF ListCells
    <3>2. PICK j \in 1 .. n : Was(n, i, a, j)
      BY <1>13
    <3>3. q = s[j] /\ j # i
      BY <1>13, <1>14, <3>1, <3>2
    <3>4. QED
      BY <1>3, <1>4, <3>3
  <2>2. ASSUME NEW q, q \in ListCells(n, s), q # k PROVE q \in ListCells(n - 1, s2)
    <3>1. PICK j \in 1 .. n : q = s[j]
      BY <2>2 DEF ListCells
    <3>2. PICK a \in 1 .. n - 1 : Was(n, i, a, j)
      BY <1>3, <1>13, <2>2, <3>1
    <3>3. QED
      BY <1>13, <3>1, <3>2 DEF ListCells
  <2>3. QED
    BY <2>1, <2>2
<1>16. Links(m, h, n - 1, s2)
  <2>1. h = Elem(n - 1, s2, 1)
    BY <1>3, <1>10, <1>11, <1>13 DEF Links
  <2>2. ASSUME NEW a \in 1 .. n - 1
        PROVE  m[s2[a]] # NULL /\ m[s2[a]].next = Elem(n - 1, s2, a + 1)
    <3>1. PICK j \in 1 .. n : Was(n, i, a, j)
      BY <1>13
    <3>2. /\ s2[a] = s[j] /\ j # i
          /\ Elem(n - 1, s2, a + 1) = Elem(n, s, IF j = i - 1 THEN i + 1 ELSE j + 1)
      BY <1>13, <1>14, <3>1
    <3>3. mem[s[j]] # NULL /\ mem[s[j]].next = Elem(n, s, j + 1) /\ s[j] \in Cells /\ s[j] # NULL
      BY <1>3, <1>4 DEF Links
    <3>4. s[j] = l.prev <=> j = i - 1
      BY <1>4, <1>11, <3>3
    <3>5. QED
      BY <1>10, <1>12, <3>2, <3>3, <3>4
  <2>3. ASSUME NEW a \in 1 .. n - 1, NEW b \in 1 .. n - 1, m[s2[a]].call_id = m[s2[b]].call_id
        PROVE  a = b
    <3>1. PICK j \in 1 .. n : Was(n, i, a, j)
      BY <1>13
    <3>2. PICK x \in 1 .. n : Was(n, i, b, x)
      BY <1>13
    <3>3. s2[a] = s[j] /\ s2[b] = s[x]
      BY <1>13, <3>1, <3>2
    <3>4. m[s[j]].call_id = mem[s[j]].call_id /\ m[s[x]].call_id = mem[s[x]].call_id
      BY <1>3, <1>4, <1>12 DEF Links
    <3>5. j = x
      BY <1>3, <2>3, <3>3, <3>4 DEF Links
    <3>6. QED
      BY <3>1, <3>2, <3>5 DEF Was
  <2>4. QED
    BY <2>1, <2>2, <2>3 DEF Links
<1>17. Backs(m, L, n - 1, s2)
  <2>1. ASSUME NEW a \in 1 .. n - 1
        PROVE  \/ m[s2[a]].prev = Elem(n - 1, s2, a - 1)
               \/ \E v \in Workers : /\ L[v].pc = "unlink_next"
                                     /\ L[v].next = s2[a] /\ L[v].conn = m[s2[a]].prev
    <3>1. PICK j \in 1 .. n : Was(n, i, a, j)
      BY <1>13
    <3>2. /\ s2[a] = s[j] /\ j # i
          /\ Elem(n - 1, s2, a - 1) = Elem(n, s, IF j = i + 1 THEN i - 1 ELSE j - 1)
      BY <1>13, <1>14, <3>1
    <3>3. m[s[j]].prev = mem[s[j]].prev
      BY <1>3, <1>4, <1>12 DEF Links
    <3>4. \/ mem[s[j]].prev = Elem(n, s, j - 1)
          \/ \E v \in Workers : /\ local[v].pc = "unlink_next"
                                /\ local[v].next = s[j] /\ local[v].conn = mem[s[j]].prev
      BY <1>3 DEF Backs
    <3>5. \A v \in Workers : local[v].pc = "unlink_next" => v # w /\ L[v] = local[v]
      BY <1>2, <1>3, <1>6
    <3>6. CASE j # i + 1
      BY <3>2, <3>3, <3>4, <3>5, <3>6
    <3>7. CASE j = i + 1
      <4>1. l.next = s[j] /\ l.next # NULL /\ r.pc = "unlink_next"
        BY <1>2, <1>4, <1>7, <1>10, <3>7 DEF Elem
      <4>2. ~\E v \in Workers : local[v].pc = "unlink_next" /\ local[v].next = s[j]
        <5>1. SUFFICES ASSUME NEW v \in Workers, local[v].pc = "unlink_next", local[v].next = s[j]
                       PROVE  FALSE
          OBVIOUS
        <5>2. PICK x \in 1 .. n : local[v].next = s[x] /\ local[v].prev = Elem(n, s, x - 1)
          <6>1. LocalOK(mem, endpoint, n, s, local[v])
            BY DEF Shape
          <6>2. QED
            BY <5>1, <6>1 DEF LocalOK
        <5>3. x - 1 = i
          <6>1. x = j
            BY <1>4, <5>1, <5>2
          <6>2. QED
            BY <3>7, <6>1
        <5>4. local[v].prev = k
          BY <1>3, <5>2, <5>3 DEF Elem
        <5>5. QED
          BY <1>9, <3>5, <5>1, <5>4 DEF Ptrs
      <4>3. mem[s[j]].prev = k
        BY <1>3, <3>4, <3>7, <4>2 DEF Elem
      <4>4. QED
        BY <1>6, <1>7, <3>2, <3>3, <4>1, <4>3
    <3>8. QED
      BY <3>6, <3>7
  <2>2. QED
    BY <2>1 DEF Backs
<1>18. k # NULL /\ k \notin ListCells(n - 1, s2)
  BY <1>3, <1>4, <1>15
<1>19. PtrsOK(m, r) /\ LocalOK(m, endpoint, n - 1, s2, r)
  <2>1. Ptrs(r) = Ptrs(l)
    BY <1>2, <1>7 DEF Ptrs
  <2>2. PtrsOK(m, r)
    BY <1>3, <1>12, <2>1 DEF PtrsOK
  <2>3. r.pc = "unlink_next" =>
          \E a \in 1 .. n - 1 : r.next = s2[a] /\ r.prev = Elem(n - 1, s2, a - 1)
    <3>1. SUFFICES ASSUME r.pc = "unlink_next"
                   PROVE  \E a \in 1 .. n - 1 : r.next = s2[a] /\ r.prev = Elem(n - 1, s2, a - 1)
      OBVIOUS
    <3>2. i + 1 \in 1 .. n /\ l.next = s[i + 1] /\ i + 1 # i
      BY <1>2, <1>7, <1>10, <3>1 DEF Elem
    <3>3. PICK a \in 1 .. n - 1 : Was(n, i, a, i + 1)
      BY <1>13, <3>2
    <3>4. s2[a] = s[i + 1] /\ Elem(n - 1, s2, a - 1) = Elem(n, s, i - 1)
      BY <1>13, <3>3
    <3>5. QED
      BY <1>7, <1>10, <3>2, <3>4
  <2>4. LocalOK(m, endpoint, n - 1, s2, r)
    BY <1>2, <1>7, <1>8, <1>18, <2>3 DEF LocalOK, Seeks
  <2>5. QED
    BY <2>2, <2>4
<1>20. ASSUME NEW v \in Workers, v # w
       PROVE  /\ PtrsOK(m, local[v]) /\ LocalOK(m, endpoint, n - 1, s2, local[v])
              /\ local[v].pc = "unlink" => UnlinkOK(L, n - 1, s2, local[v])
  <2>1. PICK x : x = local[v]
    OBVIOUS
  <2>2. PtrsOK(mem, x) /\ LocalOK(mem, endpoint, n, s, x) /\ k \notin Ptrs(x)
    BY <1>9, <1>20, <2>1 DEF Shape
  <2>3. k # x.cur /\ k # x.conn /\ k # x.prev /\ k # x.next
    BY <2>2 DEF Ptrs
  <2>4. PtrsOK(m, x)
    BY <1>12, <2>2 DEF PtrsOK
  <2>5. \A j \in ListCells(n, s) :
            /\ m[j].call_id = mem[j].call_id /\ EndsOf(m[j]) = EndsOf(mem[j])
            /\ \A b \in Sides : m[j][b] = mem[j][b]
    <3>1. \A j \in ListCells(n, s) : j \in Cells /\ mem[j] # NULL
      BY <1>3 DEF Links, ListCells
    <3>2. QED
      BY <1>12, <3>1 DEF EndsOf, Sides
  <2>6. \A a \in 1 .. n - 1 : \E j \in 1 .. n : s2[a] = s[j] /\ m[s2[a]].call_id = mem[s[j]].call_id
    <3>1. SUFFICES ASSUME NEW a \in 1 .. n - 1
                   PROVE  \E j \in 1 .. n : s2[a] = s[j] /\ m[s2[a]].call_id = mem[s[j]].call_id
      OBVIOUS
    <3>2. PICK j \in 1 .. n : Was(n, i, a, j)
      BY <1>13
    <3>3. s2[a] = s[j] /\ s[j] \in ListCells(n, s)
      BY <1>4, <1>13, <3>2
    <3>4. QED
      BY <2>5, <3>3
  <2>7. x.pc = "find" =>
          \E a \in 1 .. n - 1 : /\ x.cur = s2[a]
                                /\ \A b \in 1 .. a - 1 : m[s2[b]].call_id # x.job.call_id
    <3>1. SUFFICES ASSUME x.pc = "find"
                   PROVE  \E a \in 1 .. n - 1 :
                             /\ x.cur = s2[a]
                             /\ \A b \in 1 .. a - 1 : m[s2[b]].call_id # x.job.call_id
      OBVIOUS
    <3>2. PICK j \in 1 .. n : /\ x.cur = s[j]
                              /\ \A y \in 1 .. j - 1 : mem[s[y]].call_id # x.job.call_id
      BY <2>2, <3>1 DEF LocalOK
    <3>3. j # i
      BY <1>3, <2>3, <3>2
    <3>4. PICK a \in 1 .. n - 1 : Was(n, i, a, j)
      BY <1>13, <3>3
    <3>5. ASSUME NEW b \in 1 .. a - 1 PROVE m[s2[b]].call_id # x.job.call_id
      <4>1. PICK y \in 1 .. n : Was(n, i, b, y)
        BY <1>13
      <4>2. y \in 1 .. j - 1
        BY <3>4, <4>1 DEF Was
      <4>3. s2[b] = s[y] /\ m[s[y]].call_id = mem[s[y]].call_id
        BY <1>4, <1>13, <2>5, <4>1
      <4>4. QED
        BY <3>2, <4>2, <4>3
    <3>6. x.cur = s2[a]
      BY <1>13, <3>2, <3>4
    <3>7. QED
      BY <3>5, <3>6
  <2>8. x.pc = "push_link" => m[x.cur].next = NULL
    <3>1. SUFFICES ASSUME x.pc = "push_link" PROVE m[x.cur].next = NULL
      OBVIOUS
    <3>2. x.cur \in ListCells(n, s) /\ mem[x.cur].next = NULL
      BY <2>2, <3>1 DEF LocalOK
    <3>3. PICK j \in 1 .. n : x.cur = s[j]
      BY <3>2 DEF ListCells
    <3>4. x.cur \in Cells /\ mem[x.cur] # NULL
      BY <1>3, <1>4, <3>3 DEF Links
    <3>5. x.cur # l.prev
      <4>1. SUFFICES ASSUME x.cur = l.prev PROVE FALSE
        OBVIOUS
      <4>2. l.prev # NULL
        BY <1>4, <3>3, <4>1
      <4>3. i - 1 \in 1 .. n /\ l.prev = s[i - 1]
        BY <1>11, <4>2
      <4>4. mem[s[i - 1]].next = s[i]
        BY <1>3, <4>3 DEF Links, Elem
      <4>5. QED
        BY <1>4, <3>2, <4>1, <4>3, <4>4
    <3>6. QED
      BY <1>12, <3>2, <3>4, <3>5
  <2>9. x.pc = "unlink_next" =>
          \E a \in 1 .. n - 1 : x.next = s2[a] /\ x.prev = Elem(n - 1, s2, a - 1)
    <3>1. SUFFICES ASSUME x.pc = "unlink_next"
                   PROVE  \E a \in 1 .. n - 1 : x.next = s2[a] /\ x.prev = Elem(n - 1, s2, a - 1)
      OBVIOUS
    <3>2. PICK j \in 1 .. n : x.next = s[j] /\ x.prev = Elem(n, s, j - 1)
      BY <2>2, <3>1 DEF LocalOK
    <3>3. j # i /\ j # i + 1
      BY <1>3, <2>3, <3>2 DEF Elem
    <3>4. PICK a \in 1 .. n - 1 : Was(n, i, a, j)
      BY <1>13, <3>3
    <3>5. s2[a] = s[j] /\ Elem(n - 1, s2, a - 1) = Elem(n, s, j - 1)
      BY <1>13, <3>3, <3>4
    <3>6. QED
      BY <3>2, <3>5
  <2>10. Pushing(x) => m[x.conn] = NewCell(x.job.call_id) /\ n - 1 \in Nat
    <3>1. SUFFICES ASSUME Pushing(x) PROVE m[x.conn] = NewCell(x.job.call_id)
      BY <1>13
    <3>2. /\ x.conn \in Cells /\ x.conn # NULL /\ x.conn \notin ListCells(n, s)
          /\ mem[x.conn] = NewCell(x.job.call_id)
      BY <2>2, <3>1 DEF LocalOK, PtrsOK, Ptrs
    <3>3. x.conn # l.prev
      BY <1>4, <1>11, <3>2
    <3>4. QED
      BY <1>11, <3>2, <3>3
  <2>11. x.pc # "push_first" /\ (x.pc = "push_head" => n - 1 # 0)
    <3>1. x.pc # "push_first"
      BY <2>2 DEF LocalOK
    <3>2. ASSUME x.pc = "push_head" PROVE n # 1
      <4>1. ~(l.prev = NULL /\ l.next = NULL)
        BY <1>2, <1>20, <2>1, <3>2, Zenon DEF Unlink, EmptyHazard, Others
      <4>2. n = 1 => l.prev = NULL /\ l.next = NULL
        BY <1>10 DEF Elem
      <4>3. QED
        BY <4>1, <4>2
    <3>3. QED
      BY <3>1, <3>2
  <2>12. x.pc = "set" => m[x.conn][x.job.side] = NULL
    <3>1. x.pc = "set" => x.job.side \in Sides
      BY <2>1, WorkerGood, JobFields
    <3>2. QED
      BY <2>2, <2>5, <3>1 DEF LocalOK
  <2>13. x.pc = "attach" => x.job.endpoint \in EndsOf(m[x.conn])
    BY <2>2, <2>5 DEF LocalOK
  <2>14. x.pc = "send" => x.dst \in EndsOf(m[x.cur]) /\ endpoint[x.dst] = "attached"
    BY <2>2, <2>5 DEF LocalOK
  <2>15. Seeks(x) => \A a \in 1 .. n - 1 : m[s2[a]].call_id # x.job.call_id
    BY <2>2, <2>6 DEF LocalOK
  <2>16. LocalOK(m, endpoint, n - 1, s2, x)
    BY <1>15, <2>2, <2>3, <2>7, <2>8, <2>9, <2>10, <2>11, <2>12, <2>13, <2>14, <2>15 DEF LocalOK
  <2>17. x.pc = "unlink" => UnlinkOK(L, n - 1, s2, x)
    <3>1. SUFFICES ASSUME x.pc = "unlink" PROVE UnlinkOK(L, n - 1, s2, x)
      OBVIOUS
    <3>2. PICK j \in 1 .. n :
              /\ x.conn = s[j] /\ x.next = Elem(n, s, j + 1)
              /\ \/ x.prev = Elem(n, s, j - 1)
                 \/ \E u \in Workers : Removing(local[u]) /\ local[u].conn = x.prev
      BY <2>1, <3>1 DEF Shape, UnlinkOK
    <3>3. j # i /\ j # i - 1
      BY <1>3, <2>3, <3>2 DEF Elem
    <3>4. PICK a \in 1 .. n - 1 : Was(n, i, a, j)
      BY <1>13, <3>3
    <3>5. /\ s2[a] = s[j] /\ Elem(n - 1, s2, a + 1) = Elem(n, s, j + 1)
          /\ Elem(n - 1, s2, a - 1) = Elem(n, s, IF j = i + 1 THEN i - 1 ELSE j - 1)
      BY <1>13, <3>3, <3>4
    <3>6. \/ x.prev = Elem(n - 1, s2, a - 1)
          \/ \E u \in Workers : Removing(L[u]) /\ L[u].conn = x.prev
      <4>1. CASE x.prev = Elem(n, s, j - 1)
        <5>1. j # i + 1
          BY <1>3, <2>3, <4>1 DEF Elem
        <5>2. QED
          BY <3>5, <4>1, <5>1
      <4>2. CASE \E u \in Workers : Removing(local[u]) /\ local[u].conn = x.prev
        <5>1. \A u \in Workers : Removing(local[u]) => L[u] = local[u]
          BY <1>2, <1>6, <1>8
        <5>2. QED
          BY <4>2, <5>1
      <4>3. QED
        BY <3>2, <4>1, <4>2
    <3>7. QED
      BY <3>2, <3>5, <3>6 DEF UnlinkOK
  <2>18. QED
    BY <2>1, <2>4, <2>16, <2>17
<1>21. \A v \in Workers : PtrsOK(m, L[v]) /\ LocalOK(m, endpoint, n - 1, s2, L[v])
  BY <1>6, <1>19, <1>20
<1>22. \A v \in Workers : L[v].pc = "unlink" => UnlinkOK(L, n - 1, s2, L[v])
  <2>1. r.pc # "unlink"
    BY <1>2, <1>7
  <2>2. QED
    BY <1>6, <1>20, <2>1
<1>23. Private(L)
  <2>1. Ptrs(r) = Ptrs(l)
    BY <1>2, <1>7 DEF Ptrs
  <2>2. QED
    BY <1>2, <1>6, <1>8, <2>1 DEF Shape, Private
<1>24. EndpointsOK(m, endpoint, L)
  <2>1. EndpointsOK(mem, endpoint, local)
    BY DEF Shape
  <2>2. \A v \in Workers : Brings(L[v]) =>
            Brings(local[v]) /\ L[v].job.endpoint = local[v].job.endpoint
    BY <1>6, <1>8
  <2>3. \A j \in Cells : m[j] # NULL =>
            /\ mem[j] # NULL
            /\ m[j].request_endpoint = mem[j].request_endpoint
            /\ m[j].response_endpoint = mem[j].response_endpoint
    BY <1>12
  <2>4. QED
    BY <2>1, <2>2, <2>3, EndpointsStay
<1>25. Kept(m, L, n - 1, s2)
  <2>1. ASSUME NEW j \in Cells, m[j] # NULL, j # k
        PROVE  \/ j \in ListCells(n, s)
               \/ \E v \in Workers : (Pushing(L[v]) \/ Removing(L[v])) /\ L[v].conn = j
    <3>1. mem[j] # NULL
      BY <1>12, <2>1
    <3>2. \/ j \in ListCells(n, s)
          \/ \E v \in Workers : (Pushing(local[v]) \/ Removing(local[v])) /\ local[v].conn = j
      BY <3>1 DEF Shape, Kept
    <3>3. QED
      BY <1>2, <1>6, <2>1, <3>2
  <2>2. (Pushing(L[w]) \/ Removing(L[w])) /\ L[w].conn = k
    BY <1>6, <1>7, <1>8
  <2>3. QED
    BY <1>15, <2>1, <2>2 DEF Kept
<1>26. Shape(m, h, endpoint, L, n - 1, s2)
  BY <1>16, <1>17, <1>21, <1>22, <1>23, <1>24, <1>25 DEF Shape
<1>27. endpoint' = endpoint
  BY DEF Unlink
<1>28. QED
  BY <1>5, <1>26, <1>27

-----------------------------------------------------------------------------
(* The cells that can be reached are the cells of the list *)

Reach(m, h) ==
    {k \in Cells : \A S \in SUBSET Cells :
         (/\ {h} \cap Cells \subseteq S
          /\ \A j \in S : (IF m[j] = NULL THEN {} ELSE {m[j].next} \ {NULL}) \subseteq S)
           => k \in S}

\* A nonempty set of positions has a smallest one.
LEMMA SmallestIndex ==
    ASSUME NEW n \in Nat, NEW I \in SUBSET (1 .. n), I # {}
    PROVE  \E x \in I : \A y \in I : x <= y
<1> DEFINE less == OpToRel(<, Nat)
<1>1. I \subseteq Nat
  OBVIOUS
<1>2. PICK x \in I : \A y \in I : <<y, x>> \notin less
  BY <1>1, NatLessThanWellFounded, WFMin
<1>3. ASSUME NEW y \in I PROVE x <= y
  <2>1. x \in Nat /\ y \in Nat
    BY <1>1
  <2>2. y < x => <<y, x>> \in less
    BY <2>1 DEF OpToRel
  <2>3. ~ (y < x)
    <3> HIDE DEF less
    <3>1. QED
      BY <1>2, <2>2
  <2>4. QED
    BY <2>1, <2>3
<1>4. QED
  BY <1>3

\* What head leads to is the list, and nothing else.
LEMMA ReachIsList ==
    ASSUME NEW m, NEW h, NEW ep, NEW L, NEW n, NEW s,
           Typed(m, ep, L, n, s), Links(m, h, n, s)
    PROVE  Reach(m, h) = ListCells(n, s)
<1>1. /\ n \in Nat
      /\ \A i \in 1 .. n : /\ s[i] \in Cells /\ s[i] # NULL /\ m[s[i]] \in Connection
                           /\ s[i] \in ListCells(n, s)
      /\ \A k \in ListCells(n, s) : \E i \in 1 .. n : k = s[i]
  BY ListFacts DEF Typed
<1>2. \A i \in 1 .. n : m[s[i]] # NULL /\ m[s[i]].next = Elem(n, s, i + 1)
  BY DEF Links
<1>3. h = Elem(n, s, 1)
  BY DEF Links
<1>4. ASSUME NEW k \in Reach(m, h) PROVE k \in ListCells(n, s)
  <2>1. ListCells(n, s) \in SUBSET Cells
    BY <1>1
  <2>2. {h} \cap Cells \subseteq ListCells(n, s)
    BY <1>1, <1>3, ListAssumption DEF Elem
  <2>3. ASSUME NEW j \in ListCells(n, s)
        PROVE  (IF m[j] = NULL THEN {} ELSE {m[j].next} \ {NULL}) \subseteq ListCells(n, s)
    <3>1. PICK i \in 1 .. n : j = s[i]
      BY <1>1
    <3>2. m[j].next = NULL \/ m[j].next \in ListCells(n, s)
      BY <1>1, <1>2, <3>1 DEF Elem
    <3>3. QED
      BY <3>2
  <2>4. QED
    BY <2>1, <2>2, <2>3 DEF Reach
<1>5. ASSUME NEW k \in ListCells(n, s) PROVE k \in Reach(m, h)
  <2>1. SUFFICES ASSUME NEW S \in SUBSET Cells,
                        {h} \cap Cells \subseteq S,
                        \A j \in S : (IF m[j] = NULL THEN {} ELSE {m[j].next} \ {NULL}) \subseteq S
                 PROVE  k \in S
    BY <1>1 DEF Reach
  <2>2. PICK I : I = {i \in 1 .. n : s[i] \notin S}
    OBVIOUS
  <2>3. I = {}
    <3>1. SUFFICES ASSUME I # {} PROVE FALSE
      OBVIOUS
    <3>2. PICK x \in I : \A y \in I : x <= y
      BY <1>1, <2>2, <3>1, SmallestIndex
    <3>3. x \in 1 .. n /\ s[x] \notin S
      BY <2>2, <3>2
    <3>4. CASE x = 1
      BY <1>1, <1>3, <2>1, <3>3, <3>4 DEF Elem
    <3>5. CASE x # 1
      <4>1. x - 1 \in 1 .. n /\ x - 1 \notin I
        BY <1>1, <3>2, <3>3, <3>5
      <4>2. s[x - 1] \in S
        BY <2>2, <4>1
      <4>3. m[s[x - 1]] # NULL /\ m[s[x - 1]].next = s[x]
        BY <1>2, <3>3, <4>1 DEF Elem
      <4>4. QED
        BY <1>1, <2>1, <3>3, <4>2, <4>3
    <3>6. QED
      BY <3>4, <3>5
  <2>4. QED
    BY <1>1, <2>2, <2>3
<1>6. QED
  BY <1>4, <1>5

\* Reachable is Reach of the state, and of the next one.
LEMMA ReachableIs == Reachable = Reach(mem, head)
BY DEF Reachable, Closed, Successors, Reach

LEMMA ReachableNext == Reachable' = Reach(mem', head')
BY DEF Reachable, Closed, Successors, Reach

-----------------------------------------------------------------------------
(* The invariant *)

\* Without a hazard everything a worker uses is there.
LEMMA NoCrashStep ==
    ASSUME IInv, NEW n \in Nat, NEW s \in [1 .. n -> Cells],
           Shape(mem, head, endpoint, local, n, s), NEW w \in Workers
    PROVE  ~Crash(w)
<1>1. Typed(mem, endpoint, local, n, s)
  BY StateTyped
<1>2. PICK l : l = local[w]
  OBVIOUS
<1>3. /\ l \in Local
      /\ LocalOK(mem, endpoint, n, s, l) /\ PtrsOK(mem, l)
      /\ Links(mem, head, n, s) /\ EndpointsOK(mem, endpoint, local)
  BY <1>2, WorkerGood DEF Shape
<1>4. \A k \in ListCells(n, s) : k \in Allocated
  BY <1>1, <1>3, ListFacts DEF Allocated, Links, ListCells
<1>5. \A k : k \in Ptrs(l) /\ k # NULL => k \in Allocated
  BY <1>3 DEF PtrsOK, Allocated
<1>6. Dereferenced(w) \subseteq Allocated
  <2>1. CASE l.pc \in {"find", "push_walk", "match", "push_link"}
    <3>1. l.cur \in ListCells(n, s)
      BY <1>3, <2>1 DEF LocalOK, ListCells
    <3>2. l.pc = "push_link" => l.conn \in Allocated
      BY <1>3, <1>5 DEF LocalOK, Pushing, Ptrs
    <3>3. QED
      BY <1>2, <1>4, <2>1, <3>1, <3>2 DEF Dereferenced
  <2>2. CASE l.pc \in {"check", "set", "attach", "unlink_read", "destroy"}
    <3>1. l.conn \in Allocated
      BY <1>3, <1>4, <1>5, <2>2 DEF LocalOK, Removing, Ptrs
    <3>2. QED
      BY <1>2, <2>2, <3>1 DEF Dereferenced
  <2>3. CASE l.pc = "unlink"
    BY <1>2, <1>5, <2>3 DEF Dereferenced, Ptrs
  <2>4. CASE l.pc = "unlink_next"
    <3>1. l.next \in Allocated
      BY <1>3, <1>4, <2>4 DEF LocalOK, ListCells
    <3>2. QED
      BY <1>2, <2>4, <3>1 DEF Dereferenced
  <2>5. CASE l.pc \in {"find_head", "push_head", "match_head"}
    <3>1. head # Wild
      BY <1>3, ListAssumption DEF Links, Elem
    <3>2. l.pc = "push_head" => head \in Cells
      BY <1>3 DEF LocalOK, Links, Elem
    <3>3. QED
      BY <1>2, <2>5, <3>1, <3>2 DEF Dereferenced
  <2>6. CASE l.pc \in {"idle", "create", "push", "push_first", "send"}
    BY <1>2, <2>6 DEF Dereferenced
  <2>7. l.pc \in PCs
    BY <1>3, LocalFields
  <2>8. QED
    BY <2>1, <2>2, <2>3, <2>4, <2>5, <2>6, <2>7 DEF PCs
<1>7. \A k \in Allocated : \A e \in EndpointsOf(k) : endpoint[e] # "free"
  BY <1>3 DEF EndpointsOK, EndsOf, EndpointsOf, Allocated
<1>8. \A e \in Used(w) : endpoint[e] # "free"
  <2>1. CASE l.pc = "destroy"
    <3>1. l.conn \in Allocated
      BY <1>3, <1>5, <2>1 DEF LocalOK, Removing, Ptrs
    <3>2. QED
      BY <1>2, <1>7, <2>1, <3>1 DEF Used
  <2>2. CASE l.pc = "match"
    <3>1. l.cur \in Allocated
      BY <1>3, <1>4, <2>2 DEF LocalOK
    <3>2. QED
      BY <1>2, <1>7, <2>2, <3>1 DEF Used
  <2>3. CASE l.pc = "attach"
    <3>1. l.conn \in Allocated /\ l.job.endpoint \in EndsOf(mem[l.conn])
      BY <1>3, <1>4, <2>3 DEF LocalOK
    <3>2. QED
      BY <1>2, <1>7, <2>3, <3>1 DEF Used, EndsOf, EndpointsOf
  <2>4. CASE l.pc \notin {"destroy", "match", "attach"}
    BY <1>2, <2>4 DEF Used
  <2>5. QED
    BY <2>1, <2>2, <2>3, <2>4
<1>9. l.pc = "send" => endpoint[l.dst] = "attached"
  BY <1>3 DEF LocalOK
<1>10. QED
  BY <1>2, <1>6, <1>8, <1>9, Zenon DEF Crash

\* Every step without a hazard leaves a list of that shape.
LEMMA StepShape ==
    ASSUME IInv, NEW n \in Nat, NEW s \in [1 .. n -> Cells],
           Shape(mem, head, endpoint, local, n, s), Next, ~hazard'
    PROVE  \E n2 \in Nat : \E s2 \in [1 .. n2 -> Cells] :
               Shape(mem', head', endpoint', local', n2, s2)
<1>1. ASSUME Shape(mem', head', endpoint', local', n, s)
      PROVE  \E n2 \in Nat : \E s2 \in [1 .. n2 -> Cells] :
                 Shape(mem', head', endpoint', local', n2, s2)
  BY <1>1
<1>2. PICK w \in Workers :
          \/ Step(w)
          \/ \E c \in CallIds :
               \/ \E side \in Sides, e \in Endpoints : ReceiveInitial(w, c, side, e)
               \/ ReceiveFinal(w, c)
               \/ \E side \in Sides : ReceiveMedia(w, c, side)
  BY DEF Next
<1>3. ASSUME NEW c \in CallIds,
             \/ \E side \in Sides, e \in Endpoints : ReceiveInitial(w, c, side, e)
             \/ ReceiveFinal(w, c)
             \/ \E side \in Sides : ReceiveMedia(w, c, side)
      PROVE  Shape(mem', head', endpoint', local', n, s)
  <2>1. PICK side \in Sides : \/ \E e \in Endpoints : ReceiveInitial(w, c, side, e)
                              \/ ReceiveFinal(w, c)
                              \/ ReceiveMedia(w, c, side)
    BY <1>3 DEF Sides
  <2>2. QED
    BY <2>1, ReceiveShape
<1>4. CASE FindHead(w) \/ Find(w)
  BY <1>1, <1>4, FindShape
<1>5. ASSUME NEW k \in Cells, Create(w, k)
      PROVE  Shape(mem', head', endpoint', local', n, s)
  BY <1>5, CreateShape
<1>6. CASE CreateFails(w) \/ Send(w)
  BY <1>1, <1>6, EndShape
<1>7. CASE PushFirst(w)
  <2>1. PICK s2 : s2 = [i \in 1 .. 1 |-> local[w].conn]
    OBVIOUS
  <2>2. s2 \in [1 .. 1 -> Cells] /\ Shape(mem', head', endpoint', local', 1, s2)
    BY <1>7, <2>1, PushFirstShape
  <2>3. 1 \in Nat
    OBVIOUS
  <2>4. QED
    BY <2>2, <2>3
<1>8. CASE Push(w) \/ PushHead(w) \/ PushWalk(w)
  BY <1>1, <1>8, PushHeadShape, PushWalkShape
<1>9. CASE PushLink(w)
  <2>1. PICK s2 : s2 = [i \in 1 .. n + 1 |-> IF i = n + 1 THEN local[w].conn ELSE s[i]]
    OBVIOUS
  <2>2. /\ s2 \in [1 .. n + 1 -> Cells]
        /\ Shape(mem', head', endpoint', local', n + 1, s2)
    BY <1>9, <2>1, PushLinkShape
  <2>3. n + 1 \in Nat
    OBVIOUS
  <2>4. QED
    BY <2>2, <2>3
<1>10. CASE CheckEndpoint(w)
  BY <1>1, <1>10, CheckEndpointShape
<1>11. CASE SetEndpoint(w)
  BY <1>1, <1>11, SetEndpointShape
<1>12. CASE AttachEndpoint(w)
  BY <1>1, <1>12, AttachShape
<1>13. CASE UnlinkRead(w)
  BY <1>1, <1>13, UnlinkReadShape
<1>14. CASE Unlink(w)
  <2>1. PICK i \in 1 .. n : local[w].conn = s[i]
    BY <1>14 DEF Unlink, At, Shape, UnlinkOK
  <2>2. PICK s2 : s2 = Cut(n, s, i)
    OBVIOUS
  <2>3. Shape(mem', head', endpoint', local', n - 1, s2)
    BY <1>14, <2>1, <2>2, UnlinkShape
  <2>4. n - 1 \in Nat /\ s2 \in [1 .. n - 1 -> Cells]
    <3>1. IsCut(n, s, i, s2)
      BY <2>2, CutFacts
    <3>2. QED
      BY <3>1 DEF IsCut
  <2>5. QED
    BY <2>3, <2>4
<1>15. CASE UnlinkNext(w)
  BY <1>1, <1>15, UnlinkNextShape
<1>16. CASE Destroy(w)
  BY <1>1, <1>16, DestroyShape
<1>17. CASE MatchHead(w) \/ Match(w)
  BY <1>1, <1>17, MatchShape
<1>18. CASE Crash(w)
  BY <1>18, NoCrashStep
<1>19. QED
  BY <1>1, <1>2, <1>3, <1>4, <1>5, <1>6, <1>7, <1>8, <1>9, <1>10, <1>11, <1>12, <1>13, <1>14,
     <1>15, <1>16, <1>17, <1>18 DEF Step

\* Only Crash sets fault, and hazard stays.
LEMMA FaultStep ==
    ASSUME IInv, Next
    PROVE  /\ hazard => hazard'
           /\ fault' # fault => \E w \in Workers : Crash(w)
<1>1. PICK w \in Workers :
          \/ Step(w)
          \/ \E c \in CallIds :
               \/ \E side \in Sides, e \in Endpoints : ReceiveInitial(w, c, side, e)
               \/ ReceiveFinal(w, c)
               \/ \E side \in Sides : ReceiveMedia(w, c, side)
  BY DEF Next
<1>2. ASSUME NEW job, NEW pc, Receive(w, job, pc) PROVE fault' = fault /\ hazard' = hazard
  BY <1>2 DEF Receive
<1>3. ASSUME NEW c \in CallIds,
             \/ \E side \in Sides, e \in Endpoints : ReceiveInitial(w, c, side, e)
             \/ ReceiveFinal(w, c)
             \/ \E side \in Sides : ReceiveMedia(w, c, side)
      PROVE  fault' = fault /\ hazard' = hazard
  BY <1>2, <1>3, Zenon DEF ReceiveInitial, ReceiveFinal, ReceiveMedia
<1>4. CASE FindHead(w) \/ Find(w) \/ CreateFails(w) \/ Push(w) \/ PushHead(w)
           \/ PushWalk(w) \/ CheckEndpoint(w)
           \/ AttachEndpoint(w) \/ UnlinkRead(w) \/ UnlinkNext(w) \/ MatchHead(w) \/ Send(w)
  <2>1. fault' = fault /\ hazard' = hazard
    BY <1>4 DEF FindHead, Find, CreateFails, Push, PushHead, PushWalk, CheckEndpoint,
                AttachEndpoint, UnlinkRead, UnlinkNext, MatchHead, Send
  <2>2. QED
    BY <2>1
<1>5. ASSUME NEW k \in Cells, Create(w, k) PROVE fault' = fault /\ hazard' = hazard
  BY <1>5 DEF Create
<1>6. CASE PushFirst(w) \/ PushLink(w) \/ SetEndpoint(w) \/ Unlink(w) \/ Destroy(w) \/ Match(w)
  <2>1. fault' = fault
    BY <1>6 DEF PushFirst, PushLink, SetEndpoint, Unlink, Destroy, Match
  <2>2. hazard => hazard'
    BY <1>6, Zenon DEF PushFirst, PushLink, SetEndpoint, Unlink, Destroy, Match
  <2>3. QED
    BY <2>1, <2>2
<1>7. CASE Crash(w)
  BY <1>7, Zenon DEF Crash
<1>8. QED
  BY <1>1, <1>3, <1>4, <1>5, <1>6, <1>7, Zenon DEF Step

LEMMA InitListInv == Init => ListInv
<1> SUFFICES ASSUME Init, ~hazard
             PROVE  /\ IInv /\ ~fault
                    /\ \E n \in Nat : \E s \in [1 .. n -> Cells] :
                         Shape(mem, head, endpoint, local, n, s)
  BY InitIInv DEF ListInv
<1>1. PICK s : s = [i \in 1 .. 0 |-> NULL]
  OBVIOUS
<1>2. s \in [1 .. 0 -> Cells] /\ 0 \in Nat /\ 1 .. 0 = {}
  BY <1>1
<1>3. /\ head = NULL /\ \A k \in Cells : mem[k] = NULL
      /\ \A w \in Workers : local[w] = Idle
  BY DEF Init
<1>4. Links(mem, head, 0, s) /\ Backs(mem, local, 0, s)
  BY <1>2, <1>3 DEF Links, Backs, Elem
<1>5. \A w \in Workers : /\ PtrsOK(mem, local[w]) /\ LocalOK(mem, endpoint, 0, s, local[w])
                         /\ ~Pushing(local[w]) /\ ~Brings(local[w]) /\ local[w].pc # "unlink"
  BY <1>3, IdleOK
<1>6. Private(local) /\ EndpointsOK(mem, endpoint, local) /\ Kept(mem, local, 0, s)
  BY <1>3, <1>5 DEF Private, EndpointsOK, Kept
<1>7. Shape(mem, head, endpoint, local, 0, s)
  BY <1>4, <1>5, <1>6 DEF Shape
<1>8. QED
  BY <1>2, <1>7, InitIInv DEF Init

LEMMA NextListInv == ListInv /\ [Next]_vars => ListInv'
<1> SUFFICES ASSUME ListInv, [Next]_vars PROVE ListInv'
  OBVIOUS
<1>1. IInv /\ IInv'
  BY NextIInv DEF ListInv
<1>2. CASE UNCHANGED vars
  BY <1>1, <1>2 DEF ListInv, vars
<1>3. CASE Next /\ ~hazard'
  <2>1. ~hazard /\ ~fault
    BY <1>1, <1>3, FaultStep DEF ListInv
  <2>2. PICK n \in Nat : \E s \in [1 .. n -> Cells] : Shape(mem, head, endpoint, local, n, s)
    BY <2>1 DEF ListInv
  <2>3. PICK s \in [1 .. n -> Cells] : Shape(mem, head, endpoint, local, n, s)
    BY <2>2
  <2>4. \E n2 \in Nat : \E s2 \in [1 .. n2 -> Cells] :
            Shape(mem', head', endpoint', local', n2, s2)
    BY <1>1, <1>3, <2>3, StepShape
  <2>5. ~fault'
    BY <1>1, <1>3, <2>1, <2>3, FaultStep, NoCrashStep
  <2>6. QED
    BY <1>1, <2>4, <2>5 DEF ListInv
<1>4. CASE hazard'
  BY <1>1, <1>4 DEF ListInv
<1>5. QED
  BY <1>2, <1>3, <1>4

LEMMA ListInvariant == Spec => []ListInv
BY InitListInv, NextListInv, PTL DEF Spec

\* What the shape of the list says of the properties.
LEMMA ShapeGood ==
    ASSUME IInv, NEW n \in Nat, NEW s \in [1 .. n -> Cells],
           Shape(mem, head, endpoint, local, n, s), ~fault
    PROVE  ListOK /\ NothingLost
<1>1. /\ Typed(mem, endpoint, local, n, s) /\ Links(mem, head, n, s)
      /\ Backs(mem, local, n, s) /\ Kept(mem, local, n, s)
  BY StateTyped DEF Shape
<1>2. Reachable = ListCells(n, s)
  BY <1>1, ReachIsList, ReachableIs
<1>3. /\ \A i \in 1 .. n : s[i] \in Cells /\ s[i] # NULL
      /\ \A i, j \in 1 .. n : s[i] = s[j] => i = j
      /\ \A k \in ListCells(n, s) : \E i \in 1 .. n : k = s[i]
  BY <1>1, ListFacts
<1>4. Reachable \subseteq Allocated
  BY <1>1, <1>2, <1>3 DEF Allocated, Links
<1>5. ASSUME NEW i \in 1 .. n
      PROVE  \/ mem[s[i]].prev = Elem(n, s, i - 1)
             \/ \E w \in Workers : At(w, "unlink_next") /\ local[w].next = s[i]
  BY <1>1, <1>5 DEF Backs, At
<1>6. ASSUME NEW k \in Reachable, NEW q \in Reachable
      PROVE  /\ mem[k].call_id = mem[q].call_id => k = q
             /\ mem[k].next = q =>
                   /\ q # head
                   /\ \/ mem[q].prev = k
                      \/ \E w \in Workers : At(w, "unlink_next") /\ local[w].next = q
  <2>1. PICK i \in 1 .. n : k = s[i]
    BY <1>2, <1>3
  <2>2. PICK j \in 1 .. n : q = s[j]
    BY <1>2, <1>3
  <2>3. mem[k].call_id = mem[q].call_id => k = q
    BY <1>1, <2>1, <2>2 DEF Links
  <2>4. ASSUME mem[k].next = q
        PROVE  /\ q # head
               /\ \/ mem[q].prev = k
                  \/ \E w \in Workers : At(w, "unlink_next") /\ local[w].next = q
    <3>1. Elem(n, s, i + 1) = s[j]
      BY <1>1, <2>1, <2>2, <2>4 DEF Links
    <3>2. j = i + 1
      BY <1>3, <3>1 DEF Elem
    <3>3. head = s[1] /\ 1 \in 1 .. n
      BY <1>1 DEF Links, Elem
    <3>4. q # head
      BY <1>3, <2>2, <3>2, <3>3
    <3>5. Elem(n, s, j - 1) = k
      BY <2>1, <3>2 DEF Elem
    <3>6. QED
      BY <1>5, <2>2, <3>4, <3>5
  <2>5. QED
    BY <2>3, <2>4
<1>7. ASSUME NEW k \in Reachable \cap {head}
      PROVE  \/ mem[k].prev = NULL
             \/ \E w \in Workers : At(w, "unlink_next") /\ local[w].next = k
  <2>1. PICK i \in 1 .. n : k = s[i]
    BY <1>2, <1>3, <1>7
  <2>2. k = s[1] /\ 1 \in 1 .. n
    BY <1>1, <1>7 DEF Links, Elem
  <2>3. Elem(n, s, 1 - 1) = NULL
    BY DEF Elem
  <2>4. QED
    BY <1>5, <2>2, <2>3
<1>8. ListOK
  BY <1>4, <1>6, <1>7 DEF ListOK
<1>9. NothingLost
  <2>1. ASSUME NEW k \in Allocated PROVE k \in Reachable \/ Owned(k)
    <3>1. \/ k \in ListCells(n, s)
          \/ \E w \in Workers : (Pushing(local[w]) \/ Removing(local[w])) /\ local[w].conn = k
      BY <1>1, <2>1 DEF Allocated, Kept
    <3>2. QED
      BY <1>2, <3>1 DEF Owned, Pushing, Removing
  <2>2. QED
    BY <2>1 DEF NothingLost
<1>10. QED
  BY <1>8, <1>9

\* For any workers, calls, cells and endpoints: if the head was NULL to begin with and
\* until two workers meet as PushHazard, UnlinkHazard, EmptyHazard, SetHazard or Match
\* say, nobody uses memory that is not there, although no lock protects the list.
THEOREM NoCrashWithoutHazard == Spec => []NoCrash
<1>1. ListInv => NoCrash
  BY DEF ListInv, NoCrash
<1>2. QED
  BY <1>1, ListInvariant, PTL

\* Until a hazard the connections are one chain of allocated cells, one per call,
\* that leads back the way it came.
THEOREM ListStaysAList == Spec => []ListOK
<1>1. ListInv => ListOK
  <2>1. CASE hazard
    BY <2>1 DEF ListOK
  <2>2. CASE ~hazard
    BY <2>2, ShapeGood DEF ListInv
  <2>3. QED
    BY <2>1, <2>2
<1>2. QED
  BY <1>1, ListInvariant, PTL

\* Until a hazard no connection is lost: a cell that is allocated is in the list,
\* or its pusher or remover still has it.
THEOREM NoConnectionLost == Spec => []NothingLost
<1>1. ListInv => NothingLost
  <2>1. CASE hazard
    BY <2>1 DEF NothingLost
  <2>2. CASE ~hazard
    BY <2>2, ShapeGood DEF ListInv
  <2>3. QED
    BY <2>1, <2>2
<1>2. QED
  BY <1>1, ListInvariant, PTL

-----------------------------------------------------------------------------
(* The list implements the table of calls *)

\* The table of calls for one side, and its characterisation by the list.
CallOf(m, h, c, side) ==
    IF \E k \in Reach(m, h) \cap {j \in Cells : m[j] # NULL} : m[k].call_id = c
    THEN m[CHOOSE k \in Reach(m, h) \cap {j \in Cells : m[j] # NULL} : m[k].call_id = c][side]
    ELSE NULL

View(m, h, side) == [c \in CallIds |-> CallOf(m, h, c, side)]

\* The table of calls is a view of the cells.
LEMMA ViewOfState ==
    ASSUME NEW side
    PROVE  [c \in CallIds |-> EndpointOf(c, side)] = View(mem, head, side)
BY ReachableIs DEF View, CallOf, EndpointOf, Allocated

LEMMA ViewOfNextState ==
    /\ [c \in CallIds |-> EndpointOf(c, "request_endpoint")]'
         = View(mem', head', "request_endpoint")
    /\ [c \in CallIds |-> EndpointOf(c, "response_endpoint")]'
         = View(mem', head', "response_endpoint")
BY ReachableNext DEF View, CallOf, EndpointOf, Allocated

\* What the table says of the calls in the list and of the others.
LEMMA ViewOfList ==
    ASSUME NEW m, NEW h, NEW ep, NEW L, NEW n, NEW s,
           Typed(m, ep, L, n, s), Links(m, h, n, s), NEW side
    PROVE  /\ View(m, h, side) = [c \in CallIds |-> View(m, h, side)[c]]
           /\ \A i \in 1 .. n : /\ m[s[i]].call_id \in CallIds
                                /\ View(m, h, side)[m[s[i]].call_id] = m[s[i]][side]
           /\ \A c \in CallIds : (\A i \in 1 .. n : m[s[i]].call_id # c)
                                   => View(m, h, side)[c] = NULL
<1>1. PICK K : K = Reach(m, h) \cap {j \in Cells : m[j] # NULL}
  OBVIOUS
<1>2. \A k : k \in K <=> \E i \in 1 .. n : k = s[i]
  <2>1. Reach(m, h) = ListCells(n, s)
    BY ReachIsList
  <2>2. \A i \in 1 .. n : s[i] \in Cells /\ m[s[i]] # NULL
    BY DEF Typed, Links
  <2>3. QED
    BY <1>1, <2>1, <2>2 DEF ListCells
<1>3. \A c : CallOf(m, h, c, side) = IF \E k \in K : m[k].call_id = c
                                     THEN m[CHOOSE k \in K : m[k].call_id = c][side]
                                     ELSE NULL
  BY <1>1, Zenon DEF CallOf
<1>4. \A k, q \in K : m[k].call_id = m[q].call_id => k = q
  BY <1>2 DEF Links
<1>5. ASSUME NEW i \in 1 .. n
      PROVE  /\ m[s[i]].call_id \in CallIds
             /\ CallOf(m, h, m[s[i]].call_id, side) = m[s[i]][side]
  <2>1. m[s[i]] \in Connection
    BY ListFacts
  <2>2. m[s[i]].call_id \in CallIds
    BY <2>1 DEF Connection
  <2>3. PICK c : c = m[s[i]].call_id
    OBVIOUS
  <2>4. PICK k : k = CHOOSE q \in K : m[q].call_id = c
    OBVIOUS
  <2>5. s[i] \in K
    BY <1>2
  <2>6. k \in K /\ m[k].call_id = c
    BY <2>3, <2>4, <2>5
  <2>7. k = s[i]
    BY <1>4, <2>3, <2>5, <2>6
  <2>8. CallOf(m, h, c, side) = m[k][side]
    BY <1>3, <2>3, <2>4, <2>5
  <2>9. QED
    BY <2>2, <2>3, <2>7, <2>8
<1>6. ASSUME NEW c, \A i \in 1 .. n : m[s[i]].call_id # c PROVE CallOf(m, h, c, side) = NULL
  BY <1>2, <1>3, <1>6
<1>7. \A c \in CallIds : View(m, h, side)[c] = CallOf(m, h, c, side)
  BY DEF View
<1>8. View(m, h, side) = [c \in CallIds |-> View(m, h, side)[c]]
  BY DEF View
<1>9. QED
  BY <1>5, <1>6, <1>7, <1>8

\* The cells of two lists say the same of every call.
SaysSame(m, n, s, m2, n2, s2, side) ==
    /\ \A i \in 1 .. n : \E j \in 1 .. n2 :
           m2[s2[j]].call_id = m[s[i]].call_id /\ m2[s2[j]][side] = m[s[i]][side]
    /\ \A j \in 1 .. n2 : \/ m2[s2[j]][side] = NULL
                          \/ \E i \in 1 .. n : m[s[i]].call_id = m2[s2[j]].call_id

\* Two lists that say the same of every call are one table.
LEMMA ViewSame ==
    ASSUME NEW m, NEW h, NEW ep, NEW L, NEW n, NEW s,
           Typed(m, ep, L, n, s), Links(m, h, n, s),
           NEW m2, NEW h2, NEW ep2, NEW L2, NEW n2, NEW s2,
           Typed(m2, ep2, L2, n2, s2), Links(m2, h2, n2, s2), NEW side,
           SaysSame(m, n, s, m2, n2, s2, side)
    PROVE  View(m2, h2, side) = View(m, h, side)
<1>1. ASSUME NEW c \in CallIds PROVE View(m2, h2, side)[c] = View(m, h, side)[c]
  <2>1. CASE \E i \in 1 .. n : m[s[i]].call_id = c
    <3>1. PICK i \in 1 .. n : m[s[i]].call_id = c
      BY <2>1
    <3>2. PICK j \in 1 .. n2 : m2[s2[j]].call_id = c /\ m2[s2[j]][side] = m[s[i]][side]
      BY <3>1 DEF SaysSame
    <3>3. View(m, h, side)[c] = m[s[i]][side]
      BY <3>1, ViewOfList
    <3>4. View(m2, h2, side)[c] = m2[s2[j]][side]
      BY <3>2, ViewOfList
    <3>5. QED
      BY <3>2, <3>3, <3>4
  <2>2. CASE ~\E i \in 1 .. n : m[s[i]].call_id = c
    <3>1. View(m, h, side)[c] = NULL
      BY <2>2, ViewOfList
    <3>2. \A j \in 1 .. n2 : m2[s2[j]].call_id = c => m2[s2[j]][side] = NULL
      BY <2>2 DEF SaysSame
    <3>3. View(m2, h2, side)[c] = NULL
      BY <3>2, ViewOfList
    <3>4. QED
      BY <3>1, <3>3
  <2>3. QED
    BY <2>1, <2>2
<1>2. QED
  BY <1>1 DEF View

\* They differ in what they say of call c, of which the second says x.
Changes(m, n, s, m2, n2, s2, side, c, x) ==
    /\ \A i \in 1 .. n : m[s[i]].call_id # c => \E j \in 1 .. n2 :
           m2[s2[j]].call_id = m[s[i]].call_id /\ m2[s2[j]][side] = m[s[i]][side]
    /\ \A j \in 1 .. n2 : m2[s2[j]].call_id # c =>
           \E i \in 1 .. n : m[s[i]].call_id = m2[s2[j]].call_id
    /\ \/ \E j \in 1 .. n2 : m2[s2[j]].call_id = c /\ m2[s2[j]][side] = x
       \/ x = NULL /\ \A j \in 1 .. n2 : m2[s2[j]].call_id # c

\* Two lists that differ in one call are two tables that do.
LEMMA ViewChange ==
    ASSUME NEW m, NEW h, NEW ep, NEW L, NEW n, NEW s,
           Typed(m, ep, L, n, s), Links(m, h, n, s),
           NEW m2, NEW h2, NEW ep2, NEW L2, NEW n2, NEW s2,
           Typed(m2, ep2, L2, n2, s2), Links(m2, h2, n2, s2), NEW side,
           NEW c \in CallIds, NEW x,
           Changes(m, n, s, m2, n2, s2, side, c, x)
    PROVE  View(m2, h2, side) = [View(m, h, side) EXCEPT ![c] = x]
<1>1. View(m2, h2, side)[c] = x
  <2>1. CASE \E j \in 1 .. n2 : m2[s2[j]].call_id = c /\ m2[s2[j]][side] = x
    BY <2>1, ViewOfList
  <2>2. CASE x = NULL /\ \A j \in 1 .. n2 : m2[s2[j]].call_id # c
    BY <2>2, ViewOfList
  <2>3. QED
    BY <2>1, <2>2 DEF Changes
<1>2. ASSUME NEW d \in CallIds, d # c PROVE View(m2, h2, side)[d] = View(m, h, side)[d]
  <2>1. CASE \E i \in 1 .. n : m[s[i]].call_id = d
    <3>1. PICK i \in 1 .. n : m[s[i]].call_id = d
      BY <2>1
    <3>2. PICK j \in 1 .. n2 : m2[s2[j]].call_id = d /\ m2[s2[j]][side] = m[s[i]][side]
      BY <1>2, <3>1 DEF Changes
    <3>3. View(m, h, side)[d] = m[s[i]][side]
      BY <3>1, ViewOfList
    <3>4. View(m2, h2, side)[d] = m2[s2[j]][side]
      BY <3>2, ViewOfList
    <3>5. QED
      BY <3>2, <3>3, <3>4
  <2>2. CASE ~\E i \in 1 .. n : m[s[i]].call_id = d
    <3>1. View(m, h, side)[d] = NULL
      BY <2>2, ViewOfList
    <3>2. \A j \in 1 .. n2 : m2[s2[j]].call_id # d
      BY <1>2, <2>2 DEF Changes
    <3>3. View(m2, h2, side)[d] = NULL
      BY <3>2, ViewOfList
    <3>4. QED
      BY <3>1, <3>3
  <2>3. QED
    BY <2>1, <2>2
<1>3. View(m2, h2, side) = [d \in CallIds |-> View(m2, h2, side)[d]]
  BY ViewOfList
<1>4. View(m, h, side) = [d \in CallIds |-> View(m, h, side)[d]]
  BY ViewOfList
<1>5. QED
  BY <1>1, <1>2, <1>3, <1>4

\* What no cell of the list has is in use nowhere.
LEMMA NotInView ==
    ASSUME NEW m, NEW h, NEW ep, NEW L, NEW n, NEW s,
           Typed(m, ep, L, n, s), Links(m, h, n, s), NEW side, NEW e, e # NULL,
           \A i \in 1 .. n : m[s[i]][side] # e, NEW c \in CallIds
    PROVE  View(m, h, side)[c] # e
<1>1. CASE \E i \in 1 .. n : m[s[i]].call_id = c
  BY <1>1, ViewOfList
<1>2. CASE ~\E i \in 1 .. n : m[s[i]].call_id = c
  BY <1>2, ViewOfList
<1>3. QED
  BY <1>1, <1>2

\* The steps of the table of calls.
LEMMA TableSteps ==
    ASSUME NEW c \in CallIds, NEW e, NEW q, NEW p, NEW q2, NEW p2,
           q = View(mem, head, "request_endpoint"), p = View(mem, head, "response_endpoint"),
           q2 = View(mem', head', "request_endpoint"),
           p2 = View(mem', head', "response_endpoint")
    PROVE  /\ q2 = q /\ p2 = p => UNCHANGED Calls!callVars
           /\ q2 = [q EXCEPT ![c] = NULL] /\ p2 = [p EXCEPT ![c] = NULL] => Calls!Next
           /\ e \in Endpoints /\ (\A d \in CallIds : q[d] # e /\ p[d] # e) =>
                /\ q[c] = NULL /\ q2 = [q EXCEPT ![c] = e] /\ p2 = p => Calls!Next
                /\ p[c] = NULL /\ p2 = [p EXCEPT ![c] = e] /\ q2 = q => Calls!Next
<1>1. /\ [d \in CallIds |-> EndpointOf(d, "request_endpoint")] = q
      /\ [d \in CallIds |-> EndpointOf(d, "response_endpoint")] = p
      /\ [d \in CallIds |-> EndpointOf(d, "request_endpoint")]' = q2
      /\ [d \in CallIds |-> EndpointOf(d, "response_endpoint")]' = p2
  BY ViewOfState, ViewOfNextState
<1>2. q2 = q /\ p2 = p => UNCHANGED Calls!callVars
  BY <1>1 DEF Calls!callVars
<1>3. q2 = [q EXCEPT ![c] = NULL] /\ p2 = [p EXCEPT ![c] = NULL] => Calls!Next
  <2>1. q2 = [q EXCEPT ![c] = NULL] /\ p2 = [p EXCEPT ![c] = NULL] => Calls!Forget(c)
    BY <1>1 DEF Calls!Forget
  <2>2. QED
    BY <2>1 DEF Calls!Next
<1>4. (\A d \in CallIds : q[d] # e /\ p[d] # e) => e \notin Calls!InUse
  BY <1>1 DEF Calls!InUse
<1>5. ASSUME e \in Endpoints, e \notin Calls!InUse, q[c] = NULL, q2 = [q EXCEPT ![c] = e], p2 = p
      PROVE  Calls!Next
  <2>1. Calls!Offer(c, e)
    BY <1>1, <1>5 DEF Calls!Offer
  <2>2. QED
    BY <1>5, <2>1 DEF Calls!Next
<1>6. ASSUME e \in Endpoints, e \notin Calls!InUse, p[c] = NULL, p2 = [p EXCEPT ![c] = e], q2 = q
      PROVE  Calls!Next
  <2>1. Calls!Answer(c, e)
    BY <1>1, <1>6 DEF Calls!Answer
  <2>2. QED
    BY <1>6, <2>1 DEF Calls!Next
<1>7. QED
  BY <1>2, <1>3, <1>4, <1>5, <1>6

\* The next state is typed, too.
LEMMA NextStateTyped ==
    ASSUME IInv', NEW n \in Nat, NEW s \in [1 .. n -> Cells]
    PROVE  Typed(mem', endpoint', local', n, s)
BY DEF IInv, Typed

\* The steps after which every call has the endpoints it had.
LEMMA HiddenStep ==
    ASSUME IInv, IInv', NEW n \in Nat, NEW s \in [1 .. n -> Cells],
           Shape(mem, head, endpoint, local, n, s), ~hazard', NEW w \in Workers,
           \/ \E k \in Cells : Create(w, k)
           \/ PushFirst(w) \/ PushLink(w) \/ UnlinkNext(w) \/ Destroy(w)
    PROVE  UNCHANGED Calls!callVars
<1>1. Typed(mem, endpoint, local, n, s) /\ Links(mem, head, n, s)
  BY StateTyped DEF Shape
<1>2. \A i \in 1 .. n : s[i] \in Cells /\ mem[s[i]] \in Connection /\ s[i] \in ListCells(n, s)
  BY <1>1, ListFacts
<1>3. PICK l, k, c : l = local[w] /\ k = l.conn /\ c = l.job.call_id
  OBVIOUS
<1>4. /\ l \in Local /\ c \in CallIds
      /\ LocalOK(mem, endpoint, n, s, l) /\ PtrsOK(mem, l)
  BY <1>3, WorkerGood, JobFields DEF Shape, Create, PushFirst, PushLink, UnlinkNext, Destroy, At
<1>5. PICK m, h : m = mem' /\ h = head'
  OBVIOUS
\* The cells of the list stay in it; one that is new has no endpoint.
<1>6. ASSUME NEW n2 \in Nat, NEW s2 \in [1 .. n2 -> Cells],
             Shape(m, h, endpoint', local', n2, s2), n <= n2,
             \A i \in 1 .. n : /\ s2[i] = s[i] /\ m[s[i]].call_id = mem[s[i]].call_id
                               /\ \A side \in Sides : m[s[i]][side] = mem[s[i]][side],
             \A i \in 1 .. n2 : i \notin 1 .. n => \A side \in Sides : m[s2[i]][side] = NULL
      PROVE  UNCHANGED Calls!callVars
  <2>1. Typed(m, endpoint', local', n2, s2) /\ Links(m, h, n2, s2)
    BY <1>5, <1>6, NextStateTyped DEF Shape
  <2>2. ASSUME NEW side \in Sides PROVE View(m, h, side) = View(mem, head, side)
    <3>1. \A i \in 1 .. n : \E j \in 1 .. n2 :
              m[s2[j]].call_id = mem[s[i]].call_id /\ m[s2[j]][side] = mem[s[i]][side]
      BY <1>6
    <3>2. \A j \in 1 .. n2 : \/ m[s2[j]][side] = NULL
                             \/ \E i \in 1 .. n : mem[s[i]].call_id = m[s2[j]].call_id
      BY <1>6
    <3>3. SaysSame(mem, n, s, m, n2, s2, side)
      BY <3>1, <3>2 DEF SaysSame
    <3>4. PICK ep, L, ep2, L2 : /\ ep = endpoint /\ L = local
                                /\ ep2 = endpoint' /\ L2 = local'
      OBVIOUS
    <3>5. PICK m0, h0 : m0 = mem /\ h0 = head
      OBVIOUS
    <3>6. /\ Typed(m0, ep, L, n, s) /\ Links(m0, h0, n, s)
          /\ Typed(m, ep2, L2, n2, s2) /\ Links(m, h, n2, s2)
          /\ SaysSame(m0, n, s, m, n2, s2, side)
      BY <1>1, <2>1, <3>3, <3>4, <3>5
    <3>7. View(m, h, side) = View(m0, h0, side)
      BY <3>6, ViewSame
    <3>8. QED
      BY <3>5, <3>7
  <2>3. QED
    BY <1>4, <1>5, <2>2, TableSteps DEF Sides
<1>7. ASSUME NEW j \in Cells, Create(w, j) PROVE UNCHANGED Calls!callVars
  <2>1. Shape(m, h, endpoint', local', n, s)
    BY <1>5, <1>7, CreateShape
  <2>2. \A i \in 1 .. n : m[s[i]] = mem[s[i]]
    BY <1>1, <1>2, <1>5, <1>7 DEF Create, Typed, Links
  <2>3. QED
    BY <1>6, <2>1, <2>2
<1>8. CASE PushFirst(w)
  <2>1. PICK s2 : s2 = [i \in 1 .. 1 |-> local[w].conn]
    OBVIOUS
  <2>2. s2 \in [1 .. 1 -> Cells] /\ n = 0 /\ Shape(m, h, endpoint', local', 1, s2)
    BY <1>5, <1>8, <2>1, PushFirstShape
  <2>3. mem[k] = NewCell(c) /\ m = mem
    BY <1>3, <1>4, <1>5, <1>8 DEF LocalOK, Pushing, PushFirst, At
  <2>4. \A i \in 1 .. 1 : \A side \in Sides : m[s2[i]][side] = NULL
    BY <1>3, <2>1, <2>3 DEF NewCell, Sides
  <2>5. 1 \in Nat /\ 1 .. n = {} /\ n <= 1
    BY <2>2
  <2>6. QED
    BY <1>6, <2>2, <2>4, <2>5
<1>9. CASE PushLink(w)
  <2>1. PICK s2 : s2 = [i \in 1 .. n + 1 |-> IF i = n + 1 THEN local[w].conn ELSE s[i]]
    OBVIOUS
  <2>2. /\ s2 \in [1 .. n + 1 -> Cells]
        /\ Shape(m, h, endpoint', local', n + 1, s2)
    BY <1>5, <1>9, <2>1, PushLinkShape
  <2>3. /\ mem[k] = NewCell(c) /\ k \in Cells /\ k \notin ListCells(n, s)
        /\ mem[k] \in Connection
    <3>1. mem[k] = NewCell(c) /\ k \notin ListCells(n, s) /\ k \in Cells /\ mem[k] # NULL
      BY <1>3, <1>4, <1>9 DEF LocalOK, Pushing, PushLink, At, PtrsOK, Ptrs
    <3>2. QED
      BY <1>1, <3>1 DEF Typed
  <2>4. PICK q : q = l.cur
    OBVIOUS
  <2>5. q \in ListCells(n, s) /\ q # k /\ q \in Cells /\ mem[q] \in Connection
    BY <1>1, <1>2, <1>3, <1>4, <1>9, <2>3, <2>4, ListFacts DEF LocalOK, PushLink, At
  <2>6. m = [mem EXCEPT ![k].prev = q, ![q].next = k]
    BY <1>3, <1>5, <1>9, <2>4 DEF PushLink
  <2>7. m[k] = [mem[k] EXCEPT !.prev = q] /\ m[q] = [mem[q] EXCEPT !.next = k]
        /\ \A j \in Cells : j # k /\ j # q => m[j] = mem[j]
    BY <1>1, <2>3, <2>5, <2>6 DEF Typed
  <2>8. m[q].call_id = mem[q].call_id /\ \A side \in Sides : m[q][side] = mem[q][side]
    BY <2>5, <2>7 DEF Connection, Sides
  <2>9. \A side \in Sides : m[k][side] = NULL
    BY <2>3, <2>7 DEF NewCell, Connection, Sides
  <2>10. \A i \in 1 .. n : /\ s2[i] = s[i] /\ m[s[i]].call_id = mem[s[i]].call_id
                           /\ \A side \in Sides : m[s[i]][side] = mem[s[i]][side]
    <3>1. ASSUME NEW i \in 1 .. n
          PROVE  /\ s2[i] = s[i] /\ m[s[i]].call_id = mem[s[i]].call_id
                 /\ \A side \in Sides : m[s[i]][side] = mem[s[i]][side]
      <4>1. s2[i] = s[i]
        BY <2>1
      <4>2. s[i] \in Cells /\ s[i] # k
        BY <1>2, <2>3
      <4>3. CASE s[i] = q
        BY <2>8, <4>1, <4>3
      <4>4. CASE s[i] # q
        BY <2>7, <4>1, <4>2, <4>4
      <4>5. QED
        BY <4>3, <4>4
    <3>2. QED
      BY <3>1
  <2>11. \A i \in 1 .. n + 1 : i \notin 1 .. n => s2[i] = k
    BY <1>3, <2>1
  <2>12. n + 1 \in Nat /\ n <= n + 1
    OBVIOUS
  <2>13. QED
    BY <1>6, <2>2, <2>9, <2>10, <2>11, <2>12
<1>10. CASE UnlinkNext(w)
  <2>1. Shape(m, h, endpoint', local', n, s)
    BY <1>5, <1>10, UnlinkNextShape
  <2>2. PICK q : q = l.next
    OBVIOUS
  <2>3. m = [mem EXCEPT ![q].prev = l.prev] /\ q \in Cells /\ mem[q] # NULL
    BY <1>3, <1>5, <1>10, <2>2 DEF UnlinkNext, Allocated
  <2>4. m[q] = [mem[q] EXCEPT !.prev = l.prev] /\ \A j \in Cells : j # q => m[j] = mem[j]
    BY <1>1, <2>3 DEF Typed
  <2>5. m[q].call_id = mem[q].call_id /\ \A side \in Sides : m[q][side] = mem[q][side]
    BY <1>1, <2>3, <2>4 DEF Typed, Connection, Sides
  <2>6. \A i \in 1 .. n : /\ m[s[i]].call_id = mem[s[i]].call_id
                          /\ \A side \in Sides : m[s[i]][side] = mem[s[i]][side]
    BY <1>2, <2>4, <2>5
  <2>7. QED
    BY <1>6, <2>1, <2>6
<1>11. CASE Destroy(w)
  <2>1. Shape(m, h, endpoint', local', n, s)
    BY <1>5, <1>11, DestroyShape
  <2>2. k \notin ListCells(n, s)
    BY <1>3, <1>4, <1>11 DEF LocalOK, Removing, Destroy, At
  <2>3. \A i \in 1 .. n : m[s[i]] = mem[s[i]]
    <3>1. m = [mem EXCEPT ![k] = NULL]
      BY <1>3, <1>5, <1>11 DEF Destroy
    <3>2. QED
      BY <1>1, <1>2, <2>2, <3>1 DEF Typed
  <2>4. QED
    BY <1>6, <2>1, <2>3
<1>12. QED
  BY <1>7, <1>8, <1>9, <1>10, <1>11

\* Taking a cell out of the list forgets its call.
LEMMA ForgetStep ==
    ASSUME IInv, IInv', NEW n \in Nat, NEW s \in [1 .. n -> Cells],
           Shape(mem, head, endpoint, local, n, s), ~hazard', NEW w \in Workers, Unlink(w)
    PROVE  Calls!Next
<1>1. Typed(mem, endpoint, local, n, s) /\ Links(mem, head, n, s)
  BY StateTyped DEF Shape
<1>2. /\ \A j \in 1 .. n : s[j] \in Cells /\ mem[s[j]] \in Connection
      /\ \A j, x \in 1 .. n : s[j] = s[x] => j = x
  BY <1>1, ListFacts
<1>3. PICK i \in 1 .. n : local[w].conn = s[i]
  BY DEF Unlink, At, Shape, UnlinkOK
<1>4. PICK s2 : s2 = Cut(n, s, i)
  OBVIOUS
<1>5. PICK m, h, ep, L, ep2, L2 : /\ m = mem' /\ h = head' /\ ep = endpoint /\ L = local
                                  /\ ep2 = endpoint' /\ L2 = local'
  OBVIOUS
<1>6. PICK m0, h0 : m0 = mem /\ h0 = head
  OBVIOUS
<1>7. IsCut(n, s, i, s2) /\ n - 1 \in Nat /\ s2 \in [1 .. n - 1 -> Cells]
  <2>1. IsCut(n, s, i, s2)
    BY <1>4, CutFacts
  <2>2. QED
    BY <2>1 DEF IsCut
<1>8. Typed(m, ep2, L2, n - 1, s2) /\ Links(m, h, n - 1, s2)
  <2>1. Shape(m, h, ep2, L2, n - 1, s2)
    BY <1>3, <1>4, <1>5, UnlinkShape
  <2>2. QED
    BY <1>5, <1>7, <2>1, NextStateTyped DEF Shape
<1>9. ASSUME NEW j \in 1 .. n
      PROVE  m[s[j]].call_id = mem[s[j]].call_id
             /\ \A side \in Sides : m[s[j]][side] = mem[s[j]][side]
  <2>1. PICK p, q : p = local[w].prev /\ q = local[w].next
    OBVIOUS
  <2>2. m = IF p = NULL THEN mem ELSE [mem EXCEPT ![p].next = q]
    BY <1>5, <2>1, Zenon DEF Unlink
  <2>3. CASE p = NULL \/ s[j] # p
    BY <1>1, <1>2, <2>2, <2>3 DEF Typed
  <2>4. CASE p # NULL /\ s[j] = p
    <3>1. m[s[j]] = [mem[s[j]] EXCEPT !.next = q]
      BY <1>1, <1>2, <2>2, <2>4 DEF Typed
    <3>2. QED
      BY <1>2, <3>1 DEF Connection, Sides
  <2>5. QED
    BY <2>3, <2>4
<1>10. PICK c : c = mem[s[i]].call_id
  OBVIOUS
<1>11. c \in CallIds
  BY <1>2, <1>10 DEF Connection
<1>12. \A j \in 1 .. n : j # i => mem[s[j]].call_id # c
  BY <1>1, <1>10 DEF Links
<1>13. \A a, j : Was(n, i, a, j) => /\ a \in 1 .. n - 1 /\ j \in 1 .. n /\ j # i /\ s2[a] = s[j]
  BY <1>7 DEF Was, IsCut
<1>14. \A a \in 1 .. n - 1 : m[s2[a]].call_id # c
  <2>1. ASSUME NEW a \in 1 .. n - 1 PROVE m[s2[a]].call_id # c
    <3>1. PICK j \in 1 .. n : Was(n, i, a, j)
      BY <1>7 DEF IsCut
    <3>2. QED
      BY <1>9, <1>12, <1>13, <3>1
  <2>2. QED
    BY <2>1
<1>15. ASSUME NEW side \in Sides
       PROVE  View(m, h, side) = [View(m0, h0, side) EXCEPT ![c] = NULL]
  <2>1. \A j \in 1 .. n : m0[s[j]].call_id # c => \E a \in 1 .. n - 1 :
            m[s2[a]].call_id = m0[s[j]].call_id /\ m[s2[a]][side] = m0[s[j]][side]
    <3>1. ASSUME NEW j \in 1 .. n, m0[s[j]].call_id # c
          PROVE  \E a \in 1 .. n - 1 : /\ m[s2[a]].call_id = m0[s[j]].call_id
                                       /\ m[s2[a]][side] = m0[s[j]][side]
      <4>1. j # i
        BY <1>6, <1>10, <3>1
      <4>2. PICK a \in 1 .. n - 1 : Was(n, i, a, j)
        BY <1>7, <4>1 DEF IsCut
      <4>3. QED
        BY <1>6, <1>9, <1>13, <4>2
    <3>2. QED
      BY <3>1
  <2>2. \A a \in 1 .. n - 1 : m[s2[a]].call_id # c =>
            \E j \in 1 .. n : m0[s[j]].call_id = m[s2[a]].call_id
    <3>1. ASSUME NEW a \in 1 .. n - 1
          PROVE  \E j \in 1 .. n : m0[s[j]].call_id = m[s2[a]].call_id
      <4>1. PICK j \in 1 .. n : Was(n, i, a, j)
        BY <1>7 DEF IsCut
      <4>2. QED
        BY <1>6, <1>9, <1>13, <4>1
    <3>2. QED
      BY <3>1
  <2>3. Changes(m0, n, s, m, n - 1, s2, side, c, NULL)
    BY <1>14, <2>1, <2>2 DEF Changes
  <2>4. Typed(m0, ep, L, n, s) /\ Links(m0, h0, n, s)
    BY <1>1, <1>5, <1>6
  <2>5. QED
    BY <1>8, <1>11, <2>3, <2>4, ViewChange
<1>16. QED
  BY <1>5, <1>6, <1>11, <1>15, TableSteps DEF Sides

\* Setting an endpoint adds it to its call.
LEMMA AddStep ==
    ASSUME IInv, IInv', NEW n \in Nat, NEW s \in [1 .. n -> Cells],
           Shape(mem, head, endpoint, local, n, s), ~hazard', NEW w \in Workers, SetEndpoint(w)
    PROVE  Calls!Next
<1>1. Typed(mem, endpoint, local, n, s) /\ Links(mem, head, n, s)
  BY StateTyped DEF Shape
<1>2. /\ \A j \in 1 .. n : s[j] \in Cells /\ mem[s[j]] # NULL /\ mem[s[j]] \in Connection
      /\ \A j, x \in 1 .. n : s[j] = s[x] => j = x
  BY <1>1, ListFacts DEF Links
<1>3. PICK m, h, ep, L, ep2, L2 : /\ m = mem' /\ h = head' /\ ep = endpoint /\ L = local
                                  /\ ep2 = endpoint' /\ L2 = local'
  OBVIOUS
<1>4. PICK m0, h0 : m0 = mem /\ h0 = head
  OBVIOUS
<1>5. Typed(m, ep2, L2, n, s) /\ Links(m, h, n, s)
  <2>1. Shape(m, h, ep2, L2, n, s)
    BY <1>3, SetEndpointShape
  <2>2. QED
    BY <1>3, <2>1, NextStateTyped DEF Shape
<1>6. PICK l, k, side, e : /\ l = local[w] /\ k = l.conn /\ side = l.job.side
                           /\ e = l.job.endpoint
  OBVIOUS
<1>7. l \in Local /\ l.pc = "set" /\ side \in Sides /\ LocalOK(mem, endpoint, n, s, l)
  BY <1>6, WorkerGood, JobFields DEF Shape, SetEndpoint, At
<1>8. /\ k \in ListCells(n, s) /\ mem[k][side] = NULL /\ Brings(l)
      /\ e \in Endpoints /\ e # NULL
  BY <1>6, <1>7, ListAssumption DEF LocalOK, Brings
<1>9. PICK i \in 1 .. n : k = s[i]
  BY <1>8 DEF ListCells
<1>10. \A j \in 1 .. n : e \notin EndsOf(mem[s[j]])
  BY <1>2, <1>6, <1>8, BringsAlone DEF Shape
<1>11. \A j \in 1 .. n : \A a \in Sides : mem[s[j]][a] # e
  BY <1>8, <1>10 DEF EndsOf, Sides
<1>12. PICK c : c = mem[k].call_id
  OBVIOUS
<1>13. c \in CallIds /\ \A j \in 1 .. n : j # i => mem[s[j]].call_id # c
  BY <1>1, <1>2, <1>9, <1>12 DEF Links, Connection
<1>14. /\ m[k].call_id = c /\ m[k][side] = e
       /\ \A a \in Sides : a # side => m[k][a] = mem[k][a]
       /\ \A j \in 1 .. n : j # i => m[s[j]] = mem[s[j]]
  <2>1. m = [mem EXCEPT ![k][side] = e]
    BY <1>3, <1>6 DEF SetEndpoint
  <2>2. m[k] = [mem[k] EXCEPT ![side] = e] /\ \A j \in 1 .. n : j # i => m[s[j]] = mem[s[j]]
    BY <1>1, <1>2, <1>9, <2>1 DEF Typed
  <2>3. mem[k] \in Connection
    BY <1>2, <1>9
  <2>4. CASE side = "request_endpoint"
    BY <1>12, <2>2, <2>3, <2>4 DEF Connection, Sides
  <2>5. CASE side = "response_endpoint"
    BY <1>12, <2>2, <2>3, <2>5 DEF Connection, Sides
  <2>6. QED
    BY <1>7, <2>4, <2>5 DEF Sides
<1>15. Typed(m0, ep, L, n, s) /\ Links(m0, h0, n, s)
  BY <1>1, <1>3, <1>4
<1>16. View(m, h, side) = [View(m0, h0, side) EXCEPT ![c] = e]
  <2>1. Changes(m0, n, s, m, n, s, side, c, e)
    BY <1>4, <1>9, <1>12, <1>14 DEF Changes
  <2>2. ASSUME NEW n2, NEW s2, Typed(m, ep2, L2, n2, s2), Links(m, h, n2, s2),
               Changes(m0, n, s, m, n2, s2, side, c, e)
        PROVE  View(m, h, side) = [View(m0, h0, side) EXCEPT ![c] = e]
    BY <1>13, <1>15, <2>2, ViewChange
  <2>3. QED
    BY <1>5, <2>1, <2>2
<1>17. ASSUME NEW a \in Sides, a # side PROVE View(m, h, a) = View(m0, h0, a)
  <2>1. \A j \in 1 .. n : m[s[j]].call_id = m0[s[j]].call_id /\ m[s[j]][a] = m0[s[j]][a]
    BY <1>4, <1>9, <1>12, <1>14, <1>17
  <2>2. SaysSame(m0, n, s, m, n, s, a)
    BY <2>1 DEF SaysSame
  <2>3. QED
    BY <1>5, <1>15, <2>2, ViewSame
<1>18. View(m0, h0, side)[c] = NULL
  BY <1>4, <1>8, <1>9, <1>12, <1>15, ViewOfList
<1>19. ASSUME NEW a \in Sides, NEW d \in CallIds PROVE View(m0, h0, a)[d] # e
  <2>1. \A j \in 1 .. n : m0[s[j]][a] # e
    BY <1>4, <1>11
  <2>2. QED
    BY <1>8, <1>15, <2>1, NotInView
<1>20. CASE side = "request_endpoint"
  BY <1>3, <1>4, <1>8, <1>13, <1>16, <1>17, <1>18, <1>19, <1>20, TableSteps DEF Sides
<1>21. CASE side = "response_endpoint"
  BY <1>3, <1>4, <1>8, <1>13, <1>16, <1>17, <1>18, <1>19, <1>21, TableSteps DEF Sides
<1>22. QED
  BY <1>7, <1>20, <1>21 DEF Sides

\* Every other step leaves the head and the cells alone.
LEMMA StillStep ==
    ASSUME NEW w \in Workers,
           \/ FindHead(w) \/ Find(w) \/ CreateFails(w) \/ Push(w) \/ PushHead(w)
           \/ PushWalk(w) \/ CheckEndpoint(w)
           \/ AttachEndpoint(w) \/ UnlinkRead(w) \/ MatchHead(w) \/ Match(w) \/ Send(w)
           \/ Crash(w)
           \/ \E c \in CallIds :
                \/ \E side \in Sides, e \in Endpoints : ReceiveInitial(w, c, side, e)
                \/ ReceiveFinal(w, c)
                \/ \E side \in Sides : ReceiveMedia(w, c, side)
    PROVE  UNCHANGED <<head, mem>>
<1>1. ASSUME NEW job, NEW pc, Receive(w, job, pc) PROVE UNCHANGED <<head, mem>>
  BY <1>1 DEF Receive
<1>2. ASSUME NEW c \in CallIds, \/ \E side \in Sides, e \in Endpoints : ReceiveInitial(w, c, side, e)
                                \/ ReceiveFinal(w, c)
                                \/ \E side \in Sides : ReceiveMedia(w, c, side)
      PROVE  UNCHANGED <<head, mem>>
  BY <1>1, <1>2, Zenon DEF ReceiveInitial, ReceiveFinal, ReceiveMedia
<1>3. CASE \/ FindHead(w) \/ Find(w) \/ CreateFails(w) \/ Push(w) \/ PushHead(w)
           \/ PushWalk(w) \/ CheckEndpoint(w)
           \/ AttachEndpoint(w) \/ UnlinkRead(w) \/ MatchHead(w) \/ Send(w) \/ Crash(w)
  BY <1>3 DEF FindHead, Find, CreateFails, Push, PushHead, PushWalk, CheckEndpoint,
              AttachEndpoint, UnlinkRead, MatchHead, Send, Crash, shared
<1>4. CASE Match(w)
  BY <1>4, Zenon DEF Match, shared
<1>5. QED
  BY <1>2, <1>3, <1>4, Zenon

\* A step without a hazard is one of the table of calls or leaves it as it is.
LEMMA CallsStep ==
    ListInv /\ ListInv' /\ [Next]_vars
      => [~hazard' => UNCHANGED Calls!callVars \/ Calls!Next]_<<head, mem>>
<1> SUFFICES ASSUME ListInv, ListInv', Next, ~hazard', ~UNCHANGED <<head, mem>>
             PROVE  UNCHANGED Calls!callVars \/ Calls!Next
  BY DEF vars
<1>1. IInv /\ IInv' /\ ~hazard
  BY FaultStep DEF ListInv
<1>2. PICK n \in Nat : \E s \in [1 .. n -> Cells] : Shape(mem, head, endpoint, local, n, s)
  BY <1>1 DEF ListInv
<1>3. PICK s \in [1 .. n -> Cells] : Shape(mem, head, endpoint, local, n, s)
  BY <1>2
<1>4. PICK w \in Workers :
        \/ Step(w)
        \/ \E c \in CallIds :
             \/ \E side \in Sides, e \in Endpoints : ReceiveInitial(w, c, side, e)
             \/ ReceiveFinal(w, c)
             \/ \E side \in Sides : ReceiveMedia(w, c, side)
  BY DEF Next
<1>5. \/ \E k \in Cells : Create(w, k)
      \/ PushFirst(w) \/ PushLink(w) \/ UnlinkNext(w) \/ Destroy(w)
      \/ Unlink(w) \/ SetEndpoint(w)
  BY <1>4, StillStep, Zenon DEF Step
<1>6. CASE \/ \E k \in Cells : Create(w, k)
           \/ PushFirst(w) \/ PushLink(w) \/ UnlinkNext(w) \/ Destroy(w)
  BY <1>1, <1>3, <1>6, HiddenStep
<1>7. CASE Unlink(w)
  BY <1>1, <1>3, <1>7, ForgetStep
<1>8. CASE SetEndpoint(w)
  BY <1>1, <1>3, <1>8, AddStep
<1>9. QED
  BY <1>5, <1>6, <1>7, <1>8

LEMMA CallsInit == Init => Calls!Init
<1> SUFFICES ASSUME Init PROVE Calls!Init
  OBVIOUS
<1>1. Allocated = {}
  BY DEF Init, Allocated
<1>2. \A c \in CallIds : EndpointOf(c, "request_endpoint") = NULL
                         /\ EndpointOf(c, "response_endpoint") = NULL
  BY <1>1 DEF EndpointOf
<1>3. QED
  BY <1>2 DEF Calls!Init

\* Until a hazard the handlers of any number of workers, interleaved at every access
\* to the list, implement the table of calls.
THEOREM ListImplementsCalls == Spec => ImplementsCalls
BY CallsInit, CallsStep, ListInvariant, PTL DEF Spec, ImplementsCalls

=============================================================================
