---------------------------- MODULE SspConnList -----------------------------
(***************************************************************************)
(* The connections list as Kamailio's worker processes see it: doubly      *)
(* linked connection_t cells in shared memory, read and written by several *)
(* handlers at a time.  A connection has a lock, but it is only ever held  *)
(* around one assignment and no lock protects the list, so a lock, the     *)
(* assignment and the unlock are one step here and every other access to a *)
(* shared cell or to the head is a step of its own.  (Reading two fields   *)
(* of one cell, and writing to a cell or endpoint no other worker can      *)
(* reach yet, is merged with the step next to it.  A search tests the head *)
(* and reads it again, to the same effect as reading it once.)             *)
(*                                                                         *)
(* An endpoint stands for the addresses of one side of one call; the media *)
(* of that side matches the connections of that call.                      *)
(***************************************************************************)
EXTENDS Naturals, FiniteSets

CONSTANTS
    Workers,        \* the processes Kamailio forks (children=)
    CallIds,
    Cells,          \* addresses shm_malloc can return for a connection_t
    Endpoints,      \* addresses shm_malloc can return for an endpoint_t
    NULL,
    Wild,           \* what uninitialised memory may hold instead of a pointer
    MaxJobs         \* bound: datagrams received in a behaviour

Sides == {"request_endpoint", "response_endpoint"}

Connection == [call_id : CallIds, prev : Cells \cup {NULL}, next : Cells \cup {NULL},
               request_endpoint : Endpoints \cup {NULL},
               response_endpoint : Endpoints \cup {NULL}]

ASSUME ListAssumption ==
    /\ NULL \notin Cells \cup Endpoints \cup {Wild} \cup Connection
    /\ Wild \notin Cells
    /\ MaxJobs \in Nat

Job == [op : {"initial", "final", "media"}, call_id : CallIds, side : Sides,
        endpoint : Endpoints \cup {NULL}]

PCs == {"idle", "find_head", "find", "create", "push", "push_first", "push_head",
        "push_walk", "push_link", "check", "set", "attach", "unlink_read", "unlink",
        "unlink_next", "destroy", "match_head", "match", "send"}

\* A worker's variables: current/tmp, connection, prev, next and dst_endpoint.
Local == [pc : PCs, job : Job \cup {NULL}, cur : Cells \cup {NULL},
          conn : Cells \cup {NULL}, prev : Cells \cup {NULL},
          next : Cells \cup {NULL}, dst : Endpoints \cup {NULL}]

VARIABLES
    head,           \* connections_list->head
    mem,            \* the connection_t at an address; NULL: not allocated
    endpoint,       \* "free", "parsed" or "attached" (it has its socket)
    local,          \* every worker's program counter and variables
    jobs,           \* number of datagrams received so far
    fault,          \* a worker used memory that is not allocated
    hazard          \* history: two workers have got in each other's way

vars == <<head, mem, endpoint, local, jobs, fault, hazard>>
shared == <<head, mem, endpoint>>

Idle == [pc |-> "idle", job |-> NULL, cur |-> NULL, conn |-> NULL, prev |-> NULL,
         next |-> NULL, dst |-> NULL]

\* mod_init allocates the list and does not set its head.
Init == /\ head \in {NULL, Wild}
        /\ mem = [k \in Cells |-> NULL]
        /\ endpoint = [e \in Endpoints |-> "free"]
        /\ local = [w \in Workers |-> Idle]
        /\ jobs = 0
        /\ fault = FALSE
        /\ hazard = (head = Wild)

At(w, pc) == ~fault /\ local[w].pc = pc
Become(w, l) == local' = [local EXCEPT ![w] = l]
Allocated == {k \in Cells : mem[k] # NULL}
Others(w) == Workers \ {w}

Holds(v, k) == k \in {local[v].cur, local[v].conn, local[v].prev, local[v].next}

-----------------------------------------------------------------------------
(* What workers do to each other.  These conditions only feed hazard. *)

\* v has read the links of k and is going to take k out of the list.
Unlinks(v, k) ==
    local[v].conn = k /\ local[v].pc \in {"unlink", "unlink_next", "destroy"}

\* v has not found call c and is going to push a connection for it.
Pushes(v, c) ==
    /\ local[v].pc \in {"create", "push", "push_first", "push_head", "push_walk",
                        "push_link"}
    /\ local[v].job.call_id = c

\* Two workers push at one place, push one call, or push behind a cell that is
\* being unlinked.
PushHazard(w) ==
    \E v \in Others(w) :
        \/ Pushes(v, local[w].job.call_id)
        \/ local[v].pc = local[w].pc /\ local[v].cur = local[w].cur
        \/ local[w].cur # NULL /\ Unlinks(v, local[w].cur)

\* A worker takes out, or frees, a cell another worker refers to, or links
\* around a neighbour that is itself being unlinked.
UnlinkHazard(w) ==
    \E v \in Others(w) :
        \/ Holds(v, local[w].conn)
        \/ \E k \in {local[w].prev, local[w].next} \ {NULL} : Unlinks(v, k)

\* A worker empties the list after another one has seen that there is one.
EmptyHazard(w) ==
    /\ local[w].prev = NULL /\ local[w].next = NULL
    /\ \E v \in Others(w) : local[v].pc = "push_head"

\* Two workers give one connection the same endpoint.
SetHazard(w) ==
    \E v \in Others(w) :
        /\ local[v].pc = "set" /\ local[v].conn = local[w].conn
        /\ local[v].job.side = local[w].job.side

-----------------------------------------------------------------------------
(* Receiving a datagram *)

Receive(w, job, pc) ==
    /\ At(w, "idle")
    /\ jobs < MaxJobs
    /\ jobs' = jobs + 1
    /\ Become(w, [Idle EXCEPT !.pc = pc, !.job = job])
    /\ UNCHANGED <<head, mem, fault, hazard>>

\* An INVITE or its 200 with SDP: parse_endpoint comes first.
ReceiveInitial(w, c, side, e) ==
    /\ endpoint[e] = "free"
    /\ endpoint' = [endpoint EXCEPT ![e] = "parsed"]
    /\ Receive(w, [op |-> "initial", call_id |-> c, side |-> side, endpoint |-> e],
               "find_head")

\* CANCEL, the failure of an INVITE, or the 200 of a BYE.
ReceiveFinal(w, c) ==
    /\ Receive(w, [op |-> "final", call_id |-> c, side |-> "request_endpoint",
                   endpoint |-> NULL], "find_head")
    /\ UNCHANGED endpoint

\* RTP or RTCP from one side of call c.
ReceiveMedia(w, c, side) ==
    /\ Receive(w, [op |-> "media", call_id |-> c, side |-> side, endpoint |-> NULL],
               "match_head")
    /\ UNCHANGED endpoint

-----------------------------------------------------------------------------
(* find_connection_by_call_id *)

NotFound(l) == IF l.job.op = "initial" THEN [l EXCEPT !.pc = "create", !.cur = NULL]
                                       ELSE Idle

Found(l, k) == [l EXCEPT !.pc = IF l.job.op = "initial" THEN "check" ELSE "unlink_read",
                         !.conn = k, !.cur = NULL]

FindHead(w) ==
    /\ At(w, "find_head") /\ head # Wild
    /\ Become(w, IF head = NULL THEN NotFound(local[w])
                 ELSE [local[w] EXCEPT !.pc = "find", !.cur = head])
    /\ UNCHANGED <<shared, jobs, fault, hazard>>

\* Mutant of Find: the loop does not go to the next connection.
FindStays(w) ==
    /\ At(w, "find") /\ local[w].cur \in Allocated
    /\ LET k == local[w].cur
       IN  Become(w, CASE mem[k].call_id = local[w].job.call_id -> Found(local[w], k)
                       [] /\ mem[k].call_id # local[w].job.call_id
                          /\ mem[k].next = NULL -> NotFound(local[w])
                       [] OTHER -> local[w])
    /\ UNCHANGED <<shared, jobs, fault, hazard>>

Find(w) ==
    /\ At(w, "find") /\ local[w].cur \in Allocated
    /\ LET k == local[w].cur
       IN  Become(w, CASE mem[k].call_id = local[w].job.call_id -> Found(local[w], k)
                       [] /\ mem[k].call_id # local[w].job.call_id
                          /\ mem[k].next = NULL -> NotFound(local[w])
                       [] OTHER -> [local[w] EXCEPT !.cur = mem[k].next])
    /\ UNCHANGED <<shared, jobs, fault, hazard>>

-----------------------------------------------------------------------------
(* create_connection and push_connection *)

\* Mutant of Create: next is left as shm_malloc returned it.
CreateUnset(w, k) ==
    /\ At(w, "create") /\ mem[k] = NULL
    /\ mem' = [mem EXCEPT ![k] =
                 [call_id |-> local[w].job.call_id, prev |-> NULL, next |-> Wild,
                  request_endpoint |-> NULL, response_endpoint |-> NULL]]
    /\ Become(w, [local[w] EXCEPT !.conn = k, !.pc = "push"])
    /\ UNCHANGED <<head, endpoint, jobs, fault, hazard>>

Create(w, k) ==
    /\ At(w, "create") /\ mem[k] = NULL
    /\ mem' = [mem EXCEPT ![k] =
                 [call_id |-> local[w].job.call_id, prev |-> NULL, next |-> NULL,
                  request_endpoint |-> NULL, response_endpoint |-> NULL]]
    /\ Become(w, [local[w] EXCEPT !.conn = k, !.pc = "push"])
    /\ UNCHANGED <<head, endpoint, jobs, fault, hazard>>

\* No memory (other parts of Kamailio use it too): the handler ends and the
\* endpoint it parsed is lost.
CreateFails(w) ==
    /\ At(w, "create")
    /\ Become(w, Idle)
    /\ UNCHANGED <<shared, jobs, fault, hazard>>

\* push_connection: is there a list?
Push(w) ==
    /\ At(w, "push")
    /\ Become(w, [local[w] EXCEPT !.pc = IF head = NULL THEN "push_first"
                                                        ELSE "push_head"])
    /\ UNCHANGED <<shared, jobs, fault, hazard>>

PushFirst(w) ==
    /\ At(w, "push_first")
    /\ head' = local[w].conn
    /\ Become(w, [local[w] EXCEPT !.pc = "check"])
    /\ hazard' = (hazard \/ PushHazard(w))
    /\ UNCHANGED <<mem, endpoint, jobs, fault>>

\* Then the head is read again, and current->next without a test for NULL.
PushHead(w) ==
    /\ At(w, "push_head") /\ head \in Cells
    /\ Become(w, [local[w] EXCEPT !.pc = "push_walk", !.cur = head])
    /\ UNCHANGED <<shared, jobs, fault, hazard>>

\* Mutant of PushWalk: the walk to the end of the list is missing.
PushWalkNot(w) ==
    /\ At(w, "push_walk") /\ local[w].cur \in Allocated
    /\ Become(w, [local[w] EXCEPT !.pc = "push_link"])
    /\ UNCHANGED <<shared, jobs, fault, hazard>>

PushWalk(w) ==
    /\ At(w, "push_walk") /\ local[w].cur \in Allocated
    /\ LET next == mem[local[w].cur].next
       IN  Become(w, IF next = NULL THEN [local[w] EXCEPT !.pc = "push_link"]
                                    ELSE [local[w] EXCEPT !.cur = next])
    /\ UNCHANGED <<shared, jobs, fault, hazard>>

\* tmp->prev is set first, while the new cell is still private.
PushLink(w) ==
    /\ At(w, "push_link") /\ {local[w].cur, local[w].conn} \subseteq Allocated
    /\ mem' = [mem EXCEPT ![local[w].conn].prev = local[w].cur,
                          ![local[w].cur].next = local[w].conn]
    /\ Become(w, [local[w] EXCEPT !.pc = "check", !.cur = NULL])
    /\ hazard' = (hazard \/ PushHazard(w))
    /\ UNCHANGED <<head, endpoint, jobs, fault>>

-----------------------------------------------------------------------------
(* The rest of msg_received for a message that brings an endpoint *)

\* Mutant of CheckEndpoint: the slot is not tested for NULL.
CheckEndpointNot(w) ==
    /\ At(w, "check") /\ local[w].conn \in Allocated
    /\ Become(w, [local[w] EXCEPT !.pc = "set"])
    /\ UNCHANGED <<shared, jobs, fault, hazard>>

CheckEndpoint(w) ==
    /\ At(w, "check") /\ local[w].conn \in Allocated
    /\ Become(w, IF mem[local[w].conn][local[w].job.side] = NULL
                 THEN [local[w] EXCEPT !.pc = "set"] ELSE Idle)
    /\ UNCHANGED <<shared, jobs, fault, hazard>>

SetEndpoint(w) ==
    /\ At(w, "set") /\ local[w].conn \in Allocated
    /\ mem' = [mem EXCEPT ![local[w].conn][local[w].job.side] = local[w].job.endpoint]
    /\ Become(w, [local[w] EXCEPT !.pc = "attach"])
    /\ hazard' = (hazard \/ SetHazard(w))
    /\ UNCHANGED <<head, endpoint, jobs, fault>>

\* endpoint->call_id = connection->call_id and endpoint->socket follow.
AttachEndpoint(w) ==
    /\ At(w, "attach") /\ local[w].conn \in Allocated
    /\ endpoint[local[w].job.endpoint] # "free"
    /\ endpoint' = [endpoint EXCEPT ![local[w].job.endpoint] = "attached"]
    /\ Become(w, Idle)
    /\ UNCHANGED <<head, mem, jobs, fault, hazard>>

-----------------------------------------------------------------------------
(* remove_connection *)

UnlinkRead(w) ==
    /\ At(w, "unlink_read") /\ local[w].conn \in Allocated
    /\ LET c == mem[local[w].conn]
       IN  Become(w, [local[w] EXCEPT !.pc = "unlink", !.prev = c.prev, !.next = c.next])
    /\ UNCHANGED <<shared, jobs, fault, hazard>>

\* Mutant of Unlink: the head of the list is not updated.
UnlinkNotHead(w) ==
    /\ At(w, "unlink")
    /\ LET l == local[w]
       IN  /\ l.prev # NULL => l.prev \in Allocated
           /\ mem' = IF l.prev = NULL THEN mem ELSE [mem EXCEPT ![l.prev].next = l.next]
           /\ Become(w, [l EXCEPT !.pc = IF l.next = NULL THEN "destroy"
                                                          ELSE "unlink_next"])
    /\ hazard' = (hazard \/ UnlinkHazard(w))
    /\ UNCHANGED <<head, endpoint, jobs, fault>>

\* The first assignment: to the list when there is no prev, else to prev.
Unlink(w) ==
    /\ At(w, "unlink")
    /\ LET l == local[w]
       IN  /\ l.prev # NULL => l.prev \in Allocated
           /\ head' = IF l.prev = NULL THEN l.next ELSE head
           /\ mem' = IF l.prev = NULL THEN mem ELSE [mem EXCEPT ![l.prev].next = l.next]
           /\ Become(w, [l EXCEPT !.pc = IF l.next = NULL THEN "destroy"
                                                          ELSE "unlink_next"])
    /\ hazard' = (hazard \/ UnlinkHazard(w) \/ EmptyHazard(w))
    /\ UNCHANGED <<endpoint, jobs, fault>>

\* Mutant of UnlinkNext: next->prev is not updated.
UnlinkNextNot(w) ==
    /\ At(w, "unlink_next") /\ local[w].next \in Allocated
    /\ Become(w, [local[w] EXCEPT !.pc = "destroy"])
    /\ UNCHANGED <<shared, jobs, fault, hazard>>

UnlinkNext(w) ==
    /\ At(w, "unlink_next") /\ local[w].next \in Allocated
    /\ mem' = [mem EXCEPT ![local[w].next].prev = local[w].prev]
    /\ Become(w, [local[w] EXCEPT !.pc = "destroy"])
    /\ UNCHANGED <<head, endpoint, jobs, fault, hazard>>

EndpointsOf(k) == {mem[k].request_endpoint, mem[k].response_endpoint} \ {NULL}

\* destroy_connection: the endpoints, then the connection.
Destroy(w) ==
    /\ At(w, "destroy") /\ local[w].conn \in Allocated
    /\ \A e \in EndpointsOf(local[w].conn) : endpoint[e] # "free"
    /\ endpoint' = [e \in Endpoints |->
                      IF e \in EndpointsOf(local[w].conn) THEN "free" ELSE endpoint[e]]
    /\ mem' = [mem EXCEPT ![local[w].conn] = NULL]
    /\ Become(w, Idle)
    /\ hazard' = (hazard \/ UnlinkHazard(w))
    /\ UNCHANGED <<head, jobs, fault>>

-----------------------------------------------------------------------------
(* find_counter_endpoint and sending *)

MatchHead(w) ==
    /\ At(w, "match_head") /\ head # Wild
    /\ Become(w, IF head = NULL THEN Idle
                 ELSE [local[w] EXCEPT !.pc = "match", !.cur = head])
    /\ UNCHANGED <<shared, jobs, fault, hazard>>

Complete(k) == mem[k].request_endpoint # NULL /\ mem[k].response_endpoint # NULL

OtherSide(side) == CHOOSE s \in Sides : s # side

\* The addresses of both endpoints are compared with the packet's.  A hazard: the
\* counterpart is in the connection but has no socket yet.
Match(w) ==
    /\ At(w, "match") /\ local[w].cur \in Allocated
    /\ LET k    == local[w].cur
           hit  == Complete(k) /\ mem[k].call_id = local[w].job.call_id
           dst  == mem[k][OtherSide(local[w].job.side)]
       IN  /\ Complete(k) => \A e \in EndpointsOf(k) : endpoint[e] # "free"
           /\ Become(w, CASE hit -> [local[w] EXCEPT !.pc = "send", !.dst = dst]
                          [] ~hit /\ mem[k].next = NULL -> Idle
                          [] ~hit /\ mem[k].next # NULL ->
                               [local[w] EXCEPT !.cur = mem[k].next])
           /\ hazard' = (hazard \/ (hit /\ endpoint[dst] = "parsed"))
    /\ UNCHANGED <<shared, jobs, fault>>

\* find_dst_port, get_socket_addr and send_packet_to_endpoint use the endpoint,
\* which is only reached through the connection (cur) it belongs to.
Send(w) ==
    /\ At(w, "send") /\ endpoint[local[w].dst] = "attached"
    /\ Become(w, Idle)
    /\ UNCHANGED <<shared, jobs, fault, hazard>>

-----------------------------------------------------------------------------
(* Using memory that is not there *)

\* The cells a worker's next step dereferences.
Dereferenced(w) ==
    LET l == local[w]
    IN  CASE l.pc \in {"find", "push_walk", "match"} -> {l.cur}
          [] l.pc = "push_link" -> {l.cur, l.conn}
          [] l.pc \in {"check", "set", "attach", "unlink_read", "destroy"} -> {l.conn}
          [] l.pc = "unlink" -> {l.prev} \ {NULL}
          [] l.pc = "unlink_next" -> {l.next}
          [] l.pc = "push_head" -> {head} \ Cells
          [] l.pc \in {"find_head", "match_head"} -> {head} \cap {Wild}
          [] OTHER -> {}

\* The endpoints it dereferences, frees or sends to.
Used(w) ==
    LET l == local[w]
    IN  CASE l.pc = "destroy" -> EndpointsOf(l.conn)
          [] l.pc = "match"   -> IF Complete(l.cur) THEN EndpointsOf(l.cur) ELSE {}
          [] l.pc = "attach"  -> {l.job.endpoint}
          [] OTHER -> {}

Crash(w) ==
    /\ ~fault
    /\ Dereferenced(w) \subseteq Allocated =>
         \/ \E e \in Used(w) : endpoint[e] = "free"
         \/ local[w].pc = "send" /\ endpoint[local[w].dst] # "attached"
    /\ fault' = TRUE
    /\ UNCHANGED <<shared, local, jobs, hazard>>

-----------------------------------------------------------------------------
Step(w) == \/ FindHead(w) \/ Find(w)
           \/ \E k \in Cells : Create(w, k)
           \/ CreateFails(w) \/ Push(w) \/ PushFirst(w) \/ PushHead(w) \/ PushWalk(w)
           \/ PushLink(w)
           \/ CheckEndpoint(w) \/ SetEndpoint(w) \/ AttachEndpoint(w)
           \/ UnlinkRead(w) \/ Unlink(w) \/ UnlinkNext(w) \/ Destroy(w)
           \/ MatchHead(w) \/ Match(w) \/ Send(w)
           \/ Crash(w)

Next == \E w \in Workers :
            \/ Step(w)
            \/ \E c \in CallIds :
                 \/ \E side \in Sides, e \in Endpoints : ReceiveInitial(w, c, side, e)
                 \/ ReceiveFinal(w, c)
                 \/ \E side \in Sides : ReceiveMedia(w, c, side)

Spec == Init /\ [][Next]_vars

\* The operating system schedules every process; nothing makes messages arrive.
FairSpec == Spec /\ \A w \in Workers : WF_vars(Step(w))

-----------------------------------------------------------------------------
(* Properties.  "Without a hazard" means: as long as no two workers have met in
   one of the ways PushHazard, UnlinkHazard, EmptyHazard, SetHazard and Match
   describe, and the head of the list was NULL to begin with. *)

TypeOK == /\ head \in Cells \cup {NULL, Wild}
          /\ mem \in [Cells -> Connection \cup {NULL}]
          /\ endpoint \in [Endpoints -> {"free", "parsed", "attached"}]
          /\ local \in [Workers -> Local]
          /\ jobs \in 0 .. MaxJobs
          /\ fault \in BOOLEAN /\ hazard \in BOOLEAN

Successors(k) == IF mem[k] = NULL THEN {} ELSE {mem[k].next} \ {NULL}

\* The cells that can be reached from the head: those in every set that has the
\* head and, with a cell, the next one.
Closed == {S \in SUBSET Cells : /\ {head} \cap Cells \subseteq S
                                /\ \A k \in S : Successors(k) \subseteq S}

Reachable == {k \in Cells : \A S \in Closed : k \in S}

\* Without a hazard no worker uses freed memory, follows a wild pointer or sends
\* through an endpoint without socket, although nothing locks the list.
NoCrash == fault => hazard

\* Without a hazard the list is one chain of allocated cells, one per call, and
\* its prev pointers lead back along it (but for the one that a worker in the
\* middle of remove_connection is about to set).
ListOK ==
    ~hazard =>
        /\ Reachable \subseteq Allocated
        /\ \A k, n \in Reachable :
              /\ mem[k].call_id = mem[n].call_id => k = n
              /\ mem[k].next = n =>
                    /\ n # head
                    /\ \/ mem[n].prev = k
                       \/ \E w \in Workers : At(w, "unlink_next") /\ local[w].next = n
        /\ \A k \in Reachable \cap {head} :
              \/ mem[k].prev = NULL
              \/ \E w \in Workers : At(w, "unlink_next") /\ local[w].next = k

\* The worker is the only one that knows the cell: not yet pushed, or taken out
\* and not yet freed.
Owned(k) ==
    \E w \in Workers :
        /\ local[w].conn = k
        /\ local[w].pc \in {"push", "push_first", "push_head", "push_walk", "push_link",
                            "unlink_next", "destroy"}

\* Without a hazard no connection is lost: what is allocated is in the list or in
\* the hands of the worker that pushes or removes it.
NothingLost == ~hazard => \A k \in Allocated : k \in Reachable \/ Owned(k)

\* push_connection's promise: it pushes the connection to the list.  Once it has
\* returned, the connection is in the list until someone takes it out.
PushedToList == \A k \in Allocated : k \in Reachable \/ Owned(k)

EndpointOf(c, side) ==
    IF \E k \in Reachable \cap Allocated : mem[k].call_id = c
    THEN mem[CHOOSE k \in Reachable \cap Allocated : mem[k].call_id = c][side]
    ELSE NULL

Calls == INSTANCE CallTable WITH
             caller <- [c \in CallIds |-> EndpointOf(c, "request_endpoint")],
             callee <- [c \in CallIds |-> EndpointOf(c, "response_endpoint")]

\* Without a hazard the interleaved handlers implement the table of calls: each
\* step adds one endpoint to one call, ends one call, or is invisible.
ImplementsCalls ==
    /\ Calls!Init
    /\ [][~hazard' => UNCHANGED Calls!callVars \/ Calls!Next]_<<head, mem>>

\* Every handler ends, however many others run, unless a hazard may have made the
\* list a cycle or Kamailio has crashed.
HandlersEnd ==
    \A w \in Workers :
        local[w].pc # "idle" ~> local[w].pc = "idle" \/ hazard \/ fault
=============================================================================
