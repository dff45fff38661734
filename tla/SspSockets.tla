----------------------------- MODULE SspSockets ------------------------------
(***************************************************************************)
(* The server's socket list (ssp_bind_address.c): how many clients use     *)
(* each socket, and which socket a client is told to move to.  The worker  *)
(* processes share the list; subscribe_client and change_socket count in   *)
(* it, and notify looks for the least used socket.  Only the assignments   *)
(* to a count and to the head are under the lock.                          *)
(*                                                                         *)
(* A worker makes at most one list, in a subscribe_client that found none, *)
(* so a list has the name of the worker that made it.                      *)
(***************************************************************************)
EXTENDS SspRtcp, FiniteSets

CONSTANTS
    Workers,        \* the processes that run the routing script
    Clients,        \* the clients' proxies
    Sockets,        \* the sockets Kamailio listens on, in its order
    Reports,        \* the RTCP reports that can arrive
    Threshold,      \* the modparam "packet_loss_threshold"
    MaxJobs,        \* bound: handlers that are started
    NULL, Wild      \* the null pointer; the pointer nobody has set

SocketSet == {Sockets[i] : i \in DOMAIN Sockets}

ASSUME SocketsAssumption ==
    /\ IsFiniteSet(Clients)
    /\ Sockets \in Seq(SocketSet) /\ Sockets # <<>>
    /\ \A i, j \in DOMAIN Sockets : Sockets[i] = Sockets[j] => i = j
    /\ Reports \subseteq Report
    /\ Threshold \in Int /\ MaxJobs \in Nat
    /\ NULL # Wild /\ {NULL, Wild} \cap Workers = {}
    /\ NULL \notin SocketSet /\ NULL \notin Clients

VARIABLES
    head,           \* socket_list->head: a list, NULL, or Wild
    count,          \* the counts of the items of each list
    job,            \* what each worker is doing
    fault,          \* a worker dereferenced NULL or Wild: Kamailio has crashed
    notified,       \* the socket of the last notification; NULL: none
    jobs,           \* handlers started so far
    at,             \* history: the socket each client is counted at; NULL: none
    regular,        \* history: see Disturbs
    steady          \* history: the workers since whose search no count has changed

vars == <<head, count, job, fault, notified, jobs, at, regular, steady>>

(***************************************************************************)
(* A worker's locals.  pc: "idle", "publish" (has made a list and will     *)
(* write the head), "find old" and "find new" (will search the item of     *)
(* socket from or to), "old" and "new" (will change its count), "walk"     *)
(* (find_least_used_socket, at the item of index current).                 *)
(***************************************************************************)
Idle == [pc |-> "idle", client |-> NULL, from |-> NULL, to |-> NULL, list |-> NULL,
         current |-> 0, least |-> 0]

Init == /\ head \in {NULL, Wild}      \* mod_init does not set it
        /\ count = [w \in Workers |-> [s \in SocketSet |-> 0]]
        /\ job = [w \in Workers |-> Idle]
        /\ fault = FALSE
        /\ notified = NULL
        /\ jobs = 0
        /\ at = [c \in Clients |-> NULL]
        /\ regular = (head = NULL)
        /\ steady = {}

-----------------------------------------------------------------------------
Starts(w) == ~fault /\ job[w].pc = "idle" /\ jobs < MaxJobs

\* A handler for client c that is not the only one, or finds c counted at
\* another place than s.  The code does not compare the two: a retransmitted
\* SUBSCRIBE or REGISTER disturbs, and so does the REGISTER of a second handover,
\* which comes in on the socket the first one has left.
Disturbs(c, s) == at[c] # s \/ \E w \in Workers : job[w].client = c

\* subscribe_client, for a SUBSCRIBE of c received on socket s.
SubscribeClient(w, c, s) ==
    /\ Starts(w)
    /\ job' = [job EXCEPT ![w] = [Idle EXCEPT !.client = c, !.to = s,
                 !.pc = IF head = NULL THEN "publish" ELSE "find new"]]
    /\ jobs' = jobs + 1
    /\ regular' = (regular /\ ~Disturbs(c, NULL))
    /\ UNCHANGED <<head, count, fault, notified, at, steady>>

\* The head was NULL when the worker looked.  If another worker has published
\* its list since then, that list is lost with the counts in it.
Publish(w) ==
    /\ ~fault /\ job[w].pc = "publish"
    /\ head' = w
    /\ job' = [job EXCEPT ![w].pc = "find new"]
    /\ regular' = (regular /\ head = NULL)
    /\ UNCHANGED <<count, fault, notified, jobs, at, steady>>

\* change_socket, for a REGISTER of c received on socket s, when it has moved an
\* endpoint to socket t; otherwise it returns without looking at the list.
ChangeSocket(w, c, s, t) ==
    /\ Starts(w)
    /\ job' = [job EXCEPT ![w] = [Idle EXCEPT !.client = c, !.from = s, !.to = t,
                                              !.pc = "find old"]]
    /\ jobs' = jobs + 1
    /\ regular' = (regular /\ ~Disturbs(c, s))
    /\ UNCHANGED <<head, count, fault, notified, at, steady>>

\* find_socket_item, before the lock is taken.  In an empty list there is no item
\* and nothing is counted.
FindSocketItem(w) ==
    /\ ~fault /\ job[w].pc \in {"find old", "find new"}
    /\ fault' = (head = Wild)
    /\ job' = [job EXCEPT ![w] =
         CASE head # NULL -> [@ EXCEPT !.list = head,
                                       !.pc = IF job[w].pc = "find old" THEN "old" ELSE "new"]
           [] head = NULL /\ job[w].pc = "find old" -> [@ EXCEPT !.pc = "find new"]
           [] head = NULL /\ job[w].pc = "find new" -> Idle]
    /\ UNCHANGED <<head, count, notified, jobs, at, regular, steady>>

\* Mutant of DecrementClientsCount: it counts in the item of the new socket.
DecrementNew(w) ==
    /\ ~fault /\ job[w].pc = "old"
    /\ count' = [count EXCEPT ![job[w].list][job[w].to] = @ - 1]
    /\ at' = [at EXCEPT ![job[w].client] = NULL]
    /\ job' = [job EXCEPT ![w].pc = "find new", ![w].list = NULL]
    /\ steady' = {}
    /\ UNCHANGED <<head, fault, notified, jobs, regular>>

DecrementClientsCount(w) ==
    /\ ~fault /\ job[w].pc = "old"
    /\ count' = [count EXCEPT ![job[w].list][job[w].from] = @ - 1]
    /\ at' = [at EXCEPT ![job[w].client] = NULL]
    /\ job' = [job EXCEPT ![w].pc = "find new", ![w].list = NULL]
    /\ steady' = {}
    /\ UNCHANGED <<head, fault, notified, jobs, regular>>

IncrementClientsCount(w) ==
    /\ ~fault /\ job[w].pc = "new"
    /\ count' = [count EXCEPT ![job[w].list][job[w].to] = @ + 1]
    /\ at' = [at EXCEPT ![job[w].client] = job[w].to]
    /\ job' = [job EXCEPT ![w] = Idle]
    /\ steady' = {}
    /\ UNCHANGED <<head, fault, notified, jobs, regular>>

-----------------------------------------------------------------------------
(* notify *)

\* An RTCP report of a client with losses: notify starts to look for a socket.
\* There must be a list, since notify uses the item it gets without a test.
NotifyStarts(w, r) ==
    /\ Starts(w)
    /\ ExceedsLimit(r, Threshold) = 1
    /\ fault' = (head \in {NULL, Wild})
    /\ job' = [job EXCEPT ![w] = [Idle EXCEPT !.pc = "walk", !.list = head,
                                              !.current = 1, !.least = 1]]
    /\ jobs' = jobs + 1
    /\ steady' = steady \cup {w}
    /\ UNCHANGED <<head, count, notified, at, regular>>

\* A report the program does not find lossy is just forwarded.
ReportPasses(w, r) ==
    /\ Starts(w)
    /\ ExceedsLimit(r, Threshold) # 1
    /\ jobs' = jobs + 1
    /\ UNCHANGED <<head, count, job, fault, notified, at, regular, steady>>

CountOf(w, i) == count[job[w].list][Sockets[i]]

\* Mutant of Least: of two sockets with as many clients the later one.
LeastNotLess(w) ==
    IF CountOf(w, job[w].least) >= CountOf(w, job[w].current)
    THEN job[w].current ELSE job[w].least

Least(w) ==
    IF CountOf(w, job[w].least) > CountOf(w, job[w].current)
    THEN job[w].current ELSE job[w].least

\* Mutant of LastPass: the search goes on behind the last item.
LastPassBehind(w) ==
    CountOf(w, Least(w)) = 0 \/ job[w].current > Len(Sockets)

\* The search stops at a count of zero, as if there were none below.
LastPass(w) == CountOf(w, Least(w)) = 0 \/ job[w].current = Len(Sockets)

\* One pass of the loop of find_least_used_socket; nothing is locked.  After the
\* last one notify writes the notification.
Walk(w) ==
    /\ ~fault /\ job[w].pc = "walk"
    /\ IF LastPass(w)
       THEN /\ job' = [job EXCEPT ![w] = Idle]
            /\ notified' = Sockets[Least(w)]
       ELSE /\ job' = [job EXCEPT ![w].current = @ + 1, ![w].least = Least(w)]
            /\ UNCHANGED notified
    /\ UNCHANGED <<head, count, fault, jobs, at, regular, steady>>

-----------------------------------------------------------------------------
Start(w) == \/ \E c \in Clients, s \in SocketSet :
                  \/ SubscribeClient(w, c, s)
                  \/ \E t \in SocketSet : ChangeSocket(w, c, s, t)
            \/ \E r \in Reports : NotifyStarts(w, r) \/ ReportPasses(w, r)

Step(w) == \/ Publish(w) \/ FindSocketItem(w)
           \/ DecrementClientsCount(w) \/ IncrementClientsCount(w)
           \/ Walk(w)

Next == \E w \in Workers : Start(w) \/ Step(w)

Spec == Init /\ [][Next]_vars

-----------------------------------------------------------------------------
(* Properties *)

Job == [pc : {"idle", "publish", "find old", "find new", "old", "new", "walk"},
        client : Clients \cup {NULL},
        from : SocketSet \cup {NULL}, to : SocketSet \cup {NULL},
        list : Workers \cup {NULL, Wild},
        current : 0 .. Len(Sockets), least : 0 .. Len(Sockets)]

TypeOK == /\ head \in Workers \cup {NULL, Wild}
          /\ count \in [Workers -> [SocketSet -> Int]]
          /\ job \in [Workers -> Job]
          /\ fault \in BOOLEAN
          /\ notified \in SocketSet \cup {NULL}
          /\ jobs \in 0 .. MaxJobs
          /\ at \in [Clients -> SocketSet \cup {NULL}]
          /\ regular \in BOOLEAN
          /\ steady \subseteq Workers

ClientsAt(s) == {c \in Clients : at[c] = s}

\* The count of a socket is the number of clients at it, whatever the order in
\* which workers handle the requests of different clients (increment_clients_count,
\* decrement_clients_count).  That is promised as long as, for every client, one
\* request is handled at a time, the SUBSCRIBE comes once, and a REGISTER comes in
\* on the socket the client is counted at; as long as no two workers make a list
\* at the same time; and if the head was NULL at the start.  A request that
\* breaks this may leave the counts wrong from then on.
CountsAreClients ==
    regular /\ head # NULL =>
        \A s \in SocketSet : count[head][s] = Cardinality(ClientsAt(s))

\* Under the same conditions, the socket a notification names has the fewest
\* clients, and is the first such socket, unless a count changes while
\* find_least_used_socket looks.
LeastIsChosen ==
    [][\A w \in Workers :
         Walk(w) /\ w \in steady /\ regular /\ job'[w] = Idle =>
            \E i \in DOMAIN Sockets :
               /\ notified' = Sockets[i]
               /\ \A j \in DOMAIN Sockets :
                    LET here  == Cardinality(ClientsAt(Sockets[i]))
                        there == Cardinality(ClientsAt(Sockets[j]))
                    IN  here <= there /\ (j < i => here < there)]_vars

Lossy(r) == \E b \in DOMAIN r.lost : Exceeds(r.lost[b], Threshold)

\* A report of up to four blocks makes the server notify only if a block is above
\* the threshold, and a report whose first block is above it, or whose second one
\* out of three or four, does not pass (exceeds_limit).  The second of two blocks
\* and the third one are never looked at.
ReportsAreRead ==
    [][\A w \in Workers, r \in Reports :
         /\ NotifyStarts(w, r) /\ Len(r.lost) <= 4 => Lossy(r)
         /\ ReportPasses(w, r) /\ r.type # "other" =>
              \A b \in DOMAIN r.lost :
                 b = 1 \/ (b = 2 /\ Len(r.lost) >= 3) =>
                    ~Exceeds(r.lost[b], Threshold)]_vars
=============================================================================
