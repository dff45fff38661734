--------------------------- MODULE SspStreamCells ----------------------------
(***************************************************************************)
(* The stream list of one endpoint as Kamailio's worker processes see it:  *)
(* linked cells in shared memory.  While one worker runs add_in_rule or    *)
(* remove_in_rule, others search the list for the packets they handle.     *)
(* A lock is held around one assignment, so a lock, the assignment and the *)
(* unlock are one step; remove_temporary_streams leaves one stream locked. *)
(* Each other access to a shared cell is a step of its own and takes no    *)
(* lock.  (Reading fields of one cell one after the other, setting the     *)
(* strings of a copy, and testing and setting the head, are one step each: *)
(* only after a collision could another worker tell the difference.)       *)
(***************************************************************************)
EXTENDS SspStreams

CONSTANTS
    Workers,        \* the processes Kamailio forks (children=)
    Cells,          \* addresses shm_malloc can return for an endpoint_stream_t
    Parsed,         \* the lists parse_streams can make of an SDP body
    NewPorts,       \* the ports media can be moved to
    MaxJobs,        \* bound: searches and script functions in a behaviour
    NULL

\* A cell shm_malloc has just returned: its strings are not set yet.
Unset == [media : {NULL}, port : {NULL}, rtcp_port : {NULL}, temporary : BOOLEAN]

\* What an allocated address holds.
Cell == [stream : Stream \cup Unset, next : Cells \cup {NULL}]

ASSUME CellsAssumption ==
    /\ \A ss \in Parsed : /\ ss \in Seq(Stream) \ {<<>>} /\ Len(ss) <= Cardinality(Cells)
                          /\ \A i \in DOMAIN ss : ~ss[i].temporary
    /\ NewPorts \subseteq Port \ {0}
    /\ NULL \notin Cells \cup Cell \cup Media
    /\ IsFiniteSet(Cells) /\ MaxJobs \in Nat

VARIABLES
    head,           \* endpoint->streams
    mem,            \* the stream and the next pointer at an address; NULL: free
    locked,         \* the streams whose lock is taken
    local,          \* every worker's program counter and variables
    fault,          \* a worker used a cell that is free, or NULL
    jobs,           \* searches and script functions started so far
    base,           \* history: the list the last script function began with
    collided,       \* history: see Found and Destroy
    served,         \* history: for every worker that searches, the streams that
                    \*   serve its port and have been in the list ever since
    torn            \* history: the workers that have read the next pointer of a
                    \*   copy before it was set

vars == <<head, mem, locked, local, fault, jobs, base, collided, served, torn>>
history == <<base, collided, torn>>

\* op is what the worker does if it finds port; temp is the copy it makes or the
\* stream it takes out.
Idle == [pc |-> "idle", op |-> "search", port |-> 0, to |-> 0,
         cur |-> NULL, prev |-> NULL, next |-> NULL, temp |-> NULL]

\* Which addresses the streams of the SDP got makes no difference.
Address(ss) == CHOOSE at \in [DOMAIN ss -> Cells] :
                  \A i, j \in DOMAIN ss : at[i] = at[j] => i = j

Init == \E ss \in Parsed :
    /\ head = Address(ss)[1]
    /\ mem = [k \in Cells |->
                IF \E i \in DOMAIN ss : Address(ss)[i] = k
                THEN LET i == CHOOSE i \in DOMAIN ss : Address(ss)[i] = k
                     IN  [stream |-> ss[i],
                          next |-> IF i = Len(ss) THEN NULL ELSE Address(ss)[i + 1]]
                ELSE NULL]
    /\ base = ss
    /\ locked = {}
    /\ local = [w \in Workers |-> Idle]
    /\ fault = FALSE
    /\ jobs = 0
    /\ collided = FALSE
    /\ served = [w \in Workers |-> {}]
    /\ torn = {}

-----------------------------------------------------------------------------
(* The list *)

\* The next pointer of k, for a copy that is just being linked the one it gets.
NextOf(k) ==
    IF \E w \in Workers : local[w].pc = "link_next" /\ local[w].temp = k
    THEN local[CHOOSE w \in Workers : local[w].pc = "link_next" /\ local[w].temp = k].next
    ELSE mem[k].next

\* The cells from head on, up to one that is free and at most as many as there are.
Places == LET from[n \in 0 .. Cardinality(Cells)] ==
                [k \in Cells \cup {NULL} |->
                    IF n = 0 \/ k = NULL \/ mem[k] = NULL THEN <<>>
                    ELSE <<k>> \o from[n - 1][NextOf(k)]]
          IN  from[Cardinality(Cells)][head]

Linked == {Places[i] : i \in DOMAIN Places}

\* Their streams.
List == LET at == Places IN [i \in DOMAIN at |-> mem[at[i]].stream]

At(w, pc) == ~fault /\ local[w].pc = pc

\* A step can use the cells ks: none is free.
Usable(ks) == \A k \in ks : k # NULL /\ mem[k] # NULL

\* The strings of the stream at k can be read.
Readable(k) == Usable({k}) /\ mem[k].stream \in Stream

Writes(v) == local[v].pc \notin {"idle", "match"}

Holds(v, k) ==
    local[v].pc # "idle" /\ k \in {local[v].cur, local[v].prev, local[v].next, local[v].temp}

-----------------------------------------------------------------------------
(* Searching (contain_port, and the other searches likewise) *)

\* A worker that handles a packet or runs a script function.
Begin(w, op, port, to) ==
    /\ At(w, "idle")
    /\ jobs < MaxJobs
    /\ jobs' = jobs + 1
    /\ local' = [local EXCEPT ![w] = [Idle EXCEPT !.pc = "match", !.op = op, !.port = port,
                                                  !.to = to, !.cur = head]]
    /\ torn' = torn \ {w}
    /\ UNCHANGED <<head, mem, locked, fault, base, collided>>

\* Mutant of Fits: only the RTP port is compared.
FitsRtp(w) == mem[local[w].cur].stream.port = local[w].port

Fits(w) == ContainPort(<<mem[local[w].cur].stream>>, local[w].port)

MatchNext(w) ==
    /\ At(w, "match") /\ Readable(local[w].cur)
    /\ ~Fits(w)
    /\ local' = [local EXCEPT ![w].cur = mem[local[w].cur].next]
    /\ torn' = IF NextOf(local[w].cur) # mem[local[w].cur].next THEN torn \cup {w} ELSE torn
    /\ UNCHANGED <<head, mem, locked, fault, jobs, base, collided>>

NotFound(w) ==
    /\ At(w, "match") /\ local[w].cur = NULL
    /\ local' = [local EXCEPT ![w] = Idle]
    /\ UNCHANGED <<head, mem, locked, fault, jobs, history>>

\* A script function goes on with the list as it is then.
Found(w) ==
    /\ At(w, "match") /\ Readable(local[w].cur)
    /\ Fits(w)
    /\ local' = [local EXCEPT ![w] =
         IF @.op = "search" \/ head = NULL THEN Idle
         ELSE [@ EXCEPT !.pc = IF local[w].op = "add" THEN "copy" ELSE "flip",
                        !.cur = head]]
    /\ base' = IF local[w].op = "search" THEN base ELSE List
    /\ collided' = (collided \/ (local[w].op # "search" /\ \E v \in Workers : Writes(v)))
    /\ UNCHANGED <<head, mem, locked, fault, jobs, torn>>

-----------------------------------------------------------------------------
(* add_temporary_streams *)

KeepNext(w) ==
    /\ At(w, "copy") /\ Usable({local[w].cur})
    /\ local' = [local EXCEPT ![w] = [@ EXCEPT !.pc = "alloc",
                                               !.next = mem[local[w].cur].next]]
    /\ UNCHANGED <<head, mem, locked, fault, jobs, history>>

\* shm_malloc, which may return what another worker has just freed.
Allocate(w) ==
    /\ At(w, "alloc")
    /\ \E k \in Cells :
         /\ mem[k] = NULL
         /\ mem' = [mem EXCEPT ![k] =
              [stream |-> [media |-> NULL, port |-> NULL, rtcp_port |-> NULL,
                           temporary |-> TRUE],
               next |-> NULL]]
         /\ local' = [local EXCEPT ![w] = [@ EXCEPT !.pc = "fill", !.temp = k]]
    /\ UNCHANGED <<head, locked, fault, jobs, history>>

\* Mutant of CopyStream: the media type is not copied.
CopyStreamNoMedia(w) ==
    /\ At(w, "fill") /\ Readable(local[w].cur) /\ Usable({local[w].temp})
    /\ mem' = [mem EXCEPT ![local[w].temp].stream =
         [media |-> NULL, port |-> local[w].to, rtcp_port |-> local[w].to,
          temporary |-> @.temporary]]
    /\ local' = [local EXCEPT ![w].pc = "link"]
    /\ UNCHANGED <<head, locked, fault, jobs, history>>

\* The strings: the media type of the stream and, twice, the new port.
CopyStream(w) ==
    /\ At(w, "fill") /\ Readable(local[w].cur) /\ Usable({local[w].temp})
    /\ mem' = [mem EXCEPT ![local[w].temp].stream =
         [media |-> mem[local[w].cur].stream.media, port |-> local[w].to,
          rtcp_port |-> local[w].to, temporary |-> @.temporary]]
    /\ local' = [local EXCEPT ![w].pc = "link"]
    /\ UNCHANGED <<head, locked, fault, jobs, history>>

\* No memory for the stream, or for one of its strings or its lock (other parts of
\* Kamailio use it too): the streams from here on get no copy.
CopyFails(w) ==
    /\ \/ At(w, "alloc") /\ UNCHANGED <<mem, locked>>
       \/ /\ At(w, "fill") /\ Usable({local[w].temp})
          /\ mem' = [mem EXCEPT ![local[w].temp] = NULL]
          /\ locked' = locked \ {local[w].temp}
    /\ local' = [local EXCEPT ![w] = Idle]
    /\ UNCHANGED <<head, fault, jobs, history>>

Link(w) ==
    /\ At(w, "link") /\ Usable({local[w].cur}) /\ local[w].cur \notin locked
    /\ mem' = [mem EXCEPT ![local[w].cur].next = local[w].temp]
    /\ local' = [local EXCEPT ![w].pc = "link_next"]
    /\ UNCHANGED <<head, locked, fault, jobs, history>>

\* Mutant of LinkNext: the next pointer is read again, now that it leads to the copy.
LinkNextLate(w) ==
    /\ At(w, "link_next") /\ Usable({local[w].temp, local[w].cur})
    /\ local[w].temp \notin locked
    /\ mem' = [mem EXCEPT ![local[w].temp].next = mem[local[w].cur].next]
    /\ local' = [local EXCEPT ![w] =
         IF @.next = NULL THEN Idle
         ELSE [@ EXCEPT !.pc = "copy", !.cur = local[w].next, !.temp = NULL]]
    /\ UNCHANGED <<head, locked, fault, jobs, history>>

LinkNext(w) ==
    /\ At(w, "link_next") /\ Usable({local[w].temp}) /\ local[w].temp \notin locked
    /\ mem' = [mem EXCEPT ![local[w].temp].next = local[w].next]
    /\ local' = [local EXCEPT ![w] =
         IF @.next = NULL THEN Idle
         ELSE [@ EXCEPT !.pc = "copy", !.cur = local[w].next, !.temp = NULL]]
    /\ UNCHANGED <<head, locked, fault, jobs, history>>

-----------------------------------------------------------------------------
(* remove_temporary_streams *)

Flip(w) ==
    /\ At(w, "flip") /\ Usable({local[w].cur})
    /\ mem' = [mem EXCEPT ![local[w].cur].stream.temporary = ~@]
    /\ local' = [local EXCEPT ![w].pc =
                   IF mem[local[w].cur].stream.temporary THEN "step" ELSE "head"]
    /\ UNCHANGED <<head, locked, fault, jobs, history>>

\* Mutant of Unhead: the endpoint keeps its pointer to the first stream.
UnheadNot(w) ==
    /\ At(w, "head") /\ Usable({local[w].cur})
    /\ local' = [local EXCEPT ![w] = [@ EXCEPT !.pc = "advance", !.temp = local[w].cur]]
    /\ UNCHANGED <<head, mem, locked, fault, jobs, history>>

\* The flag is set now: the stream goes.
Unhead(w) ==
    /\ At(w, "head") /\ Usable({local[w].cur})
    /\ head' = IF head = local[w].cur THEN mem[local[w].cur].next ELSE head
    /\ local' = [local EXCEPT ![w] = [@ EXCEPT !.pc = "advance", !.temp = local[w].cur]]
    /\ UNCHANGED <<mem, locked, fault, jobs, history>>

\* lock_stream(current); current = current->next; unlock_stream(current): the
\* stream that goes stays locked and the next one is unlocked, whoever has its
\* lock; behind the last one that is NULL.
Advance(w) ==
    /\ At(w, "advance") /\ Usable({local[w].cur}) /\ local[w].cur \notin locked
    /\ LET next == mem[local[w].cur].next
       IN  IF Usable({next})
           THEN /\ local' = [local EXCEPT ![w] = [@ EXCEPT !.pc = "relink", !.cur = next]]
                /\ locked' = (locked \cup {local[w].cur}) \ {next}
                /\ UNCHANGED fault
           ELSE fault' = TRUE /\ UNCHANGED <<local, locked>>
    /\ UNCHANGED <<head, mem, jobs, history>>

\* Mutant of Relink: the stream before keeps its next pointer.
RelinkNot(w) ==
    /\ At(w, "relink")
    /\ local' = [local EXCEPT ![w].pc = "destroy"]
    /\ UNCHANGED <<head, mem, locked, fault, jobs, history>>

Relink(w) ==
    /\ At(w, "relink")
    /\ IF local[w].prev = NULL
       THEN UNCHANGED mem
       ELSE /\ Usable({local[w].prev}) /\ local[w].prev \notin locked
            /\ mem' = [mem EXCEPT ![local[w].prev].next = local[w].cur]
    /\ local' = [local EXCEPT ![w].pc = "destroy"]
    /\ UNCHANGED <<head, locked, fault, jobs, history>>

\* Another worker may still be at the stream that is freed.
Destroy(w) ==
    /\ At(w, "destroy") /\ Usable({local[w].temp})
    /\ mem' = [mem EXCEPT ![local[w].temp] = NULL]
    /\ locked' = locked \ {local[w].temp}
    /\ local' = [local EXCEPT ![w] = [@ EXCEPT !.pc = "step", !.temp = NULL]]
    /\ collided' = (collided \/ \E v \in Workers \ {w} : Holds(v, local[w].temp))
    /\ UNCHANGED <<head, fault, jobs, base, torn>>

Step(w) ==
    /\ At(w, "step") /\ Usable({local[w].cur})
    /\ local' = [local EXCEPT ![w] =
         IF mem[local[w].cur].next = NULL THEN Idle
         ELSE [@ EXCEPT !.pc = "flip", !.prev = local[w].cur,
                        !.cur = mem[local[w].cur].next]]
    /\ UNCHANGED <<head, mem, locked, fault, jobs, history>>

-----------------------------------------------------------------------------
\* The cells a worker's next step reads or writes.
Dereferenced(w) ==
    LET l == local[w]
    IN  CASE l.pc = "alloc" -> {}
          [] l.pc = "fill" -> {l.cur, l.temp}
          [] l.pc \in {"link_next", "destroy"} -> {l.temp}
          [] l.pc = "relink" -> {l.prev} \ {NULL}
          [] OTHER -> {l.cur} \ {NULL}

\* A worker uses a cell that is free, or reads a string that is not set.
Crash(w) ==
    /\ ~fault
    /\ \/ ~Usable(Dereferenced(w))
       \/ /\ local[w].pc \in {"match", "fill"}
          /\ local[w].cur # NULL /\ ~Readable(local[w].cur)
    /\ fault' = TRUE
    /\ UNCHANGED <<head, mem, locked, local, jobs, history>>

Ports == Port \cap
    (NewPorts \cup
     UNION {UNION {{ss[i].port, GetRtcpPort(ss[i])} : i \in DOMAIN ss} : ss \in Parsed})

Start(w) == \E port \in Ports :
               \/ \E op \in {"search", "remove"} : Begin(w, op, port, 0)
               \/ \E to \in NewPorts : Begin(w, "add", port, to)

Go(w) == \/ MatchNext(w) \/ NotFound(w) \/ Found(w)
         \/ KeepNext(w) \/ Allocate(w) \/ CopyStream(w) \/ CopyFails(w)
         \/ Link(w) \/ LinkNext(w)
         \/ Flip(w) \/ Unhead(w) \/ Advance(w) \/ Relink(w) \/ Destroy(w) \/ Step(w)
         \/ Crash(w)

\* What the history variable served says of the step.
Remember ==
    LET linked == Linked'
    IN  served' = [w \in Workers |->
                     IF local'[w].pc # "match" THEN {}
                     ELSE {k \in linked : /\ k \in served[w] \/ local[w].pc = "idle"
                                          /\ ContainPort(<<mem'[k].stream>>, local'[w].port)}]

Next == /\ \E w \in Workers : Start(w) \/ Go(w)
        /\ Remember

Spec == Init /\ [][Next]_vars

FairSpec == Spec /\ \A w \in Workers : WF_vars(Go(w) /\ Remember)

-----------------------------------------------------------------------------
(* Properties *)

Local == [pc : {"idle", "match", "copy", "alloc", "fill", "link", "link_next", "flip",
                "head", "advance", "relink", "destroy", "step"},
          op : {"search", "add", "remove"}, port : Port, to : Port,
          cur : Cells \cup {NULL}, prev : Cells \cup {NULL},
          next : Cells \cup {NULL}, temp : Cells \cup {NULL}]

TypeOK == /\ head \in Cells \cup {NULL}
          /\ mem \in [Cells -> Cell \cup {NULL}]
          /\ locked \subseteq Cells
          /\ local \in [Workers -> Local]
          /\ fault \in BOOLEAN
          /\ jobs \in 0 .. MaxJobs
          /\ collided \in BOOLEAN
          /\ served \in [Workers -> SUBSET Cells] /\ torn \subseteq Workers

\* As long as no worker frees a stream another one is at, and no two workers
\* change the list at the same time, a crash is the one that
\* RemoveTemporaryCrashes predicts for the list remove_in_rule began with.
CrashesKnown ==
    fault /\ ~collided =>
        /\ RemoveTemporaryCrashes(base)
        /\ \E w \in Workers : local[w].pc = "advance"

\* So long, what the pointers are turned into by add_temporary_streams and
\* remove_temporary_streams is what the operators of SspStreams say, whatever
\* other workers read in between, unless memory runs out.
FunctionsAgree ==
    [][\A w \in Workers :
         Writes(w) /\ local'[w] = Idle /\ ~collided /\ ~CopyFails(w) =>
            List' = IF local[w].op = "add" THEN AddTemporaryStreams(base, local[w].to)
                    ELSE RemoveTemporaryStreams(base)]_vars

\* So long, a search misses a stream that serves its port and was in the list all
\* the time only by reading the next pointer of a copy that add_temporary_streams
\* has linked into the list before setting it.
SearchFinds ==
    [][\A w \in Workers :
         NotFound(w) /\ served[w] # {} /\ ~collided => w \in torn]_vars

\* Every search and every script function comes to its end, or crashes Kamailio,
\* unless two workers have collided: then shm_malloc may return the stream that
\* add_temporary_streams was going to visit next, which is linked to itself.
WorkersEnd ==
    \A w \in Workers :
        local[w].pc # "idle" ~> local[w].pc = "idle" \/ fault \/ collided
=============================================================================
