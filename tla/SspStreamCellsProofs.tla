------------------------ MODULE SspStreamCellsProofs ------------------------
(***************************************************************************)
(* The streams of one endpoint, for any workers, memory and lists.  The    *)
(* cells keep their types, collisions of the workers included.  Until two  *)
(* workers collide, the cells linked from head are a list, of which the    *)
(* one worker that changes it knows how far it is (Shape); so the pointers *)
(* end up as AddTemporaryStreams and RemoveTemporaryStreams say, the one   *)
(* crash is the one RemoveTemporaryCrashes predicts, and a search that has *)
(* read no half linked copy passes no stream that serves its port and was  *)
(* in the list all the time.                                               *)
(***************************************************************************)
EXTENDS SspStreamCells, SspStreamsProofs

Pointer == Cells \cup {NULL}

\* TypeOK without served, which Remember sets.
Typed == /\ head \in Pointer
         /\ mem \in [Cells -> Cell \cup {NULL}]
         /\ locked \subseteq Cells
         /\ local \in [Workers -> Local]
         /\ fault \in BOOLEAN
         /\ jobs \in 0 .. MaxJobs
         /\ collided \in BOOLEAN
         /\ torn \subseteq Workers

\* What a worker reads at an address that is not free.
LEMMA CellFields ==
    ASSUME Typed, NEW k \in Cells, mem[k] # NULL
    PROVE  /\ mem[k] \in Cell /\ mem[k].stream \in Stream \cup Unset
           /\ mem[k].next \in Pointer
BY DEF Typed, Cell, Pointer

LEMMA LocalFields ==
    ASSUME Typed, NEW w \in Workers
    PROVE  /\ local[w] \in Local
           /\ local[w].cur \in Pointer /\ local[w].prev \in Pointer
           /\ local[w].next \in Pointer /\ local[w].temp \in Pointer
           /\ local[w].to \in Port
BY DEF Typed, Local, Pointer

LEMMA IdleType == Idle \in Local
BY DEF Idle, Local, Port, MaxPort

LEMMA UsableCell ==
    ASSUME Typed, NEW k \in Pointer, Usable({k})
    PROVE  k \in Cells /\ mem[k] # NULL
BY DEF Usable, Pointer

\* A step of worker w that sets its variables to l.
LEMMA LocalStep ==
    ASSUME Typed, NEW w \in Workers, NEW l \in Local, local' = [local EXCEPT ![w] = l]
    PROVE  local' \in [Workers -> Local]
BY DEF Typed

LEMMA MemStep ==
    ASSUME Typed, NEW k \in Cells, NEW c \in Cell \cup {NULL}, mem' = [mem EXCEPT ![k] = c]
    PROVE  mem' \in [Cells -> Cell \cup {NULL}]
BY DEF Typed

-----------------------------------------------------------------------------

LEMMA MatchTyped ==
    ASSUME Typed, NEW w \in Workers,
           (\E op \in {"search", "add", "remove"}, port \in Port, to \in Port :
                Begin(w, op, port, to))
           \/ MatchNext(w) \/ NotFound(w) \/ Found(w)
    PROVE  Typed'
<1>1. ASSUME NEW op \in {"search", "add", "remove"}, NEW port \in Port, NEW to \in Port,
             Begin(w, op, port, to)
      PROVE  Typed'
  <2>1. PICK k : k = head
    OBVIOUS
  <2>2. PICK l : l = [Idle EXCEPT !.pc = "match", !.op = op, !.port = port, !.to = to,
                                  !.cur = k]
    OBVIOUS
  <2>3. l \in Local
    <3>1. k \in Cells \cup {NULL}
      BY <2>1 DEF Typed, Pointer
    <3>2. QED
      BY <2>2, <3>1 DEF Idle, Local
  <2>4. local' = [local EXCEPT ![w] = l]
    BY <1>1, <2>1, <2>2 DEF Begin
  <2>5. local' \in [Workers -> Local]
    BY <2>3, <2>4, LocalStep
  <2>6. jobs' \in 0 .. MaxJobs
    <3>1. jobs < MaxJobs /\ jobs' = jobs + 1
      BY <1>1, Zenon DEF Begin
    <3>2. jobs \in 0 .. MaxJobs /\ MaxJobs \in Nat
      BY CellsAssumption, Zenon DEF Typed
    <3>3. QED
      BY <3>1, <3>2
  <2>7. QED
    BY <1>1, <2>5, <2>6 DEF Begin, Typed
<1>2. CASE MatchNext(w)
  <2>1. PICK k, l : l = local[w] /\ k = mem[l.cur].next
    OBVIOUS
  <2>2. k \in Pointer /\ l \in Local
    <3>1. l.cur \in Cells /\ mem[l.cur] # NULL
      BY <1>2, <2>1, LocalFields, UsableCell DEF MatchNext, Readable
    <3>2. QED
      BY <2>1, <3>1, CellFields, LocalFields
  <2>3. [l EXCEPT !.cur = k] \in Local
    BY <2>2 DEF Local, Pointer
  <2>4. local' = [local EXCEPT ![w] = [l EXCEPT !.cur = k]]
    BY <1>2, <2>1 DEF MatchNext
  <2>5. local' \in [Workers -> Local]
    BY <2>3, <2>4, LocalStep
  <2>6. QED
    BY <1>2, <2>5 DEF MatchNext, Typed
<1>3. CASE NotFound(w)
  <2>1. local' \in [Workers -> Local]
    BY <1>3, IdleType, LocalStep DEF NotFound
  <2>2. QED
    BY <1>3, <2>1 DEF NotFound, Typed, history
<1>4. CASE Found(w)
  <2>1. PICK k, l : l = local[w] /\ k = head
    OBVIOUS
  <2>2. k \in Pointer /\ l \in Local
    BY <2>1, LocalFields DEF Typed
  <2>3. PICK n : n = IF l.op = "search" \/ head = NULL THEN Idle
                     ELSE [l EXCEPT !.pc = IF l.op = "add" THEN "copy" ELSE "flip",
                                    !.cur = k]
    OBVIOUS
  <2>4. n \in Local
    <3>1. [l EXCEPT !.pc = IF l.op = "add" THEN "copy" ELSE "flip", !.cur = k] \in Local
      BY <2>2 DEF Local, Pointer
    <3>2. QED
      BY <2>3, <3>1, IdleType
  <2>5. local' = [local EXCEPT ![w] = n]
    BY <1>4, <2>1, <2>3 DEF Found
  <2>6. local' \in [Workers -> Local]
    BY <2>4, <2>5, LocalStep
  <2>7. QED
    BY <1>4, <2>6 DEF Found, Typed
<1>5. QED
  BY <1>1, <1>2, <1>3, <1>4

LEMMA AddTyped ==
    ASSUME Typed, NEW w \in Workers,
           \/ KeepNext(w) \/ Allocate(w) \/ CopyStream(w) \/ CopyFails(w)
           \/ Link(w) \/ LinkNext(w)
    PROVE  Typed'
<1>1. PICK l : l = local[w]
  OBVIOUS
<1>2. l \in Local /\ l.cur \in Pointer /\ l.next \in Pointer /\ l.temp \in Pointer
  BY <1>1, LocalFields
<1>3. CASE KeepNext(w)
  <2>1. l.cur \in Cells /\ mem[l.cur] # NULL
    BY <1>1, <1>2, <1>3, UsableCell DEF KeepNext
  <2>2. PICK n : n = mem[l.cur].next
    OBVIOUS
  <2>3. n \in Pointer
    BY <2>1, <2>2, CellFields
  <2>4. [l EXCEPT !.pc = "alloc", !.next = n] \in Local
    BY <1>2, <2>3 DEF Local, Pointer
  <2>5. local' = [local EXCEPT ![w] = [l EXCEPT !.pc = "alloc", !.next = n]]
    BY <1>1, <1>3, <2>2 DEF KeepNext
  <2>6. local' \in [Workers -> Local]
    BY <2>4, <2>5, LocalStep
  <2>7. QED
    BY <1>3, <2>6 DEF KeepNext, Typed, history
<1>4. CASE Allocate(w)
  <2>1. PICK c : c = [stream |-> [media |-> NULL, port |-> NULL, rtcp_port |-> NULL,
                                  temporary |-> TRUE],
                      next |-> NULL]
    OBVIOUS
  <2>2. PICK k \in Cells :
            /\ mem' = [mem EXCEPT ![k] = c]
            /\ local' = [local EXCEPT ![w] = [l EXCEPT !.pc = "fill", !.temp = k]]
    BY <1>1, <1>4, <2>1, Zenon DEF Allocate
  <2>3. c \in Cell
    BY <2>1 DEF Cell, Unset
  <2>4. [l EXCEPT !.pc = "fill", !.temp = k] \in Local
    BY <1>2 DEF Local
  <2>5. mem' \in [Cells -> Cell \cup {NULL}] /\ local' \in [Workers -> Local]
    BY <2>2, <2>3, <2>4, MemStep, LocalStep
  <2>6. QED
    BY <1>4, <2>5 DEF Allocate, Typed, history
<1>5. CASE CopyStream(w)
  <2>1. /\ l.cur \in Cells /\ mem[l.cur] # NULL /\ mem[l.cur].stream \in Stream
        /\ l.temp \in Cells /\ mem[l.temp] # NULL
    BY <1>1, <1>2, <1>5, UsableCell DEF CopyStream, Readable
  <2>2. PICK c, s, t :
            /\ c = mem[l.temp] /\ t = c.stream.temporary
            /\ s = [media |-> mem[l.cur].stream.media, port |-> l.to, rtcp_port |-> l.to,
                    temporary |-> t]
    OBVIOUS
  <2>3. /\ mem' = [mem EXCEPT ![l.temp] = [c EXCEPT !.stream = s]]
        /\ local' = [local EXCEPT ![w] = [l EXCEPT !.pc = "link"]]
    BY <1>1, <1>5, <2>2 DEF CopyStream
  <2>4. c \in Cell /\ t \in BOOLEAN
    <3>1. c \in Cell /\ c.stream \in Stream \cup Unset
      BY <2>1, <2>2, CellFields
    <3>2. QED
      BY <2>2, <3>1 DEF Stream, Unset
  <2>5. s \in Stream
    <3>1. mem[l.cur].stream.media \in Media /\ l.to \in Port
      BY <1>2, <2>1 DEF Stream, Local
    <3>2. QED
      BY <2>2, <2>4, <3>1 DEF Stream
  <2>6. [c EXCEPT !.stream = s] \in Cell
    BY <2>4, <2>5 DEF Cell
  <2>7. [l EXCEPT !.pc = "link"] \in Local
    BY <1>2 DEF Local
  <2>8. mem' \in [Cells -> Cell \cup {NULL}] /\ local' \in [Workers -> Local]
    BY <2>1, <2>3, <2>6, <2>7, MemStep, LocalStep
  <2>9. QED
    BY <1>5, <2>8 DEF CopyStream, Typed, history
<1>6. CASE CopyFails(w)
  <2>1. local' \in [Workers -> Local]
    BY <1>6, IdleType, LocalStep DEF CopyFails
  <2>2. mem' \in [Cells -> Cell \cup {NULL}] /\ locked' \subseteq Cells
    <3>1. CASE UNCHANGED <<mem, locked>>
      BY <3>1 DEF Typed
    <3>2. CASE /\ Usable({l.temp})
               /\ mem' = [mem EXCEPT ![l.temp] = NULL] /\ locked' = locked \ {l.temp}
      <4>1. l.temp \in Cells
        BY <1>2, <3>2, UsableCell
      <4>2. QED
        BY <3>2, <4>1, MemStep DEF Typed
    <3>3. QED
      BY <1>1, <1>6, <3>1, <3>2 DEF CopyFails
  <2>3. QED
    BY <1>6, <2>1, <2>2 DEF CopyFails, Typed, history
<1>7. CASE Link(w)
  <2>1. l.cur \in Cells /\ mem[l.cur] # NULL
    BY <1>1, <1>2, <1>7, UsableCell DEF Link
  <2>2. PICK c, t : c = mem[l.cur] /\ t = l.temp
    OBVIOUS
  <2>3. c \in Cell /\ t \in Pointer
    BY <1>2, <2>1, <2>2, CellFields
  <2>4. [c EXCEPT !.next = t] \in Cell /\ [l EXCEPT !.pc = "link_next"] \in Local
    BY <1>2, <2>3 DEF Cell, Pointer, Local
  <2>5. /\ mem' = [mem EXCEPT ![l.cur] = [c EXCEPT !.next = t]]
        /\ local' = [local EXCEPT ![w] = [l EXCEPT !.pc = "link_next"]]
    BY <1>1, <1>7, <2>2 DEF Link
  <2>6. mem' \in [Cells -> Cell \cup {NULL}] /\ local' \in [Workers -> Local]
    BY <2>1, <2>4, <2>5, MemStep, LocalStep
  <2>7. QED
    BY <1>7, <2>6 DEF Link, Typed, history
<1>8. CASE LinkNext(w)
  <2>1. l.temp \in Cells /\ mem[l.temp] # NULL
    BY <1>1, <1>2, <1>8, UsableCell DEF LinkNext
  <2>2. PICK c, n : c = mem[l.temp] /\ n = l.next
    OBVIOUS
  <2>3. c \in Cell /\ n \in Pointer
    BY <1>2, <2>1, <2>2, CellFields
  <2>4. /\ [c EXCEPT !.next = n] \in Cell
        /\ [l EXCEPT !.pc = "copy", !.cur = n, !.temp = NULL] \in Local
    BY <1>2, <2>3 DEF Cell, Pointer, Local
  <2>5. PICK m : m = IF l.next = NULL THEN Idle
                     ELSE [l EXCEPT !.pc = "copy", !.cur = n, !.temp = NULL]
    OBVIOUS
  <2>6. /\ mem' = [mem EXCEPT ![l.temp] = [c EXCEPT !.next = n]]
        /\ local' = [local EXCEPT ![w] = m]
    BY <1>1, <1>8, <2>2, <2>5 DEF LinkNext
  <2>7. m \in Local
    BY <2>4, <2>5, IdleType
  <2>8. mem' \in [Cells -> Cell \cup {NULL}] /\ local' \in [Workers -> Local]
    BY <2>1, <2>4, <2>6, <2>7, MemStep, LocalStep
  <2>9. QED
    BY <1>8, <2>8 DEF LinkNext, Typed, history
<1>9. QED
  BY <1>3, <1>4, <1>7, <1>8, <1>5, <1>6

LEMMA RemoveTyped ==
    ASSUME Typed, NEW w \in Workers,
           \/ Flip(w) \/ Unhead(w) \/ Advance(w) \/ Relink(w) \/ Destroy(w) \/ Step(w)
           \/ Crash(w)
    PROVE  Typed'
<1>1. PICK l : l = local[w]
  OBVIOUS
<1>2. /\ l \in Local /\ l.cur \in Pointer /\ l.prev \in Pointer
      /\ l.next \in Pointer /\ l.temp \in Pointer
  BY <1>1, LocalFields
<1>3. CASE Flip(w)
  <2>1. l.cur \in Cells /\ mem[l.cur] # NULL
    BY <1>1, <1>2, <1>3, UsableCell DEF Flip
  <2>2. PICK c, s : c = mem[l.cur] /\ s = c.stream
    OBVIOUS
  <2>3. c \in Cell /\ s \in Stream \cup Unset
    BY <2>1, <2>2, CellFields
  <2>4. PICK t : t = [s EXCEPT !.temporary = ~s.temporary]
    OBVIOUS
  <2>5. t \in Stream \cup Unset
    BY <2>3, <2>4 DEF Stream, Unset
  <2>6. [c EXCEPT !.stream = t] \in Cell
    BY <2>3, <2>5 DEF Cell
  <2>7. mem' = [mem EXCEPT ![l.cur] = [c EXCEPT !.stream = t]]
    BY <1>1, <1>3, <2>2, <2>4 DEF Flip
  <2>8. PICK pc \in {"step", "head"} : local' = [local EXCEPT ![w] = [l EXCEPT !.pc = pc]]
    BY <1>1, <1>3 DEF Flip
  <2>9. [l EXCEPT !.pc = pc] \in Local
    BY <1>2 DEF Local
  <2>10. mem' \in [Cells -> Cell \cup {NULL}] /\ local' \in [Workers -> Local]
    BY <2>1, <2>6, <2>7, <2>8, <2>9, MemStep, LocalStep
  <2>11. QED
    BY <1>3, <2>10 DEF Flip, Typed, history
<1>4. CASE Unhead(w)
  <2>1. l.cur \in Cells /\ mem[l.cur] # NULL
    BY <1>1, <1>2, <1>4, UsableCell DEF Unhead
  <2>2. head' \in Pointer
    BY <1>1, <1>4, <2>1, CellFields DEF Unhead, Typed
  <2>3. PICK k : k = l.cur
    OBVIOUS
  <2>4. [l EXCEPT !.pc = "advance", !.temp = k] \in Local
    BY <1>2, <2>3 DEF Local, Pointer
  <2>5. local' = [local EXCEPT ![w] = [l EXCEPT !.pc = "advance", !.temp = k]]
    BY <1>1, <1>4, <2>3 DEF Unhead
  <2>6. local' \in [Workers -> Local]
    BY <2>4, <2>5, LocalStep
  <2>7. QED
    BY <1>4, <2>2, <2>6 DEF Unhead, Typed, history
<1>5. CASE Advance(w)
  <2>1. l.cur \in Cells /\ mem[l.cur] # NULL
    BY <1>1, <1>2, <1>5, UsableCell DEF Advance
  <2>2. PICK n : n = mem[l.cur].next
    OBVIOUS
  <2>3. n \in Pointer
    BY <2>1, <2>2, CellFields
  <2>4. [l EXCEPT !.pc = "relink", !.cur = n] \in Local
    BY <1>2, <2>3 DEF Local, Pointer
  <2>5. /\ local' = local \/ local' = [local EXCEPT ![w] = [l EXCEPT !.pc = "relink", !.cur = n]]
        /\ fault' = TRUE \/ fault' = fault
        /\ locked' = locked \/ locked' = (locked \cup {l.cur}) \ {n}
    BY <1>1, <1>5, <2>2 DEF Advance
  <2>6. local' \in [Workers -> Local]
    BY <2>4, <2>5, LocalStep DEF Typed
  <2>7. QED
    BY <1>5, <2>1, <2>5, <2>6 DEF Advance, Typed, history
<1>6. CASE Relink(w)
  <2>1. [l EXCEPT !.pc = "destroy"] \in Local
    BY <1>2 DEF Local
  <2>2. local' = [local EXCEPT ![w] = [l EXCEPT !.pc = "destroy"]]
    BY <1>1, <1>6 DEF Relink
  <2>3. local' \in [Workers -> Local]
    BY <2>1, <2>2, LocalStep
  <2>4. CASE l.prev = NULL
    BY <1>1, <1>6, <2>3, <2>4 DEF Relink, Typed, history
  <2>5. CASE l.prev # NULL
    <3>1. l.prev \in Cells /\ mem[l.prev] # NULL
      BY <1>1, <1>2, <1>6, <2>5, UsableCell DEF Relink
    <3>2. PICK c, k : c = mem[l.prev] /\ k = l.cur
      OBVIOUS
    <3>3. [c EXCEPT !.next = k] \in Cell
      <4>1. c \in Cell /\ k \in Pointer
        BY <1>2, <3>1, <3>2, CellFields
      <4>2. QED
        BY <4>1 DEF Cell, Pointer
    <3>4. mem' = [mem EXCEPT ![l.prev] = [c EXCEPT !.next = k]]
      BY <1>1, <1>6, <2>5, <3>2 DEF Relink
    <3>5. mem' \in [Cells -> Cell \cup {NULL}]
      BY <3>1, <3>3, <3>4, MemStep
    <3>6. QED
      BY <1>6, <2>3, <3>5 DEF Relink, Typed, history
  <2>6. QED
    BY <2>4, <2>5
<1>7. CASE Destroy(w)
  <2>1. l.temp \in Cells
    BY <1>1, <1>2, <1>7, UsableCell DEF Destroy
  <2>2. mem' \in [Cells -> Cell \cup {NULL}]
    BY <1>1, <1>7, <2>1, MemStep DEF Destroy
  <2>3. [l EXCEPT !.pc = "step", !.temp = NULL] \in Local
    BY <1>2 DEF Local
  <2>4. local' = [local EXCEPT ![w] = [l EXCEPT !.pc = "step", !.temp = NULL]]
    BY <1>1, <1>7 DEF Destroy
  <2>5. local' \in [Workers -> Local]
    BY <2>3, <2>4, LocalStep
  <2>6. QED
    BY <1>7, <2>2, <2>5 DEF Destroy, Typed
<1>8. CASE Step(w)
  <2>1. l.cur \in Cells /\ mem[l.cur] # NULL
    BY <1>1, <1>2, <1>8, UsableCell DEF Step
  <2>2. PICK k, n : k = l.cur /\ n = mem[l.cur].next
    OBVIOUS
  <2>3. k \in Pointer /\ n \in Pointer
    BY <1>2, <2>1, <2>2, CellFields
  <2>4. [l EXCEPT !.pc = "flip", !.prev = k, !.cur = n] \in Local
    BY <1>2, <2>3 DEF Local, Pointer
  <2>5. PICK m : m = IF n = NULL THEN Idle ELSE [l EXCEPT !.pc = "flip", !.prev = k, !.cur = n]
    OBVIOUS
  <2>6. local' = [local EXCEPT ![w] = m]
    BY <1>1, <1>8, <2>2, <2>5 DEF Step
  <2>7. local' \in [Workers -> Local]
    BY <2>4, <2>5, <2>6, IdleType, LocalStep
  <2>8. QED
    BY <1>8, <2>7 DEF Step, Typed, history
<1>9. CASE Crash(w)
  BY <1>9 DEF Crash, Typed, history
<1>10. QED
  BY <1>3, <1>4, <1>5, <1>6, <1>7, <1>8, <1>9

-----------------------------------------------------------------------------
(* The function Places is made of, for any memory m and workers' variables L. *)

After(L, m, k) ==
    IF \E w \in Workers : L[w].pc = "link_next" /\ L[w].temp = k
    THEN L[CHOOSE w \in Workers : L[w].pc = "link_next" /\ L[w].temp = k].next
    ELSE m[k].next

\* One step of its definition.
Walk(L, m, f, j, k) ==
    IF j = 0 \/ k = NULL \/ m[k] = NULL THEN <<>> ELSE <<k>> \o f[j - 1][After(L, m, k)]

CellsFrom(L, m, n) ==
    CHOOSE f : f = [j \in 0 .. n |-> [k \in Pointer |-> Walk(L, m, f, j, k)]]

CellsOf(L, m, h) == CellsFrom(L, m, Cardinality(Cells))[Cardinality(Cells)][h]

\* Places is CellsOf of the state, and of the next one.
LEMMA PlacesIs ==
    /\ Places = CellsOf(local, mem, head)
    /\ Places' = CellsOf(local', mem', head')
BY DEF Places, CellsOf, CellsFrom, Walk, After, NextOf, Pointer

Walks(L, m, f, n) ==
    /\ f \in [0 .. n -> [Pointer -> Seq(Cells)]]
    /\ \A j \in 0 .. n, k \in Pointer : f[j][k] = Walk(L, m, f, j, k)

\* What a cell leads to is a pointer.
LEMMA AfterType ==
    ASSUME NEW L \in [Workers -> Local], NEW m \in [Cells -> Cell \cup {NULL}],
           NEW k \in Cells, m[k] # NULL
    PROVE  After(L, m, k) \in Pointer
<1>1. CASE \E w \in Workers : L[w].pc = "link_next" /\ L[w].temp = k
  <2>1. PICK v : v = CHOOSE w \in Workers : L[w].pc = "link_next" /\ L[w].temp = k
    OBVIOUS
  <2>2. v \in Workers /\ After(L, m, k) = L[v].next
    BY <1>1, <2>1 DEF After
  <2>3. L[v].next \in Pointer
    BY <2>2 DEF Local, Pointer
  <2>4. QED
    BY <2>2, <2>3
<1>2. CASE ~ \E w \in Workers : L[w].pc = "link_next" /\ L[w].temp = k
  <2>1. m[k] \in Cell
    OBVIOUS
  <2>2. QED
    BY <1>2, <2>1 DEF After, Cell, Pointer
<1>3. QED
  BY <1>1, <1>2

\* The function exists: a least n without one would have one for n - 1.
LEMMA WalksExist ==
    ASSUME NEW L \in [Workers -> Local], NEW m \in [Cells -> Cell \cup {NULL}],
           NEW n \in Nat
    PROVE  \E f : Walks(L, m, f, n)
<1> DEFINE I == {i \in Nat : ~ \E f : Walks(L, m, f, i)}
<1>1. SUFFICES ASSUME n \in I PROVE FALSE
  OBVIOUS
<1>2. PICK i \in I : \A j \in I : i <= j
  <2> HIDE DEF I
  <2>1. I # {} /\ \A j \in I : j \in Nat
    BY <1>1 DEF I
  <2>2. QED
    BY <2>1, MinOfNaturals
<1>3. i \in Nat /\ ~ \E f : Walks(L, m, f, i)
  OBVIOUS
<1>4. CASE i = 0
  <2> DEFINE f == [j \in 0 .. 0 |-> [k \in Pointer |-> <<>>]]
  <2>1. f \in [0 .. 0 -> [Pointer -> Seq(Cells)]]
    OBVIOUS
  <2>2. \A j \in 0 .. 0, k \in Pointer : f[j][k] = Walk(L, m, f, j, k)
    BY DEF Walk
  <2>3. Walks(L, m, f, 0)
    BY <2>1, <2>2 DEF Walks
  <2>4. QED
    BY <1>3, <1>4, <2>3
<1>5. CASE i # 0
  <2>1. i - 1 \in Nat /\ ~ (i <= i - 1)
    BY <1>3, <1>5
  <2>2. PICK g : Walks(L, m, g, i - 1)
    BY <1>2, <2>1
  <2> DEFINE last == [k \in Pointer |-> Walk(L, m, g, i, k)]
             f == [j \in 0 .. i |-> IF j = i THEN last ELSE g[j]]
  <2>3. last \in [Pointer -> Seq(Cells)]
    <3>1. SUFFICES ASSUME NEW k \in Pointer PROVE Walk(L, m, g, i, k) \in Seq(Cells)
      OBVIOUS
    <3>2. CASE k = NULL \/ m[k] = NULL
      BY <3>2 DEF Walk
    <3>3. CASE k # NULL /\ m[k] # NULL
      <4>1. k \in Cells /\ After(L, m, k) \in Pointer
        BY <3>1, <3>3, AfterType DEF Pointer
      <4>2. i - 1 \in 0 .. i - 1
        BY <2>1
      <4>3. g[i - 1][After(L, m, k)] \in Seq(Cells)
        BY <2>2, <4>1, <4>2 DEF Walks
      <4>4. <<k>> \in Seq(Cells)
        BY <4>1
      <4>5. Walk(L, m, g, i, k) = <<k>> \o g[i - 1][After(L, m, k)]
        BY <1>5, <3>3 DEF Walk
      <4>6. QED
        BY <4>3, <4>4, <4>5, ConcatProperties
    <3>4. QED
      BY <3>2, <3>3
  <2>4. f \in [0 .. i -> [Pointer -> Seq(Cells)]]
    <3>1. \A j \in 0 .. i : j # i => j \in 0 .. i - 1
      BY <1>3
    <3>2. g \in [0 .. i - 1 -> [Pointer -> Seq(Cells)]]
      BY <2>2 DEF Walks
    <3> HIDE DEF last
    <3>3. QED
      BY <2>3, <3>1, <3>2
  <2>5. ASSUME NEW j \in 0 .. i, NEW k \in Pointer PROVE f[j][k] = Walk(L, m, f, j, k)
    <3>1. Walk(L, m, f, j, k) = Walk(L, m, g, j, k)
      <4>1. CASE j = 0
        BY <4>1 DEF Walk
      <4>2. CASE j # 0
        <5>1. j - 1 \in 0 .. i /\ j - 1 # i
          BY <1>3, <4>2
        <5> HIDE DEF last
        <5>2. f[j - 1] = g[j - 1]
          BY <5>1
        <5>3. QED
          BY <5>2 DEF Walk
      <4>3. QED
        BY <4>1, <4>2
    <3>2. CASE j = i
      <4>1. f[j] = last
        BY <3>2
      <4>2. QED
        BY <3>1, <3>2, <4>1
    <3>3. CASE j # i
      <4>1. j \in 0 .. i - 1
        BY <1>3, <3>3
      <4>2. g[j][k] = Walk(L, m, g, j, k)
        BY <2>2, <4>1 DEF Walks
      <4> HIDE DEF last
      <4>3. f[j] = g[j]
        BY <3>3
      <4>4. QED
        BY <3>1, <4>2, <4>3
    <3>4. QED
      BY <3>2, <3>3
  <2>6. Walks(L, m, f, i)
    <3> HIDE DEF f
    <3>1. QED
      BY <2>4, <2>5 DEF Walks
  <2>7. QED
    <3> HIDE DEF f
    <3>1. QED
      BY <1>3, <2>6
<1>6. QED
  BY <1>4, <1>5

\* The recursive function behind Places is what its definition says.
LEMMA CellsFromWalks ==
    ASSUME NEW L \in [Workers -> Local], NEW m \in [Cells -> Cell \cup {NULL}],
           NEW n \in Nat
    PROVE  Walks(L, m, CellsFrom(L, m, n), n)
<1>1. PICK g : Walks(L, m, g, n)
  BY WalksExist
<1>2. g = [j \in 0 .. n |-> [k \in Pointer |-> Walk(L, m, g, j, k)]]
  <2>1. g \in [0 .. n -> [Pointer -> Seq(Cells)]]
    BY <1>1 DEF Walks
  <2>2. \A j \in 0 .. n : g[j] = [k \in Pointer |-> Walk(L, m, g, j, k)]
    <3>1. TAKE j \in 0 .. n
    <3>2. g[j] \in [Pointer -> Seq(Cells)]
      BY <2>1
    <3>3. \A k \in Pointer : g[j][k] = Walk(L, m, g, j, k)
      BY <1>1 DEF Walks
    <3>4. QED
      BY <3>2, <3>3
  <2>3. QED
    BY <2>1, <2>2
<1>3. PICK f : f = CellsFrom(L, m, n)
  OBVIOUS
<1>4. f = [j \in 0 .. n |-> [k \in Pointer |-> Walk(L, m, f, j, k)]]
  BY <1>2, <1>3 DEF CellsFrom
<1>5. f = g
  <2> DEFINE I == {j \in 0 .. n : f[j] # g[j]}
  <2>1. ASSUME I # {} PROVE FALSE
    <3>1. PICK j \in I : \A x \in I : j <= x
      <4>1. \A x \in I : x \in Nat
        OBVIOUS
      <4> HIDE DEF I
      <4>2. QED
        BY <2>1, <4>1, MinOfNaturals
    <3>2. j \in 0 .. n /\ f[j] # g[j]
      OBVIOUS
    <3>3. ASSUME NEW k \in Pointer PROVE Walk(L, m, f, j, k) = Walk(L, m, g, j, k)
      <4>1. CASE j = 0
        BY <4>1 DEF Walk
      <4>2. CASE j # 0
        <5>1. j - 1 \in 0 .. n /\ ~ (j <= j - 1)
          BY <3>2, <4>2
        <5>2. f[j - 1] = g[j - 1]
          BY <3>1, <5>1
        <5>3. QED
          BY <5>2 DEF Walk
      <4>3. QED
        BY <4>1, <4>2
    <3>4. /\ f[j] = [k \in Pointer |-> Walk(L, m, f, j, k)]
          /\ g[j] = [k \in Pointer |-> Walk(L, m, g, j, k)]
      BY <1>2, <1>4, <3>2, Zenon
    <3>5. QED
      BY <3>2, <3>3, <3>4
  <2>2. \A j \in 0 .. n : f[j] = g[j]
    BY <2>1
  <2>3. /\ f = [j \in 0 .. n |-> f[j]]
        /\ g = [j \in 0 .. n |-> g[j]]
    <3>1. DOMAIN f = 0 .. n /\ DOMAIN g = 0 .. n
      BY <1>2, <1>4, Zenon
    <3>2. QED
      BY <1>2, <1>4
  <2> HIDE DEF I
  <2>4. QED
    BY <2>2, <2>3
<1>6. QED
  BY <1>1, <1>3, <1>5

\* The cells of the list are a sequence of addresses.
LEMMA CellsOfType ==
    ASSUME NEW L \in [Workers -> Local], NEW m \in [Cells -> Cell \cup {NULL}],
           NEW h \in Pointer
    PROVE  CellsOf(L, m, h) \in Seq(Cells)
<1>1. PICK n, f : n = Cardinality(Cells) /\ f = CellsFrom(L, m, n)
  OBVIOUS
<1>2. n \in Nat
  BY <1>1, CellsAssumption, FS_CardinalityType
<1>3. Walks(L, m, f, n)
  BY <1>1, <1>2, CellsFromWalks
<1>4. f[n] \in [Pointer -> Seq(Cells)]
  BY <1>2, <1>3 DEF Walks
<1>5. QED
  BY <1>1, <1>4 DEF CellsOf

-----------------------------------------------------------------------------

\* The initial addresses of a list exist.
LEMMA AddressExists ==
    ASSUME NEW ss \in Parsed
    PROVE  /\ Address(ss) \in [DOMAIN ss -> Cells]
           /\ 1 \in DOMAIN ss /\ DOMAIN ss = 1 .. Len(ss) /\ Len(ss) \in Nat
           /\ \A i, j \in DOMAIN ss : Address(ss)[i] = Address(ss)[j] => i = j
<1>1. /\ ss \in Seq(Stream) /\ ss # <<>> /\ Len(ss) <= Cardinality(Cells)
      /\ IsFiniteSet(Cells)
  BY CellsAssumption
<1>2. DOMAIN ss = 1 .. Len(ss) /\ Len(ss) \in Nat /\ 1 \in DOMAIN ss
  BY <1>1
<1>3. \E at \in [1 .. Len(ss) -> Cells] :
          \A i, j \in 1 .. Len(ss) : at[i] = at[j] => i = j
  <2>1. Cardinality(Cells) \in Nat
    BY <1>1, FS_CardinalityType
  <2>2. PICK f : f \in Bijection(1 .. Cardinality(Cells), Cells)
    BY <1>1, <2>1, FS_CountingElements, FS_NatBijection DEF ExistsBijection
  <2>3. /\ f \in [1 .. Cardinality(Cells) -> Cells]
        /\ \A i, j \in 1 .. Cardinality(Cells) : f[i] = f[j] => i = j
    BY <2>2 DEF Bijection, Injection, IsInjective
  <2>4. \A i \in 1 .. Len(ss) : i \in 1 .. Cardinality(Cells)
    BY <1>1, <1>2, <2>1
  <2>5. PICK at : at = [i \in 1 .. Len(ss) |-> f[i]]
    OBVIOUS
  <2>6. /\ at \in [1 .. Len(ss) -> Cells]
        /\ \A i, j \in 1 .. Len(ss) : at[i] = at[j] => i = j
    BY <2>3, <2>4, <2>5
  <2>7. QED
    BY <2>6
<1>4. /\ Address(ss) \in [DOMAIN ss -> Cells]
      /\ \A i, j \in DOMAIN ss : Address(ss)[i] = Address(ss)[j] => i = j
  BY <1>2, <1>3 DEF Address
<1>5. QED
  BY <1>2, <1>4

LEMMA InitTypeOK == Init => TypeOK
<1>1. SUFFICES ASSUME Init PROVE TypeOK
  OBVIOUS
<1>2. PICK ss \in Parsed :
          /\ head = Address(ss)[1]
          /\ mem = [k \in Cells |->
                      IF \E i \in DOMAIN ss : Address(ss)[i] = k
                      THEN LET i == CHOOSE i \in DOMAIN ss : Address(ss)[i] = k
                           IN  [stream |-> ss[i],
                                next |-> IF i = Len(ss) THEN NULL ELSE Address(ss)[i + 1]]
                      ELSE NULL]
  BY <1>1 DEF Init
<1>3. /\ Address(ss) \in [DOMAIN ss -> Cells]
      /\ 1 \in DOMAIN ss /\ DOMAIN ss = 1 .. Len(ss) /\ Len(ss) \in Nat
      /\ \A i \in DOMAIN ss : ss[i] \in Stream
  <2>1. ss \in Seq(Stream)
    BY CellsAssumption
  <2>2. QED
    BY <2>1, AddressExists, ElementOfSeq
<1>4. ASSUME NEW k \in Cells PROVE mem[k] \in Cell \cup {NULL}
  <2>1. CASE \E i \in DOMAIN ss : Address(ss)[i] = k
    <3>1. PICK p : p = CHOOSE i \in DOMAIN ss : Address(ss)[i] = k
      OBVIOUS
    <3>2. p \in DOMAIN ss
      BY <2>1, <3>1
    <3>3. mem[k] = [stream |-> ss[p],
                    next |-> IF p = Len(ss) THEN NULL ELSE Address(ss)[p + 1]]
      BY <1>2, <2>1, <3>1
    <3>4. p # Len(ss) => Address(ss)[p + 1] \in Cells
      BY <1>3, <3>2
    <3>5. QED
      BY <1>3, <3>2, <3>3, <3>4 DEF Cell
  <2>2. CASE ~ \E i \in DOMAIN ss : Address(ss)[i] = k
    BY <1>2, <2>2
  <2>3. QED
    BY <2>1, <2>2
<1>5. mem \in [Cells -> Cell \cup {NULL}]
  <2>1. DOMAIN mem = Cells /\ mem = [k \in Cells |-> mem[k]]
    BY <1>2
  <2>2. QED
    BY <1>4, <2>1
<1>6. 0 \in 0 .. MaxJobs
  BY CellsAssumption
<1>7. head \in Cells
  BY <1>2, <1>3, Zenon
<1>8. /\ local = [w \in Workers |-> Idle] /\ locked = {} /\ fault = FALSE /\ jobs = 0
      /\ collided = FALSE /\ served = [w \in Workers |-> {}] /\ torn = {}
  BY <1>1, Zenon DEF Init
<1>9. local \in [Workers -> Local]
  BY <1>8, IdleType
<1>10. QED
  BY <1>5, <1>6, <1>7, <1>8, <1>9 DEF TypeOK

LEMMA NextTypeOK == TypeOK /\ [Next]_vars => TypeOK'
<1>1. SUFFICES ASSUME TypeOK, [Next]_vars PROVE TypeOK'
  OBVIOUS
<1>2. Typed
  BY <1>1 DEF TypeOK, Typed, Pointer
<1>3. ASSUME NEW w \in Workers, Start(w) \/ Go(w), Remember PROVE TypeOK'
  <2>1. Typed'
    <3>1. /\ \A port \in Ports : port \in Port
          /\ \A to \in NewPorts : to \in Port
          /\ 0 \in Port
      <4>1. \A port \in Ports : port \in Port
        BY Zenon DEF Ports
      <4>2. \A to \in NewPorts : to \in Port
        <5>1. NewPorts \subseteq Port \ {0}
          BY CellsAssumption
        <5>2. QED
          BY <5>1, Zenon
      <4>3. 0 \in Port
        BY DEF Port, MaxPort
      <4>4. QED
        BY <4>1, <4>2, <4>3
    <3>2. CASE Start(w)
      <4>1. PICK op \in {"search", "add", "remove"}, port \in Port, to \in Port :
                Begin(w, op, port, to)
        BY <3>1, <3>2, Zenon DEF Start
      <4>2. QED
        BY <1>2, <4>1, MatchTyped, Zenon
    <3>3. CASE Go(w)
      BY <1>2, <3>3, MatchTyped, AddTyped, RemoveTyped DEF Go
    <3>4. QED
      BY <1>3, <3>2, <3>3
  <2>2. served' \in [Workers -> SUBSET Cells]
    <3>1. Linked' \subseteq Cells
      <4>1. Places' \in Seq(Cells)
        BY <2>1, PlacesIs, CellsOfType DEF Typed
      <4>2. QED
        BY <4>1 DEF Linked
    <3>2. QED
      BY <1>3, <3>1 DEF Remember
  <2>3. QED
    BY <2>1, <2>2 DEF Typed, TypeOK, Pointer
<1>4. CASE UNCHANGED vars
  BY <1>1, <1>4 DEF vars, TypeOK
<1>5. QED
  BY <1>1, <1>3, <1>4 DEF Next

\* Pointers stay inside the memory and streams stay streams, whatever workers do to
\* each other.
THEOREM CellsTypeCorrect == Spec => []TypeOK
<1>1. QED
  BY InitTypeOK, NextTypeOK, PTL DEF Spec

-----------------------------------------------------------------------------
(* The shape of the list.  The operators below are about any memory m, head h,
   workers' variables L, list b the last script function began with and histories
   sv and tn, so that they can be cited of a state and of the next one. *)

Elem(n, s, i) == IF i \in 1 .. n THEN s[i] ELSE NULL
ListCells(n, s) == {s[i] : i \in 1 .. n}

Writing(l) == l.pc \notin {"idle", "match"}

\* The worker has linked the copy and not set its next pointer.
Links(L, k) == \E w \in Workers : L[w].pc = "link_next" /\ L[w].temp = k

\* The worker is about to take the stream out of the list, or has just done so.
Removes(l) == l.pc = "head" \/ (l.pc \in {"advance", "relink"} /\ l.prev # NULL)
Removed(l) == l.pc = "destroy" \/ (l.pc \in {"advance", "relink"} /\ l.prev = NULL)

Out(L, k) == \E w \in Workers : Removed(L[w]) /\ L[w].temp = k

\* k is followed by x.
Leads(m, L, k, x) ==
    IF Links(L, k)
    THEN /\ m[k].next = NULL
         /\ \E w \in Workers : L[w].pc = "link_next" /\ L[w].temp = k /\ L[w].next = x
    ELSE m[k].next = x

\* s[1], ..., s[n] are the cells of the list.
Chain(m, h, L, n, s) ==
    /\ h = Elem(n, s, 1)
    /\ \A i \in 1 .. n : m[s[i]] # NULL /\ Leads(m, L, s[i], Elem(n, s, i + 1))
    /\ \A i, j \in 1 .. n : s[i] = s[j] => i = j

OneWriter(L) == \A w, v \in Workers : Writing(L[w]) /\ Writing(L[v]) => w = v

\* A search that is at c comes to k, which is in the list.
Ahead(m, n, s, c, k) ==
    \E i, j \in 1 .. n :
        /\ i <= j /\ k = s[j]
        /\ c = s[i] \/ (c \in Cells /\ c \notin ListCells(n, s) /\ m[c].next = s[i])

SearchOK(m, L, n, s, sv, tn, v) ==
    /\ L[v].prev = NULL /\ L[v].temp = NULL
    /\ L[v].cur = NULL \/ L[v].cur \in ListCells(n, s) \/ Out(L, L[v].cur)
    /\ \A k \in sv[v] : /\ k \in ListCells(n, s)
                        /\ ContainPort(<<m[k].stream>>, L[v].port)
                        /\ v \notin tn => Ahead(m, n, s, L[v].cur, k)

\* The copies of the first d streams of b are in the list, each behind its stream.
Added(m, b, to, n, s, d) ==
    /\ n = Len(b) + d
    /\ \A i \in 1 .. n : m[s[i]].stream = IF i <= 2 * d THEN AddTemporaryStreams(b, to)[i]
                                                        ELSE b[i - d]

\* Where a worker is while it is in add_temporary_streams.
AdderPCs == {"copy", "alloc", "fill", "link", "link_next"}

AddOK(m, b, n, s, l) ==
    \E p \in 1 .. Len(b) :
        /\ l.pc \in {"copy", "alloc", "fill", "link"} =>
             Added(m, b, l.to, n, s, p - 1) /\ l.cur = s[2 * p - 1]
        /\ l.pc \in {"alloc", "fill", "link"} => l.next = Elem(n, s, 2 * p)
        /\ l.pc \in {"fill", "link"} => l.temp \in Cells /\ l.temp \notin ListCells(n, s)
        /\ l.pc = "fill" => /\ m[l.temp] # NULL /\ m[l.temp].next = NULL
                            /\ m[l.temp].stream.temporary
        /\ l.pc = "link" => m[l.temp] = [stream |-> Copy(b[p], l.to), next |-> NULL]
        /\ l.pc = "link_next" =>
             /\ Added(m, b, l.to, n, s, p)
             /\ l.temp = s[2 * p] /\ l.next = Elem(n, s, 2 * p + 1)

\* g says where the streams of the list were in b, of which remove_temporary_streams
\* has done with the positions before q.
Done(m, b, n, s, g, q) ==
    /\ g \in [1 .. n -> 1 .. Len(b)]
    /\ \A i, j \in 1 .. n : i < j => g[i] < g[j]
    /\ \A x \in 1 .. Len(b) : x >= q \/ x \in Kept(b) <=> \E i \in 1 .. n : g[i] = x
    /\ \A i \in 1 .. n : /\ g[i] < q => m[s[i]].stream = Result(b, g[i])
                         /\ g[i] > q => m[s[i]].stream = b[g[i]]

\* The stream of position q, if it is in the list, is as it was.
Untouched(m, b, n, s, g, q) == \A j \in 1 .. n : g[j] = q => m[s[j]].stream = b[q]

\* The remover is at q, where the list has its i-th stream.
RemoverAt(m, b, n, s, l, g, q, i) ==
    /\ Done(m, b, n, s, g, q)
    /\ l.pc # "step" => l.prev = Elem(n, s, i - 1)
    /\ l.pc \in {"flip", "step"} \/ Removed(l) => Untouched(m, b, n, s, g, q)
    /\ l.pc = "flip" => i \in 1 .. n /\ l.cur = s[i] /\ g[i] = q /\ q \in Visited(b)
    /\ Removes(l) =>
         /\ i \in 1 .. n /\ g[i] = q /\ q \in Visited(b) /\ ~b[q].temporary
         /\ l.pc # "relink" => l.cur = s[i]
         /\ l.pc # "head" => l.temp = s[i]
         /\ l.pc = "relink" => i + 1 \in 1 .. n /\ l.cur = s[i + 1]
    /\ Removed(l) =>
         /\ l.temp \in Cells /\ l.temp \notin ListCells(n, s)
         /\ m[l.temp] # NULL /\ m[l.temp].next = Elem(n, s, i)
         /\ q - 1 \in 1 .. Len(b) /\ q - 1 \notin Kept(b) /\ q \notin Visited(b)
         /\ IF i \in 1 .. n THEN g[i] = q ELSE q = Len(b) + 1
         /\ l.pc = "advance" => l.cur = l.temp
         /\ l.pc # "advance" => i \in 1 .. n /\ l.cur = s[i]
    /\ l.pc = "step" =>
         /\ i \in 1 .. n /\ l.cur = s[i] /\ g[i] = q - 1
         /\ q \in 1 .. Len(b) => q \in Visited(b)

RemoveOK(m, b, n, s, l) ==
    \E q \in 1 .. Len(b) + 1, i \in 1 .. n + 1 : \E g \in [1 .. n -> 1 .. Len(b)] :
        RemoverAt(m, b, n, s, l, g, q, i)

WriterOK(m, b, n, s, l) ==
    /\ l.pc \in AdderPCs => AddOK(m, b, n, s, l)
    /\ l.pc \in {"flip", "head", "advance", "relink", "destroy", "step"} =>
         RemoveOK(m, b, n, s, l)

Shape(m, h, L, b, sv, tn, n, s) ==
    /\ b \in Seq(Stream)
    /\ Chain(m, h, L, n, s)
    /\ OneWriter(L)
    /\ \A v \in Workers :
         /\ L[v].pc = "idle" => L[v] = Idle
         /\ L[v].pc = "match" => SearchOK(m, L, n, s, sv, tn, v)
         /\ WriterOK(m, b, n, s, L[v])

\* Only a copy that is still being made has no strings.
Filled(m, L) ==
    \A k \in Cells : \/ m[k] = NULL \/ m[k].stream \in Stream
                     \/ \E w \in Workers : L[w].pc = "fill" /\ L[w].temp = k

\* The inductive invariant: until a collision the list is a list, and the worker
\* that changes it has come as far as its program counter says.
StreamInv ==
    /\ TypeOK
    /\ Filled(mem, local)
    /\ collided \/ /\ \E n \in Nat : \E s \in [1 .. n -> Cells] :
                        Shape(mem, head, local, base, served, torn, n, s)
                   /\ fault => /\ RemoveTemporaryCrashes(base)
                               /\ \E w \in Workers : local[w].pc = "advance"

-----------------------------------------------------------------------------
(* What the shape says of the operators of the model. *)

LEMMA ElemType ==
    ASSUME NEW n \in Nat, NEW s \in [1 .. n -> Cells], NEW i
    PROVE  Elem(n, s, i) \in Pointer /\ (i \in 1 .. n <=> Elem(n, s, i) # NULL)
BY CellsAssumption DEF Elem, Pointer

\* Behind the i-th cell of the chain is the next one.
LEMMA AfterIs ==
    ASSUME NEW L, NEW m, NEW h, NEW n \in Nat, NEW s \in [1 .. n -> Cells],
           Chain(m, h, L, n, s), OneWriter(L), NEW i \in 1 .. n
    PROVE  After(L, m, s[i]) = Elem(n, s, i + 1)
<1>1. PICK k, x : k = s[i] /\ x = Elem(n, s, i + 1)
  OBVIOUS
<1>2. Leads(m, L, k, x)
  BY <1>1 DEF Chain
<1>3. CASE Links(L, k)
  <2>1. PICK w \in Workers : L[w].pc = "link_next" /\ L[w].temp = k /\ L[w].next = x
    BY <1>2, <1>3 DEF Leads
  <2>2. PICK v : v = CHOOSE u \in Workers : L[u].pc = "link_next" /\ L[u].temp = k
    OBVIOUS
  <2>3. v \in Workers /\ L[v].pc = "link_next" /\ After(L, m, k) = L[v].next
    BY <2>1, <2>2 DEF After
  <2>4. v = w
    BY <2>1, <2>3 DEF OneWriter, Writing
  <2>5. QED
    BY <1>1, <2>1, <2>3, <2>4
<1>4. CASE ~ Links(L, k)
  BY <1>1, <1>2, <1>4 DEF Leads, Links, After
<1>5. QED
  BY <1>3, <1>4

\* No more cells are in the list than there are.
LEMMA ListFits ==
    ASSUME NEW n \in Nat, NEW s \in [1 .. n -> Cells],
           \A i, j \in 1 .. n : s[i] = s[j] => i = j
    PROVE  n <= Cardinality(Cells)
<1>1. s \in Injection(1 .. n, Cells)
  BY DEF Injection, IsInjective
<1>2. Cardinality(1 .. n) = n
  BY FS_Interval
<1>3. IsFiniteSet(Cells)
  BY CellsAssumption
<1>4. QED
  BY <1>1, <1>2, <1>3, FS_Injection

Rest(n, s, i) == [x \in 1 .. n - i + 1 |-> s[i + x - 1]]

\* A rest of the list is its first cell and the rest behind it.
LEMMA RestStep ==
    ASSUME NEW n \in Nat, NEW s \in [1 .. n -> Cells], NEW i \in 1 .. n
    PROVE  Rest(n, s, i) = <<s[i]>> \o Rest(n, s, i + 1)
<1>1. Rest(n, s, i + 1) \in Seq(Cells) /\ Len(Rest(n, s, i + 1)) = n - i
  <2>1. Rest(n, s, i + 1) \in [1 .. n - i -> Cells]
    BY DEF Rest
  <2>2. n - i \in Nat
    OBVIOUS
  <2>3. QED
    BY <2>1, <2>2
<1>2. PICK r : r = Rest(n, s, i + 1)
  OBVIOUS
<1>3. <<s[i]>> \in Seq(Cells) /\ Len(<<s[i]>>) = 1
  OBVIOUS
<1>4. PICK t, a : a = <<s[i]>> /\ t = a \o r
  OBVIOUS
<1>5. t \in Seq(Cells) /\ Len(t) = n - i + 1
  <2>1. a \in Seq(Cells) /\ r \in Seq(Cells) /\ Len(a) = 1 /\ Len(r) = n - i
    BY <1>1, <1>2, <1>3, <1>4
  <2>2. t \in Seq(Cells) /\ Len(t) = Len(a) + Len(r)
    BY <1>4, <2>1, ConcatProperties, Zenon
  <2>3. QED
    BY <2>1, <2>2
<1>6. ASSUME NEW x \in 1 .. n - i + 1 PROVE t[x] = s[i + x - 1]
  <2>1. CASE x = 1
    BY <1>1, <1>2, <1>3, <1>4, <2>1, ConcatProperties
  <2>2. CASE x # 1
    <3>1. x - 1 \in 1 .. n - i
      BY <2>2
    <3>2. t[x] = r[x - 1]
      BY <1>1, <1>2, <1>3, <1>4, <3>1, ConcatProperties
    <3>3. r[x - 1] = s[(i + 1) + (x - 1) - 1]
      BY <1>2, <3>1 DEF Rest
    <3>4. (i + 1) + (x - 1) - 1 = i + x - 1
      OBVIOUS
    <3>5. QED
      BY <3>2, <3>3, <3>4
  <2>3. QED
    BY <2>1, <2>2
<1>7. t = [x \in 1 .. n - i + 1 |-> t[x]]
  BY <1>5
<1>8. Rest(n, s, i) = t
  BY <1>6, <1>7 DEF Rest
<1>9. QED
  BY <1>2, <1>4, <1>8

\* The cells that Places collects are those of the list.
LEMMA CellsOfIs ==
    ASSUME NEW L \in [Workers -> Local], NEW m \in [Cells -> Cell \cup {NULL}], NEW h,
           NEW n \in Nat, NEW s \in [1 .. n -> Cells],
           Chain(m, h, L, n, s), OneWriter(L)
    PROVE  CellsOf(L, m, h) = s
<1>1. PICK N, f : N = Cardinality(Cells) /\ f = CellsFrom(L, m, N)
  OBVIOUS
<1>2. N \in Nat /\ n <= N
  <2>1. \A i, j \in 1 .. n : s[i] = s[j] => i = j
    BY DEF Chain
  <2>2. QED
    BY <1>1, <2>1, ListFits, CellsAssumption, FS_CardinalityType
<1>3. Walks(L, m, f, N)
  BY <1>1, <1>2, CellsFromWalks
<1> DEFINE I == {j \in 0 .. N : \E i \in 1 .. n + 1 :
                     n - i + 1 <= j /\ f[j][Elem(n, s, i)] # Rest(n, s, i)}
<1>4. ASSUME I # {} PROVE FALSE
  <2>1. PICK j \in I : \A x \in I : j <= x
    <3>1. \A x \in I : x \in Nat
      OBVIOUS
    <3> HIDE DEF I
    <3>2. QED
      BY <1>4, <3>1, MinOfNaturals
  <2>2. PICK i \in 1 .. n + 1 :
            n - i + 1 <= j /\ f[j][Elem(n, s, i)] # Rest(n, s, i)
    OBVIOUS
  <2>3. j \in 0 .. N /\ f[j][Elem(n, s, i)] = Walk(L, m, f, j, Elem(n, s, i))
    BY <1>3, ElemType DEF Walks
  <2>4. CASE i = n + 1
    <3>1. Elem(n, s, i) = NULL
      BY <2>4 DEF Elem
    <3>2. Rest(n, s, i) = <<>>
      <4>1. n - i + 1 = 0
        BY <2>4
      <4>2. QED
        BY <4>1 DEF Rest
    <3>3. QED
      BY <2>2, <2>3, <3>1, <3>2 DEF Walk
  <2>5. CASE i # n + 1
    <3>1. i \in 1 .. n /\ j # 0
      BY <1>2, <2>2, <2>3, <2>5
    <3>2. Elem(n, s, i) = s[i] /\ s[i] # NULL /\ m[s[i]] # NULL
      BY <3>1, CellsAssumption DEF Elem, Chain
    <3>3. Walk(L, m, f, j, s[i]) = <<s[i]>> \o f[j - 1][Elem(n, s, i + 1)]
      BY <3>1, <3>2, AfterIs DEF Walk
    <3>4. f[j - 1][Elem(n, s, i + 1)] = Rest(n, s, i + 1)
      <4>1. j - 1 \in 0 .. N /\ ~ (j <= j - 1)
        BY <1>2, <2>3, <3>1
      <4>2. i + 1 \in 1 .. n + 1 /\ n - (i + 1) + 1 <= j - 1
        BY <2>2, <2>3, <3>1
      <4>3. j - 1 \notin I
        BY <2>1, <4>1
      <4>4. QED
        BY <4>1, <4>2, <4>3
    <3>5. QED
      BY <2>2, <2>3, <3>1, <3>2, <3>3, <3>4, RestStep
  <2>6. QED
    BY <2>4, <2>5
<1>5. f[N][Elem(n, s, 1)] = Rest(n, s, 1)
  <2>1. N \in 0 .. N /\ 1 \in 1 .. n + 1 /\ n - 1 + 1 <= N
    BY <1>2
  <2>2. N \notin I
    BY <1>4
  <2>3. QED
    BY <2>1, <2>2
<1> HIDE DEF I
<1>6. Rest(n, s, 1) = s
  <2>1. n - 1 + 1 = n /\ \A x \in 1 .. n : 1 + x - 1 = x
    OBVIOUS
  <2>2. Rest(n, s, 1) = [x \in 1 .. n |-> s[x]]
    <3>1. Rest(n, s, 1) = [x \in 1 .. n |-> s[1 + x - 1]]
      BY <2>1 DEF Rest
    <3>2. QED
      BY <2>1, <3>1
  <2>3. QED
    BY <2>2
<1>7. QED
  BY <1>1, <1>5, <1>6 DEF CellsOf, Chain

-----------------------------------------------------------------------------
(* One worker's step, seen by the others. *)

\* Remember, of any two states.
Remembers(L, m2, h2, L2, sv, sv2) ==
    \A w \in Workers :
        sv2[w] = IF L2[w].pc # "match" THEN {}
                 ELSE {k \in {CellsOf(L2, m2, h2)[i] : i \in DOMAIN CellsOf(L2, m2, h2)} :
                          /\ k \in sv[w] \/ L[w].pc = "idle"
                          /\ ContainPort(<<m2[k].stream>>, L2[w].port)}

\* Remember, in terms of the values before and after.
LEMMA RememberIs ==
    Remember => Remembers(local, mem', head', local', served, served')
BY PlacesIs DEF Remember, Remembers, Linked

\* What a search remembers after the step: cells of the list it knew or begins with.
LEMMA Remembered ==
    ASSUME NEW L, NEW L2 \in [Workers -> Local], NEW m2 \in [Cells -> Cell \cup {NULL}],
           NEW h2, NEW sv, NEW sv2, NEW n2 \in Nat, NEW s2 \in [1 .. n2 -> Cells],
           Remembers(L, m2, h2, L2, sv, sv2), Chain(m2, h2, L2, n2, s2), OneWriter(L2),
           NEW v \in Workers
    PROVE  \A k \in sv2[v] : /\ k \in ListCells(n2, s2)
                             /\ k \in sv[v] \/ L[v].pc = "idle"
                             /\ ContainPort(<<m2[k].stream>>, L2[v].port)
<1>1. CellsOf(L2, m2, h2) = s2
  BY CellsOfIs
<1>2. DOMAIN s2 = 1 .. n2
  OBVIOUS
<1>3. {CellsOf(L2, m2, h2)[i] : i \in DOMAIN CellsOf(L2, m2, h2)} = ListCells(n2, s2)
  BY <1>1, <1>2 DEF ListCells
<1>4. QED
  BY <1>3, Zenon DEF Remembers

\* A search that is at a cell of the list, or at the one that is taken out, is
\* so after the step, and what was ahead of it is ahead.
Follows(m, L, n, s, m2, L2, n2, s2) ==
    \A v \in Workers : \A c \in Cells :
        L[v].pc = "match" /\ L[v].cur = c /\ (c \in ListCells(n, s) \/ Out(L, c)) =>
            /\ c \in ListCells(n2, s2) \/ Out(L2, c)
            /\ \A k \in ListCells(n2, s2) : Ahead(m, n, s, c, k) => Ahead(m2, n2, s2, c, k)

\* A search that does not move stays right when the list follows.
LEMMA SearchKept ==
    ASSUME NEW m, NEW L, NEW n \in Nat, NEW s \in [1 .. n -> Cells], NEW sv, NEW tn,
           NEW v \in Workers, SearchOK(m, L, n, s, sv, tn, v), L[v].pc = "match",
           L[v].cur \in Pointer,
           NEW m2, NEW L2, NEW n2 \in Nat, NEW s2 \in [1 .. n2 -> Cells], NEW sv2,
           NEW tn2, v \notin tn2 => v \notin tn,
           L2[v] = L[v], Follows(m, L, n, s, m2, L2, n2, s2),
           \A k \in sv2[v] : /\ k \in ListCells(n2, s2) /\ k \in sv[v]
                             /\ ContainPort(<<m2[k].stream>>, L2[v].port)
    PROVE  SearchOK(m2, L2, n2, s2, sv2, tn2, v)
<1>1. CASE L[v].cur = NULL
  <2>1. ASSUME NEW k \in sv2[v], v \notin tn2 PROVE FALSE
    <3>1. Ahead(m, n, s, NULL, k)
      BY <1>1, <2>1 DEF SearchOK
    <3>2. QED
      BY <3>1, CellsAssumption DEF Ahead
  <2>2. QED
    BY <1>1, <2>1 DEF SearchOK
<1>2. CASE L[v].cur # NULL
  <2>1. PICK c \in Cells : c = L[v].cur
    BY <1>2 DEF Pointer
  <2>2. c \in ListCells(n, s) \/ Out(L, c)
    BY <1>2, <2>1 DEF SearchOK
  <2>3. /\ c \in ListCells(n2, s2) \/ Out(L2, c)
        /\ \A k \in ListCells(n2, s2) : Ahead(m, n, s, c, k) => Ahead(m2, n2, s2, c, k)
    BY <2>1, <2>2 DEF Follows
  <2>4. \A k \in sv2[v] : v \notin tn2 => Ahead(m, n, s, c, k)
    BY <2>1 DEF SearchOK
  <2>5. QED
    BY <2>1, <2>3, <2>4 DEF SearchOK
<1>3. QED
  BY <1>1, <1>2

\* A step of the worker that changes the list, or begins to with the list b2.
LEMMA WriterStep ==
    ASSUME NEW m, NEW h, NEW L \in [Workers -> Local], NEW b, NEW sv, NEW tn,
           NEW n \in Nat, NEW s \in [1 .. n -> Cells], Shape(m, h, L, b, sv, tn, n, s),
           NEW w \in Workers, \A v \in Workers : v # w => ~Writing(L[v]),
           NEW b2 \in Seq(Stream),
           NEW l \in Local, l.pc # "match", l.pc = "idle" => l = Idle,
           NEW m2 \in [Cells -> Cell \cup {NULL}], NEW h2,
           NEW L2, L2 = [L EXCEPT ![w] = l], NEW sv2,
           NEW n2 \in Nat, NEW s2 \in [1 .. n2 -> Cells],
           Remembers(L, m2, h2, L2, sv, sv2), Chain(m2, h2, L2, n2, s2),
           WriterOK(m2, b2, n2, s2, l), Follows(m, L, n, s, m2, L2, n2, s2)
    PROVE  Shape(m2, h2, L2, b2, sv2, tn, n2, s2)
<1>1. L2 \in [Workers -> Local] /\ L2[w] = l /\ \A v \in Workers : v # w => L2[v] = L[v]
  OBVIOUS
<1>2. \A v \in Workers : v # w => L[v].pc \in {"idle", "match"}
  BY DEF Writing
<1>3. OneWriter(L2)
  BY <1>1, <1>2 DEF OneWriter, Writing
<1>4. ASSUME NEW v \in Workers, v # w, L2[v].pc = "match"
      PROVE  SearchOK(m2, L2, n2, s2, sv2, tn, v)
  <2>1. L2[v] = L[v] /\ L[v].pc = "match" /\ L[v].cur \in Pointer
    BY <1>1, <1>4 DEF Local, Pointer
  <2>2. SearchOK(m, L, n, s, sv, tn, v)
    BY <2>1 DEF Shape
  <2>3. \A k \in sv2[v] : /\ k \in ListCells(n2, s2) /\ k \in sv[v]
                          /\ ContainPort(<<m2[k].stream>>, L2[v].port)
    BY <1>1, <1>3, <2>1, Remembered
  <2>4. QED
    BY <2>1, <2>2, <2>3, SearchKept
<1>5. ASSUME NEW v \in Workers
      PROVE  /\ L2[v].pc = "idle" => L2[v] = Idle
             /\ L2[v].pc = "match" => SearchOK(m2, L2, n2, s2, sv2, tn, v)
             /\ WriterOK(m2, b2, n2, s2, L2[v])
  <2>1. CASE v = w
    BY <1>1, <2>1
  <2>2. CASE v # w
    <3>1. L2[v] = L[v] /\ L[v].pc \in {"idle", "match"}
      BY <1>1, <1>2, <2>2
    <3>2. L[v].pc = "idle" => L[v] = Idle
      BY DEF Shape
    <3>3. WriterOK(m2, b2, n2, s2, L2[v])
      BY <3>1 DEF WriterOK, AdderPCs
    <3>4. QED
      BY <1>4, <2>2, <3>1, <3>2, <3>3
  <2>3. QED
    BY <2>1, <2>2
<1>6. QED
  BY <1>3, <1>5 DEF Shape

\* A worker that searches before and after its step, or is idle.
LEMMA SearcherStep ==
    ASSUME NEW m \in [Cells -> Cell \cup {NULL}], NEW h, NEW L \in [Workers -> Local],
           NEW b, NEW sv, NEW tn,
           NEW n \in Nat, NEW s \in [1 .. n -> Cells], Shape(m, h, L, b, sv, tn, n, s),
           NEW w \in Workers, ~Writing(L[w]),
           NEW l \in Local, ~Writing(l), l.pc = "idle" => l = Idle,
           NEW L2, L2 = [L EXCEPT ![w] = l], NEW sv2, NEW tn2,
           \A v \in Workers : v # w => (v \in tn <=> v \in tn2),
           Remembers(L, m, h, L2, sv, sv2),
           l.pc = "match" /\ Chain(m, h, L2, n, s) /\ OneWriter(L2)
               => SearchOK(m, L2, n, s, sv2, tn2, w)
    PROVE  Shape(m, h, L2, b, sv2, tn2, n, s)
<1>1. L2 \in [Workers -> Local] /\ L2[w] = l /\ \A v \in Workers : v # w => L2[v] = L[v]
  OBVIOUS
<1>2. \A v \in Workers : Writing(L[v]) \/ Writing(L2[v]) => L2[v] = L[v] /\ v # w
  BY <1>1
<1>3. OneWriter(L2)
  BY <1>2 DEF OneWriter, Shape
<1>4. \A c : Out(L2, c) <=> Out(L, c)
  BY <1>2 DEF Out, Removed, Writing
<1>5. Chain(m, h, L2, n, s)
  <2>1. \A c, x : Leads(m, L2, c, x) <=> Leads(m, L, c, x)
    BY <1>2 DEF Leads, Links, Writing
  <2>2. QED
    BY <2>1 DEF Shape, Chain
<1>6. Follows(m, L, n, s, m, L2, n, s)
  BY <1>4 DEF Follows
<1>7. ASSUME NEW v \in Workers, v # w, L2[v].pc = "match"
      PROVE  SearchOK(m, L2, n, s, sv2, tn2, v)
  <2>1. L2[v] = L[v] /\ L[v].pc = "match" /\ L[v].cur \in Pointer
    BY <1>1, <1>7 DEF Local, Pointer
  <2>2. SearchOK(m, L, n, s, sv, tn, v)
    BY <2>1 DEF Shape
  <2>3. \A k \in sv2[v] : /\ k \in ListCells(n, s) /\ k \in sv[v]
                          /\ ContainPort(<<m[k].stream>>, L2[v].port)
    BY <1>1, <1>3, <1>5, <2>1, Remembered
  <2>4. QED
    BY <1>6, <1>7, <2>1, <2>2, <2>3, SearchKept
<1>8. ASSUME NEW v \in Workers
      PROVE  /\ L2[v].pc = "idle" => L2[v] = Idle
             /\ L2[v].pc = "match" => SearchOK(m, L2, n, s, sv2, tn2, v)
             /\ WriterOK(m, b, n, s, L2[v])
  <2>1. CASE v = w
    <3>1. WriterOK(m, b, n, s, l)
      BY DEF WriterOK, Writing, AdderPCs
    <3>2. QED
      BY <1>1, <1>3, <1>5, <2>1, <3>1
  <2>2. CASE v # w
    <3>1. L2[v] = L[v]
      BY <1>1, <2>2
    <3>2. /\ L[v].pc = "idle" => L[v] = Idle
          /\ WriterOK(m, b, n, s, L[v])
      BY DEF Shape
    <3>3. QED
      BY <1>7, <2>2, <3>1, <3>2
  <2>3. QED
    BY <2>1, <2>2
<1>9. b \in Seq(Stream)
  BY DEF Shape
<1>10. QED
  BY <1>3, <1>5, <1>8, <1>9 DEF Shape

\* A step of the one writer that leaves the cells of the list the same ones.
LEMMA SameStep ==
    ASSUME NEW m, NEW h, NEW L \in [Workers -> Local], NEW b, NEW sv, NEW tn,
           NEW n \in Nat, NEW s \in [1 .. n -> Cells], Shape(m, h, L, b, sv, tn, n, s),
           NEW w \in Workers, \A v \in Workers : v # w => ~Writing(L[v]),
           NEW b2 \in Seq(Stream),
           NEW l \in Local, l.pc # "match", l.pc = "idle" => l = Idle,
           NEW m2 \in [Cells -> Cell \cup {NULL}],
           NEW L2, L2 = [L EXCEPT ![w] = l], NEW sv2,
           Remembers(L, m2, h, L2, sv, sv2), Chain(m2, h, L2, n, s),
           WriterOK(m2, b2, n, s, l), Follows(m, L, n, s, m2, L2, n, s)
    PROVE  Shape(m2, h, L2, b2, sv2, tn, n, s)
<1>1. ASSUME NEW n2 \in Nat, NEW s2 \in [1 .. n2 -> Cells], NEW h2,
             Remembers(L, m2, h2, L2, sv, sv2), Chain(m2, h2, L2, n2, s2),
             WriterOK(m2, b2, n2, s2, l), Follows(m, L, n, s, m2, L2, n2, s2)
      PROVE  Shape(m2, h2, L2, b2, sv2, tn, n2, s2)
  BY <1>1, WriterStep
<1>2. QED
  BY <1>1

\* There is one writer at most.
LEMMA OnlyWriter ==
    ASSUME NEW L, OneWriter(L), NEW w \in Workers, Writing(L[w])
    PROVE  \A v \in Workers : v # w => ~Writing(L[v])
BY DEF OneWriter

-----------------------------------------------------------------------------
(* The steps of a search *)

LEMMA BeginShape ==
    ASSUME NEW m \in [Cells -> Cell \cup {NULL}], NEW h, NEW L \in [Workers -> Local],
           NEW b, NEW sv, NEW tn,
           NEW n \in Nat, NEW s \in [1 .. n -> Cells], Shape(m, h, L, b, sv, tn, n, s),
           NEW w \in Workers, L[w].pc = "idle",
           NEW op, NEW port, NEW to,
           NEW l \in Local, l = [Idle EXCEPT !.pc = "match", !.op = op, !.port = port,
                                             !.to = to, !.cur = h],
           NEW L2, L2 = [L EXCEPT ![w] = l], NEW sv2, NEW tn2, tn2 = tn \ {w},
           Remembers(L, m, h, L2, sv, sv2)
    PROVE  Shape(m, h, L2, b, sv2, tn2, n, s)
<1>1. l.pc = "match" /\ l.cur = h /\ l.prev = NULL /\ l.temp = NULL
  BY DEF Idle
<1>2. L2 \in [Workers -> Local] /\ L2[w] = l
  OBVIOUS
<1>3. ~Writing(L[w]) /\ ~Writing(l)
  BY <1>1 DEF Writing
<1>4. ASSUME Chain(m, h, L2, n, s), OneWriter(L2)
      PROVE  SearchOK(m, L2, n, s, sv2, tn2, w)
  <2>1. h = Elem(n, s, 1)
    BY <1>4 DEF Chain
  <2>2. h = NULL \/ h \in ListCells(n, s)
    BY <2>1 DEF Elem, ListCells
  <2>3. ASSUME NEW k \in sv2[w]
        PROVE  /\ k \in ListCells(n, s)
               /\ ContainPort(<<m[k].stream>>, L2[w].port)
               /\ Ahead(m, n, s, h, k)
    <3>1. k \in ListCells(n, s) /\ ContainPort(<<m[k].stream>>, L2[w].port)
      BY <1>2, <1>4, <2>3, Remembered
    <3>2. PICK j \in 1 .. n : k = s[j]
      BY <3>1 DEF ListCells
    <3>3. 1 \in 1 .. n /\ 1 <= j
      BY <3>2
    <3>4. h = s[1]
      BY <2>1, <3>3 DEF Elem
    <3>5. QED
      BY <3>1, <3>2, <3>3, <3>4 DEF Ahead
  <2>4. QED
    BY <1>1, <1>2, <2>2, <2>3 DEF SearchOK
<1>5. \A v \in Workers : v # w => (v \in tn <=> v \in tn2)
  OBVIOUS
<1>6. QED
  BY <1>1, <1>3, <1>4, <1>5, SearcherStep

\* A worker whose search ends becomes idle.
LEMMA EndShape ==
    ASSUME NEW m \in [Cells -> Cell \cup {NULL}], NEW h, NEW L \in [Workers -> Local],
           NEW b, NEW sv, NEW tn,
           NEW n \in Nat, NEW s \in [1 .. n -> Cells], Shape(m, h, L, b, sv, tn, n, s),
           NEW w \in Workers, L[w].pc = "match",
           NEW L2, L2 = [L EXCEPT ![w] = Idle], NEW sv2,
           Remembers(L, m, h, L2, sv, sv2)
    PROVE  Shape(m, h, L2, b, sv2, tn, n, s)
<1>1. ~Writing(L[w]) /\ ~Writing(Idle) /\ Idle.pc = "idle" /\ Idle \in Local
  BY IdleType DEF Writing, Idle
<1>2. QED
  BY <1>1, SearcherStep

\* What is taken out of the list leads to a stream of the list, or is the last.
OutOK(m, L, n, s, c) ==
    /\ c \in Cells /\ c \notin ListCells(n, s) /\ m[c] # NULL
    /\ \E i \in 1 .. n + 1 : m[c].next = Elem(n, s, i)
    /\ \A k : ~Links(L, k)

\* A cell that was taken out still leads back into the list.
LEMMA OutLeads ==
    ASSUME NEW m, NEW h, NEW L, NEW b, NEW sv, NEW tn,
           NEW n \in Nat, NEW s \in [1 .. n -> Cells], Shape(m, h, L, b, sv, tn, n, s),
           NEW c, Out(L, c)
    PROVE  OutOK(m, L, n, s, c)
<1>1. PICK v \in Workers : Removed(L[v]) /\ L[v].temp = c
  BY DEF Out
<1>2. PICK l : l = L[v]
  OBVIOUS
<1>3. l.pc \in {"destroy", "advance", "relink"}
  BY <1>1, <1>2 DEF Removed
<1>4. RemoveOK(m, b, n, s, l)
  BY <1>2, <1>3 DEF Shape, WriterOK
<1>5. PICK q \in 1 .. Len(b) + 1, i \in 1 .. n + 1 : \E g \in [1 .. n -> 1 .. Len(b)] :
           RemoverAt(m, b, n, s, l, g, q, i)
  BY <1>4 DEF RemoveOK
<1>6. /\ l.temp \in Cells /\ l.temp \notin ListCells(n, s)
      /\ m[l.temp] # NULL /\ m[l.temp].next = Elem(n, s, i)
  BY <1>1, <1>2, <1>5 DEF RemoverAt
<1>7. \A k : ~Links(L, k)
  <2>1. Writing(L[v]) /\ L[v].pc # "link_next"
    BY <1>2, <1>3 DEF Writing
  <2>2. \A u \in Workers : L[u].pc = "link_next" => u = v
    BY <2>1 DEF Shape, OneWriter, Writing
  <2>3. QED
    BY <2>1, <2>2 DEF Links
<1>8. QED
  BY <1>1, <1>2, <1>6, <1>7 DEF OutOK

GoesTo(l, x) == [l EXCEPT !.cur = x]

\* torn, after worker w has read x at c.
Torn(L, m, c, x, tn, w) == IF After(L, m, c) # x THEN tn \cup {w} ELSE tn

\* A search that goes on has passed nothing that serves its port.
LEMMA MatchNextShape ==
    ASSUME NEW m \in [Cells -> Cell \cup {NULL}], NEW h, NEW L \in [Workers -> Local],
           NEW b, NEW sv, NEW tn,
           NEW n \in Nat, NEW s \in [1 .. n -> Cells], Shape(m, h, L, b, sv, tn, n, s),
           NEW w \in Workers, L[w].pc = "match",
           NEW c \in Cells, c = L[w].cur, ~ContainPort(<<m[c].stream>>, L[w].port),
           NEW x, x = m[c].next,
           NEW l \in Local, l = GoesTo(L[w], x),
           NEW L2, L2 = [L EXCEPT ![w] = l], NEW sv2,
           NEW tn2, tn2 = Torn(L, m, c, x, tn, w),
           Remembers(L, m, h, L2, sv, sv2)
    PROVE  Shape(m, h, L2, b, sv2, tn2, n, s)
<1>1. L2 \in [Workers -> Local] /\ L2[w] = l
  OBVIOUS
<1>2. /\ l.pc = "match" /\ l.cur = x /\ l.prev = L[w].prev /\ l.temp = L[w].temp
      /\ l.port = L[w].port
  <2>1. L[w] \in Local
    OBVIOUS
  <2>2. QED
    BY <2>1 DEF Local, GoesTo
<1>3. SearchOK(m, L, n, s, sv, tn, w) /\ Chain(m, h, L, n, s) /\ OneWriter(L)
  BY DEF Shape
<1>4. ASSUME Chain(m, h, L2, n, s), OneWriter(L2)
      PROVE  SearchOK(m, L2, n, s, sv2, tn2, w)
  <2>1. \A k \in sv2[w] : /\ k \in ListCells(n, s) /\ k \in sv[w]
                          /\ ContainPort(<<m[k].stream>>, L2[w].port)
    BY <1>1, <1>4, Remembered, ZenonT(40)
  <2>2. ASSUME NEW k \in sv2[w], w \notin tn2
        PROVE  w \notin tn /\ After(L, m, c) = x /\ Ahead(m, n, s, c, k) /\ k # c
    <3>1. w \notin tn /\ After(L, m, c) = x
      BY <2>2 DEF Torn
    <3>2. Ahead(m, n, s, c, k)
      BY <1>3, <2>1, <3>1 DEF SearchOK
    <3>3. k # c
      BY <1>1, <1>2, <2>1
    <3>4. QED
      BY <3>1, <3>2, <3>3
  <2>3. CASE c \in ListCells(n, s)
    <3>1. PICK i \in 1 .. n : c = s[i]
      BY <2>3 DEF ListCells
    <3>2. Leads(m, L, c, Elem(n, s, i + 1)) /\ After(L, m, c) = Elem(n, s, i + 1)
      <4>1. Leads(m, L, s[i], Elem(n, s, i + 1))
        BY <1>3 DEF Chain
      <4>2. After(L, m, s[i]) = Elem(n, s, i + 1)
        BY <1>3, AfterIs
      <4>3. QED
        BY <3>1, <4>1, <4>2
    <3>3. x = NULL \/ x \in ListCells(n, s)
      BY <3>2 DEF Leads, Elem, ListCells
    <3>4. ASSUME NEW k \in sv2[w], w \notin tn2
          PROVE  Ahead(m, n, s, x, k)
      <4>1. PICK p, j \in 1 .. n :
                p <= j /\ k = s[j] /\ (c = s[p] \/ (c \notin ListCells(n, s)))
        BY <2>2, <3>4 DEF Ahead
      <4>2. p = i
        BY <1>3, <2>3, <3>1, <4>1 DEF Chain
      <4>3. j # i
        BY <2>2, <3>1, <3>4, <4>1
      <4>4. i + 1 \in 1 .. n /\ i + 1 <= j
        BY <4>1, <4>2, <4>3
      <4>5. x = s[i + 1]
        BY <2>2, <3>2, <3>4, <4>4 DEF Elem
      <4>6. QED
        BY <4>1, <4>4, <4>5 DEF Ahead
    <3>5. QED
      BY <1>1, <1>2, <1>3, <2>1, <3>3, <3>4 DEF SearchOK
  <2>4. CASE c \notin ListCells(n, s)
    <3>1. Out(L, c)
      BY <1>3, <2>4, CellsAssumption DEF SearchOK
    <3>2. PICK i \in 1 .. n + 1 : x = Elem(n, s, i)
      <4>1. OutOK(m, L, n, s, c)
        BY <3>1, OutLeads
      <4>2. QED
        BY <4>1 DEF OutOK
    <3>3. x = NULL \/ x \in ListCells(n, s)
      BY <3>2 DEF Elem, ListCells
    <3>4. ASSUME NEW k \in sv2[w], w \notin tn2
          PROVE  Ahead(m, n, s, x, k)
      <4>1. PICK p, j \in 1 .. n : p <= j /\ k = s[j] /\ x = s[p]
        BY <2>2, <2>4, <3>4 DEF Ahead, ListCells
      <4>2. QED
        BY <4>1 DEF Ahead
    <3>5. QED
      BY <1>1, <1>2, <1>3, <2>1, <3>3, <3>4 DEF SearchOK
  <2>5. QED
    BY <2>3, <2>4
<1>5. \A v \in Workers : v # w => (v \in tn <=> v \in tn2)
  BY DEF Torn
<1>6. ~Writing(L[w]) /\ ~Writing(l) /\ l.pc # "idle"
  BY <1>2 DEF Writing
<1>7. QED
  BY <1>4, <1>5, <1>6, SearcherStep

-----------------------------------------------------------------------------
(* Steps that leave the list as it is *)

NoLinks(L) == \A k : ~Links(L, k)

\* Where no copy is half linked, a cell leads to its next pointer.
LEMMA LinksOf ==
    ASSUME NEW L, OneWriter(L), NEW w \in Workers, Writing(L[w]),
           L[w].pc # "link_next"
    PROVE  NoLinks(L)
BY DEF OneWriter, Writing, Links, NoLinks

\* The chain is the same when no next pointer of its cells changes.
LEMMA ChainSame ==
    ASSUME NEW m, NEW h, NEW L, NEW n \in Nat, NEW s \in [1 .. n -> Cells],
           Chain(m, h, L, n, s), NoLinks(L),
           NEW m2, NEW L2, NoLinks(L2),
           \A i \in 1 .. n : m2[s[i]] # NULL /\ m2[s[i]].next = m[s[i]].next
    PROVE  Chain(m2, h, L2, n, s)
<1>1. \A i \in 1 .. n : Leads(m2, L2, s[i], Elem(n, s, i + 1))
  <2>1. TAKE i \in 1 .. n
  <2>2. PICK k, x : k = s[i] /\ x = Elem(n, s, i + 1)
    OBVIOUS
  <2>3. Leads(m, L, k, x)
    BY <2>2 DEF Chain
  <2>4. Leads(m2, L2, k, x)
    BY <2>2, <2>3 DEF Leads, NoLinks
  <2>5. QED
    BY <2>2, <2>4
<1>2. QED
  BY <1>1 DEF Chain

\* So is what a search sees of it.
LEMMA FollowsSame ==
    ASSUME NEW m, NEW L, NEW n, NEW s, NEW m2, NEW L2,
           \A c \in Cells : Out(L, c) =>
              \/ m2[c].next = m[c].next /\ Out(L2, c)
              \/ \A v \in Workers : ~ (L[v].pc = "match" /\ L[v].cur = c)
    PROVE  Follows(m, L, n, s, m2, L2, n, s)
<1>1. SUFFICES ASSUME NEW v \in Workers, NEW c \in Cells, L[v].pc = "match", L[v].cur = c,
                      c \in ListCells(n, s) \/ Out(L, c)
               PROVE  /\ c \in ListCells(n, s) \/ Out(L2, c)
                      /\ \A k \in ListCells(n, s) : Ahead(m, n, s, c, k) => Ahead(m2, n, s, c, k)
  BY DEF Follows
<1>2. c \in ListCells(n, s) \/ Out(L2, c)
  BY <1>1
<1>3. ASSUME NEW k, Ahead(m, n, s, c, k) PROVE Ahead(m2, n, s, c, k)
  <2>1. c \notin ListCells(n, s) => m2[c].next = m[c].next
    BY <1>1
  <2>2. QED
    BY <1>3, <2>1 DEF Ahead
<1>4. QED
  BY <1>2, <1>3

\* Nothing is taken out while another worker copies.
LEMMA NothingOut ==
    ASSUME NEW L, OneWriter(L), NEW w \in Workers, Writing(L[w]), ~Removed(L[w])
    PROVE  \A c : ~Out(L, c)
BY DEF OneWriter, Writing, Out, Removed

\* A script function that has found the port begins with the list as it is.
LEMMA FoundShape ==
    ASSUME NEW m \in [Cells -> Cell \cup {NULL}], NEW h, NEW L \in [Workers -> Local],
           NEW b, NEW sv, NEW tn,
           NEW n \in Nat, NEW s \in [1 .. n -> Cells], Shape(m, h, L, b, sv, tn, n, s),
           NEW w \in Workers, L[w].pc = "match", h # NULL,
           \A v \in Workers : ~Writing(L[v]),
           NEW l \in Local, l.pc \in {"copy", "flip"}, l.cur = h, l.prev = NULL,
           NEW L2, L2 = [L EXCEPT ![w] = l], NEW sv2,
           NEW b2 \in Seq(Stream), Len(b2) = n, \A i \in 1 .. n : b2[i] = m[s[i]].stream,
           Remembers(L, m, h, L2, sv, sv2)
    PROVE  Shape(m, h, L2, b2, sv2, tn, n, s)
<1>1. Chain(m, h, L, n, s) /\ OneWriter(L)
  BY DEF Shape
<1>2. h = s[1] /\ 1 \in 1 .. n
  BY <1>1 DEF Chain, Elem
<1>3. L2 \in [Workers -> Local] /\ L2[w] = l /\ \A v \in Workers : v # w => L2[v] = L[v]
  OBVIOUS
<1>4. NoLinks(L) /\ NoLinks(L2)
  <2>1. \A v \in Workers : L[v].pc # "link_next" /\ L2[v].pc # "link_next"
    BY <1>3 DEF Writing
  <2>2. QED
    BY <2>1 DEF NoLinks, Links
<1>5. Chain(m, h, L2, n, s)
  <2>1. \A i \in 1 .. n : m[s[i]] # NULL
    BY <1>1 DEF Chain
  <2>2. QED
    BY <1>1, <1>4, <2>1, ChainSame
<1>6. ASSUME NEW m2 \in [Cells -> Cell \cup {NULL}], l.pc # "match", l.pc # "idle",
             Remembers(L, m2, h, L2, sv, sv2), Chain(m2, h, L2, n, s),
             WriterOK(m2, b2, n, s, l), Follows(m, L, n, s, m2, L2, n, s)
      PROVE  Shape(m2, h, L2, b2, sv2, tn, n, s)
  BY <1>6, SameStep
<1>7. CASE l.pc = "copy"
  <2>1. Added(m, b2, l.to, n, s, 0)
    BY DEF Added
  <2>2. AddOK(m, b2, n, s, l)
    <3>1. 1 \in 1 .. Len(b2) /\ 1 - 1 = 0 /\ 2 * 1 - 1 = 1
      BY <1>2
    <3>2. l.pc = "copy" /\ l.cur = s[2 * 1 - 1]
      BY <1>2, <1>7
    <3>3. Added(m, b2, l.to, n, s, 1 - 1)
      BY <2>1, <3>1
    <3>4. QED
      BY <3>1, <3>2, <3>3 DEF AddOK
  <2>3. QED
    <3>1. WriterOK(m, b2, n, s, l)
      BY <1>7, <2>2 DEF WriterOK
    <3>2. \A c : ~Out(L, c)
      BY DEF Out, Removed, Writing
    <3>3. Follows(m, L, n, s, m, L2, n, s)
      BY <3>2, FollowsSame
    <3>4. l.pc # "match" /\ l.pc # "idle"
      OBVIOUS
    <3>5. QED
      BY <1>5, <1>6, <3>1, <3>3, <3>4
<1>8. CASE l.pc = "flip"
  <2> DEFINE g == [j \in 1 .. n |-> j]
  <2>1. Done(m, b2, n, s, g, 1)
    <3>1. g \in [1 .. n -> 1 .. Len(b2)]
      OBVIOUS
    <3>2. \A i \in 1 .. n : g[i] = i /\ ~ (g[i] < 1) /\ m[s[i]].stream = b2[g[i]]
      OBVIOUS
    <3>3. \A x \in 1 .. Len(b2) : x >= 1 /\ \E i \in 1 .. n : g[i] = x
      OBVIOUS
    <3>4. \A i, j \in 1 .. n : i < j => g[i] < g[j]
      OBVIOUS
    <3> HIDE DEF g
    <3>5. QED
      BY <3>1, <3>2, <3>3, <3>4 DEF Done
  <2>2. RemoverAt(m, b2, n, s, l, g, 1, 1)
    <3>1. 1 \in Visited(b2)
      BY <1>2, VisitedSteps
    <3>2. ~Removes(l) /\ ~Removed(l) /\ l.pc = "flip"
      BY <1>8 DEF Removes, Removed
    <3>3. l.prev = Elem(n, s, 1 - 1)
      BY DEF Elem
    <3>4. g[1] = 1 /\ l.cur = s[1] /\ Untouched(m, b2, n, s, g, 1)
      BY <1>2 DEF Untouched
    <3> HIDE DEF g
    <3>5. QED
      BY <1>2, <2>1, <3>1, <3>2, <3>3, <3>4 DEF RemoverAt
  <2>3. RemoveOK(m, b2, n, s, l)
    <3>1. 1 \in 1 .. Len(b2) + 1 /\ 1 \in 1 .. n + 1 /\ g \in [1 .. n -> 1 .. Len(b2)]
      OBVIOUS
    <3> HIDE DEF g
    <3>2. QED
      BY <2>2, <3>1 DEF RemoveOK
  <2>4. QED
    <3>1. WriterOK(m, b2, n, s, l)
      BY <1>8, <2>3 DEF WriterOK, AdderPCs
    <3>2. \A c : ~Out(L, c)
      BY DEF Out, Removed, Writing
    <3>3. Follows(m, L, n, s, m, L2, n, s)
      BY <3>2, FollowsSame
    <3>4. l.pc # "match" /\ l.pc # "idle"
      OBVIOUS
    <3>5. QED
      BY <1>5, <1>6, <3>1, <3>3, <3>4
<1>9. QED
  BY <1>7, <1>8

-----------------------------------------------------------------------------
(* The steps of add_temporary_streams *)

\* Only the cell k is written.
OnlyAt(m, m2, k) == \A x \in Cells : x # k => m2[x] = m[x]

\* What is known when a worker copies streams.
LEMMA AddState ==
    ASSUME NEW m, NEW h, NEW L, NEW b, NEW sv, NEW tn, NEW n, NEW s,
           Shape(m, h, L, b, sv, tn, n, s),
           NEW w \in Workers, L[w].pc \in AdderPCs
    PROVE  /\ b \in Seq(Stream) /\ Chain(m, h, L, n, s) /\ OneWriter(L)
           /\ AddOK(m, b, n, s, L[w])
           /\ Writing(L[w]) /\ (\A v \in Workers : v # w => ~Writing(L[v]))
           /\ \A c : ~Out(L, c)
<1>1. Writing(L[w]) /\ ~Removed(L[w])
  BY DEF AdderPCs, Writing, Removed
<1>2. OneWriter(L)
  BY DEF Shape
<1>3. WriterOK(m, b, n, s, L[w])
  BY DEF Shape
<1>4. QED
  BY <1>1, <1>2, <1>3, OnlyWriter, NothingOut DEF Shape, WriterOK

\* The copies made so far depend on the streams of the cells only.
LEMMA AddedSame ==
    ASSUME NEW m, NEW b, NEW to, NEW n, NEW s, NEW d, Added(m, b, to, n, s, d),
           NEW m2, \A i \in 1 .. n : m2[s[i]].stream = m[s[i]].stream
    PROVE  Added(m2, b, to, n, s, d)
BY DEF Added

\* A step of a worker that copies and writes, at most, a cell nothing leads to.
LEMMA PrivateStep ==
    ASSUME NEW m \in [Cells -> Cell \cup {NULL}], NEW h, NEW L \in [Workers -> Local],
           NEW b, NEW sv, NEW tn,
           NEW n \in Nat, NEW s \in [1 .. n -> Cells], Shape(m, h, L, b, sv, tn, n, s),
           NEW w \in Workers, L[w].pc \in {"copy", "alloc", "fill"},
           NEW m2 \in [Cells -> Cell \cup {NULL}],
           NEW k, k \notin ListCells(n, s), OnlyAt(m, m2, k),
           NEW l \in Local, l.pc \in {"alloc", "fill", "link"} \/ l = Idle,
           l.pc \in AdderPCs => AddOK(m2, b, n, s, l),
           NEW L2, L2 = [L EXCEPT ![w] = l], NEW sv2,
           Remembers(L, m2, h, L2, sv, sv2)
    PROVE  Shape(m2, h, L2, b, sv2, tn, n, s)
<1>1. /\ b \in Seq(Stream) /\ Chain(m, h, L, n, s) /\ OneWriter(L)
      /\ Writing(L[w]) /\ (\A v \in Workers : v # w => ~Writing(L[v]))
      /\ \A x : ~Out(L, x)
  <2>1. L[w].pc \in AdderPCs
    BY DEF AdderPCs
  <2>2. QED
    BY <2>1, AddState
<1>2. \A i \in 1 .. n : m2[s[i]] # NULL /\ m2[s[i]].next = m[s[i]].next
  BY <1>1 DEF Chain, ListCells, OnlyAt
<1>3. NoLinks(L)
  BY <1>1, LinksOf
<1>4. L2 \in [Workers -> Local] /\ L2[w] = l /\ \A v \in Workers : v # w => L2[v] = L[v]
  OBVIOUS
<1>5. l.pc \in {"alloc", "fill", "link", "idle"}
  BY DEF Idle
<1>6. NoLinks(L2)
  BY <1>1, <1>4, <1>5 DEF NoLinks, Links, Writing
<1>7. Chain(m2, h, L2, n, s)
  BY <1>1, <1>2, <1>3, <1>6, ChainSame
<1>8. WriterOK(m2, b, n, s, l)
  BY <1>5 DEF WriterOK, AdderPCs
<1>9. Follows(m, L, n, s, m2, L2, n, s)
  BY <1>1, FollowsSame
<1>10. l.pc # "match" /\ (l.pc = "idle" => l = Idle)
  BY <1>5
<1>11. QED
  BY <1>1, <1>7, <1>8, <1>9, <1>10, SameStep

\* The worker is at the p-th stream of b.
CopyAt(m, b, n, s, l, p) ==
    /\ Added(m, b, l.to, n, s, p - 1) /\ l.cur = s[2 * p - 1]
    /\ 2 * p - 1 \in 1 .. n /\ m[l.cur].stream = b[p] /\ b[p] \in Stream
    /\ l.pc = "copy" => m[l.cur].next = Elem(n, s, 2 * p)
    /\ l.pc \in {"alloc", "fill", "link"} => l.next = Elem(n, s, 2 * p)
    /\ l.pc \in {"fill", "link"} => l.temp \in Cells /\ l.temp \notin ListCells(n, s)
    /\ l.pc = "fill" => /\ m[l.temp] # NULL /\ m[l.temp].next = NULL
                        /\ m[l.temp].stream.temporary

\* What is known of the stream a worker copies.
LEMMA CopyState ==
    ASSUME NEW m, NEW h, NEW L, NEW b, NEW sv, NEW tn, NEW n \in Nat, NEW s,
           Shape(m, h, L, b, sv, tn, n, s),
           NEW w \in Workers, L[w].pc \in {"copy", "alloc", "fill", "link"}
    PROVE  \E p \in 1 .. Len(b) : CopyAt(m, b, n, s, L[w], p)
<1>1. L[w].pc \in AdderPCs
  BY DEF AdderPCs
<1>2. /\ b \in Seq(Stream) /\ Chain(m, h, L, n, s) /\ OneWriter(L)
      /\ AddOK(m, b, n, s, L[w]) /\ Writing(L[w])
  BY <1>1, AddState
<1>3. PICK p \in 1 .. Len(b) :
          /\ Added(m, b, L[w].to, n, s, p - 1) /\ L[w].cur = s[2 * p - 1]
          /\ L[w].pc \in {"alloc", "fill", "link"} => L[w].next = Elem(n, s, 2 * p)
          /\ L[w].pc \in {"fill", "link"} =>
               L[w].temp \in Cells /\ L[w].temp \notin ListCells(n, s)
          /\ L[w].pc = "fill" => /\ m[L[w].temp] # NULL /\ m[L[w].temp].next = NULL
                                 /\ m[L[w].temp].stream.temporary
  BY <1>2 DEF AddOK
<1>4. Len(b) \in Nat /\ n = Len(b) + (p - 1)
  BY <1>2, <1>3 DEF Added
<1>5. /\ 2 * p - 1 \in 1 .. n /\ ~ (2 * p - 1 <= 2 * (p - 1)) /\ (2 * p - 1) - (p - 1) = p
      /\ (2 * p - 1) + 1 = 2 * p
  <2>1. p \in Nat /\ 1 <= p /\ p <= Len(b)
    BY <1>4
  <2>2. 2 * p - 1 \in 1 .. n
    BY <1>4, <2>1
  <2>3. QED
    BY <2>1, <2>2
<1>6. m[s[2 * p - 1]].stream = b[p]
  BY <1>3, <1>5 DEF Added
<1>7. b[p] \in Stream
  BY <1>2, ElementOfSeq
<1>8. NoLinks(L)
  BY <1>2, LinksOf
<1>9. m[s[2 * p - 1]].next = Elem(n, s, 2 * p)
  <2>1. Leads(m, L, s[2 * p - 1], Elem(n, s, (2 * p - 1) + 1))
    BY <1>2, <1>5 DEF Chain
  <2>2. QED
    BY <1>5, <1>8, <2>1 DEF Leads, NoLinks
<1>10. QED
  BY <1>3, <1>5, <1>6, <1>7, <1>9 DEF CopyAt

\* The copies made so far are in the list, and a cell behind them is written.
LEMMA AddedStill ==
    ASSUME NEW m, NEW b, NEW to, NEW n, NEW s \in [1 .. n -> Cells], NEW d,
           Added(m, b, to, n, s, d),
           NEW m2, NEW k, k \notin ListCells(n, s), OnlyAt(m, m2, k)
    PROVE  Added(m2, b, to, n, s, d)
<1>1. \A i \in 1 .. n : m2[s[i]] = m[s[i]]
  BY DEF OnlyAt, ListCells
<1>2. QED
  BY <1>1, AddedSame

\* Worker w goes on to make a copy of the stream it is at; it keeps its next pointer.
Keeps(m, L, w, l) ==
    /\ L[w].pc = "copy" /\ l.pc = "alloc"
    /\ l.cur = L[w].cur /\ l.to = L[w].to /\ l.next = m[L[w].cur].next

LEMMA KeepNextShape ==
    ASSUME NEW m \in [Cells -> Cell \cup {NULL}], NEW h, NEW L \in [Workers -> Local],
           NEW b, NEW sv, NEW tn,
           NEW n \in Nat, NEW s \in [1 .. n -> Cells], Shape(m, h, L, b, sv, tn, n, s),
           NEW w \in Workers, NEW l \in Local, Keeps(m, L, w, l),
           NEW L2, L2 = [L EXCEPT ![w] = l], NEW sv2,
           Remembers(L, m, h, L2, sv, sv2)
    PROVE  Shape(m, h, L2, b, sv2, tn, n, s)
<1>1. /\ L[w].pc = "copy" /\ l.pc = "alloc"
      /\ l.cur = L[w].cur /\ l.to = L[w].to /\ l.next = m[L[w].cur].next
  BY DEF Keeps
<1>2. PICK p \in 1 .. Len(b) :
          /\ Added(m, b, L[w].to, n, s, p - 1) /\ L[w].cur = s[2 * p - 1]
          /\ m[L[w].cur].next = Elem(n, s, 2 * p)
  <2>1. PICK p \in 1 .. Len(b) : CopyAt(m, b, n, s, L[w], p)
    BY <1>1, CopyState
  <2>2. QED
    BY <1>1, <2>1 DEF CopyAt
<1>3. AddOK(m, b, n, s, l)
  BY <1>1, <1>2 DEF AddOK
<1>4. NULL \notin ListCells(n, s) /\ OnlyAt(m, m, NULL)
  BY CellsAssumption DEF ListCells, OnlyAt
<1>5. ASSUME NEW m2 \in [Cells -> Cell \cup {NULL}], OnlyAt(m, m2, NULL),
             AddOK(m2, b, n, s, l), Remembers(L, m2, h, L2, sv, sv2)
      PROVE  Shape(m2, h, L2, b, sv2, tn, n, s)
  BY <1>1, <1>4, <1>5, PrivateStep
<1>6. QED
  BY <1>3, <1>4, <1>5

\* It gets the cell k for the copy.
Allocates(m, L, w, m2, l, k) ==
    /\ L[w].pc = "alloc" /\ m[k] = NULL
    /\ OnlyAt(m, m2, k) /\ m2[k] # NULL /\ m2[k].next = NULL /\ m2[k].stream.temporary
    /\ l.pc = "fill" /\ l.temp = k
    /\ l.cur = L[w].cur /\ l.to = L[w].to /\ l.next = L[w].next

LEMMA AllocateShape ==
    ASSUME NEW m \in [Cells -> Cell \cup {NULL}], NEW h, NEW L \in [Workers -> Local],
           NEW b, NEW sv, NEW tn,
           NEW n \in Nat, NEW s \in [1 .. n -> Cells], Shape(m, h, L, b, sv, tn, n, s),
           NEW w \in Workers, NEW m2 \in [Cells -> Cell \cup {NULL}], NEW l \in Local,
           NEW k \in Cells, Allocates(m, L, w, m2, l, k),
           NEW L2, L2 = [L EXCEPT ![w] = l], NEW sv2,
           Remembers(L, m2, h, L2, sv, sv2)
    PROVE  Shape(m2, h, L2, b, sv2, tn, n, s)
<1>1. /\ L[w].pc = "alloc" /\ m[k] = NULL
      /\ OnlyAt(m, m2, k) /\ m2[k] # NULL /\ m2[k].next = NULL /\ m2[k].stream.temporary
      /\ l.pc = "fill" /\ l.temp = k
      /\ l.cur = L[w].cur /\ l.to = L[w].to /\ l.next = L[w].next
  BY DEF Allocates
<1>2. PICK p \in 1 .. Len(b) :
          /\ Added(m, b, L[w].to, n, s, p - 1) /\ L[w].cur = s[2 * p - 1]
          /\ L[w].next = Elem(n, s, 2 * p)
  <2>1. PICK p \in 1 .. Len(b) : CopyAt(m, b, n, s, L[w], p)
    BY <1>1, CopyState
  <2>2. QED
    BY <1>1, <2>1 DEF CopyAt
<1>3. k \notin ListCells(n, s)
  BY <1>1 DEF Shape, Chain, ListCells
<1>4. Added(m2, b, l.to, n, s, p - 1)
  BY <1>1, <1>2, <1>3, AddedStill
<1>5. AddOK(m2, b, n, s, l)
  BY <1>1, <1>2, <1>3, <1>4 DEF AddOK
<1>6. QED
  BY <1>1, <1>3, <1>5, PrivateStep

\* It fills the copy at k with the strings for the stream at c.
Copies(m, L, w, m2, l, c, k) ==
    /\ L[w].pc = "fill" /\ c = L[w].cur /\ k = L[w].temp
    /\ OnlyAt(m, m2, k)
    /\ m2[k] = [stream |-> Copy(m[c].stream, L[w].to), next |-> m[k].next]
    /\ l.pc = "link" /\ l.temp = k
    /\ l.cur = c /\ l.to = L[w].to /\ l.next = L[w].next

\* A copy is made: nothing leads to it yet.
LEMMA CopyShape ==
    ASSUME NEW m \in [Cells -> Cell \cup {NULL}], NEW h, NEW L \in [Workers -> Local],
           NEW b, NEW sv, NEW tn,
           NEW n \in Nat, NEW s \in [1 .. n -> Cells], Shape(m, h, L, b, sv, tn, n, s),
           NEW w \in Workers, NEW m2 \in [Cells -> Cell \cup {NULL}], NEW l \in Local,
           NEW c, NEW k, Copies(m, L, w, m2, l, c, k),
           NEW L2, L2 = [L EXCEPT ![w] = l], NEW sv2,
           Remembers(L, m2, h, L2, sv, sv2)
    PROVE  Shape(m2, h, L2, b, sv2, tn, n, s)
<1>1. /\ L[w].pc = "fill" /\ c = L[w].cur /\ k = L[w].temp
      /\ OnlyAt(m, m2, k)
      /\ m2[k] = [stream |-> Copy(m[c].stream, L[w].to), next |-> m[k].next]
      /\ l.pc = "link" /\ l.temp = k
      /\ l.cur = c /\ l.to = L[w].to /\ l.next = L[w].next
  BY DEF Copies
<1>2. PICK p \in 1 .. Len(b) :
          /\ Added(m, b, L[w].to, n, s, p - 1) /\ c = s[2 * p - 1]
          /\ m[c].stream = b[p] /\ L[w].next = Elem(n, s, 2 * p)
          /\ k \in Cells /\ k \notin ListCells(n, s) /\ m[k].next = NULL
  <2>1. PICK p \in 1 .. Len(b) : CopyAt(m, b, n, s, L[w], p)
    BY <1>1, CopyState
  <2>2. QED
    BY <1>1, <2>1 DEF CopyAt
<1>3. Added(m2, b, l.to, n, s, p - 1)
  BY <1>1, <1>2, AddedStill
<1>4. AddOK(m2, b, n, s, l)
  BY <1>1, <1>2, <1>3 DEF AddOK
<1>5. QED
  BY <1>1, <1>2, <1>4, PrivateStep

\* Or there is no memory for it: the worker frees what it has got and gives up.
GivesUp(m, L, w, m2, k) ==
    \/ L[w].pc = "alloc" /\ m2 = m /\ k = NULL
    \/ L[w].pc = "fill" /\ k = L[w].temp /\ OnlyAt(m, m2, k)

LEMMA CopyFailsShape ==
    ASSUME NEW m \in [Cells -> Cell \cup {NULL}], NEW h, NEW L \in [Workers -> Local],
           NEW b, NEW sv, NEW tn,
           NEW n \in Nat, NEW s \in [1 .. n -> Cells], Shape(m, h, L, b, sv, tn, n, s),
           NEW w \in Workers, NEW m2 \in [Cells -> Cell \cup {NULL}],
           NEW k, GivesUp(m, L, w, m2, k),
           NEW L2, L2 = [L EXCEPT ![w] = Idle], NEW sv2,
           Remembers(L, m2, h, L2, sv, sv2)
    PROVE  Shape(m2, h, L2, b, sv2, tn, n, s)
<1>1. L[w].pc \in {"alloc", "fill"} /\ OnlyAt(m, m2, k)
  BY DEF GivesUp, OnlyAt
<1>2. k \notin ListCells(n, s)
  <2>1. CASE L[w].pc = "fill"
    <3>1. PICK p \in 1 .. Len(b) : CopyAt(m, b, n, s, L[w], p)
      BY <2>1, CopyState
    <3>2. k = L[w].temp
      BY <2>1 DEF GivesUp
    <3>3. QED
      BY <2>1, <3>1, <3>2 DEF CopyAt
  <2>2. CASE L[w].pc = "alloc"
    BY <2>2, CellsAssumption DEF GivesUp, ListCells
  <2>3. QED
    BY <1>1, <2>1, <2>2
<1>3. Idle \in Local /\ Idle.pc \notin AdderPCs
  BY IdleType DEF Idle, AdderPCs
<1>4. QED
  BY <1>1, <1>2, <1>3, PrivateStep

\* The worker's copy is in the list now, behind its stream.
\* Worker w puts the copy at t behind c.
LinksCopy(m, L, w, m2, l, c, t) ==
    /\ L[w].pc = "link"
    /\ c = L[w].cur
    /\ t = L[w].temp
    /\ OnlyAt(m, m2, c)
    /\ m2[c] # NULL
    /\ m2[c].stream = m[c].stream
    /\ m2[c].next = t
    /\ l.pc = "link_next"
    /\ l.to = L[w].to
    /\ l.temp = t
    /\ l.next = L[w].next

\* The copy is linked behind its stream, and leads on as far as local goes.
LEMMA LinkShape ==
    ASSUME NEW m \in [Cells -> Cell \cup {NULL}], NEW h, NEW L \in [Workers -> Local],
           NEW b, NEW sv, NEW tn,
           NEW n \in Nat, NEW s \in [1 .. n -> Cells], Shape(m, h, L, b, sv, tn, n, s),
           NEW w \in Workers, NEW m2 \in [Cells -> Cell \cup {NULL}], NEW l \in Local,
           NEW c, NEW t, LinksCopy(m, L, w, m2, l, c, t),
           NEW L2, L2 = [L EXCEPT ![w] = l], NEW sv2,
           Remembers(L, m2, h, L2, sv, sv2)
    PROVE  \E n2 \in Nat : \E s2 \in [1 .. n2 -> Cells] : Shape(m2, h, L2, b, sv2, tn, n2, s2)
<1> SUFFICES ASSUME L[w].pc = "link",
                    c = L[w].cur,
                    t = L[w].temp,
                    OnlyAt(m, m2, c),
                    m2[c] # NULL,
                    m2[c].stream = m[c].stream,
                    m2[c].next = t,
                    l.pc = "link_next",
                    l.to = L[w].to,
                    l.temp = t,
                    l.next = L[w].next,
                    \A x \in Cells : x # c => m2[x] = m[x]
             PROVE  \E n2 \in Nat : \E s2 \in [1 .. n2 -> Cells] :
                        Shape(m2, h, L2, b, sv2, tn, n2, s2)
  BY DEF LinksCopy, OnlyAt
<1>1. /\ b \in Seq(Stream) /\ Chain(m, h, L, n, s) /\ OneWriter(L)
      /\ AddOK(m, b, n, s, L[w])
      /\ Writing(L[w]) /\ (\A v \in Workers : v # w => ~Writing(L[v]))
      /\ \A x : ~Out(L, x)
  <2>1. L[w].pc \in AdderPCs
    BY DEF AdderPCs
  <2>2. QED
    BY <2>1, AddState
<1>2. PICK p \in 1 .. Len(b) :
          /\ Added(m, b, L[w].to, n, s, p - 1) /\ c = s[2 * p - 1]
          /\ l.next = Elem(n, s, 2 * p)
          /\ t \in Cells /\ t \notin ListCells(n, s)
          /\ m[t] = [stream |-> Copy(b[p], l.to), next |-> NULL]
  BY <1>1 DEF AddOK
<1>3. Len(b) \in Nat /\ n = Len(b) + (p - 1)
  BY <1>1, <1>2 DEF Added
<1>4. PICK a : a = 2 * p
  OBVIOUS
<1>5. a - 1 \in 1 .. n /\ a \in 2 .. n + 1
  BY <1>3, <1>4
<1>6. c = s[a - 1] /\ l.next = Elem(n, s, a)
  BY <1>2, <1>4
<1>7. PICK n2, s2 :
          /\ n2 = n + 1
          /\ s2 = [i \in 1 .. n + 1 |-> IF i < a THEN s[i] ELSE IF i = a THEN t ELSE s[i - 1]]
  OBVIOUS
<1>8. n2 \in Nat /\ s2 \in [1 .. n2 -> Cells]
  <2>1. ASSUME NEW i \in 1 .. n + 1
        PROVE  (IF i < a THEN s[i] ELSE IF i = a THEN t ELSE s[i - 1]) \in Cells
    <3>1. (i < a => i \in 1 .. n) /\ (~ (i < a) /\ i # a => i - 1 \in 1 .. n)
      BY <1>5
    <3>2. QED
      BY <1>2, <3>1
  <2>2. QED
    BY <1>7, <2>1
<1>9. /\ \A i \in 1 .. n : i < a => i \in 1 .. n2 /\ s2[i] = s[i]
      /\ \A i \in 1 .. n : ~ (i < a) => i + 1 \in 1 .. n2 /\ s2[i + 1] = s[i]
      /\ a \in 1 .. n2 /\ s2[a] = t
  <2>1. \A i \in 1 .. n : /\ i \in 1 .. n + 1 /\ i + 1 \in 1 .. n + 1 /\ i + 1 - 1 = i
                          /\ ~ (i < a) => ~ (i + 1 < a) /\ i + 1 # a
    BY <1>5
  <2>2. a \in 1 .. n + 1 /\ ~ (a < a)
    BY <1>5
  <2>3. QED
    BY <1>7, <2>1, <2>2
<1>10. \A i \in 1 .. n2 : \/ i < a /\ i \in 1 .. n /\ s2[i] = s[i]
                          \/ i = a /\ s2[i] = t
                          \/ i > a /\ i - 1 \in 1 .. n /\ s2[i] = s[i - 1]
  BY <1>5, <1>7
<1>11. \A i \in 1 .. n : s[i] # t /\ (s[i] = c <=> i = a - 1)
  BY <1>1, <1>2, <1>5, <1>6 DEF Chain, ListCells
<1>12. L2 \in [Workers -> Local] /\ L2[w] = l /\ \A v \in Workers : v # w => L2[v] = L[v]
  OBVIOUS
<1>13. NoLinks(L) /\ \A x : Links(L2, x) <=> x = t
  <2>1. NoLinks(L)
    BY <1>1, LinksOf
  <2>2. QED
    BY <1>1, <1>12, <2>1 DEF Links, Writing
<1>14. \A i \in 1 .. n : m[s[i]] # NULL /\ m[s[i]].next = Elem(n, s, i + 1)
  <2>1. TAKE i \in 1 .. n
  <2>2. m[s[i]] # NULL /\ Leads(m, L, s[i], Elem(n, s, i + 1))
    BY <1>1 DEF Chain
  <2>3. QED
    BY <1>13, <2>2 DEF Leads, NoLinks
<1>15. Chain(m2, h, L2, n2, s2)
  <2>1. h = Elem(n2, s2, 1)
    <3>1. 1 \in 1 .. n /\ 1 < a /\ 1 \in 1 .. n2
      BY <1>5, <1>7
    <3>2. s2[1] = s[1]
      BY <1>9, <3>1
    <3>3. QED
      BY <1>1, <3>1, <3>2 DEF Chain, Elem
  <2>2. ASSUME NEW i \in 1 .. n2
        PROVE  m2[s2[i]] # NULL /\ Leads(m2, L2, s2[i], Elem(n2, s2, i + 1))
    <3>1. CASE i < a - 1
      <4>1. i \in 1 .. n /\ i + 1 \in 1 .. n /\ i < a /\ i + 1 < a /\ i # a - 1
        BY <1>5, <1>10, <3>1
      <4>2. s2[i] = s[i] /\ Elem(n2, s2, i + 1) = s[i + 1] /\ Elem(n, s, i + 1) = s[i + 1]
        BY <1>9, <4>1 DEF Elem
      <4>3. s[i] # c /\ s[i] # t /\ m2[s[i]] = m[s[i]]
        BY <1>11, <4>1
      <4>4. m[s[i]] # NULL /\ m[s[i]].next = s[i + 1] /\ ~Links(L2, s[i])
        BY <1>13, <1>14, <4>1, <4>2, <4>3
      <4>5. QED
        BY <4>2, <4>3, <4>4 DEF Leads
    <3>2. CASE i = a - 1
      <4>1. i \in 1 .. n /\ i < a /\ i + 1 = a
        BY <1>5, <3>2
      <4>2. s2[i] = c /\ Elem(n2, s2, i + 1) = t /\ c # t
        BY <1>6, <1>9, <1>11, <3>2, <4>1 DEF Elem
      <4>3. QED
        BY <1>13, <4>2 DEF Leads
    <3>3. CASE i = a
      <4>1. s2[i] = t /\ t # c
        BY <1>5, <1>6, <1>9, <1>11, <3>3
      <4>2. m2[t] = m[t] /\ m[t].next = NULL /\ m[t] # NULL
        <5>1. m2[t] = m[t]
          BY <1>2, <4>1
        <5>2. m[t].next = NULL
          BY <1>2
        <5>3. m[t] # NULL
          <6>1. m[t] \in Cell \cup {NULL} /\ m[t] = [stream |-> Copy(b[p], l.to), next |-> NULL]
            BY <1>2
          <6>2. b[p] \in Stream /\ l.to \in Port
            BY <1>1 DEF Local
          <6>3. Copy(b[p], l.to) \in Stream
            BY <6>2 DEF Copy, Stream
          <6>4. m[t] \in Cell
            BY <6>1, <6>3 DEF Cell
          <6>5. QED
            BY <6>4, CellsAssumption
        <5>4. QED
          BY <5>1, <5>2, <5>3
      <4>3. Elem(n2, s2, i + 1) = Elem(n, s, a)
        <5>1. CASE a \in 1 .. n
          <6>1. ~ (a < a)
            BY <1>5
          <6>2. QED
            BY <1>9, <3>3, <5>1, <6>1 DEF Elem
        <5>2. CASE a \notin 1 .. n
          <6>1. i + 1 \notin 1 .. n2
            BY <1>5, <1>7, <3>3, <5>2
          <6>2. QED
            BY <5>2, <6>1 DEF Elem
        <5>3. QED
          BY <5>1, <5>2
      <4>4. QED
        <5>1. Leads(m2, L2, t, l.next)
          BY <1>12, <1>13, <4>2 DEF Leads
        <5>2. QED
          BY <1>6, <4>1, <4>2, <4>3, <5>1
    <3>4. CASE i > a
      <4>1. i - 1 \in 1 .. n /\ s2[i] = s[i - 1] /\ i - 1 # a - 1
        BY <1>5, <1>10, <3>4
      <4>2. s[i - 1] # c /\ s[i - 1] # t /\ m2[s[i - 1]] = m[s[i - 1]]
        BY <1>11, <4>1
      <4>3. Elem(n2, s2, i + 1) = Elem(n, s, i)
        <5>1. CASE i \in 1 .. n
          BY <1>5, <1>9, <3>4, <5>1 DEF Elem
        <5>2. CASE i \notin 1 .. n
          <6>1. i + 1 \notin 1 .. n2
            BY <1>7, <5>2
          <6>2. QED
            BY <5>2, <6>1 DEF Elem
        <5>3. QED
          BY <5>1, <5>2
      <4>4. m[s[i - 1]] # NULL /\ m[s[i - 1]].next = Elem(n, s, i)
        <5>1. i - 1 + 1 = i
          OBVIOUS
        <5>2. QED
          BY <1>14, <4>1, <5>1
      <4>5. QED
        BY <1>13, <4>1, <4>2, <4>3, <4>4 DEF Leads
    <3>5. QED
      BY <1>5, <1>7, <3>1, <3>2, <3>3, <3>4
  <2>3. ASSUME NEW i \in 1 .. n2, NEW j \in 1 .. n2, s2[i] = s2[j] PROVE i = j
    <3>1. \A x, y \in 1 .. n : s[x] = s[y] => x = y
      BY <1>1 DEF Chain
    <3>2. QED
      BY <1>5, <1>10, <1>11, <2>3, <3>1
  <2>4. QED
    BY <2>1, <2>2, <2>3 DEF Chain
<1>16. Follows(m, L, n, s, m2, L2, n2, s2)
  <2>1. SUFFICES ASSUME NEW v \in Workers, NEW x \in Cells, x \in ListCells(n, s)
                 PROVE  /\ x \in ListCells(n2, s2)
                        /\ \A k : Ahead(m, n, s, x, k) => Ahead(m2, n2, s2, x, k)
    BY <1>1 DEF Follows
  <2>2. PICK f : f = [i \in 1 .. n |-> IF i < a THEN i ELSE i + 1]
    OBVIOUS
  <2>3. /\ \A i \in 1 .. n : f[i] \in 1 .. n2 /\ s2[f[i]] = s[i]
        /\ \A i, j \in 1 .. n : i <= j => f[i] <= f[j]
    <3>1. \A i \in 1 .. n : f[i] \in 1 .. n2 /\ s2[f[i]] = s[i]
      BY <1>9, <2>2
    <3>2. \A i, j \in 1 .. n : i <= j => f[i] <= f[j]
      BY <1>5, <2>2
    <3>3. QED
      BY <3>1, <3>2
  <2>4. x \in ListCells(n2, s2)
    BY <2>1, <2>3 DEF ListCells
  <2>5. ASSUME NEW k, Ahead(m, n, s, x, k) PROVE Ahead(m2, n2, s2, x, k)
    <3>1. PICK i, j \in 1 .. n : i <= j /\ k = s[j] /\ x = s[i]
      BY <2>1, <2>5 DEF Ahead
    <3>2. f[i] \in 1 .. n2 /\ f[j] \in 1 .. n2 /\ f[i] <= f[j] /\ k = s2[f[j]] /\ x = s2[f[i]]
      BY <2>3, <3>1
    <3>3. QED
      BY <3>2 DEF Ahead
  <2>6. QED
    BY <2>4, <2>5
<1>17. Added(m2, b, l.to, n2, s2, p)
  <2>1. n2 = Len(b) + p
    BY <1>3, <1>7
  <2>2. L[w].to \in Port /\ l.to = L[w].to
    BY DEF Local
  <2>3. /\ AddTemporaryStreams(b, l.to)[a - 1] = b[p]
        /\ AddTemporaryStreams(b, l.to)[a] = Copy(b[p], l.to)
    <3>1. b \in Seq(Stream) /\ l.to \in Port
      BY <1>1, <2>2
    <3>2. \A k \in 1 .. Len(b) : /\ AddTemporaryStreams(b, l.to)[2 * k - 1] = b[k]
                                 /\ AddTemporaryStreams(b, l.to)[2 * k] = Copy(b[k], l.to)
      BY <3>1, AddTemporaryPositions
    <3>3. QED
      BY <1>4, <3>2
  <2>4. ASSUME NEW i \in 1 .. n2
        PROVE  m2[s2[i]].stream = IF i <= 2 * p THEN AddTemporaryStreams(b, l.to)[i]
                                                ELSE b[i - p]
    <3>1. \A x \in 1 .. n : m2[s[x]].stream = m[s[x]].stream
      BY <1>11
    <3>2. CASE i < a - 1
      <4>1. i \in 1 .. n /\ s2[i] = s[i] /\ i <= 2 * (p - 1) /\ i <= 2 * p
        BY <1>4, <1>10, <3>2
      <4>2. m[s[i]].stream = AddTemporaryStreams(b, L[w].to)[i]
        BY <1>2, <4>1 DEF Added
      <4>3. QED
        BY <2>2, <3>1, <4>1, <4>2
    <3>3. CASE i = a - 1
      <4>1. /\ i \in 1 .. n /\ s2[i] = s[i] /\ ~ (i <= 2 * (p - 1)) /\ i <= 2 * p
            /\ i - (p - 1) = p
        BY <1>4, <1>5, <1>9, <3>3
      <4>2. m[s[i]].stream = b[p]
        BY <1>2, <4>1 DEF Added
      <4>3. QED
        BY <2>3, <3>1, <3>3, <4>1, <4>2
    <3>4. CASE i = a
      <4>1. s2[i] = t /\ t # c /\ i <= 2 * p
        BY <1>4, <1>5, <1>6, <1>9, <1>11, <3>4
      <4>2. m2[t] = m[t] /\ m[t].stream = Copy(b[p], l.to)
        BY <1>2, <4>1
      <4>3. QED
        BY <2>3, <3>4, <4>1, <4>2
    <3>5. CASE i > a
      <4>1. /\ i - 1 \in 1 .. n /\ s2[i] = s[i - 1]
            /\ ~ (i - 1 <= 2 * (p - 1)) /\ ~ (i <= 2 * p)
            /\ i - 1 - (p - 1) = i - p
        BY <1>4, <1>5, <1>10, <3>5
      <4>2. m[s[i - 1]].stream = b[i - p]
        BY <1>2, <4>1 DEF Added
      <4>3. QED
        BY <3>1, <4>1, <4>2
    <3>6. QED
      BY <1>4, <1>7, <3>2, <3>3, <3>4, <3>5
  <2>5. QED
    BY <2>1, <2>4 DEF Added
<1>18. AddOK(m2, b, n2, s2, l)
  <2>1. l.next = Elem(n2, s2, 2 * p + 1)
    <3>1. Elem(n2, s2, a + 1) = Elem(n, s, a)
      <4>1. CASE a \in 1 .. n
        <5>1. ~ (a < a)
          BY <1>5
        <5>2. QED
          BY <1>9, <4>1, <5>1 DEF Elem
      <4>2. CASE a \notin 1 .. n
        <5>1. a + 1 \notin 1 .. n2
          BY <1>5, <1>7, <4>2
        <5>2. QED
          BY <4>2, <5>1 DEF Elem
      <4>3. QED
        BY <4>1, <4>2
    <3>2. QED
      BY <1>4, <1>6, <3>1
  <2>2. l.temp = s2[2 * p]
    BY <1>4, <1>9
  <2>3. QED
    BY <1>17, <2>1, <2>2 DEF AddOK
<1>19. WriterOK(m2, b, n2, s2, l)
  BY <1>18 DEF WriterOK
<1>20. l.pc # "match" /\ l.pc # "idle"
  OBVIOUS
<1>21. Shape(m2, h, L2, b, sv2, tn, n2, s2)
  BY <1>1, <1>8, <1>15, <1>16, <1>19, <1>20, WriterStep
<1>22. QED
  BY <1>8, <1>21

\* Worker w lets the copy at t lead to e.
LinksNext(m, L, w, m2, l, t, e) ==
    /\ L[w].pc = "link_next"
    /\ t = L[w].temp
    /\ e = L[w].next
    /\ OnlyAt(m, m2, t)
    /\ m2[t] # NULL
    /\ m2[t].stream = m[t].stream
    /\ m2[t].next = e
    /\ l.to = L[w].to \/ l.pc = "idle"
    /\ IF e = NULL THEN l = Idle ELSE l.pc = "copy" /\ l.cur = e

\* Behind the last copy every stream has one.
AddsAll(m, b, to, n, s, e) == e = NULL => Added(m, b, to, n, s, Len(b))

\* The list is what it was, for a search that has not read the pointer before.
LEMMA LinkNextShape ==
    ASSUME NEW m \in [Cells -> Cell \cup {NULL}], NEW h, NEW L \in [Workers -> Local],
           NEW b, NEW sv, NEW tn,
           NEW n \in Nat, NEW s \in [1 .. n -> Cells], Shape(m, h, L, b, sv, tn, n, s),
           NEW w \in Workers, NEW m2 \in [Cells -> Cell \cup {NULL}], NEW l \in Local,
           NEW t, NEW e, LinksNext(m, L, w, m2, l, t, e),
           NEW L2, L2 = [L EXCEPT ![w] = l], NEW sv2,
           Remembers(L, m2, h, L2, sv, sv2)
    PROVE  /\ Shape(m2, h, L2, b, sv2, tn, n, s)
           /\ AddsAll(m2, b, L[w].to, n, s, e)
<1> SUFFICES ASSUME L[w].pc = "link_next",
                    t = L[w].temp,
                    e = L[w].next,
                    OnlyAt(m, m2, t),
                    m2[t] # NULL,
                    m2[t].stream = m[t].stream,
                    m2[t].next = e,
                    l.to = L[w].to \/ l.pc = "idle",
                    IF e = NULL THEN l = Idle ELSE l.pc = "copy" /\ l.cur = e,
                    \A x \in Cells : x # t => m2[x] = m[x]
             PROVE  /\ Shape(m2, h, L2, b, sv2, tn, n, s)
                    /\ e = NULL => Added(m2, b, L[w].to, n, s, Len(b))
  BY DEF LinksNext, OnlyAt, AddsAll
<1>1. /\ b \in Seq(Stream) /\ Chain(m, h, L, n, s) /\ OneWriter(L)
      /\ AddOK(m, b, n, s, L[w])
      /\ Writing(L[w]) /\ (\A v \in Workers : v # w => ~Writing(L[v]))
      /\ \A x : ~Out(L, x)
  <2>1. L[w].pc \in AdderPCs
    BY DEF AdderPCs
  <2>2. QED
    BY <2>1, AddState
<1>2. PICK p \in 1 .. Len(b) :
          /\ Added(m, b, L[w].to, n, s, p)
          /\ t = s[2 * p] /\ e = Elem(n, s, 2 * p + 1)
  BY <1>1 DEF AddOK
<1>3. Len(b) \in Nat /\ n = Len(b) + p
  BY <1>1, <1>2 DEF Added
<1>4. 2 * p \in 1 .. n
  <2>1. p \in Nat /\ 1 <= p /\ p <= Len(b)
    BY <1>3
  <2>2. QED
    BY <1>3, <2>1
<1>5. L2 \in [Workers -> Local] /\ L2[w] = l /\ \A v \in Workers : v # w => L2[v] = L[v]
  OBVIOUS
<1>6. l.pc \in {"copy", "idle"}
  BY DEF Idle
<1>7. NoLinks(L2) /\ \A x : Links(L, x) <=> x = t
  BY <1>1, <1>5, <1>6 DEF NoLinks, Links, Writing
<1>8. \A i \in 1 .. n : s[i] = t <=> i = 2 * p
  BY <1>1, <1>2, <1>4 DEF Chain
<1>9. Chain(m2, h, L2, n, s)
  <2>1. ASSUME NEW i \in 1 .. n
        PROVE  m2[s[i]] # NULL /\ Leads(m2, L2, s[i], Elem(n, s, i + 1))
    <3>1. CASE i = 2 * p
      <4>1. s[i] = t /\ e = Elem(n, s, i + 1)
        BY <1>2, <3>1
      <4>2. QED
        BY <1>7, <4>1 DEF Leads, NoLinks
    <3>2. CASE i # 2 * p
      <4>1. s[i] # t /\ m2[s[i]] = m[s[i]]
        BY <1>8, <3>2
      <4>2. m[s[i]] # NULL /\ Leads(m, L, s[i], Elem(n, s, i + 1))
        BY <1>1 DEF Chain
      <4>3. m[s[i]].next = Elem(n, s, i + 1)
        BY <1>7, <4>1, <4>2 DEF Leads
      <4>4. QED
        BY <1>7, <4>1, <4>2, <4>3 DEF Leads, NoLinks
    <3>3. QED
      BY <3>1, <3>2
  <2>2. QED
    BY <1>1, <2>1 DEF Chain
<1>10. Added(m2, b, L[w].to, n, s, p)
  <2>1. \A i \in 1 .. n : m2[s[i]].stream = m[s[i]].stream
    BY <1>8
  <2>2. QED
    BY <1>2, <2>1, AddedSame
<1>11. ASSUME e # NULL
       PROVE  AddOK(m2, b, n, s, l)
  <2>1. PICK p1 : p1 = p + 1
    OBVIOUS
  <2>2. 2 * p + 1 \in 1 .. n
    BY <1>2, <1>11 DEF Elem
  <2>3. p1 \in 1 .. Len(b) /\ p1 - 1 = p /\ 2 * p1 - 1 = 2 * p + 1
    BY <1>3, <2>1, <2>2
  <2>4. l.pc = "copy" /\ l.to = L[w].to /\ l.cur = s[2 * p + 1]
    BY <1>2, <1>6, <1>11, <2>2 DEF Elem
  <2>5. Added(m2, b, l.to, n, s, p1 - 1) /\ l.cur = s[2 * p1 - 1]
    BY <1>10, <2>3, <2>4
  <2>6. QED
    BY <2>3, <2>4, <2>5 DEF AddOK
<1>12. WriterOK(m2, b, n, s, l)
  <2>1. CASE e = NULL
    BY <2>1 DEF WriterOK, Idle, AdderPCs
  <2>2. CASE e # NULL
    BY <1>11, <2>2 DEF WriterOK
  <2>3. QED
    BY <2>1, <2>2
<1>13. Follows(m, L, n, s, m2, L2, n, s)
  BY <1>1, FollowsSame
<1>14. l.pc # "match" /\ (l.pc = "idle" => l = Idle)
  BY <1>6
<1>15. Shape(m2, h, L2, b, sv2, tn, n, s)
  BY <1>1, <1>9, <1>12, <1>13, <1>14, SameStep
<1>16. ASSUME e = NULL
       PROVE  Added(m2, b, L[w].to, n, s, Len(b))
  <2>1. 2 * p + 1 \notin 1 .. n
    BY <1>2, <1>16, CellsAssumption DEF Elem
  <2>2. p = Len(b)
    BY <1>3, <1>4, <2>1
  <2>3. QED
    BY <1>10, <2>2
<1>17. QED
  BY <1>15, <1>16

-----------------------------------------------------------------------------
(* The steps of remove_temporary_streams *)

RemoverPCs == {"flip", "head", "advance", "relink", "destroy", "step"}

\* The list has no copy that is just being linked.
Plain(m, n, s) ==
    \A i \in 1 .. n : m[s[i]] # NULL /\ m[s[i]].next = Elem(n, s, i + 1)

\* What is known when a worker removes streams.
LEMMA RemoverState ==
    ASSUME NEW m, NEW h, NEW L, NEW b, NEW sv, NEW tn, NEW n, NEW s,
           Shape(m, h, L, b, sv, tn, n, s),
           NEW w \in Workers, L[w].pc \in RemoverPCs
    PROVE  /\ b \in Seq(Stream) /\ Chain(m, h, L, n, s) /\ OneWriter(L)
           /\ RemoveOK(m, b, n, s, L[w])
           /\ Writing(L[w]) /\ (\A v \in Workers : v # w => ~Writing(L[v]))
           /\ NoLinks(L) /\ Plain(m, n, s)
           /\ ~Removed(L[w]) => \A c : ~Out(L, c)
<1>1. Writing(L[w]) /\ L[w].pc # "link_next"
  BY DEF Writing, RemoverPCs
<1>2. OneWriter(L) /\ Chain(m, h, L, n, s) /\ WriterOK(m, b, n, s, L[w]) /\ b \in Seq(Stream)
  BY DEF Shape
<1>3. RemoveOK(m, b, n, s, L[w])
  BY <1>2 DEF WriterOK, RemoverPCs
<1>4. NoLinks(L)
  BY <1>1, <1>2, LinksOf
<1>5. Plain(m, n, s)
  BY <1>2, <1>4 DEF Chain, Plain, Leads, NoLinks
<1>6. ~Removed(L[w]) => \A c : ~Out(L, c)
  BY <1>1, <1>2, NothingOut
<1>7. \A v \in Workers : v # w => ~Writing(L[v])
  BY <1>1, <1>2, OnlyWriter
<1>8. QED
  BY <1>1, <1>2, <1>3, <1>4, <1>5, <1>6, <1>7

\* With every next pointer right, the cells are a chain.
LEMMA PlainChain ==
    ASSUME NEW m, NEW h, NEW L, NEW n \in Nat, NEW s \in [1 .. n -> Cells],
           Plain(m, n, s), NoLinks(L), h = Elem(n, s, 1),
           \A i, j \in 1 .. n : s[i] = s[j] => i = j
    PROVE  Chain(m, h, L, n, s)
BY DEF Chain, Plain, NoLinks, Leads

\* What was taken out and not destroyed still is, and is as it was, unless no search
\* is there.
OutStays(m, L, m2, l) ==
    \A c \in Cells : Out(L, c) =>
       \/ m2[c] = m[c] /\ Removed(l) /\ l.temp = c
       \/ \A v \in Workers : ~ (L[v].pc = "match" /\ L[v].cur = c)

\* A step of the remover that leaves the list as it is.
LEMMA RemoveSame ==
    ASSUME NEW m, NEW h, NEW L \in [Workers -> Local], NEW b, NEW sv, NEW tn,
           NEW n \in Nat, NEW s \in [1 .. n -> Cells], Shape(m, h, L, b, sv, tn, n, s),
           NEW w \in Workers, L[w].pc \in RemoverPCs,
           NEW l \in Local, l.pc \in RemoverPCs \/ l = Idle,
           NEW m2 \in [Cells -> Cell \cup {NULL}],
           NEW L2, L2 = [L EXCEPT ![w] = l], NEW sv2,
           Remembers(L, m2, h, L2, sv, sv2),
           Plain(m2, n, s),
           l.pc \in RemoverPCs => RemoveOK(m2, b, n, s, l),
           OutStays(m, L, m2, l)
    PROVE  Shape(m2, h, L2, b, sv2, tn, n, s)
<1>1. /\ b \in Seq(Stream) /\ Chain(m, h, L, n, s) /\ OneWriter(L)
      /\ Writing(L[w]) /\ (\A v \in Workers : v # w => ~Writing(L[v]))
  BY RemoverState
<1>2. L2 \in [Workers -> Local] /\ L2[w] = l /\ \A v \in Workers : v # w => L2[v] = L[v]
  OBVIOUS
<1>3. l.pc \in RemoverPCs \/ (l = Idle /\ l.pc = "idle")
  BY DEF Idle
<1>4. NoLinks(L2)
  BY <1>1, <1>2, <1>3 DEF NoLinks, Links, Writing, RemoverPCs
<1>5. Chain(m2, h, L2, n, s)
  <2>1. h = Elem(n, s, 1) /\ \A i, j \in 1 .. n : s[i] = s[j] => i = j
    BY <1>1 DEF Chain
  <2>2. QED
    BY <1>4, <2>1, PlainChain
<1>6. WriterOK(m2, b, n, s, l)
  BY <1>3 DEF WriterOK, RemoverPCs, AdderPCs
<1>7. Follows(m, L, n, s, m2, L2, n, s)
  <2>1. \A c \in Cells : Out(L, c) =>
            \/ m2[c].next = m[c].next /\ Out(L2, c)
            \/ \A v \in Workers : ~ (L[v].pc = "match" /\ L[v].cur = c)
    <3>1. SUFFICES ASSUME NEW c \in Cells, m2[c] = m[c], Removed(l), l.temp = c
                   PROVE  m2[c].next = m[c].next /\ Out(L2, c)
      BY DEF OutStays
    <3>2. QED
      BY <1>2, <3>1 DEF Out
  <2>2. QED
    BY <2>1, FollowsSame
<1>8. l.pc # "match" /\ (l.pc = "idle" => l = Idle)
  BY <1>3 DEF RemoverPCs
<1>9. QED
  BY <1>1, <1>5, <1>6, <1>7, <1>8, SameStep

\* In the list, the stream behind the i-th is the one that was behind it in b.
NextAt(b, n, g, i, r) ==
    IF r + 1 <= Len(b) THEN i + 1 \in 1 .. n /\ g[i + 1] = r + 1 ELSE i = n

\* What the remover has not come to yet is in the list as it was.
LEMMA NextPosition ==
    ASSUME NEW m, NEW b \in Seq(Stream), NEW n \in Nat, NEW s, NEW g,
           NEW q \in 1 .. Len(b) + 1, Done(m, b, n, s, g, q),
           NEW i \in 1 .. n, NEW r, g[i] = r, q <= r + 1
    PROVE  NextAt(b, n, g, i, r)
<1>1. /\ g \in [1 .. n -> 1 .. Len(b)]
      /\ \A x, j \in 1 .. n : x < j => g[x] < g[j]
      /\ \A x \in 1 .. Len(b) : x >= q => \E j \in 1 .. n : g[j] = x
  BY DEF Done
<1>2. r \in 1 .. Len(b) /\ Len(b) \in Nat
  BY <1>1
<1>3. CASE r + 1 <= Len(b)
  <2>1. r + 1 \in 1 .. Len(b) /\ r + 1 >= q
    BY <1>2, <1>3
  <2>2. PICK j \in 1 .. n : g[j] = r + 1
    BY <1>1, <2>1
  <2>3. ~ (j < i) /\ j # i
    <3>1. j < i => g[j] < r
      BY <1>1
    <3>2. QED
      BY <1>2, <2>2, <3>1
  <2>4. i + 1 \in 1 .. n /\ i < i + 1 /\ (j = i + 1 \/ i + 1 < j)
    BY <2>3
  <2>5. r < g[i + 1] /\ (i + 1 < j => g[i + 1] < r + 1) /\ g[i + 1] \in 1 .. Len(b)
    BY <1>1, <2>2, <2>4
  <2>6. QED
    BY <1>2, <1>3, <2>2, <2>4, <2>5 DEF NextAt
<1>4. CASE ~ (r + 1 <= Len(b))
  <2>1. ASSUME i # n PROVE FALSE
    <3>1. i + 1 \in 1 .. n /\ i < i + 1
      BY <2>1
    <3>2. r < g[i + 1] /\ g[i + 1] \in 1 .. Len(b)
      BY <1>1, <3>1
    <3>3. QED
      BY <1>2, <1>4, <3>2
  <2>2. QED
    BY <1>4, <2>1 DEF NextAt
<1>5. QED
  BY <1>3, <1>4

\* Done with one position more, of which the stream in the list, if any, is what
\* remove_temporary_streams makes of it.
Finishes(m, m2, b, n, s, g, q) ==
    \A j \in 1 .. n : m2[s[j]].stream = IF g[j] = q THEN Result(b, q) ELSE m[s[j]].stream

\* The remover is done with one stream more, which stays.
LEMMA DoneNext ==
    ASSUME NEW m, NEW b \in Seq(Stream), NEW n \in Nat, NEW s, NEW g,
           NEW q \in 1 .. Len(b), Done(m, b, n, s, g, q), q \in Kept(b),
           NEW m2, Finishes(m, m2, b, n, s, g, q)
    PROVE  Done(m2, b, n, s, g, q + 1) /\ Untouched(m2, b, n, s, g, q + 1)
<1>1. /\ g \in [1 .. n -> 1 .. Len(b)]
      /\ \A i, j \in 1 .. n : i < j => g[i] < g[j]
      /\ \A x \in 1 .. Len(b) : x >= q \/ x \in Kept(b) <=> \E i \in 1 .. n : g[i] = x
      /\ \A i \in 1 .. n : /\ g[i] < q => m[s[i]].stream = Result(b, g[i])
                           /\ g[i] > q => m[s[i]].stream = b[g[i]]
  BY DEF Done
<1>2. \A x \in 1 .. Len(b) :
          /\ x < q + 1 <=> x < q \/ x = q
          /\ x >= q + 1 \/ x = q <=> x >= q
          /\ x > q + 1 => x > q /\ x # q
          /\ x < q => x # q
          /\ x = q + 1 => x > q /\ x # q
  OBVIOUS
<1>3. \A x \in 1 .. Len(b) : x >= q + 1 \/ x \in Kept(b) <=> x >= q \/ x \in Kept(b)
  BY <1>2
<1>4. \A x \in 1 .. Len(b) : x >= q + 1 \/ x \in Kept(b) <=> \E i \in 1 .. n : g[i] = x
  BY <1>1, <1>3
<1>5. \A i \in 1 .. n : g[i] \in 1 .. Len(b)
  BY <1>1
<1>6. \A i \in 1 .. n : /\ g[i] < q + 1 => m2[s[i]].stream = Result(b, g[i])
                        /\ g[i] > q + 1 => m2[s[i]].stream = b[g[i]]
                        /\ g[i] = q + 1 => m2[s[i]].stream = b[q + 1]
  <2>1. TAKE i \in 1 .. n
  <2>2. PICK x \in 1 .. Len(b) : x = g[i]
    BY <1>5
  <2>3. /\ x < q => m[s[i]].stream = Result(b, x)
        /\ x > q => m[s[i]].stream = b[x]
        /\ x # q => m2[s[i]].stream = m[s[i]].stream
        /\ x = q => m2[s[i]].stream = Result(b, q)
    BY <1>1, <2>2 DEF Finishes
  <2>4. QED
    BY <1>2, <2>2, <2>3
<1>7. QED
  BY <1>1, <1>4, <1>6 DEF Done, Untouched

\* Worker w flips the flag of the stream at c.
Flips(m, L, w, m2, l, c) ==
    /\ L[w].pc = "flip"
    /\ c = L[w].cur
    /\ OnlyAt(m, m2, c)
    /\ m2[c] # NULL
    /\ m2[c].next = m[c].next
    /\ m2[c].stream = [m[c].stream EXCEPT !.temporary = ~m[c].stream.temporary]
    /\ l.pc = IF m[c].stream.temporary THEN "step" ELSE "head"
    /\ l.cur = c
    /\ l.prev = L[w].prev

\* Flipping the flag of the stream under way leaves the list as it is.
LEMMA FlipShape ==
    ASSUME NEW m \in [Cells -> Cell \cup {NULL}], NEW h, NEW L \in [Workers -> Local],
           NEW b, NEW sv, NEW tn,
           NEW n \in Nat, NEW s \in [1 .. n -> Cells], Shape(m, h, L, b, sv, tn, n, s),
           NEW w \in Workers, NEW c, NEW m2 \in [Cells -> Cell \cup {NULL}],
           NEW l \in Local, Flips(m, L, w, m2, l, c),
           NEW L2, L2 = [L EXCEPT ![w] = l], NEW sv2,
           Remembers(L, m2, h, L2, sv, sv2)
    PROVE  Shape(m2, h, L2, b, sv2, tn, n, s)
<1> SUFFICES ASSUME L[w].pc = "flip", c = L[w].cur,
                    m2[c] # NULL, m2[c].next = m[c].next,
                    m2[c].stream = [m[c].stream EXCEPT !.temporary = ~m[c].stream.temporary],
                    l.pc = IF m[c].stream.temporary THEN "step" ELSE "head",
                    l.cur = c, l.prev = L[w].prev,
                    \A x \in Cells : x # c => m2[x] = m[x]
             PROVE  Shape(m2, h, L2, b, sv2, tn, n, s)
  BY DEF Flips, OnlyAt
<1>1. L[w].pc \in RemoverPCs /\ ~Removed(L[w])
  BY DEF RemoverPCs, Removed
<1>2. /\ b \in Seq(Stream) /\ Chain(m, h, L, n, s)
      /\ RemoveOK(m, b, n, s, L[w]) /\ Plain(m, n, s)
      /\ \A x : ~Out(L, x)
  BY <1>1, RemoverState
<1>3. PICK q \in 1 .. Len(b) + 1, i \in 1 .. n + 1 : \E g \in [1 .. n -> 1 .. Len(b)] :
           RemoverAt(m, b, n, s, L[w], g, q, i)
  BY <1>2 DEF RemoveOK
<1>4. PICK g \in [1 .. n -> 1 .. Len(b)] : RemoverAt(m, b, n, s, L[w], g, q, i)
  BY <1>3
<1>5. /\ Done(m, b, n, s, g, q) /\ L[w].prev = Elem(n, s, i - 1)
      /\ \A j \in 1 .. n : g[j] = q => m[s[j]].stream = b[q]
      /\ i \in 1 .. n /\ c = s[i] /\ g[i] = q /\ q \in Visited(b)
  BY <1>4 DEF RemoverAt, Untouched
<1>6. q \in 1 .. Len(b) /\ Len(b) \in Nat
  BY <1>2, <1>5, Positions
<1>7. \A j \in 1 .. n : (s[j] = c <=> j = i) /\ (g[j] = q <=> j = i)
  <2>1. ASSUME NEW j \in 1 .. n, g[j] = q, j # i PROVE FALSE
    <3>1. /\ j < i => g[j] < g[i]
          /\ i < j => g[i] < g[j]
      BY <1>5 DEF Done
    <3>2. QED
      BY <1>5, <1>6, <2>1, <3>1
  <2>2. QED
    BY <1>2, <1>5, <2>1 DEF Chain
<1>8. Plain(m2, n, s)
  BY <1>2, <1>7 DEF Plain
<1>9. \A j \in 1 .. n : /\ g[j] # q => m2[s[j]].stream = m[s[j]].stream
                        /\ g[j] = q => m2[s[j]].stream =
                                         [b[q] EXCEPT !.temporary = ~b[q].temporary]
  <2>1. b[q] = m[c].stream
    BY <1>5
  <2>2. m2[c].stream = [b[q] EXCEPT !.temporary = ~b[q].temporary]
    BY <2>1
  <2>3. \A j \in 1 .. n : g[j] # q => m2[s[j]] = m[s[j]]
    BY <1>7
  <2>4. \A j \in 1 .. n : g[j] = q => s[j] = c
    BY <1>7
  <2>5. QED
    BY <2>2, <2>3, <2>4
<1>10. b[q] = m[c].stream
  BY <1>5
<1>11. RemoveOK(m2, b, n, s, l)
  <2>1. CASE b[q].temporary
    <3>1. l.pc = "step" /\ ~Removes(l) /\ ~Removed(l)
      BY <1>10, <2>1 DEF Removes, Removed
    <3>2. q \in Kept(b) /\ [b[q] EXCEPT !.temporary = ~b[q].temporary] = Result(b, q)
      BY <1>2, <1>5, <1>6, <2>1, Positions
    <3>3. Done(m2, b, n, s, g, q + 1) /\ Untouched(m2, b, n, s, g, q + 1)
      <4>1. Finishes(m, m2, b, n, s, g, q)
        BY <1>9, <3>2 DEF Finishes
      <4>2. QED
        BY <1>2, <1>5, <1>6, <3>2, <4>1, DoneNext
    <3>4. PICK q1 : q1 = q + 1
      OBVIOUS
    <3>5. q1 \in 1 .. Len(b) + 1 /\ q1 - 1 = q
      BY <1>6, <3>4
    <3>6. q1 \in 1 .. Len(b) => q1 \in Visited(b)
      BY <1>2, <1>6, <2>1, <3>4, VisitedSteps
    <3>7. RemoverAt(m2, b, n, s, l, g, q1, i)
      BY <1>5, <3>1, <3>3, <3>4, <3>5, <3>6 DEF RemoverAt
    <3>8. QED
      BY <1>5, <3>5, <3>7 DEF RemoveOK
  <2>2. CASE ~b[q].temporary
    <3>1. l.pc = "head" /\ Removes(l) /\ ~Removed(l)
      BY <1>10, <2>2 DEF Removes, Removed
    <3>2. Done(m2, b, n, s, g, q)
      <4>1. \A j \in 1 .. n : (g[j] < q \/ g[j] > q) => g[j] # q
        BY <1>6
      <4>2. QED
        BY <1>5, <1>9, <4>1, ZenonT(40) DEF Done
    <3>3. RemoverAt(m2, b, n, s, l, g, q, i)
      BY <1>5, <2>2, <3>1, <3>2 DEF RemoverAt
    <3>4. QED
      BY <1>3, <1>4, <3>3 DEF RemoveOK
  <2>3. QED
    BY <2>1, <2>2
<1>12. l.pc \in RemoverPCs
  BY DEF RemoverPCs
<1>13. OutStays(m, L, m2, l)
  BY <1>2 DEF OutStays
<1>14. QED
  BY <1>1, <1>8, <1>11, <1>12, <1>13, RemoveSame

\* Advance, Unhead and Relink when the list stays as it is, and Step.
LEMMA QuietShape ==
    ASSUME NEW m \in [Cells -> Cell \cup {NULL}], NEW h, NEW L \in [Workers -> Local],
           NEW b, NEW sv, NEW tn,
           NEW n \in Nat, NEW s \in [1 .. n -> Cells], Shape(m, h, L, b, sv, tn, n, s),
           NEW w \in Workers, L[w].pc \in RemoverPCs,
           NEW l \in Local, l.pc \in RemoverPCs \/ l = Idle,
           NEW L2, L2 = [L EXCEPT ![w] = l], NEW sv2,
           Remembers(L, m, h, L2, sv, sv2),
           Removed(L[w]) => Removed(l) /\ l.temp = L[w].temp,
           l.pc \in RemoverPCs => RemoveOK(m, b, n, s, l)
    PROVE  Shape(m, h, L2, b, sv2, tn, n, s)
<1>1. /\ OneWriter(L) /\ Plain(m, n, s)
      /\ Writing(L[w]) /\ (\A v \in Workers : v # w => ~Writing(L[v]))
  BY RemoverState
<1>2. \A c : Out(L, c) => Removed(l) /\ l.temp = c
  BY <1>1 DEF Out, Removed, Writing
<1>3. ASSUME NEW m2 \in [Cells -> Cell \cup {NULL}], m2 = m,
             Remembers(L, m2, h, L2, sv, sv2), Plain(m2, n, s),
             l.pc \in RemoverPCs => RemoveOK(m2, b, n, s, l)
      PROVE  Shape(m2, h, L2, b, sv2, tn, n, s)
  <2>1. OutStays(m, L, m2, l)
    BY <1>2, <1>3 DEF OutStays
  <2>2. QED
    BY <1>3, <2>1, RemoveSame
<1>4. QED
  BY <1>1, <1>3

\* current can move on from the stream it is at to x.
MovesTo(m, b, n, s, r, x) ==
    /\ x = NULL => RemoveTemporaryCrashes(b)
    /\ x # NULL => m[x] # NULL
    /\ \A l : x # NULL /\ l.pc = "relink" /\ l.cur = x /\ l.prev = r.prev /\ l.temp = r.temp
                => RemoveOK(m, b, n, s, l)

\* current moves on from a stream to be removed; there is none behind it just where
\* the closed form predicts the crash.
LEMMA AdvanceShape ==
    ASSUME NEW m \in [Cells -> Cell \cup {NULL}], NEW h, NEW L \in [Workers -> Local],
           NEW b, NEW sv, NEW tn,
           NEW n \in Nat, NEW s \in [1 .. n -> Cells], Shape(m, h, L, b, sv, tn, n, s),
           NEW w \in Workers, L[w].pc = "advance", NEW c, c = L[w].cur,
           NEW x, x = m[c].next
    PROVE  MovesTo(m, b, n, s, L[w], x)
<1>1. L[w].pc \in RemoverPCs
  BY DEF RemoverPCs
<1>2. /\ b \in Seq(Stream) /\ RemoveOK(m, b, n, s, L[w]) /\ Plain(m, n, s)
  BY <1>1, RemoverState
<1>3. PICK q \in 1 .. Len(b) + 1, i \in 1 .. n + 1 : \E g \in [1 .. n -> 1 .. Len(b)] :
           RemoverAt(m, b, n, s, L[w], g, q, i)
  BY <1>2 DEF RemoveOK
<1>4. PICK g \in [1 .. n -> 1 .. Len(b)] : RemoverAt(m, b, n, s, L[w], g, q, i)
  BY <1>3
<1>5. Done(m, b, n, s, g, q) /\ L[w].prev = Elem(n, s, i - 1)
  BY <1>4 DEF RemoverAt
<1>6. Len(b) \in Nat /\ (Len(b) # 0 => b # <<>>)
  BY <1>2
<1>7. CASE L[w].prev # NULL
  <2>1. Removes(L[w]) /\ ~Removed(L[w])
    BY <1>7 DEF Removes, Removed
  <2>2. /\ i \in 1 .. n /\ g[i] = q /\ q \in Visited(b) /\ ~b[q].temporary
        /\ c = s[i] /\ L[w].temp = s[i]
    BY <1>4, <2>1 DEF RemoverAt
  <2>3. q \in 1 .. Len(b) /\ q <= q + 1 /\ q \notin Kept(b)
    BY <1>2, <1>6, <2>2, Positions
  <2>4. IF q + 1 <= Len(b) THEN i + 1 \in 1 .. n /\ g[i + 1] = q + 1 ELSE i = n
    <3>1. NextAt(b, n, g, i, q)
      BY <1>2, <1>5, <2>2, <2>3, NextPosition
    <3>2. QED
      BY <3>1 DEF NextAt
  <2>5. x = Elem(n, s, i + 1)
    BY <1>2, <2>2 DEF Plain
  <2>6. ASSUME x = NULL PROVE RemoveTemporaryCrashes(b)
    <3>1. i + 1 \notin 1 .. n
      BY <2>5, <2>6, CellsAssumption DEF Elem
    <3>2. q = Len(b)
      BY <1>6, <2>3, <2>4, <3>1
    <3>3. QED
      BY <1>6, <2>3, <3>2 DEF RemoveTemporaryCrashes
  <2>7. ASSUME NEW l, x # NULL, l.pc = "relink", l.cur = x, l.prev = L[w].prev,
               l.temp = L[w].temp
        PROVE  RemoveOK(m, b, n, s, l)
    <3>1. Removes(l) /\ ~Removed(l) /\ l.pc \notin {"flip", "step", "head"}
      BY <1>7, <2>7 DEF Removes, Removed
    <3>2. i + 1 \in 1 .. n /\ l.cur = s[i + 1]
      BY <2>5, <2>7 DEF Elem
    <3>3. RemoverAt(m, b, n, s, l, g, q, i)
      BY <1>5, <2>2, <2>7, <3>1, <3>2 DEF RemoverAt
    <3>4. QED
      BY <1>3, <1>4, <3>3 DEF RemoveOK
  <2>8. x # NULL => m[x] # NULL
    BY <1>2, <2>5 DEF Elem, Plain
  <2>9. QED
    BY <2>6, <2>7, <2>8 DEF MovesTo
<1>8. CASE L[w].prev = NULL
  <2>1. ~Removes(L[w]) /\ Removed(L[w])
    BY <1>8 DEF Removes, Removed
  <2>2. /\ Untouched(m, b, n, s, g, q)
        /\ L[w].temp \in Cells /\ L[w].temp \notin ListCells(n, s)
        /\ m[L[w].temp] # NULL /\ m[L[w].temp].next = Elem(n, s, i)
        /\ q - 1 \in 1 .. Len(b) /\ q - 1 \notin Kept(b) /\ q \notin Visited(b)
        /\ IF i \in 1 .. n THEN g[i] = q ELSE q = Len(b) + 1
        /\ c = L[w].temp
    BY <1>4, <2>1 DEF RemoverAt
  <2>3. x = Elem(n, s, i)
    BY <2>2
  <2>4. ASSUME x = NULL PROVE RemoveTemporaryCrashes(b)
    <3>1. i \notin 1 .. n
      BY <2>3, <2>4, CellsAssumption DEF Elem
    <3>2. q - 1 = Len(b)
      BY <1>6, <2>2, <3>1
    <3>3. QED
      BY <1>6, <2>2, <3>2 DEF RemoveTemporaryCrashes
  <2>5. ASSUME NEW l, x # NULL, l.pc = "relink", l.cur = x, l.prev = L[w].prev,
               l.temp = L[w].temp
        PROVE  RemoveOK(m, b, n, s, l)
    <3>1. ~Removes(l) /\ Removed(l) /\ l.pc \notin {"flip", "step", "head", "advance"}
      BY <1>8, <2>5 DEF Removes, Removed
    <3>2. i \in 1 .. n /\ l.cur = s[i]
      BY <2>3, <2>5 DEF Elem
    <3>3. RemoverAt(m, b, n, s, l, g, q, i)
      BY <1>5, <2>2, <2>5, <3>1, <3>2 DEF RemoverAt
    <3>4. QED
      BY <1>3, <1>4, <3>3 DEF RemoveOK
  <2>6. x # NULL => m[x] # NULL
    BY <1>2, <2>3 DEF Elem, Plain
  <2>7. QED
    BY <2>4, <2>5, <2>6 DEF MovesTo
<1>9. QED
  BY <1>7, <1>8

\* Unhead, when the stream is not the first of the list.
LEMMA UnheadShape ==
    ASSUME NEW m, NEW b, NEW n, NEW s, NEW l, l.pc = "head", l.prev # NULL,
           RemoveOK(m, b, n, s, l),
           NEW l2, l2.pc = "advance", l2.cur = l.cur, l2.prev = l.prev, l2.temp = l.cur
    PROVE  RemoveOK(m, b, n, s, l2)
<1>1. PICK q \in 1 .. Len(b) + 1, i \in 1 .. n + 1 : \E g \in [1 .. n -> 1 .. Len(b)] :
           RemoverAt(m, b, n, s, l, g, q, i)
  BY DEF RemoveOK
<1>2. PICK g \in [1 .. n -> 1 .. Len(b)] : RemoverAt(m, b, n, s, l, g, q, i)
  BY <1>1
<1>3. Removes(l) /\ Removes(l2) /\ ~Removed(l2)
  BY DEF Removes, Removed
<1>4. RemoverAt(m, b, n, s, l2, g, q, i)
  BY <1>2, <1>3 DEF RemoverAt
<1>5. QED
  BY <1>1, <1>2, <1>4 DEF RemoveOK

\* Relink, when the stream was the first of the list.
LEMMA RelinkShape ==
    ASSUME NEW m, NEW b, NEW n, NEW s, NEW l, l.pc = "relink", l.prev = NULL,
           RemoveOK(m, b, n, s, l),
           NEW l2, l2.pc = "destroy", l2.cur = l.cur, l2.prev = l.prev, l2.temp = l.temp
    PROVE  RemoveOK(m, b, n, s, l2)
<1>1. PICK q \in 1 .. Len(b) + 1, i \in 1 .. n + 1 : \E g \in [1 .. n -> 1 .. Len(b)] :
           RemoverAt(m, b, n, s, l, g, q, i)
  BY DEF RemoveOK
<1>2. PICK g \in [1 .. n -> 1 .. Len(b)] : RemoverAt(m, b, n, s, l, g, q, i)
  BY <1>1
<1>3. Removed(l) /\ Removed(l2) /\ ~Removes(l2)
  BY DEF Removes, Removed
<1>4. RemoverAt(m, b, n, s, l2, g, q, i)
  BY <1>2, <1>3 DEF RemoverAt
<1>5. QED
  BY <1>1, <1>2, <1>4 DEF RemoveOK

\* The loop goes on to the next stream, or has looked at all of them.
LEMMA StepShape ==
    ASSUME NEW m \in [Cells -> Cell \cup {NULL}], NEW h, NEW L \in [Workers -> Local],
           NEW b, NEW sv, NEW tn,
           NEW n \in Nat, NEW s \in [1 .. n -> Cells], Shape(m, h, L, b, sv, tn, n, s),
           NEW w \in Workers, L[w].pc = "step", NEW c, c = L[w].cur,
           NEW x, x = m[c].next
    PROVE  /\ x = NULL => \E g : Done(m, b, n, s, g, Len(b) + 1)
           /\ \A l : x # NULL /\ l.pc = "flip" /\ l.cur = x /\ l.prev = c
                     => RemoveOK(m, b, n, s, l)
<1>1. L[w].pc \in RemoverPCs
  BY DEF RemoverPCs
<1>2. /\ b \in Seq(Stream) /\ RemoveOK(m, b, n, s, L[w]) /\ Plain(m, n, s)
  BY <1>1, RemoverState
<1>3. PICK q \in 1 .. Len(b) + 1, i \in 1 .. n + 1 : \E g \in [1 .. n -> 1 .. Len(b)] :
           RemoverAt(m, b, n, s, L[w], g, q, i)
  BY <1>2 DEF RemoveOK
<1>4. PICK g \in [1 .. n -> 1 .. Len(b)] : RemoverAt(m, b, n, s, L[w], g, q, i)
  BY <1>3
<1>5. Len(b) \in Nat
  BY <1>2
<1>6. /\ Done(m, b, n, s, g, q) /\ Untouched(m, b, n, s, g, q)
      /\ i \in 1 .. n /\ c = s[i] /\ g[i] = q - 1
      /\ q \in 1 .. Len(b) => q \in Visited(b)
  BY <1>4 DEF RemoverAt
<1>7. IF q <= Len(b) THEN i + 1 \in 1 .. n /\ g[i + 1] = q ELSE i = n
  <2>1. (q - 1) + 1 = q /\ q <= q
    BY <1>5
  <2>2. PICK r : r = q - 1
    OBVIOUS
  <2>3. IF r + 1 <= Len(b) THEN i + 1 \in 1 .. n /\ g[i + 1] = r + 1 ELSE i = n
    <3>1. g[i] = r /\ q <= r + 1
      BY <1>6, <2>1, <2>2
    <3>2. NextAt(b, n, g, i, r)
      BY <1>2, <1>6, <3>1, NextPosition
    <3>3. QED
      BY <3>2 DEF NextAt
  <2>4. QED
    BY <2>1, <2>2, <2>3
<1>8. x = Elem(n, s, i + 1)
  BY <1>2, <1>6 DEF Plain
<1>9. ASSUME x = NULL PROVE \E y : Done(m, b, n, s, y, Len(b) + 1)
  <2>1. i + 1 \notin 1 .. n
    BY <1>8, <1>9, CellsAssumption DEF Elem
  <2>2. q = Len(b) + 1
    BY <1>5, <1>7, <2>1
  <2>3. QED
    BY <1>6, <2>2
<1>10. ASSUME NEW l, x # NULL, l.pc = "flip", l.cur = x, l.prev = c
       PROVE  RemoveOK(m, b, n, s, l)
  <2>1. i + 1 \in 1 .. n /\ x = s[i + 1]
    BY <1>8, <1>10 DEF Elem
  <2>2. q \in 1 .. Len(b) /\ g[i + 1] = q
    <3>1. i # n
      BY <2>1
    <3>2. QED
      BY <1>5, <1>7, <3>1
  <2>3. PICK j : j = i + 1
    OBVIOUS
  <2>4. j \in 1 .. n + 1 /\ j - 1 = i /\ l.prev = Elem(n, s, j - 1)
    BY <1>6, <1>10, <2>1, <2>3 DEF Elem
  <2>5. ~Removes(l) /\ ~Removed(l)
    BY <1>10 DEF Removes, Removed
  <2>6. RemoverAt(m, b, n, s, l, g, q, j)
    BY <1>6, <1>10, <2>1, <2>2, <2>3, <2>4, <2>5 DEF RemoverAt
  <2>7. QED
    BY <1>4, <2>2, <2>4, <2>6 DEF RemoveOK
<1>11. QED
  BY <1>9, <1>10

NoSearchAt(L, t) == \A v \in Workers : ~ (L[v].pc = "match" /\ L[v].cur = t)

\* A stream that is out of the list can be freed when no search is at it.
LEMMA DestroyShape ==
    ASSUME NEW m \in [Cells -> Cell \cup {NULL}], NEW h, NEW L \in [Workers -> Local],
           NEW b, NEW sv, NEW tn,
           NEW n \in Nat, NEW s \in [1 .. n -> Cells], Shape(m, h, L, b, sv, tn, n, s),
           NEW w \in Workers, L[w].pc = "destroy", NEW t, t = L[w].temp,
           NEW m2 \in [Cells -> Cell \cup {NULL}], OnlyAt(m, m2, t),
           NoSearchAt(L, t),
           NEW l \in Local, l.pc = "step", l.cur = L[w].cur,
           NEW L2, L2 = [L EXCEPT ![w] = l], NEW sv2,
           Remembers(L, m2, h, L2, sv, sv2)
    PROVE  Shape(m2, h, L2, b, sv2, tn, n, s)
<1> SUFFICES ASSUME \A x \in Cells : x # t => m2[x] = m[x],
                    \A v \in Workers : ~ (L[v].pc = "match" /\ L[v].cur = t)
             PROVE  Shape(m2, h, L2, b, sv2, tn, n, s)
  BY DEF OnlyAt, NoSearchAt
<1>1. L[w].pc \in RemoverPCs
  BY DEF RemoverPCs
<1>2. /\ b \in Seq(Stream) /\ RemoveOK(m, b, n, s, L[w]) /\ Plain(m, n, s) /\ OneWriter(L)
      /\ Writing(L[w])
  BY <1>1, RemoverState
<1>3. PICK q \in 1 .. Len(b) + 1, i \in 1 .. n + 1 : \E g \in [1 .. n -> 1 .. Len(b)] :
           RemoverAt(m, b, n, s, L[w], g, q, i)
  BY <1>2 DEF RemoveOK
<1>4. PICK g \in [1 .. n -> 1 .. Len(b)] : RemoverAt(m, b, n, s, L[w], g, q, i)
  BY <1>3
<1>5. Removed(L[w]) /\ ~Removed(l) /\ ~Removes(l)
  BY DEF Removed, Removes
<1>6. /\ Done(m, b, n, s, g, q) /\ Untouched(m, b, n, s, g, q)
      /\ t \notin ListCells(n, s) /\ q \notin Visited(b)
      /\ i \in 1 .. n /\ L[w].cur = s[i] /\ g[i] = q
  BY <1>4, <1>5 DEF RemoverAt
<1>7. q \in 1 .. Len(b) /\ Len(b) \in Nat
  BY <1>2, <1>6
<1>8. \A j \in 1 .. n : m2[s[j]] = m[s[j]]
  BY <1>6 DEF ListCells
<1>9. Plain(m2, n, s)
  BY <1>2, <1>8 DEF Plain
<1>10. PICK q1 : q1 = q + 1
  OBVIOUS
<1>11. q1 \in 1 .. Len(b) + 1 /\ q1 - 1 = q
  BY <1>7, <1>10
<1>12. q \in Kept(b) /\ b[q] = Result(b, q)
  BY <1>2, <1>6, <1>7, Positions
<1>13. Done(m2, b, n, s, g, q1) /\ Untouched(m2, b, n, s, g, q1)
  <2>1. Finishes(m, m2, b, n, s, g, q)
    BY <1>6, <1>8, <1>12 DEF Finishes, Untouched
  <2>2. QED
    BY <1>2, <1>6, <1>7, <1>10, <1>12, <2>1, DoneNext
<1>14. q1 \in 1 .. Len(b) => q1 \in Visited(b)
  BY <1>2, <1>6, <1>7, <1>10, VisitedSteps
<1>15. RemoveOK(m2, b, n, s, l)
  <2>1. RemoverAt(m2, b, n, s, l, g, q1, i)
    BY <1>5, <1>6, <1>11, <1>13, <1>14 DEF RemoverAt
  <2>2. QED
    BY <1>6, <1>11, <2>1 DEF RemoveOK
<1>16. OutStays(m, L, m2, l)
  <2>1. \A c : Out(L, c) => c = t
    BY <1>2 DEF Out, OneWriter, Writing, Removed
  <2>2. \A v \in Workers : ~ (L[v].pc = "match" /\ L[v].cur = t)
    OBVIOUS
  <2>3. QED
    BY <2>1, <2>2 DEF OutStays
<1>17. l.pc \in RemoverPCs
  BY DEF RemoverPCs
<1>18. QED
  BY <1>1, <1>9, <1>15, <1>16, <1>17, RemoveSame

-----------------------------------------------------------------------------
(* A stream is taken out of the list *)

\* The i-th cell of the list is bypassed.
Cut(m, m2, h2, n, s, i) ==
    /\ h2 = IF i = 1 THEN Elem(n, s, 2) ELSE s[1]
    /\ \A j \in 1 .. n : /\ m2[s[j]] # NULL
                         /\ m2[s[j]].stream = m[s[j]].stream
                         /\ m2[s[j]].next = Elem(n, s, IF j = i - 1 THEN i + 1 ELSE j + 1)

\* The cells that are left, and where the streams in them were in b.
Without(n, s, i) == [j \in 1 .. n - 1 |-> IF j < i THEN s[j] ELSE s[j + 1]]

\* s2 is s without its i-th element.
Shifted(n, s, i, n2, s2) ==
    /\ \A j \in 1 .. n2 : \/ j < i /\ j \in 1 .. n /\ s2[j] = s[j]
                          \/ j >= i /\ j + 1 \in 1 .. n /\ s2[j] = s[j + 1]
    /\ \A j \in 1 .. n : j < i => j \in 1 .. n2 /\ s2[j] = s[j]
    /\ \A j \in 1 .. n : j > i => j - 1 \in 1 .. n2 /\ s2[j - 1] = s[j]

\* The list without its i-th cell.
LEMMA WithoutIs ==
    ASSUME NEW n \in Nat, NEW i \in 1 .. n, NEW S, NEW s \in [1 .. n -> S],
           NEW n2, n2 = n - 1, NEW s2, s2 = Without(n, s, i)
    PROVE  n2 \in Nat /\ s2 \in [1 .. n2 -> S] /\ Shifted(n, s, i, n2, s2)
<1>1. \A j \in 1 .. n2 : j \in 1 .. n /\ j + 1 \in 1 .. n
  OBVIOUS
<1>2. \A j \in 1 .. n : /\ j < i => j \in 1 .. n2
                        /\ j > i => j - 1 \in 1 .. n2 /\ ~ (j - 1 < i) /\ (j - 1) + 1 = j
  OBVIOUS
<1>3. n2 \in Nat
  OBVIOUS
<1>4. \A j \in 1 .. n2 : s2[j] = IF j < i THEN s[j] ELSE s[j + 1]
  BY DEF Without
<1>5. s2 \in [1 .. n2 -> S]
  BY <1>1 DEF Without
<1>6. \A j \in 1 .. n2 : j < i \/ j >= i
  OBVIOUS
<1>7. ASSUME NEW j \in 1 .. n, j > i
      PROVE  j - 1 \in 1 .. n2 /\ s2[j - 1] = s[j]
  <2>1. PICK k \in 1 .. n2 : k = j - 1 /\ ~ (k < i) /\ k + 1 = j
    BY <1>2, <1>7
  <2>2. QED
    BY <1>4, <2>1
<1>8. ASSUME NEW j \in 1 .. n, j < i
      PROVE  j \in 1 .. n2 /\ s2[j] = s[j]
  BY <1>2, <1>4, <1>8
<1>9. ASSUME NEW j \in 1 .. n2
      PROVE  \/ j < i /\ j \in 1 .. n /\ s2[j] = s[j]
             \/ j >= i /\ j + 1 \in 1 .. n /\ s2[j] = s[j + 1]
  BY <1>1, <1>4, <1>6, <1>9
<1>10. QED
  BY <1>3, <1>5, <1>7, <1>8, <1>9 DEF Shifted

\* What lies before and behind the cell that is left out.
LEMMA ShiftedElem ==
    ASSUME NEW n \in Nat, NEW i \in 1 .. n, NEW s, NEW n2, n2 = n - 1, NEW s2,
           Shifted(n, s, i, n2, s2), NEW j \in 1 .. n + 1
    PROVE  /\ j < i => Elem(n2, s2, j) = Elem(n, s, j)
           /\ j > i => Elem(n2, s2, j - 1) = Elem(n, s, j)
<1>1. CASE j < i
  <2>1. j \in 1 .. n /\ ~ (j > i)
    BY <1>1
  <2>2. QED
    BY <1>1, <2>1 DEF Elem, Shifted
<1>2. CASE j > i /\ j \in 1 .. n
  <2>1. ~ (j < i)
    BY <1>2
  <2>2. QED
    BY <1>2, <2>1 DEF Elem, Shifted
<1>3. CASE j > i /\ j \notin 1 .. n
  <2>1. j - 1 \notin 1 .. n2 /\ ~ (j < i)
    BY <1>3
  <2>2. QED
    BY <1>3, <2>1 DEF Elem
<1>4. CASE ~ (j < i) /\ ~ (j > i)
  BY <1>4
<1>5. QED
  BY <1>1, <1>2, <1>3, <1>4

Distinct(n, s) == \A x, y \in 1 .. n : s[x] = s[y] => x = y

\* Cutting out a cell leaves a chain of the others.
LEMMA CutChain ==
    ASSUME NEW m, NEW n \in Nat, NEW s \in [1 .. n -> Cells], NEW i \in 1 .. n,
           Distinct(n, s), NEW m2, NEW h2, Cut(m, m2, h2, n, s, i),
           NEW n2 \in Nat, n2 = n - 1, NEW s2, Shifted(n, s, i, n2, s2)
    PROVE  Plain(m2, n2, s2) /\ h2 = Elem(n2, s2, 1) /\ Distinct(n2, s2)
<1>2. n2 \in Nat /\ \A j \in 1 .. n2 : \/ j < i /\ j \in 1 .. n /\ s2[j] = s[j]
                                       \/ j >= i /\ j + 1 \in 1 .. n /\ s2[j] = s[j + 1]
  BY DEF Shifted
<1>3. \A j \in 1 .. n + 1 : /\ j < i => Elem(n2, s2, j) = Elem(n, s, j)
                            /\ j > i => Elem(n2, s2, j - 1) = Elem(n, s, j)
  BY ShiftedElem
<1>4. Plain(m2, n2, s2)
  <2>1. SUFFICES ASSUME NEW j \in 1 .. n2
                 PROVE  m2[s2[j]] # NULL /\ m2[s2[j]].next = Elem(n2, s2, j + 1)
    BY DEF Plain
  <2>2. CASE j < i - 1
    <3>1. j \in 1 .. n /\ s2[j] = s[j] /\ j + 1 < i /\ j + 1 \in 1 .. n + 1 /\ j # i - 1
      BY <1>2, <2>2
    <3>2. m2[s[j]] # NULL /\ m2[s[j]].next = Elem(n, s, j + 1)
      BY <3>1 DEF Cut
    <3>3. QED
      BY <1>3, <3>1, <3>2
  <2>3. CASE j = i - 1
    <3>1. j \in 1 .. n /\ s2[j] = s[j] /\ i + 1 \in 1 .. n + 1 /\ i + 1 > i /\ i + 1 - 1 = j + 1
      BY <1>2, <2>3
    <3>2. m2[s[j]] # NULL /\ m2[s[j]].next = Elem(n, s, i + 1)
      BY <2>3, <3>1 DEF Cut
    <3>3. QED
      BY <1>3, <3>1, <3>2
  <2>4. CASE j >= i
    <3>1. PICK k : k = j + 1
      OBVIOUS
    <3>2. k \in 1 .. n /\ s2[j] = s[k] /\ k # i - 1 /\ k + 1 \in 1 .. n + 1 /\ k + 1 > i
          /\ k + 1 - 1 = j + 1
      BY <1>2, <2>4, <3>1
    <3>3. m2[s[k]] # NULL /\ m2[s[k]].next = Elem(n, s, k + 1)
      BY <3>2 DEF Cut
    <3>4. QED
      BY <1>3, <3>2, <3>3
  <2>5. QED
    BY <1>2, <2>2, <2>3, <2>4
<1>5. h2 = Elem(n2, s2, 1)
  <2>1. CASE i = 1
    <3>1. 2 \in 1 .. n + 1 /\ 2 > i /\ 2 - 1 = 1
      BY <2>1
    <3>2. QED
      BY <1>3, <2>1, <3>1 DEF Cut
  <2>2. CASE i # 1
    <3>1. 1 \in 1 .. n /\ 1 \in 1 .. n + 1 /\ 1 < i
      BY <2>2
    <3>2. Elem(n, s, 1) = s[1] /\ h2 = s[1]
      BY <2>2, <3>1 DEF Elem, Cut
    <3>3. QED
      BY <1>3, <3>1, <3>2
  <2>3. QED
    BY <2>1, <2>2
<1>6. ASSUME NEW x \in 1 .. n2, NEW y \in 1 .. n2, s2[x] = s2[y] PROVE x = y
  BY <1>2, <1>6 DEF Distinct
<1>7. QED
  BY <1>4, <1>5, <1>6 DEF Distinct

DoneWithout(m2, b, n, g, i, n2, s2, q1) ==
    \E g2 \in [1 .. n2 -> 1 .. Len(b)] :
        /\ Shifted(n, g, i, n2, g2)
        /\ Done(m2, b, n2, s2, g2, q1) /\ Untouched(m2, b, n2, s2, g2, q1)

\* The remover is done with one stream more, which goes.
LEMMA CutDone ==
    ASSUME NEW m, NEW n \in Nat, NEW s \in [1 .. n -> Cells], NEW i \in 1 .. n,
           NEW b \in Seq(Stream), NEW g, NEW q \in 1 .. Len(b),
           Done(m, b, n, s, g, q), g[i] = q, q \notin Kept(b),
           NEW m2, NEW h2, Cut(m, m2, h2, n, s, i),
           NEW n2 \in Nat, n2 = n - 1, NEW s2, Shifted(n, s, i, n2, s2),
           NEW q1, q1 = q + 1
    PROVE  DoneWithout(m2, b, n, g, i, n2, s2, q1)
<1>1. PICK g2 : g2 = Without(n, g, i)
  OBVIOUS
<1>2. /\ g \in [1 .. n -> 1 .. Len(b)]
      /\ \A x, y \in 1 .. n : x < y => g[x] < g[y]
      /\ \A x \in 1 .. Len(b) : x >= q \/ x \in Kept(b) <=> \E y \in 1 .. n : g[y] = x
      /\ \A x \in 1 .. n : /\ g[x] < q => m[s[x]].stream = Result(b, g[x])
                           /\ g[x] > q => m[s[x]].stream = b[g[x]]
  BY DEF Done
<1>0. /\ n2 \in Nat /\ g2 \in [1 .. n2 -> 1 .. Len(b)]
      /\ Shifted(n, s, i, n2, s2) /\ Shifted(n, g, i, n2, g2)
  <2>1. PICK S : S = 1 .. Len(b)
    OBVIOUS
  <2>2. g \in [1 .. n -> S]
    BY <1>2, <2>1
  <2>3. g2 \in [1 .. n2 -> S] /\ Shifted(n, g, i, n2, g2)
    BY <1>1, <2>2, WithoutIs
  <2>4. QED
    BY <2>1, <2>3
<1>3. /\ n2 \in Nat /\ g2 \in [1 .. n2 -> 1 .. Len(b)]
      /\ \A j \in 1 .. n2 : \/ j < i /\ j \in 1 .. n /\ s2[j] = s[j] /\ g2[j] = g[j]
                            \/ j >= i /\ j + 1 \in 1 .. n /\ s2[j] = s[j + 1] /\ g2[j] = g[j + 1]
      /\ \A j \in 1 .. n : j < i => j \in 1 .. n2 /\ g2[j] = g[j]
      /\ \A j \in 1 .. n : j > i => j - 1 \in 1 .. n2 /\ g2[j - 1] = g[j]
  BY <1>0 DEF Shifted
<1>4. \A x, y \in 1 .. n2 : x < y => g2[x] < g2[y]
  <2>1. TAKE x, y \in 1 .. n2
  <2>2. HAVE x < y
  <2>3. x + 1 < y + 1 /\ x < y + 1
    BY <1>3, <2>2
  <2>4. ~ (x >= i /\ y < i)
    BY <1>3, <2>2
  <2>5. PICK x2 \in 1 .. n : g2[x] = g[x2] /\ ((x < i /\ x2 = x) \/ (x >= i /\ x2 = x + 1))
    BY <1>3, Zenon
  <2>6. PICK y2 \in 1 .. n : g2[y] = g[y2] /\ ((y < i /\ y2 = y) \/ (y >= i /\ y2 = y + 1))
    BY <1>3, Zenon
  <2>7. x2 < y2
    <3>1. x \in Int /\ y \in Int /\ i \in Int
      BY <1>3
    <3>2. QED
      BY <2>2, <2>4, <2>5, <2>6, <3>1
  <2>8. g[x2] < g[y2]
    BY <1>2, <2>5, <2>6, <2>7
  <2>9. QED
    BY <2>5, <2>6, <2>8
<1>5. \A x \in 1 .. n : x # i => g[x] # q
  <2>1. TAKE x \in 1 .. n
  <2>2. HAVE x # i
  <2>3. (x < i => g[x] < g[i]) /\ (i < x => g[i] < g[x]) /\ g[x] \in 1 .. Len(b)
    BY <1>2
  <2>4. QED
    BY <2>2, <2>3
<1>6. ASSUME NEW x \in 1 .. Len(b)
      PROVE  x >= q + 1 \/ x \in Kept(b) <=> \E y \in 1 .. n2 : g2[y] = x
  <2>1. CASE x = q
    <3>1. ~ (x >= q + 1) /\ x \notin Kept(b)
      BY <2>1
    <3>2. \A y \in 1 .. n2 : g2[y] # q
      <4>1. TAKE y \in 1 .. n2
      <4>2. (y < i => y # i) /\ (y >= i => y + 1 # i)
        BY <1>3
      <4>3. QED
        BY <1>3, <1>5, <4>2, ZenonT(40)
    <3>3. QED
      BY <2>1, <3>1, <3>2
  <2>2. CASE x # q
    <3>1. x >= q + 1 <=> x >= q
      BY <2>2
    <3>2. ASSUME NEW y \in 1 .. n, g[y] = x PROVE \E z \in 1 .. n2 : g2[z] = x
      <4>1. y # i
        BY <2>2, <3>2
      <4>2. y < i \/ y > i
        BY <4>1
      <4>3. QED
        BY <1>3, <3>2, <4>2
    <3>3. ASSUME NEW z \in 1 .. n2, g2[z] = x PROVE \E y \in 1 .. n : g[y] = x
      BY <1>3, <3>3
    <3>4. x >= q \/ x \in Kept(b) <=> \E y \in 1 .. n : g[y] = x
      BY <1>2
    <3>5. QED
      BY <3>1, <3>2, <3>3, <3>4
  <2>3. QED
    BY <2>1, <2>2
<1>7. ASSUME NEW j \in 1 .. n2
      PROVE  /\ g2[j] < q + 1 => m2[s2[j]].stream = Result(b, g2[j])
             /\ g2[j] > q + 1 => m2[s2[j]].stream = b[g2[j]]
             /\ g2[j] = q + 1 => m2[s2[j]].stream = b[q + 1]
  <2>1. PICK k \in 1 .. n : k # i /\ s2[j] = s[k] /\ g2[j] = g[k]
    <3>1. (j < i => j # i) /\ (j >= i => j + 1 # i)
      BY <1>3
    <3>2. QED
      BY <1>3, <3>1, Zenon
  <2>2. PICK x : x = g[k]
    OBVIOUS
  <2>3. x \in 1 .. Len(b) /\ x # q
    BY <1>2, <1>5, <2>1, <2>2
  <2>4. m2[s2[j]].stream = m[s[k]].stream
    BY <2>1 DEF Cut
  <2>5. /\ x < q + 1 => x < q
        /\ x > q + 1 \/ x = q + 1 => x > q
    BY <2>3
  <2>6. /\ x < q => m[s[k]].stream = Result(b, x)
        /\ x > q => m[s[k]].stream = b[x]
    BY <1>2, <2>2
  <2>7. QED
    BY <2>1, <2>2, <2>4, <2>5, <2>6
<1>8. Done(m2, b, n2, s2, g2, q + 1) /\ Untouched(m2, b, n2, s2, g2, q + 1)
  BY <1>3, <1>4, <1>6, <1>7 DEF Done, Untouched
<1>9. QED
  BY <1>0, <1>8 DEF DoneWithout

\* What the list is then.
CutOK(m2, h2, n, s, i, n2, s2) ==
    /\ n2 = n - 1 /\ Shifted(n, s, i, n2, s2)
    /\ Plain(m2, n2, s2) /\ h2 = Elem(n2, s2, 1) /\ Distinct(n2, s2)
    /\ s[i] \in Cells /\ s[i] \notin ListCells(n2, s2)
    /\ m2[s[i]] # NULL /\ m2[s[i]].next = Elem(n2, s2, i)
    /\ Elem(n2, s2, i - 1) = Elem(n, s, i - 1)

\* There is a list without the cell that is cut out.
LEMMA CutList ==
    ASSUME NEW m, NEW n \in Nat, NEW s \in [1 .. n -> Cells], NEW i \in 1 .. n,
           Distinct(n, s), NEW m2, NEW h2, Cut(m, m2, h2, n, s, i)
    PROVE  \E n2 \in Nat : \E s2 \in [1 .. n2 -> Cells] : CutOK(m2, h2, n, s, i, n2, s2)
<1>1. PICK n2, s2 : n2 = n - 1 /\ s2 = Without(n, s, i)
  OBVIOUS
<1>2. n2 \in Nat /\ s2 \in [1 .. n2 -> Cells] /\ Shifted(n, s, i, n2, s2)
  BY <1>1, WithoutIs
<1>3. Plain(m2, n2, s2) /\ h2 = Elem(n2, s2, 1) /\ Distinct(n2, s2)
  BY <1>1, <1>2, CutChain
<1>4. Elem(n2, s2, i - 1) = Elem(n, s, i - 1)
  <2>1. CASE i = 1
    BY <2>1 DEF Elem
  <2>2. CASE i # 1
    <3>1. PICK j : j = i - 1
      OBVIOUS
    <3>2. j \in 1 .. n + 1 /\ j < i
      BY <2>2, <3>1
    <3>3. Elem(n2, s2, j) = Elem(n, s, j)
      BY <1>1, <1>2, <3>2, ShiftedElem
    <3>4. QED
      BY <3>1, <3>3
  <2>3. QED
    BY <2>1, <2>2
<1>5. s[i] \notin ListCells(n2, s2)
  <2>1. ASSUME NEW j \in 1 .. n2, s2[j] = s[i] PROVE FALSE
    <3>1. \/ j < i /\ j \in 1 .. n /\ s2[j] = s[j]
          \/ j >= i /\ j + 1 \in 1 .. n /\ s2[j] = s[j + 1]
      BY <1>2 DEF Shifted
    <3>2. (j < i => j # i) /\ (j >= i => j + 1 # i)
      BY <1>2
    <3>3. QED
      BY <2>1, <3>1, <3>2 DEF Distinct
  <2>2. QED
    BY <2>1 DEF ListCells
<1>6. s[i] \in Cells /\ m2[s[i]] # NULL /\ m2[s[i]].next = Elem(n2, s2, i)
  <2>1. PICK j : j = i + 1
    OBVIOUS
  <2>2. j \in 1 .. n + 1 /\ j > i /\ j - 1 = i /\ i # i - 1
    BY <2>1
  <2>3. m2[s[i]] # NULL /\ m2[s[i]].next = Elem(n, s, j)
    BY <2>1, <2>2 DEF Cut
  <2>4. Elem(n2, s2, j - 1) = Elem(n, s, j)
    BY <1>1, <1>2, <2>2, ShiftedElem
  <2>5. QED
    BY <2>2, <2>3, <2>4
<1>7. CutOK(m2, h2, n, s, i, n2, s2)
  BY <1>1, <1>2, <1>3, <1>4, <1>5, <1>6 DEF CutOK
<1>8. QED
  BY <1>2, <1>7

\* Where the stream behind the one at q was in b, and is.
NextPlace(b, n2, g2, i, q1) == IF i \in 1 .. n2 THEN g2[i] = q1 ELSE q1 = Len(b) + 1

\* Where the loop goes on behind the cell that is cut out.
LEMMA CutNext ==
    ASSUME NEW m, NEW b \in Seq(Stream), NEW n \in Nat, NEW s,
           NEW g, NEW q \in 1 .. Len(b), Done(m, b, n, s, g, q),
           NEW i \in 1 .. n, g[i] = q, NEW n2, n2 = n - 1, NEW g2, Shifted(n, g, i, n2, g2),
           NEW q1, q1 = q + 1
    PROVE  NextPlace(b, n2, g2, i, q1)
<1>1. Len(b) \in Nat
  OBVIOUS
<1>2. IF q1 <= Len(b) THEN i + 1 \in 1 .. n /\ g[i + 1] = q1 ELSE i = n
  <2>1. q <= q + 1 /\ q \in 1 .. Len(b) + 1
    BY <1>1
  <2>2. NextAt(b, n, g, i, q)
    BY <2>1, NextPosition
  <2>3. QED
    BY <2>2 DEF NextAt
<1>3. CASE i \in 1 .. n2
  <2>1. i # n
    BY <1>3
  <2>2. PICK j : j = i + 1
    OBVIOUS
  <2>3. j \in 1 .. n /\ g[j] = q1 /\ j > i /\ j - 1 = i
    BY <1>2, <2>1, <2>2
  <2>4. g2[j - 1] = g[j]
    BY <2>3 DEF Shifted
  <2>5. QED
    BY <1>3, <2>3, <2>4 DEF NextPlace
<1>4. CASE i \notin 1 .. n2
  <2>1. i + 1 \notin 1 .. n
    BY <1>4
  <2>2. QED
    BY <1>1, <1>2, <1>4, <2>1 DEF NextPlace
<1>5. QED
  BY <1>3, <1>4

\* A search stays ahead of what it was ahead of, when the i-th stream is bypassed.
LEMMA CutAhead ==
    ASSUME NEW m, NEW n \in Nat, NEW s \in [1 .. n -> Cells], NEW i \in 1 .. n,
           Distinct(n, s), NEW m2, NEW h2, NEW n2 \in Nat, NEW s2,
           CutOK(m2, h2, n, s, i, n2, s2),
           NEW x \in 1 .. n, NEW k \in ListCells(n2, s2), Ahead(m, n, s, s[x], k)
    PROVE  Ahead(m2, n2, s2, s[x], k)
<1>1. PICK j \in 1 .. n : x <= j /\ k = s[j]
  <2>1. PICK a, j \in 1 .. n :
           /\ a <= j /\ k = s[j]
           /\ s[x] = s[a] \/ (s[x] \in Cells /\ s[x] \notin ListCells(n, s) /\ m[s[x]].next = s[a])
    BY DEF Ahead
  <2>2. s[x] \in ListCells(n, s)
    BY DEF ListCells
  <2>3. a = x
    BY <2>1, <2>2 DEF Distinct
  <2>4. QED
    BY <2>1, <2>3
<1>2. j # i
  BY <1>1 DEF CutOK
<1>3. /\ \A y \in 1 .. n : y < i => y \in 1 .. n2 /\ s2[y] = s[y]
      /\ \A y \in 1 .. n : y > i => y - 1 \in 1 .. n2 /\ s2[y - 1] = s[y]
  BY DEF CutOK, Shifted
<1>4. CASE x = i
  <2>1. j > i
    BY <1>1, <1>2, <1>4
  <2>2. PICK z : z = j - 1
    OBVIOUS
  <2>3. z \in 1 .. n2 /\ k = s2[z] /\ i <= z
    BY <1>1, <1>3, <2>1, <2>2
  <2>4. i \in 1 .. n2
    BY <2>3
  <2>5. m2[s[i]].next = s2[i] /\ s[i] \notin ListCells(n2, s2)
    BY <2>4 DEF CutOK, Elem
  <2>6. s[i] \in Cells
    OBVIOUS
  <2>7. QED
    BY <1>4, <2>3, <2>4, <2>5, <2>6 DEF Ahead
<1>5. CASE x # i
  <2>1. PICK x2 \in 1 .. n2 : s2[x2] = s[x] /\ ((x < i /\ x2 = x) \/ (x > i /\ x2 = x - 1))
    <3>1. x < i \/ x > i
      BY <1>5
    <3>2. QED
      BY <1>3, <3>1
  <2>2. PICK j2 \in 1 .. n2 : s2[j2] = s[j] /\ ((j < i /\ j2 = j) \/ (j > i /\ j2 = j - 1))
    <3>1. j < i \/ j > i
      BY <1>2
    <3>2. QED
      BY <1>3, <3>1
  <2>3. x2 <= j2
    <3>1. x \in Int /\ j \in Int /\ i \in Int
      OBVIOUS
    <3>2. QED
      BY <1>1, <2>1, <2>2, <3>1
  <2>4. QED
    BY <1>1, <2>1, <2>2, <2>3 DEF Ahead
<1>6. QED
  BY <1>4, <1>5

\* The variables of the remover when it has taken the i-th stream out.
HasCut(l, n, s, i) ==
    /\ l.temp = s[i] /\ l.prev = Elem(n, s, i - 1)
    /\ \/ l.pc = "advance" /\ i = 1 /\ l.cur = s[i]
       \/ l.pc = "destroy" /\ i + 1 \in 1 .. n /\ l.cur = s[i + 1]

\* Taking the stream at q out, whether by setting the head or the next pointer of the
\* stream before.
LEMMA CutShape ==
    ASSUME NEW m \in [Cells -> Cell \cup {NULL}], NEW h, NEW L \in [Workers -> Local],
           NEW b, NEW sv, NEW tn,
           NEW n \in Nat, NEW s \in [1 .. n -> Cells], Shape(m, h, L, b, sv, tn, n, s),
           NEW w \in Workers, L[w].pc \in RemoverPCs, ~Removed(L[w]),
           NEW q \in 1 .. Len(b), NEW i \in 1 .. n, NEW g \in [1 .. n -> 1 .. Len(b)],
           Done(m, b, n, s, g, q), g[i] = q, q \in Visited(b), ~b[q].temporary,
           NEW m2 \in [Cells -> Cell \cup {NULL}], NEW h2, Cut(m, m2, h2, n, s, i),
           NEW l \in Local, HasCut(l, n, s, i),
           NEW L2, L2 = [L EXCEPT ![w] = l], NEW sv2,
           Remembers(L, m2, h2, L2, sv, sv2)
    PROVE  \E n2 \in Nat : \E s2 \in [1 .. n2 -> Cells] : Shape(m2, h2, L2, b, sv2, tn, n2, s2)
<1>1. /\ b \in Seq(Stream) /\ Chain(m, h, L, n, s) /\ OneWriter(L)
      /\ Writing(L[w]) /\ (\A v \in Workers : v # w => ~Writing(L[v]))
      /\ Plain(m, n, s) /\ \A c : ~Out(L, c)
  BY RemoverState
<1>2. Distinct(n, s)
  BY <1>1 DEF Chain, Distinct
<1>3. PICK n2 \in Nat : \E s2 \in [1 .. n2 -> Cells] : CutOK(m2, h2, n, s, i, n2, s2)
  BY <1>2, CutList
<1>4. PICK s2 \in [1 .. n2 -> Cells] : CutOK(m2, h2, n, s, i, n2, s2)
  BY <1>3
<1>5. n2 = n - 1 /\ Shifted(n, s, i, n2, s2)
  BY <1>4 DEF CutOK
<1>6. Len(b) \in Nat /\ q \notin Kept(b)
  BY <1>1, Positions
<1>10. PICK q1 : q1 = q + 1
  OBVIOUS
<1>7. PICK g2 \in [1 .. n2 -> 1 .. Len(b)] :
          /\ Shifted(n, g, i, n2, g2)
          /\ Done(m2, b, n2, s2, g2, q1) /\ Untouched(m2, b, n2, s2, g2, q1)
  <2>1. DoneWithout(m2, b, n, g, i, n2, s2, q1)
    <3>1. b \in Seq(Stream)
      BY <1>1
    <3>2. n2 = n - 1
      BY <1>5
    <3>3. Shifted(n, s, i, n2, s2)
      BY <1>5
    <3>4. q \notin Kept(b)
      BY <1>6
    <3>5. QED
      BY <1>10, <3>1, <3>2, <3>3, <3>4, CutDone
  <2>2. QED
    BY <2>1 DEF DoneWithout
<1>8. L2 \in [Workers -> Local] /\ L2[w] = l /\ \A v \in Workers : v # w => L2[v] = L[v]
  OBVIOUS
<1>9. Chain(m2, h2, L2, n2, s2)
  <2>1. NoLinks(L2)
    BY <1>1, <1>8 DEF HasCut, NoLinks, Links, Writing
  <2>2. QED
    BY <1>4, <2>1, PlainChain DEF CutOK, Distinct
<1>11. q1 \in 1 .. Len(b) + 1 /\ q1 - 1 = q
  BY <1>6, <1>10
<1>12. q1 \notin Visited(b)
  <2>1. q1 \in 1 .. Len(b) => q1 \notin Visited(b)
    BY <1>1, <1>10, VisitedSteps
  <2>2. \A x \in Visited(b) : x \in 1 .. Len(b)
    BY <1>1, Positions
  <2>3. QED
    BY <2>1, <2>2
<1>13. IF i \in 1 .. n2 THEN g2[i] = q1 ELSE q1 = Len(b) + 1
  <2>1. NextPlace(b, n2, g2, i, q1)
    BY <1>1, <1>5, <1>7, <1>10, CutNext
  <2>2. QED
    BY <2>1 DEF NextPlace
<1>14. l.pc # "advance" => i \in 1 .. n2 /\ l.cur = s2[i]
  <2>1. SUFFICES ASSUME i + 1 \in 1 .. n, l.cur = s[i + 1]
                 PROVE  i \in 1 .. n2 /\ l.cur = s2[i]
    BY DEF HasCut
  <2>2. PICK j : j = i + 1
    OBVIOUS
  <2>3. j \in 1 .. n /\ j > i /\ j - 1 = i
    BY <2>1, <2>2
  <2>4. j - 1 \in 1 .. n2 /\ s2[j - 1] = s[j]
    BY <1>5, <2>3 DEF Shifted
  <2>5. QED
    BY <2>1, <2>2, <2>3, <2>4
<1>15. Removed(l) /\ ~Removes(l) /\ l.pc \notin {"flip", "step"}
  <2>1. i = 1 => l.prev = NULL
    BY DEF HasCut, Elem
  <2>2. QED
    BY <2>1 DEF HasCut, Removed, Removes
<1>16. Done(m2, b, n2, s2, g2, q1) /\ Untouched(m2, b, n2, s2, g2, q1)
  BY <1>7
<1>17. /\ s[i] \in Cells /\ s[i] \notin ListCells(n2, s2)
       /\ m2[s[i]] # NULL /\ m2[s[i]].next = Elem(n2, s2, i)
       /\ l.prev = Elem(n2, s2, i - 1) /\ l.temp = s[i]
  BY <1>4 DEF CutOK, HasCut
<1>18. l.pc = "advance" => l.cur = s[i]
  BY DEF HasCut
<1>19. RemoverAt(m2, b, n2, s2, l, g2, q1, i)
  BY <1>6, <1>11, <1>12, <1>13, <1>14, <1>15, <1>16, <1>17, <1>18 DEF RemoverAt
<1>20. WriterOK(m2, b, n2, s2, l)
  <2>1. i \in 1 .. n2 + 1
    BY <1>5
  <2>2. RemoveOK(m2, b, n2, s2, l)
    BY <1>11, <1>19, <2>1 DEF RemoveOK
  <2>3. QED
    BY <2>2 DEF HasCut, WriterOK, AdderPCs
<1>21. Follows(m, L, n, s, m2, L2, n2, s2)
  <2>1. SUFFICES ASSUME NEW v \in Workers, NEW c \in Cells, c \in ListCells(n, s)
                 PROVE  /\ c \in ListCells(n2, s2) \/ Out(L2, c)
                        /\ \A k \in ListCells(n2, s2) :
                              Ahead(m, n, s, c, k) => Ahead(m2, n2, s2, c, k)
    BY <1>1 DEF Follows
  <2>2. PICK x \in 1 .. n : c = s[x]
    BY <2>1 DEF ListCells
  <2>3. \A k \in ListCells(n2, s2) : Ahead(m, n, s, s[x], k) => Ahead(m2, n2, s2, s[x], k)
    BY <1>2, <1>4, CutAhead
  <2>4. x = i => Out(L2, c)
    BY <1>8, <1>15, <1>17, <2>2 DEF Out
  <2>5. x # i => c \in ListCells(n2, s2)
    <3>1. x # i => x < i \/ x > i
      OBVIOUS
    <3>2. QED
      BY <1>5, <2>2, <3>1 DEF Shifted, ListCells
  <2>6. QED
    BY <2>2, <2>3, <2>4, <2>5
<1>22. l.pc # "match" /\ (l.pc = "idle" => l = Idle)
  BY DEF HasCut
<1>23. Shape(m2, h2, L2, b, sv2, tn, n2, s2)
  BY <1>1, <1>9, <1>20, <1>21, <1>22, WriterStep
<1>24. QED
  BY <1>23

\* Where the remover is when it is about to take a stream out.
LEMMA RemovesAt ==
    ASSUME NEW m, NEW h, NEW L, NEW b, NEW sv, NEW tn, NEW n \in Nat, NEW s,
           Shape(m, h, L, b, sv, tn, n, s), NEW w \in Workers, Removes(L[w])
    PROVE  /\ L[w].pc \in RemoverPCs /\ ~Removed(L[w]) /\ b \in Seq(Stream)
           /\ \E q \in 1 .. Len(b), i \in 1 .. n : \E g \in [1 .. n -> 1 .. Len(b)] :
                 RemoverAt(m, b, n, s, L[w], g, q, i)
<1>1. L[w].pc \in RemoverPCs /\ ~Removed(L[w]) /\ L[w].pc # "step"
  BY DEF Removes, Removed, RemoverPCs
<1>2. b \in Seq(Stream) /\ RemoveOK(m, b, n, s, L[w])
  BY <1>1, RemoverState
<1>3. PICK q \in 1 .. Len(b) + 1, i \in 1 .. n + 1 : \E g \in [1 .. n -> 1 .. Len(b)] :
           RemoverAt(m, b, n, s, L[w], g, q, i)
  BY <1>2 DEF RemoveOK
<1>4. PICK g \in [1 .. n -> 1 .. Len(b)] : RemoverAt(m, b, n, s, L[w], g, q, i)
  BY <1>3
<1>5. i \in 1 .. n /\ q \in Visited(b)
  BY <1>4 DEF RemoverAt
<1>6. q \in 1 .. Len(b)
  BY <1>2, <1>5, Positions
<1>7. QED
  BY <1>1, <1>2, <1>4, <1>5, <1>6

\* The stream that goes is the first one of the list if and only if the worker has
\* stepped over none.
LEMMA HeadFirst ==
    ASSUME NEW m, NEW h, NEW L, NEW b, NEW sv, NEW tn, NEW n \in Nat,
           NEW s \in [1 .. n -> Cells],
           Shape(m, h, L, b, sv, tn, n, s), NEW w \in Workers, L[w].pc = "head"
    PROVE  L[w].prev = NULL <=> h = L[w].cur
<1>1. Removes(L[w])
  BY DEF Removes
<1>2. PICK q \in 1 .. Len(b), i \in 1 .. n : \E g \in [1 .. n -> 1 .. Len(b)] :
           RemoverAt(m, b, n, s, L[w], g, q, i)
  BY <1>1, RemovesAt
<1>3. L[w].prev = Elem(n, s, i - 1) /\ L[w].cur = s[i]
  BY <1>1, <1>2 DEF RemoverAt
<1>4. h = Elem(n, s, 1) /\ \A x, y \in 1 .. n : s[x] = s[y] => x = y
  BY DEF Shape, Chain
<1>5. 1 \in 1 .. n /\ h = s[1]
  <2>1. 1 \in 1 .. n
    BY <1>2
  <2>2. QED
    BY <1>4, <2>1 DEF Elem
<1>6. CASE i = 1
  BY <1>3, <1>5, <1>6 DEF Elem
<1>7. CASE i # 1
  <2>1. i - 1 \in 1 .. n
    BY <1>7
  <2>2. s[i - 1] \in Cells
    BY <2>1
  <2>3. L[w].prev # NULL
    BY <1>3, <2>1, <2>2, CellsAssumption DEF Elem
  <2>4. h # L[w].cur
    BY <1>3, <1>4, <1>5, <1>7
  <2>5. QED
    BY <2>3, <2>4
<1>8. QED
  BY <1>6, <1>7

\* Unhead, when the stream is the first of the list.
LEMMA UnheadCut ==
    ASSUME NEW m \in [Cells -> Cell \cup {NULL}], NEW h, NEW L \in [Workers -> Local],
           NEW b, NEW sv, NEW tn,
           NEW n \in Nat, NEW s \in [1 .. n -> Cells], Shape(m, h, L, b, sv, tn, n, s),
           NEW w \in Workers, L[w].pc = "head", NEW c, c = L[w].cur, h = c,
           NEW h2, h2 = m[c].next,
           NEW l \in Local, l.pc = "advance", l.cur = c, l.prev = L[w].prev, l.temp = c,
           NEW L2, L2 = [L EXCEPT ![w] = l], NEW sv2,
           Remembers(L, m, h2, L2, sv, sv2)
    PROVE  \E n2 \in Nat : \E s2 \in [1 .. n2 -> Cells] : Shape(m, h2, L2, b, sv2, tn, n2, s2)
<1>1. Removes(L[w])
  BY DEF Removes
<1>2. L[w].pc \in RemoverPCs /\ ~Removed(L[w])
  BY <1>1, RemovesAt
<1>3. PICK q \in 1 .. Len(b), i \in 1 .. n : \E g \in [1 .. n -> 1 .. Len(b)] :
           RemoverAt(m, b, n, s, L[w], g, q, i)
  BY <1>1, RemovesAt
<1>4. PICK g \in [1 .. n -> 1 .. Len(b)] : RemoverAt(m, b, n, s, L[w], g, q, i)
  BY <1>3
<1>5. /\ Done(m, b, n, s, g, q) /\ L[w].prev = Elem(n, s, i - 1)
      /\ g[i] = q /\ q \in Visited(b) /\ ~b[q].temporary /\ c = s[i]
  BY <1>1, <1>4 DEF RemoverAt
<1>6. Plain(m, n, s) /\ Chain(m, h, L, n, s)
  BY <1>2, RemoverState
<1>7. i = 1 /\ 1 \in 1 .. n
  <2>1. 1 \in 1 .. n
    OBVIOUS
  <2>2. h = s[1]
    BY <1>6, <2>1 DEF Chain, Elem
  <2>3. QED
    BY <1>5, <1>6, <2>1, <2>2 DEF Chain
<1>8. ASSUME NEW m2 \in [Cells -> Cell \cup {NULL}], m2 = m
      PROVE  Cut(m, m2, h2, n, s, i)
  <2>1. h2 = Elem(n, s, 2)
    <3>1. h2 = Elem(n, s, 1 + 1)
      BY <1>5, <1>6, <1>7 DEF Plain
    <3>2. 1 + 1 = 2
      OBVIOUS
    <3>3. QED
      BY <3>1, <3>2
  <2>2. \A j \in 1 .. n : j # i - 1
    BY <1>7
  <2>3. QED
    BY <1>6, <1>7, <1>8, <2>1, <2>2 DEF Cut, Plain
<1>9. HasCut(l, n, s, i)
  BY <1>5, <1>7 DEF HasCut
<1>10. ASSUME NEW m2 \in [Cells -> Cell \cup {NULL}], m2 = m,
              Remembers(L, m2, h2, L2, sv, sv2)
       PROVE  \E n2 \in Nat : \E s2 \in [1 .. n2 -> Cells] :
                  Shape(m2, h2, L2, b, sv2, tn, n2, s2)
  BY <1>2, <1>5, <1>8, <1>9, <1>10, CutShape, ZenonT(40)
<1>11. QED
  BY <1>10

\* Worker w takes the stream behind p out of the list.
Relinks(m, L, w, m2, l, p, c) ==
    /\ L[w].pc = "relink"
    /\ p = L[w].prev
    /\ p # NULL
    /\ c = L[w].cur
    /\ OnlyAt(m, m2, p)
    /\ m2[p] # NULL
    /\ m2[p].stream = m[p].stream
    /\ m2[p].next = c
    /\ l.pc = "destroy"
    /\ l.cur = c
    /\ l.prev = p
    /\ l.temp = L[w].temp

\* Relink, when the stream was not the first of the list.
LEMMA RelinkCut ==
    ASSUME NEW m \in [Cells -> Cell \cup {NULL}], NEW h, NEW L \in [Workers -> Local],
           NEW b, NEW sv, NEW tn,
           NEW n \in Nat, NEW s \in [1 .. n -> Cells], Shape(m, h, L, b, sv, tn, n, s),
           NEW w \in Workers, NEW p, NEW c, NEW m2 \in [Cells -> Cell \cup {NULL}],
           NEW l \in Local, Relinks(m, L, w, m2, l, p, c),
           NEW L2, L2 = [L EXCEPT ![w] = l], NEW sv2,
           Remembers(L, m2, h, L2, sv, sv2)
    PROVE  \E n2 \in Nat : \E s2 \in [1 .. n2 -> Cells] : Shape(m2, h, L2, b, sv2, tn, n2, s2)
<1> SUFFICES ASSUME L[w].pc = "relink", p = L[w].prev, p # NULL, c = L[w].cur,
                    m2[p] # NULL, m2[p].stream = m[p].stream, m2[p].next = c,
                    l.pc = "destroy", l.cur = c, l.prev = p, l.temp = L[w].temp,
                    \A x \in Cells : x # p => m2[x] = m[x]
             PROVE  \E n2 \in Nat : \E s2 \in [1 .. n2 -> Cells] :
                        Shape(m2, h, L2, b, sv2, tn, n2, s2)
  BY DEF Relinks, OnlyAt
<1>1. Removes(L[w])
  BY DEF Removes
<1>2. L[w].pc \in RemoverPCs /\ ~Removed(L[w])
  BY <1>1, RemovesAt
<1>3. PICK q \in 1 .. Len(b), i \in 1 .. n : \E g \in [1 .. n -> 1 .. Len(b)] :
           RemoverAt(m, b, n, s, L[w], g, q, i)
  BY <1>1, RemovesAt
<1>4. PICK g \in [1 .. n -> 1 .. Len(b)] : RemoverAt(m, b, n, s, L[w], g, q, i)
  BY <1>3
<1>5. /\ Done(m, b, n, s, g, q) /\ p = Elem(n, s, i - 1)
      /\ g[i] = q /\ q \in Visited(b) /\ ~b[q].temporary /\ L[w].temp = s[i]
      /\ i + 1 \in 1 .. n /\ c = s[i + 1]
  BY <1>1, <1>4 DEF RemoverAt
<1>6. /\ Plain(m, n, s) /\ h = Elem(n, s, 1)
      /\ \A x, y \in 1 .. n : s[x] = s[y] => x = y
  <2>1. Plain(m, n, s) /\ Chain(m, h, L, n, s)
    BY <1>2, RemoverState
  <2>2. QED
    BY <2>1 DEF Chain
<1>7. i - 1 \in 1 .. n /\ p = s[i - 1] /\ i # 1 /\ 1 \in 1 .. n
  <2>1. i - 1 \in 1 .. n /\ p = s[i - 1]
    BY <1>5 DEF Elem
  <2>2. QED
    BY <2>1
<1>8. Cut(m, m2, h, n, s, i)
  <2>1. h = s[1]
    BY <1>6, <1>7 DEF Elem
  <2>2. ASSUME NEW j \in 1 .. n
        PROVE  /\ m2[s[j]] # NULL /\ m2[s[j]].stream = m[s[j]].stream
               /\ m2[s[j]].next = Elem(n, s, IF j = i - 1 THEN i + 1 ELSE j + 1)
    <3>1. CASE j = i - 1
      BY <1>5, <1>7, <3>1 DEF Elem
    <3>2. CASE j # i - 1
      <4>1. s[j] # p /\ s[j] \in Cells
        BY <1>6, <1>7, <3>2
      <4>2. m2[s[j]] = m[s[j]]
        BY <4>1
      <4>3. QED
        BY <1>6, <3>2, <4>2 DEF Plain
    <3>3. QED
      BY <3>1, <3>2
  <2>3. QED
    BY <1>7, <2>1, <2>2 DEF Cut
<1>9. HasCut(l, n, s, i)
  BY <1>5 DEF HasCut
<1>10. QED
  BY <1>2, <1>5, <1>8, <1>9, CutShape

-----------------------------------------------------------------------------
(* The strings of the streams *)

\* A step of worker w that writes at most the cell k, and no stream becomes unset but
\* that of a copy it begins to make.
Fills(m, L, m2, L2, w, k) ==
    /\ OnlyAt(m, m2, k)
    /\ \A u \in Workers : u # w => L2[u] = L[u]
    /\ L[w].pc = "fill" => k = L[w].temp
    /\ k \in Cells =>
         \/ m2[k] = NULL \/ m2[k].stream \in Stream
         \/ L2[w].pc = "fill" /\ L2[w].temp = k
         \/ L[w].pc # "fill" /\ m[k] # NULL /\ (m[k].stream \in Stream => m2[k].stream \in Stream)

LEMMA FillsKeep ==
    ASSUME NEW m, NEW L, NEW m2, NEW L2, NEW w \in Workers, NEW k,
           Filled(m, L), Fills(m, L, m2, L2, w, k)
    PROVE  Filled(m2, L2)
<1>1. SUFFICES ASSUME NEW x \in Cells
               PROVE  \/ m2[x] = NULL \/ m2[x].stream \in Stream
                      \/ \E u \in Workers : L2[u].pc = "fill" /\ L2[u].temp = x
  BY DEF Filled
<1>2. \/ m[x] = NULL \/ m[x].stream \in Stream
      \/ \E u \in Workers : L[u].pc = "fill" /\ L[u].temp = x
  BY DEF Filled
<1>3. CASE x # k
  BY <1>2, <1>3 DEF Fills, OnlyAt
<1>4. CASE x = k
  BY <1>2, <1>4 DEF Fills
<1>5. QED
  BY <1>3, <1>4

WithNext(m, k, x) == [m EXCEPT ![k] = [m[k] EXCEPT !.next = x]]

\* No worker finds a stream in the list whose strings are not set, whatever collides:
\* this is what the next step keeps.
LEMMA FilledKept ==
    ASSUME TypeOK, NEW w \in Workers, Start(w) \/ Go(w), Filled(mem, local)
    PROVE  Filled(mem', local')
<1>1. PICK m, L, m2, L2, l : m = mem /\ L = local /\ m2 = mem' /\ L2 = local' /\ l = L[w]
  OBVIOUS
<1>2. /\ m \in [Cells -> Cell \cup {NULL}] /\ L \in [Workers -> Local] /\ l \in Local
      /\ Filled(m, L)
  BY <1>1 DEF TypeOK
<1>3. \A c \in Cells : m[c] # NULL => m[c] \in Cell
  BY <1>2
<1>4. CASE m2 = m /\ L2 = L
  BY <1>1, <1>4
<1>5. ASSUME m2 = m, L[w].pc # "fill", \A u \in Workers : u # w => L2[u] = L[u]
      PROVE  Filled(m2, L2)
  <2>1. Fills(m, L, m2, L2, w, NULL)
    BY <1>5, CellsAssumption DEF Fills, OnlyAt
  <2>2. QED
    BY <1>2, <2>1, FillsKeep
<1>6. CASE Start(w)
  <2>1. PICK op, port, to : Begin(w, op, port, to)
    BY <1>6 DEF Start
  <2>2. QED
    BY <1>1, <1>2, <1>5, <2>1 DEF Begin, At
<1>7. CASE MatchNext(w) \/ NotFound(w) \/ Found(w)
  BY <1>1, <1>2, <1>5, <1>7 DEF MatchNext, NotFound, Found, At
<1>8. CASE KeepNext(w) \/ Unhead(w) \/ Step(w)
  BY <1>1, <1>2, <1>5, <1>8 DEF KeepNext, Unhead, Step, At
<1>9. CASE Advance(w)
  <2>1. m2 = m /\ L[w].pc # "fill" /\ \A u \in Workers : u # w => L2[u] = L[u]
    BY <1>1, <1>2, <1>9 DEF Advance, At
  <2>2. QED
    BY <1>1, <1>5, <2>1
<1>10. CASE Crash(w)
  BY <1>1, <1>4, <1>10 DEF Crash
<1>11. CASE Allocate(w)
  <2>0. PICK r : r = [stream |-> [media |-> NULL, port |-> NULL, rtcp_port |-> NULL,
                                  temporary |-> TRUE],
                      next |-> NULL]
    OBVIOUS
  <2>1. PICK k \in Cells :
            /\ m2 = [m EXCEPT ![k] = r]
            /\ L2 = [L EXCEPT ![w] = [l EXCEPT !.pc = "fill", !.temp = k]]
    BY <1>1, <1>11, <2>0 DEF Allocate
  <2>2. OnlyAt(m, m2, k) /\ L[w].pc = "alloc" /\ \A u \in Workers : u # w => L2[u] = L[u]
    BY <1>1, <1>2, <1>11, <2>1 DEF Allocate, At, OnlyAt
  <2>3. L2[w].pc = "fill" /\ L2[w].temp = k
    BY <1>2, <2>1 DEF Local
  <2>4. Fills(m, L, m2, L2, w, k)
    BY <2>2, <2>3 DEF Fills
  <2>5. QED
    BY <1>1, <1>2, <2>4, FillsKeep
<1>12. CASE CopyStream(w)
  <2>1. PICK c, k, r, st :
            /\ c = l.cur /\ k = l.temp /\ r = m[k]
            /\ st = [media |-> m[c].stream.media, port |-> l.to, rtcp_port |-> l.to,
                     temporary |-> r.stream.temporary]
    OBVIOUS
  <2>2. /\ k # NULL /\ r # NULL /\ m2 = [m EXCEPT ![k] = [r EXCEPT !.stream = st]]
        /\ m[c].stream \in Stream /\ l.pc = "fill"
        /\ L2 = [L EXCEPT ![w] = [l EXCEPT !.pc = "link"]]
    BY <1>1, <1>12, <2>1 DEF CopyStream, At, Usable, Readable
  <2>3. k \in Cells /\ l.to \in Port
    BY <1>2, <2>1, <2>2 DEF Local
  <2>4. r \in Cell /\ m2[k] = [r EXCEPT !.stream = st]
    BY <1>2, <1>3, <2>1, <2>2, <2>3
  <2>5. st \in Stream
    <3>1. r.stream.temporary \in BOOLEAN
      BY <2>4 DEF Cell, Stream, Unset
    <3>2. m[c].stream.media \in Media
      BY <2>2 DEF Stream
    <3>3. QED
      BY <2>1, <2>3, <3>1, <3>2 DEF Stream
  <2>6. m2[k].stream \in Stream
    BY <2>4, <2>5 DEF Cell
  <2>7. OnlyAt(m, m2, k) /\ \A u \in Workers : u # w => L2[u] = L[u]
    BY <1>2, <2>2 DEF OnlyAt
  <2>8. Fills(m, L, m2, L2, w, k)
    BY <1>1, <2>1, <2>6, <2>7 DEF Fills
  <2>9. QED
    BY <1>1, <1>2, <2>8, FillsKeep
<1>13. CASE CopyFails(w)
  <2>1. L2 = [L EXCEPT ![w] = Idle]
    BY <1>1, <1>13 DEF CopyFails
  <2>2. CASE At(w, "alloc") /\ mem' = mem
    BY <1>1, <1>2, <1>5, <2>1, <2>2 DEF At
  <2>3. CASE /\ At(w, "fill") /\ Usable({local[w].temp})
             /\ mem' = [mem EXCEPT ![local[w].temp] = NULL]
    <3>1. m2 = [m EXCEPT ![l.temp] = NULL]
      BY <1>1, <2>3
    <3>2. OnlyAt(m, m2, l.temp) /\ (l.temp \in Cells => m2[l.temp] = NULL)
      BY <1>2, <3>1 DEF OnlyAt
    <3>3. \A u \in Workers : u # w => L2[u] = L[u]
      BY <1>2, <2>1
    <3>4. Fills(m, L, m2, L2, w, l.temp)
      BY <1>1, <3>2, <3>3 DEF Fills
    <3>5. QED
      BY <1>1, <1>2, <3>4, FillsKeep
  <2>4. QED
    BY <1>13, <2>2, <2>3 DEF CopyFails
\* The steps that set a next pointer.
<1>14. ASSUME NEW k, NEW x, m[k] # NULL, k # NULL, k \in Pointer,
              m2 = WithNext(m, k, x),
              L[w].pc # "fill", \A u \in Workers : u # w => L2[u] = L[u]
       PROVE  Filled(m2, L2)
  <2>1. k \in Cells /\ m[k] \in Cell
    BY <1>3, <1>14 DEF Pointer
  <2>2. OnlyAt(m, m2, k) /\ m2[k] = [m[k] EXCEPT !.next = x]
    BY <1>2, <1>14, <2>1 DEF OnlyAt, WithNext
  <2>3. m2[k].stream = m[k].stream
    BY <2>1, <2>2 DEF Cell
  <2>4. Fills(m, L, m2, L2, w, k)
    BY <1>14, <2>2, <2>3 DEF Fills
  <2>5. QED
    BY <1>2, <2>4, FillsKeep
<1>15. l.cur \in Pointer /\ l.temp \in Pointer /\ l.prev \in Pointer
  BY <1>2 DEF Local, Pointer
<1>16. CASE Link(w)
  <2>1. PICK k, x : k = l.cur /\ x = l.temp
    OBVIOUS
  <2>2. /\ k # NULL /\ m[k] # NULL /\ m2 = WithNext(m, k, x)
        /\ L[w].pc # "fill" /\ L2 = [L EXCEPT ![w].pc = "link_next"]
    BY <1>1, <1>16, <2>1 DEF Link, At, Usable, WithNext
  <2>3. \A u \in Workers : u # w => L2[u] = L[u]
    BY <1>2, <2>2
  <2>4. QED
    BY <1>1, <1>14, <1>15, <2>1, <2>2, <2>3
<1>17. CASE LinkNext(w)
  <2>1. PICK k, x : k = l.temp /\ x = l.next
    OBVIOUS
  <2>2. /\ k # NULL /\ m[k] # NULL /\ m2 = WithNext(m, k, x)
        /\ L[w].pc # "fill"
    BY <1>1, <1>17, <2>1 DEF LinkNext, At, Usable, WithNext
  <2>3. \A u \in Workers : u # w => L2[u] = L[u]
    BY <1>1, <1>2, <1>17 DEF LinkNext
  <2>4. QED
    BY <1>1, <1>14, <1>15, <2>1, <2>2, <2>3
<1>18. CASE Relink(w)
  <2>1. L[w].pc # "fill" /\ \A u \in Workers : u # w => L2[u] = L[u]
    BY <1>1, <1>2, <1>18 DEF Relink, At
  <2>2. PICK k, x : k = l.prev /\ x = l.cur
    OBVIOUS
  <2>3. CASE k = NULL
    BY <1>1, <1>5, <1>18, <2>1, <2>2, <2>3 DEF Relink
  <2>4. CASE k # NULL
    <3>1. m[k] # NULL /\ m2 = WithNext(m, k, x)
      BY <1>1, <1>18, <2>2, <2>4 DEF Relink, Usable, WithNext
    <3>2. QED
      BY <1>1, <1>14, <1>15, <2>1, <2>2, <2>4, <3>1
  <2>5. QED
    BY <2>3, <2>4
<1>19. CASE Flip(w)
  <2>1. PICK k, r, st, t :
            /\ k = l.cur /\ r = m[k] /\ st = r.stream
            /\ t = [st EXCEPT !.temporary = ~st.temporary]
    OBVIOUS
  <2>2. /\ k # NULL /\ r # NULL /\ m2 = [m EXCEPT ![k] = [r EXCEPT !.stream = t]]
        /\ L[w].pc = "flip"
    BY <1>1, <1>19, <2>1 DEF Flip, At, Usable
  <2>3. \A u \in Workers : u # w => L2[u] = L[u]
    BY <1>1, <1>2, <1>19 DEF Flip
  <2>4. k \in Cells /\ r \in Cell
    BY <1>3, <1>15, <2>1, <2>2 DEF Pointer
  <2>5. OnlyAt(m, m2, k) /\ m2[k] = [r EXCEPT !.stream = t]
    BY <1>2, <2>2, <2>4 DEF OnlyAt
  <2>6. m2[k].stream = t
    BY <2>4, <2>5 DEF Cell
  <2>7. st \in Stream => t \in Stream
    BY <2>1 DEF Stream
  <2>8. Fills(m, L, m2, L2, w, k)
    BY <2>1, <2>2, <2>3, <2>5, <2>6, <2>7 DEF Fills
  <2>9. QED
    BY <1>1, <1>2, <2>8, FillsKeep
<1>20. CASE Destroy(w)
  <2>1. m2 = [m EXCEPT ![l.temp] = NULL] /\ L[w].pc = "destroy"
    BY <1>1, <1>20 DEF Destroy, At
  <2>2. \A u \in Workers : u # w => L2[u] = L[u]
    BY <1>1, <1>2, <1>20 DEF Destroy
  <2>3. OnlyAt(m, m2, l.temp) /\ (l.temp \in Cells => m2[l.temp] = NULL)
    BY <1>2, <2>1 DEF OnlyAt
  <2>4. Fills(m, L, m2, L2, w, l.temp)
    BY <2>1, <2>2, <2>3 DEF Fills
  <2>5. QED
    BY <1>1, <1>2, <2>4, FillsKeep
<1>21. QED
  BY <1>6, <1>7, <1>8, <1>9, <1>10, <1>11, <1>12, <1>13, <1>16, <1>17, <1>18, <1>19, <1>20
     DEF Go

-----------------------------------------------------------------------------
(* The steps of the model *)

LEMMA InitShape ==
    ASSUME Init
    PROVE  \E n \in Nat : \E s \in [1 .. n -> Cells] :
               Shape(mem, head, local, base, served, torn, n, s)
<1>1. PICK ss \in Parsed :
          /\ head = Address(ss)[1]
          /\ mem = [k \in Cells |->
                      IF \E i \in DOMAIN ss : Address(ss)[i] = k
                      THEN LET i == CHOOSE i \in DOMAIN ss : Address(ss)[i] = k
                           IN  [stream |-> ss[i],
                                next |-> IF i = Len(ss) THEN NULL ELSE Address(ss)[i + 1]]
                      ELSE NULL]
          /\ base = ss
  BY DEF Init
<1>2. local = [w \in Workers |-> Idle]
  BY Zenon DEF Init
<1>3. PICK n, s : n = Len(ss) /\ s = Address(ss)
  OBVIOUS
<1>4. /\ n \in Nat /\ s \in [1 .. n -> Cells] /\ 1 \in 1 .. n /\ DOMAIN ss = 1 .. n
      /\ \A i, j \in 1 .. n : s[i] = s[j] => i = j
      /\ ss \in Seq(Stream) /\ \A i \in 1 .. n : ss[i] \in Stream
  <2>1. ss \in Seq(Stream)
    BY CellsAssumption
  <2>2. QED
    BY <1>3, <2>1, AddressExists, ElementOfSeq
<1>5. ASSUME NEW i \in 1 .. n
      PROVE  mem[s[i]] # NULL /\ mem[s[i]].next = Elem(n, s, i + 1)
  <2>1. PICK k : k = s[i]
    OBVIOUS
  <2>2. PICK p : p = CHOOSE j \in DOMAIN ss : Address(ss)[j] = k
    OBVIOUS
  <2>3. p = i
    <3>1. \E j \in DOMAIN ss : Address(ss)[j] = k
      BY <1>3, <1>4, <2>1
    <3>2. p \in DOMAIN ss /\ Address(ss)[p] = k
      BY <2>2, <3>1
    <3>3. QED
      BY <1>3, <1>4, <2>1, <3>2
  <2>4. mem[k] = [stream |-> ss[p],
                  next |-> IF p = Len(ss) THEN NULL ELSE Address(ss)[p + 1]]
    <3>1. k \in Cells /\ \E j \in DOMAIN ss : Address(ss)[j] = k
      BY <1>3, <1>4, <2>1
    <3>2. QED
      BY <1>1, <2>2, <3>1
  <2>5. mem[k].next = Elem(n, s, i + 1)
    <3>1. CASE i = n
      BY <1>3, <2>3, <2>4, <3>1 DEF Elem
    <3>2. CASE i # n
      <4>1. i + 1 \in 1 .. n
        BY <1>4, <3>2
      <4>2. QED
        BY <1>3, <2>3, <2>4, <3>2, <4>1 DEF Elem
    <3>3. QED
      BY <3>1, <3>2
  <2>6. mem[k] \in Cell
    <3>1. Elem(n, s, i + 1) \in Cells \cup {NULL}
      BY <1>4, ElemType DEF Pointer
    <3>2. mem[k] = [stream |-> ss[i], next |-> Elem(n, s, i + 1)]
      BY <2>3, <2>4, <2>5
    <3>3. QED
      BY <1>4, <3>1, <3>2 DEF Cell
  <2>7. QED
    BY <2>1, <2>5, <2>6, CellsAssumption
<1>6. \A v \in Workers : local[v] = Idle /\ local[v].pc = "idle"
  BY <1>2 DEF Idle
<1>7. NoLinks(local) /\ OneWriter(local)
  BY <1>6 DEF NoLinks, Links, OneWriter, Writing
<1>8. Plain(mem, n, s)
  BY <1>5 DEF Plain
<1>9. head = Elem(n, s, 1)
  BY <1>1, <1>3, <1>4 DEF Elem
<1>10. Chain(mem, head, local, n, s)
  BY <1>4, <1>7, <1>8, <1>9, PlainChain
<1>11. \A v \in Workers : WriterOK(mem, base, n, s, local[v])
  BY <1>6 DEF WriterOK, AdderPCs
<1>12. Shape(mem, head, local, base, served, torn, n, s)
  BY <1>1, <1>4, <1>6, <1>7, <1>10, <1>11 DEF Shape
<1>13. QED
  BY <1>4, <1>12

\* What the list of the model is.
LEMMA ListIs ==
    ASSUME TypeOK, NEW n \in Nat, NEW s \in [1 .. n -> Cells],
           Chain(mem, head, local, n, s), OneWriter(local)
    PROVE  List = [i \in 1 .. n |-> mem[s[i]].stream]
<1>1. CellsOf(local, mem, head) = s
  BY CellsOfIs DEF TypeOK
<1>2. Places = s
  BY <1>1, PlacesIs
<1>3. DOMAIN s = 1 .. n
  OBVIOUS
<1>4. QED
  BY <1>2, <1>3 DEF List

\* The steps of a search.
LEMMA SearchKeeps ==
    ASSUME TypeOK, TypeOK', NEW n \in Nat, NEW s \in [1 .. n -> Cells],
           Shape(mem, head, local, base, served, torn, n, s),
           NEW w \in Workers, Remember,
           (\E op, port, to : Begin(w, op, port, to)) \/ MatchNext(w) \/ NotFound(w)
    PROVE  Shape(mem', head', local', base', served', torn', n, s)
<1>1. PICK m, h, L, b, sv, tn, L2, sv2, tn2 :
          /\ m = mem /\ h = head /\ L = local /\ b = base /\ sv = served /\ tn = torn
          /\ L2 = local' /\ sv2 = served' /\ tn2 = torn'
  OBVIOUS
<1>2. /\ m \in [Cells -> Cell \cup {NULL}] /\ L \in [Workers -> Local] /\ h \in Pointer
      /\ L2 \in [Workers -> Local]
  BY <1>1 DEF TypeOK, Pointer
<1>3. mem' = m /\ head' = h /\ base' = b
  BY <1>1 DEF Begin, MatchNext, NotFound, history
<1>4. Remembers(L, m, h, L2, sv, sv2)
  BY <1>1, <1>3, RememberIs
<1>5. Shape(m, h, L, b, sv, tn, n, s)
  BY <1>1
<1>6. ASSUME NEW op, NEW port, NEW to, Begin(w, op, port, to)
      PROVE  Shape(m, h, L2, b, sv2, tn2, n, s)
  <2>1. PICK l : l = [Idle EXCEPT !.pc = "match", !.op = op, !.port = port,
                                  !.to = to, !.cur = h]
    OBVIOUS
  <2>2. L[w].pc = "idle" /\ L2 = [L EXCEPT ![w] = l] /\ tn2 = tn \ {w}
    BY <1>1, <1>6, <2>1 DEF Begin, At
  <2>3. l \in Local
    BY <1>2, <2>2
  <2>4. QED
    BY <1>2, <1>4, <1>5, <2>1, <2>2, <2>3, BeginShape
<1>7. ASSUME MatchNext(w) PROVE Shape(m, h, L2, b, sv2, tn2, n, s)
  <2>1. PICK c, x, l : c = L[w].cur /\ x = m[c].next /\ l = GoesTo(L[w], x)
    OBVIOUS
  <2>2. /\ L[w].pc = "match" /\ c # NULL /\ ~ContainPort(<<m[c].stream>>, L[w].port)
        /\ L2 = [L EXCEPT ![w] = l]
        /\ tn2 = Torn(L, m, c, x, tn, w)
    BY <1>1, <1>7, <2>1 DEF MatchNext, At, Readable, Usable, Fits, NextOf, After, GoesTo, Torn
  <2>3. c \in Cells /\ l \in Local
    BY <1>2, <2>1, <2>2 DEF Local, GoesTo
  <2>4. QED
    BY <1>2, <1>4, <1>5, <2>1, <2>2, <2>3, MatchNextShape
<1>8. ASSUME NotFound(w) PROVE Shape(m, h, L2, b, sv2, tn2, n, s)
  <2>1. L[w].pc = "match" /\ L2 = [L EXCEPT ![w] = Idle] /\ tn2 = tn
    BY <1>1, <1>8 DEF NotFound, At, history
  <2>2. QED
    BY <1>2, <1>4, <1>5, <2>1, EndShape
<1>9. QED
  BY <1>1, <1>3, <1>6, <1>7, <1>8

\* A worker that finds its port ends its search, or begins to change the list if no
\* other worker does.
LEMMA FoundKeeps ==
    ASSUME TypeOK, TypeOK', NEW n \in Nat, NEW s \in [1 .. n -> Cells],
           Shape(mem, head, local, base, served, torn, n, s),
           NEW w \in Workers, Remember, Found(w), ~collided', Filled(mem, local)
    PROVE  Shape(mem', head', local', base', served', torn', n, s)
<1>1. PICK m, h, L, b, sv, tn, L2, sv2, b2 :
          /\ m = mem /\ h = head /\ L = local /\ b = base /\ sv = served /\ tn = torn
          /\ L2 = local' /\ sv2 = served' /\ b2 = base'
  OBVIOUS
<1>2. /\ m \in [Cells -> Cell \cup {NULL}] /\ L \in [Workers -> Local] /\ h \in Pointer
      /\ L2 \in [Workers -> Local]
  BY <1>1 DEF TypeOK, Pointer
<1>3. mem' = m /\ head' = h /\ torn' = tn
  BY <1>1 DEF Found
<1>4. Remembers(L, m, h, L2, sv, sv2)
  BY <1>1, <1>3, RememberIs
<1>5. Shape(m, h, L, b, sv, tn, n, s)
  BY <1>1
<1>6. Chain(m, h, L, n, s) /\ OneWriter(L)
  BY <1>5 DEF Shape
<1>7. L[w].pc = "match" /\ L[w].cur # NULL
  BY <1>1 DEF Found, At, Readable, Usable
<1>8. CASE L[w].op = "search"
  <2>1. L2 = [L EXCEPT ![w] = Idle] /\ b2 = b
    BY <1>1, <1>8 DEF Found
  <2>2. Shape(m, h, L2, b, sv2, tn, n, s)
    BY <1>2, <1>4, <1>5, <1>7, <2>1, EndShape
  <2>3. QED
    BY <1>1, <1>3, <2>1, <2>2
<1>9. CASE L[w].op # "search"
  <2>1. \A v \in Workers : ~Writing(L[v])
    <3>1. ~ \E v \in Workers : Writes(v)
      BY <1>1, <1>9 DEF Found
    <3>2. QED
      BY <1>1, <3>1 DEF Writes, Writing
  <2>2. L[w].cur \in ListCells(n, s)
    <3>1. SearchOK(m, L, n, s, sv, tn, w)
      BY <1>5, <1>7 DEF Shape
    <3>2. ~Out(L, L[w].cur)
      BY <2>1 DEF Out, Removed, Writing
    <3>3. QED
      BY <1>7, <3>1, <3>2 DEF SearchOK
  <2>3. 1 \in 1 .. n /\ h = s[1] /\ h # NULL
    <3>1. 1 \in 1 .. n
      BY <2>2 DEF ListCells
    <3>2. h = s[1]
      BY <1>6, <3>1 DEF Chain, Elem
    <3>3. QED
      BY <3>1, <3>2, CellsAssumption
  <2>4. PICK l : l = [L[w] EXCEPT !.pc = IF L[w].op = "add" THEN "copy" ELSE "flip",
                                  !.cur = h]
    OBVIOUS
  <2>5. L2 = [L EXCEPT ![w] = l]
    BY <1>1, <1>9, <2>3, <2>4 DEF Found
  <2>6. l \in Local
    BY <1>2, <2>5
  <2>7. /\ l.pc = IF L[w].op = "add" THEN "copy" ELSE "flip"
        /\ l.cur = h /\ l.prev = L[w].prev
    <3>1. L[w] \in Local
      BY <1>2
    <3>2. QED
      BY <2>4, <3>1 DEF Local
  <2>8. l.pc \in {"copy", "flip"} /\ l.prev = NULL
    <3>1. SearchOK(m, L, n, s, sv, tn, w)
      BY <1>5, <1>7 DEF Shape
    <3>2. QED
      BY <2>7, <3>1 DEF SearchOK
  <2>9. b2 = [i \in 1 .. n |-> m[s[i]].stream]
    <3>1. b2 = List
      BY <1>1, <1>9 DEF Found
    <3>2. List = [i \in 1 .. n |-> mem[s[i]].stream]
      BY <1>1, <1>6, ListIs
    <3>3. QED
      BY <1>1, <3>1, <3>2
  <2>10. \A i \in 1 .. n : m[s[i]].stream \in Stream
    <3>1. \A i \in 1 .. n : m[s[i]] # NULL /\ s[i] \in Cells
      BY <1>6 DEF Chain
    <3>2. \A v \in Workers : L[v].pc # "fill"
      BY <2>1 DEF Writing
    <3>3. QED
      BY <1>1, <3>1, <3>2 DEF Filled
  <2>11. b2 \in Seq(Stream) /\ Len(b2) = n /\ \A i \in 1 .. n : b2[i] = m[s[i]].stream
    <3>1. b2 \in [1 .. n -> Stream]
      BY <2>9, <2>10
    <3>2. QED
      BY <2>9, <3>1
  <2>12. Shape(m, h, L2, b2, sv2, tn, n, s)
    BY <1>2, <1>4, <1>5, <1>7, <2>1, <2>3, <2>5, <2>6, <2>7, <2>8, <2>11, FoundShape
  <2>13. QED
    BY <1>1, <1>3, <2>12
<1>10. QED
  BY <1>8, <1>9

\* Steps of add_temporary_streams.
LEMMA CopyKeeps ==
    ASSUME TypeOK, TypeOK', NEW n \in Nat, NEW s \in [1 .. n -> Cells],
           Shape(mem, head, local, base, served, torn, n, s),
           NEW w \in Workers, Remember,
           KeepNext(w) \/ Allocate(w) \/ CopyStream(w) \/ CopyFails(w)
    PROVE  Shape(mem', head', local', base', served', torn', n, s)
<1>1. PICK m, h, L, b, sv, tn, m2, L2, sv2 :
          /\ m = mem /\ h = head /\ L = local /\ b = base /\ sv = served /\ tn = torn
          /\ m2 = mem' /\ L2 = local' /\ sv2 = served'
  OBVIOUS
<1>2. /\ m \in [Cells -> Cell \cup {NULL}] /\ L \in [Workers -> Local] /\ L[w] \in Local
      /\ m2 \in [Cells -> Cell \cup {NULL}] /\ L2 \in [Workers -> Local]
  BY <1>1 DEF TypeOK
<1>3. head' = h /\ base' = b /\ torn' = tn
  BY <1>1 DEF KeepNext, Allocate, CopyStream, CopyFails, history
<1>4. Remembers(L, m2, h, L2, sv, sv2)
  BY <1>1, <1>3, RememberIs
<1>5. Shape(m, h, L, b, sv, tn, n, s)
  BY <1>1
<1>6. CASE KeepNext(w)
  <2>1. PICK x : x = m[L[w].cur].next
    OBVIOUS
  <2>2. PICK l : l = [L[w] EXCEPT !.pc = "alloc", !.next = x]
    OBVIOUS
  <2>3. m2 = m /\ L2 = [L EXCEPT ![w] = l] /\ L[w].pc = "copy"
    BY <1>1, <1>6, <2>1, <2>2 DEF KeepNext, At
  <2>4. l \in Local
    BY <1>2, <2>3
  <2>5. l.pc = "alloc" /\ l.cur = L[w].cur /\ l.to = L[w].to /\ l.next = x
    BY <1>2, <2>2 DEF Local
  <2>6. Keeps(m, L, w, l)
    BY <2>1, <2>3, <2>5 DEF Keeps
  <2>7. Remembers(L, m, h, L2, sv, sv2)
    BY <1>4, <2>3
  <2>8. Shape(m, h, L2, b, sv2, tn, n, s)
    BY <1>2, <1>5, <2>3, <2>4, <2>6, <2>7, KeepNextShape
  <2>9. QED
    BY <1>1, <1>3, <2>3, <2>8
<1>7. CASE Allocate(w)
  <2>1. PICK r : r = [stream |-> [media |-> NULL, port |-> NULL, rtcp_port |-> NULL,
                                  temporary |-> TRUE],
                      next |-> NULL]
    OBVIOUS
  <2>2. PICK k \in Cells :
            /\ m[k] = NULL /\ m2 = [m EXCEPT ![k] = r]
            /\ L2 = [L EXCEPT ![w] = [L[w] EXCEPT !.pc = "fill", !.temp = k]]
    BY <1>1, <1>7, <2>1 DEF Allocate
  <2>3. PICK l : l = [L[w] EXCEPT !.pc = "fill", !.temp = k]
    OBVIOUS
  <2>4. L2 = [L EXCEPT ![w] = l] /\ l \in Local
    BY <1>2, <2>2, <2>3
  <2>5. l.pc = "fill" /\ l.temp = k /\ l.cur = L[w].cur /\ l.to = L[w].to /\ l.next = L[w].next
    BY <1>2, <2>3 DEF Local
  <2>6. OnlyAt(m, m2, k) /\ m2[k] = r
    BY <1>2, <2>2 DEF OnlyAt
  <2>7. r # NULL /\ r.next = NULL /\ r.stream.temporary
    <3>1. r \in Cell
      BY <2>1 DEF Cell, Unset
    <3>2. QED
      BY <2>1, <3>1, CellsAssumption
  <2>8. L[w].pc = "alloc"
    BY <1>1, <1>7 DEF Allocate, At
  <2>9. Allocates(m, L, w, m2, l, k)
    BY <2>2, <2>5, <2>6, <2>7, <2>8 DEF Allocates
  <2>10. Shape(m2, h, L2, b, sv2, tn, n, s)
    BY <1>2, <1>4, <1>5, <2>4, <2>9, AllocateShape
  <2>11. QED
    BY <1>1, <1>3, <2>10
<1>8. CASE CopyStream(w)
  <2>1. PICK c, k, r, st, l :
            /\ c = L[w].cur /\ k = L[w].temp /\ r = m[k] /\ l = [L[w] EXCEPT !.pc = "link"]
            /\ st = [media |-> m[c].stream.media, port |-> L[w].to, rtcp_port |-> L[w].to,
                     temporary |-> r.stream.temporary]
    OBVIOUS
  <2>2. /\ k # NULL /\ r # NULL /\ m2 = [m EXCEPT ![k] = [r EXCEPT !.stream = st]]
        /\ L2 = [L EXCEPT ![w] = l] /\ L[w].pc = "fill"
    BY <1>1, <1>8, <2>1 DEF CopyStream, At, Usable
  <2>3. l \in Local
    BY <1>2, <2>2
  <2>4. /\ l.pc = "link" /\ l.temp = k /\ l.cur = c /\ l.to = L[w].to
        /\ l.next = L[w].next /\ k \in Cells
    BY <1>2, <2>1, <2>2 DEF Local
  <2>5. r.stream.temporary = TRUE
    <3>1. r.stream.temporary
      <4>1. PICK p \in 1 .. Len(b) : CopyAt(m, b, n, s, L[w], p)
        BY <1>5, <2>2, CopyState
      <4>2. QED
        BY <2>1, <2>2, <4>1 DEF CopyAt
    <3>2. r \in Cell
      BY <1>2, <2>1, <2>2, <2>4
    <3>3. r.stream.temporary \in BOOLEAN
      BY <3>2 DEF Cell, Stream, Unset
    <3>4. QED
      BY <3>1, <3>3
  <2>6. m2[k] = [stream |-> Copy(m[c].stream, L[w].to), next |-> m[k].next]
    <3>1. m2[k] = [r EXCEPT !.stream = st]
      BY <1>2, <2>2, <2>4
    <3>2. r \in Cell
      BY <1>2, <2>1, <2>2, <2>4
    <3>3. m2[k] = [stream |-> st, next |-> r.next]
      BY <3>1, <3>2 DEF Cell
    <3>4. st = Copy(m[c].stream, L[w].to)
      BY <2>1, <2>5 DEF Copy
    <3>5. QED
      BY <2>1, <3>3, <3>4
  <2>7. OnlyAt(m, m2, k)
    BY <1>2, <2>2 DEF OnlyAt
  <2>8. Copies(m, L, w, m2, l, c, k)
    BY <2>1, <2>2, <2>4, <2>6, <2>7 DEF Copies
  <2>9. Shape(m2, h, L2, b, sv2, tn, n, s)
    BY <1>2, <1>4, <1>5, <2>2, <2>3, <2>8, CopyShape
  <2>10. QED
    BY <1>1, <1>3, <2>9
<1>9. CASE CopyFails(w)
  <2>1. L2 = [L EXCEPT ![w] = Idle]
    BY <1>1, <1>9 DEF CopyFails
  <2>2. \E k : GivesUp(m, L, w, m2, k)
    <3>1. CASE At(w, "alloc") /\ UNCHANGED <<mem, locked>>
      BY <1>1, <3>1 DEF GivesUp, At
    <3>2. CASE At(w, "fill") /\ mem' = [mem EXCEPT ![local[w].temp] = NULL]
      BY <1>1, <1>2, <3>2 DEF GivesUp, At, OnlyAt
    <3>3. QED
      BY <1>9, <3>1, <3>2 DEF CopyFails
  <2>3. Shape(m2, h, L2, b, sv2, tn, n, s)
    BY <1>2, <1>4, <1>5, <2>1, <2>2, CopyFailsShape
  <2>4. QED
    BY <1>1, <1>3, <2>3
<1>10. QED
  BY <1>6, <1>7, <1>8, <1>9

\* LinkShape for the action and the variables; the next lemmas are the others'.
LEMMA LinkKeeps ==
    ASSUME TypeOK, TypeOK', NEW n \in Nat, NEW s \in [1 .. n -> Cells],
           Shape(mem, head, local, base, served, torn, n, s),
           NEW w \in Workers, Remember, Link(w)
    PROVE  \E n2 \in Nat : \E s2 \in [1 .. n2 -> Cells] :
               Shape(mem', head', local', base', served', torn', n2, s2)
<1>1. PICK m, h, L, b, sv, tn, m2, L2, sv2 :
          /\ m = mem /\ h = head /\ L = local /\ b = base /\ sv = served /\ tn = torn
          /\ m2 = mem' /\ L2 = local' /\ sv2 = served'
  OBVIOUS
<1>2. /\ m \in [Cells -> Cell \cup {NULL}] /\ L \in [Workers -> Local]
      /\ m2 \in [Cells -> Cell \cup {NULL}] /\ L2 \in [Workers -> Local]
  BY <1>1 DEF TypeOK
<1>3. head' = h /\ base' = b /\ torn' = tn
  BY <1>1 DEF Link, history
<1>4. Remembers(L, m2, h, L2, sv, sv2)
  BY <1>1, <1>3, RememberIs
<1>5. Shape(m, h, L, b, sv, tn, n, s) /\ L[w].pc = "link"
  BY <1>1 DEF Link, At
<1>6. PICK c, t, r, l : /\ c = L[w].cur /\ t = L[w].temp /\ r = m[c]
                        /\ l = [L[w] EXCEPT !.pc = "link_next"]
  OBVIOUS
<1>7. /\ c # NULL /\ r # NULL /\ m2 = [m EXCEPT ![c] = [r EXCEPT !.next = t]]
      /\ L2 = [L EXCEPT ![w] = l]
  BY <1>1, <1>6 DEF Link, Usable
<1>8. l \in Local
  BY <1>2, <1>7
<1>9. L[w] \in Local
  BY <1>2
<1>10. /\ c \in Cells /\ l.pc = "link_next" /\ l.to = L[w].to /\ l.temp = t
       /\ l.next = L[w].next
  BY <1>6, <1>7, <1>9 DEF Local
<1>11. r \in Cell
  BY <1>2, <1>6, <1>7, <1>10
<1>12. m2[c] = [r EXCEPT !.next = t]
  BY <1>2, <1>7, <1>10
<1>13. m2[c].stream = m[c].stream /\ m2[c].next = t
  BY <1>6, <1>11, <1>12 DEF Cell
<1>14. m2[c] # NULL
  <2>1. m2[c] \in Cell
    <3>1. t \in Cells \cup {NULL}
      BY <1>6, <1>9 DEF Local
    <3>2. QED
      BY <1>11, <1>12, <3>1 DEF Cell
  <2>2. QED
    BY <2>1, CellsAssumption
<1>15. OnlyAt(m, m2, c)
  BY <1>2, <1>7 DEF OnlyAt
<1>16. LinksCopy(m, L, w, m2, l, c, t)
  BY <1>5, <1>6, <1>10, <1>13, <1>14, <1>15 DEF LinksCopy
<1>17. \E n2 \in Nat : \E s2 \in [1 .. n2 -> Cells] : Shape(m2, h, L2, b, sv2, tn, n2, s2)
  BY <1>2, <1>4, <1>5, <1>7, <1>8, <1>16, LinkShape
<1>18. QED
  BY <1>1, <1>3, <1>17

\* At the end of add_temporary_streams every stream has its copy.
LEMMA LinkNextKeeps ==
    ASSUME TypeOK, TypeOK', NEW n \in Nat, NEW s \in [1 .. n -> Cells],
           Shape(mem, head, local, base, served, torn, n, s),
           NEW w \in Workers, Remember, LinkNext(w)
    PROVE  /\ Shape(mem', head', local', base', served', torn', n, s)
           /\ local'[w] = Idle => Added(mem', base, local[w].to, n, s, Len(base))
<1>1. PICK m, h, L, b, sv, tn, m2, L2, sv2 :
          /\ m = mem /\ h = head /\ L = local /\ b = base /\ sv = served /\ tn = torn
          /\ m2 = mem' /\ L2 = local' /\ sv2 = served'
  OBVIOUS
<1>2. /\ m \in [Cells -> Cell \cup {NULL}] /\ L \in [Workers -> Local]
      /\ m2 \in [Cells -> Cell \cup {NULL}] /\ L2 \in [Workers -> Local]
  BY <1>1 DEF TypeOK
<1>3. head' = h /\ base' = b /\ torn' = tn
  BY <1>1 DEF LinkNext, history
<1>4. Remembers(L, m2, h, L2, sv, sv2)
  BY <1>1, <1>3, RememberIs
<1>5. Shape(m, h, L, b, sv, tn, n, s) /\ L[w].pc = "link_next"
  BY <1>1 DEF LinkNext, At
<1>6. PICK t, e, r, l : /\ t = L[w].temp /\ e = L[w].next /\ r = m[t]
                        /\ l = IF e = NULL THEN Idle
                               ELSE [L[w] EXCEPT !.pc = "copy", !.cur = e, !.temp = NULL]
  OBVIOUS
<1>7. /\ t # NULL /\ r # NULL /\ m2 = [m EXCEPT ![t] = [r EXCEPT !.next = e]]
      /\ L2 = [L EXCEPT ![w] = l]
  BY <1>1, <1>6 DEF LinkNext, Usable
<1>8. l \in Local
  BY <1>2, <1>7
<1>9. L[w] \in Local
  BY <1>2
<1>10. /\ t \in Cells /\ IF e = NULL THEN l = Idle ELSE l.pc = "copy" /\ l.cur = e
       /\ l.to = L[w].to \/ l.pc = "idle"
  BY <1>6, <1>7, <1>9 DEF Local, Idle
<1>11. r \in Cell
  BY <1>2, <1>6, <1>7, <1>10
<1>12. m2[t] = [r EXCEPT !.next = e]
  BY <1>2, <1>7, <1>10
<1>13. m2[t].stream = m[t].stream /\ m2[t].next = e
  BY <1>6, <1>11, <1>12 DEF Cell
<1>14. m2[t] # NULL
  <2>1. m2[t] \in Cell
    <3>1. e \in Cells \cup {NULL}
      BY <1>6, <1>9 DEF Local
    <3>2. QED
      BY <1>11, <1>12, <3>1 DEF Cell
  <2>2. QED
    BY <2>1, CellsAssumption
<1>15. OnlyAt(m, m2, t)
  BY <1>2, <1>7 DEF OnlyAt
<1>16. /\ Shape(m2, h, L2, b, sv2, tn, n, s)
       /\ AddsAll(m2, b, L[w].to, n, s, e)
  <2>1. LinksNext(m, L, w, m2, l, t, e)
    BY <1>5, <1>6, <1>10, <1>13, <1>14, <1>15 DEF LinksNext
  <2>2. Shape(m, h, L, b, sv, tn, n, s) /\ L2 = [L EXCEPT ![w] = l]
    BY <1>5, <1>7
  <2>3. QED
    BY <1>2, <1>4, <1>8, <2>1, <2>2, LinkNextShape
<1>17. local'[w] = Idle => e = NULL
  <2>1. local'[w] = l
    BY <1>1, <1>2, <1>7
  <2>2. QED
    BY <1>10, <2>1 DEF Idle
<1>18. QED
  BY <1>1, <1>3, <1>16, <1>17 DEF AddsAll

\* Steps of remove_temporary_streams.
LEMMA FlipKeeps ==
    ASSUME TypeOK, TypeOK', NEW n \in Nat, NEW s \in [1 .. n -> Cells],
           Shape(mem, head, local, base, served, torn, n, s),
           NEW w \in Workers, Remember, Flip(w)
    PROVE  Shape(mem', head', local', base', served', torn', n, s)
<1>1. PICK m, h, L, b, sv, tn, m2, L2, sv2 :
          /\ m = mem /\ h = head /\ L = local /\ b = base /\ sv = served /\ tn = torn
          /\ m2 = mem' /\ L2 = local' /\ sv2 = served'
  OBVIOUS
<1>2. /\ m \in [Cells -> Cell \cup {NULL}] /\ L \in [Workers -> Local]
      /\ m2 \in [Cells -> Cell \cup {NULL}] /\ L2 \in [Workers -> Local]
  BY <1>1 DEF TypeOK
<1>3. head' = h /\ base' = b /\ torn' = tn
  BY <1>1 DEF Flip, history
<1>4. Remembers(L, m2, h, L2, sv, sv2)
  BY <1>1, <1>3, RememberIs
<1>5. Shape(m, h, L, b, sv, tn, n, s) /\ L[w].pc = "flip"
  BY <1>1 DEF Flip, At
<1>6. PICK c, r, st, l :
          /\ c = L[w].cur /\ r = m[c] /\ st = r.stream
          /\ l = [L[w] EXCEPT !.pc = IF st.temporary THEN "step" ELSE "head"]
  OBVIOUS
<1>7. /\ c # NULL /\ r # NULL
      /\ m2 = [m EXCEPT ![c] = [r EXCEPT !.stream = [st EXCEPT !.temporary = ~st.temporary]]]
  BY <1>1, <1>6 DEF Flip, Usable
<1>8. L2 = [L EXCEPT ![w] = l]
  BY <1>1, <1>6 DEF Flip
<1>9. l \in Local /\ L[w] \in Local
  BY <1>2, <1>8
<1>10. /\ c \in Cells /\ l.pc = IF st.temporary THEN "step" ELSE "head"
       /\ l.cur = c /\ l.prev = L[w].prev
  BY <1>6, <1>7, <1>9 DEF Local
<1>11. r \in Cell
  BY <1>2, <1>6, <1>7, <1>10
<1>12. m2[c] = [r EXCEPT !.stream = [st EXCEPT !.temporary = ~st.temporary]]
  BY <1>2, <1>7, <1>10
<1>13. /\ m2[c].stream = [st EXCEPT !.temporary = ~st.temporary]
       /\ m2[c].next = r.next
  BY <1>11, <1>12 DEF Cell
<1>14. m2[c] # NULL
  <2>1. m2[c] \in Cell
    <3>1. st \in Stream \cup Unset
      BY <1>6, <1>11 DEF Cell
    <3>2. [st EXCEPT !.temporary = ~st.temporary] \in Stream \cup Unset
      BY <3>1 DEF Stream, Unset
    <3>3. QED
      BY <1>11, <1>12, <3>2 DEF Cell
  <2>2. QED
    BY <2>1, CellsAssumption
<1>15. OnlyAt(m, m2, c)
  BY <1>2, <1>7 DEF OnlyAt
<1>16. Shape(m2, h, L2, b, sv2, tn, n, s)
  <2>1. c = L[w].cur /\ m2[c].next = m[c].next
    BY <1>6, <1>13
  <2>2. m2[c].stream = [m[c].stream EXCEPT !.temporary = ~m[c].stream.temporary]
    BY <1>6, <1>13
  <2>3. l.pc = IF m[c].stream.temporary THEN "step" ELSE "head"
    BY <1>6, <1>10
  <2>4. Flips(m, L, w, m2, l, c)
    BY <1>5, <1>10, <1>14, <1>15, <2>1, <2>2, <2>3 DEF Flips
  <2>5. QED
    BY <1>2, <1>4, <1>5, <1>8, <1>9, <2>4, FlipShape
<1>17. QED
  BY <1>1, <1>3, <1>16

\* A stream at the head is taken out by moving head.
LEMMA UnheadKeeps ==
    ASSUME TypeOK, TypeOK', NEW n \in Nat, NEW s \in [1 .. n -> Cells],
           Shape(mem, head, local, base, served, torn, n, s),
           NEW w \in Workers, Remember, Unhead(w)
    PROVE  \E n2 \in Nat : \E s2 \in [1 .. n2 -> Cells] :
               Shape(mem', head', local', base', served', torn', n2, s2)
<1>1. PICK m, h, L, b, sv, tn, h2, L2, sv2 :
          /\ m = mem /\ h = head /\ L = local /\ b = base /\ sv = served /\ tn = torn
          /\ h2 = head' /\ L2 = local' /\ sv2 = served'
  OBVIOUS
<1>2. m \in [Cells -> Cell \cup {NULL}] /\ L \in [Workers -> Local] /\ L2 \in [Workers -> Local]
  BY <1>1 DEF TypeOK
<1>3. mem' = m /\ base' = b /\ torn' = tn
  BY <1>1 DEF Unhead, history
<1>4. Remembers(L, m, h2, L2, sv, sv2)
  BY <1>1, <1>3, RememberIs
<1>5. Shape(m, h, L, b, sv, tn, n, s) /\ L[w].pc = "head"
  BY <1>1 DEF Unhead, At
<1>6. PICK c, l : c = L[w].cur /\ l = [L[w] EXCEPT !.pc = "advance", !.temp = c]
  OBVIOUS
<1>7. L2 = [L EXCEPT ![w] = l] /\ h2 = IF h = c THEN m[c].next ELSE h
  BY <1>1, <1>6 DEF Unhead
<1>8. l \in Local /\ L[w] \in Local
  BY <1>2, <1>7
<1>9. l.pc = "advance" /\ l.cur = c /\ l.prev = L[w].prev /\ l.temp = c
  BY <1>6, <1>8 DEF Local
<1>10. L[w].prev = NULL <=> h = c
  <2>1. Shape(m, h, L, b, sv, tn, n, s)
    BY <1>5
  <2>2. L[w].pc = "head"
    BY <1>5
  <2>3. L[w].prev = NULL <=> h = L[w].cur
    BY <2>1, <2>2, HeadFirst
  <2>4. QED
    BY <1>6, <2>3
<1>11. CASE h = c
  <2>1. h2 = m[c].next
    BY <1>7, <1>11
  <2>2. \E n2 \in Nat : \E s2 \in [1 .. n2 -> Cells] : Shape(m, h2, L2, b, sv2, tn, n2, s2)
    BY <1>2, <1>4, <1>5, <1>6, <1>7, <1>8, <1>9, <1>11, <2>1, UnheadCut, ZenonT(40)
  <2>3. QED
    BY <1>1, <1>3, <2>2
<1>12. CASE h # c
  <2>1. h2 = h
    BY <1>7, <1>12
  <2>2. RemoveOK(m, b, n, s, L[w])
    BY <1>5, RemoverState DEF RemoverPCs
  <2>3. RemoveOK(m, b, n, s, l)
    BY <1>5, <1>6, <1>9, <1>10, <1>12, <2>2, UnheadShape
  <2>4. L[w].pc \in RemoverPCs /\ l.pc \in RemoverPCs /\ ~Removed(L[w])
    BY <1>5, <1>9 DEF RemoverPCs, Removed
  <2>5. Remembers(L, m, h, L2, sv, sv2) /\ L2 = [L EXCEPT ![w] = l]
    BY <1>4, <1>7, <2>1
  <2>6. Shape(m, h, L, b, sv, tn, n, s)
    BY <1>5
  <2>7. Shape(m, h, L2, b, sv2, tn, n, s)
    BY <1>2, <1>8, <2>3, <2>4, <2>5, <2>6, QuietShape
  <2>8. QED
    BY <1>1, <1>3, <2>1, <2>7
<1>13. QED
  BY <1>11, <1>12

\* The one crash is the predicted one.
LEMMA AdvanceKeeps ==
    ASSUME TypeOK, TypeOK', NEW n \in Nat, NEW s \in [1 .. n -> Cells],
           Shape(mem, head, local, base, served, torn, n, s),
           NEW w \in Workers, Remember, Advance(w)
    PROVE  /\ Shape(mem', head', local', base', served', torn', n, s)
           /\ fault' => RemoveTemporaryCrashes(base') /\ local'[w].pc = "advance"
<1>1. PICK m, h, L, b, sv, tn, L2, sv2 :
          /\ m = mem /\ h = head /\ L = local /\ b = base /\ sv = served /\ tn = torn
          /\ L2 = local' /\ sv2 = served'
  OBVIOUS
<1>2. m \in [Cells -> Cell \cup {NULL}] /\ L \in [Workers -> Local] /\ L2 \in [Workers -> Local]
  BY <1>1 DEF TypeOK
<1>3. mem' = m /\ head' = h /\ base' = b /\ torn' = tn
  BY <1>1 DEF Advance, history
<1>4. Remembers(L, m, h, L2, sv, sv2)
  BY <1>1, <1>3, RememberIs
<1>5. Shape(m, h, L, b, sv, tn, n, s)
  BY <1>1
<1>6. L[w].pc = "advance" /\ L[w].pc \in RemoverPCs
  BY <1>1 DEF Advance, At, RemoverPCs
<1>7. PICK c, x : c = L[w].cur /\ x = m[c].next
  OBVIOUS
<1>8. RemoveOK(m, b, n, s, L[w])
  BY <1>5, <1>6, RemoverState
<1>9. MovesTo(m, b, n, s, L[w], x)
  BY <1>2, <1>5, <1>6, <1>7, AdvanceShape, ZenonT(40)
<1>10. CASE x = NULL
  <2>1. L2 = L
    BY <1>1, <1>7, <1>10 DEF Advance, Usable
  <2>2. PICK l : l = L[w]
    OBVIOUS
  <2>3. l \in Local /\ L2 = [L EXCEPT ![w] = l]
    BY <1>2, <2>1, <2>2
  <2>4. RemoveOK(m, b, n, s, l) /\ l.pc \in RemoverPCs
    BY <1>6, <1>8, <2>2
  <2>5. Removed(L[w]) => Removed(l) /\ l.temp = L[w].temp
    BY <2>2
  <2>6. Shape(m, h, L2, b, sv2, tn, n, s)
    BY <1>2, <1>4, <1>5, <1>6, <2>3, <2>4, <2>5, QuietShape
  <2>7. RemoveTemporaryCrashes(b) /\ L2[w].pc = "advance"
    BY <1>6, <1>9, <1>10, <2>1 DEF MovesTo
  <2>8. QED
    BY <1>1, <1>3, <2>6, <2>7
<1>11. CASE x # NULL
  <2>1. PICK l : l = [L[w] EXCEPT !.pc = "relink", !.cur = x]
    OBVIOUS
  <2>2. Usable({x})
    BY <1>1, <1>9, <1>11 DEF Usable, MovesTo
  <2>3. L2 = [L EXCEPT ![w] = l] /\ fault' = FALSE
    BY <1>1, <1>7, <2>1, <2>2 DEF Advance, At
  <2>4. l \in Local /\ L[w] \in Local
    BY <1>2, <2>3
  <2>5. l.pc = "relink" /\ l.cur = x /\ l.prev = L[w].prev /\ l.temp = L[w].temp
    BY <2>1, <2>4 DEF Local
  <2>6. RemoveOK(m, b, n, s, l) /\ l.pc \in RemoverPCs
    BY <1>9, <1>11, <2>5 DEF RemoverPCs, MovesTo
  <2>7. Removed(L[w]) => Removed(l) /\ l.temp = L[w].temp
    BY <1>6, <2>5 DEF Removed
  <2>8. Shape(m, h, L2, b, sv2, tn, n, s)
    BY <1>2, <1>4, <1>5, <1>6, <2>3, <2>4, <2>6, <2>7, QuietShape
  <2>9. QED
    BY <1>1, <1>3, <2>3, <2>8
<1>12. QED
  BY <1>10, <1>11

\* A stream further on is taken out by the next pointer before it.
LEMMA RelinkKeeps ==
    ASSUME TypeOK, TypeOK', NEW n \in Nat, NEW s \in [1 .. n -> Cells],
           Shape(mem, head, local, base, served, torn, n, s),
           NEW w \in Workers, Remember, Relink(w)
    PROVE  \E n2 \in Nat : \E s2 \in [1 .. n2 -> Cells] :
               Shape(mem', head', local', base', served', torn', n2, s2)
<1>1. PICK m, h, L, b, sv, tn, m2, L2, sv2 :
          /\ m = mem /\ h = head /\ L = local /\ b = base /\ sv = served /\ tn = torn
          /\ m2 = mem' /\ L2 = local' /\ sv2 = served'
  OBVIOUS
<1>2. /\ m \in [Cells -> Cell \cup {NULL}] /\ L \in [Workers -> Local]
      /\ m2 \in [Cells -> Cell \cup {NULL}] /\ L2 \in [Workers -> Local]
  BY <1>1 DEF TypeOK
<1>3. head' = h /\ base' = b /\ torn' = tn
  BY <1>1 DEF Relink, history
<1>4. Remembers(L, m2, h, L2, sv, sv2)
  BY <1>1, <1>3, RememberIs
<1>5. Shape(m, h, L, b, sv, tn, n, s)
  BY <1>1
<1>6. PICK c, p, l : /\ c = L[w].cur /\ p = L[w].prev
                     /\ l = [L[w] EXCEPT !.pc = "destroy"]
  OBVIOUS
<1>7. L[w].pc = "relink" /\ L2 = [L EXCEPT ![w] = l]
  BY <1>1, <1>6 DEF Relink, At
<1>8. l \in Local /\ L[w] \in Local
  BY <1>2, <1>7
<1>9. l.pc = "destroy" /\ l.cur = c /\ l.prev = p /\ l.temp = L[w].temp
  BY <1>6, <1>8 DEF Local
<1>10. CASE p = NULL
  <2>1. m2 = m
    BY <1>1, <1>6, <1>10 DEF Relink
  <2>2. L[w].pc \in RemoverPCs /\ l.pc \in RemoverPCs
    BY <1>7, <1>9 DEF RemoverPCs
  <2>3. RemoveOK(m, b, n, s, L[w])
    BY <1>5, <2>2, RemoverState
  <2>4. RemoveOK(m, b, n, s, l)
    BY <1>6, <1>7, <1>9, <1>10, <2>3, RelinkShape
  <2>5. Removed(L[w]) => Removed(l) /\ l.temp = L[w].temp
    BY <1>9 DEF Removed
  <2>6. Remembers(L, m, h, L2, sv, sv2) /\ L2 = [L EXCEPT ![w] = l]
    BY <1>4, <1>7, <2>1
  <2>7. Shape(m, h, L2, b, sv2, tn, n, s)
    BY <1>2, <1>5, <1>8, <2>2, <2>4, <2>5, <2>6, QuietShape
  <2>8. QED
    BY <1>1, <1>3, <2>1, <2>7
<1>11. CASE p # NULL
  <2>1. PICK r : r = m[p]
    OBVIOUS
  <2>2. r # NULL /\ m2 = [m EXCEPT ![p] = [r EXCEPT !.next = c]]
    BY <1>1, <1>6, <1>11, <2>1 DEF Relink, Usable
  <2>3. p \in Cells /\ c \in Cells \cup {NULL}
    BY <1>6, <1>8, <1>11 DEF Local
  <2>4. r \in Cell /\ m2[p] = [r EXCEPT !.next = c]
    BY <1>2, <2>1, <2>2, <2>3
  <2>5. m2[p].stream = m[p].stream /\ m2[p].next = c /\ m2[p] \in Cell
    BY <2>1, <2>3, <2>4 DEF Cell
  <2>6. m2[p] # NULL
    BY <2>5, CellsAssumption
  <2>7. OnlyAt(m, m2, p)
    BY <1>2, <2>2 DEF OnlyAt
  <2>8. L2 = [L EXCEPT ![w] = l] /\ L[w].pc = "relink" /\ c = L[w].cur /\ p = L[w].prev
    BY <1>6, <1>7
  <2>9. \E n2 \in Nat : \E s2 \in [1 .. n2 -> Cells] : Shape(m2, h, L2, b, sv2, tn, n2, s2)
    <3>1. Relinks(m, L, w, m2, l, p, c)
      BY <1>9, <1>11, <2>5, <2>6, <2>7, <2>8 DEF Relinks
    <3>2. L2 = [L EXCEPT ![w] = l]
      BY <2>8
    <3>3. QED
      BY <1>2, <1>4, <1>5, <1>8, <3>1, <3>2, RelinkCut
  <2>10. QED
    BY <1>1, <1>3, <2>9
<1>12. QED
  BY <1>10, <1>11

\* No collision: no search is at the stream that is freed.
LEMMA DestroyKeeps ==
    ASSUME TypeOK, TypeOK', NEW n \in Nat, NEW s \in [1 .. n -> Cells],
           Shape(mem, head, local, base, served, torn, n, s),
           NEW w \in Workers, Remember, Destroy(w), ~collided'
    PROVE  Shape(mem', head', local', base', served', torn', n, s)
<1>1. PICK m, h, L, b, sv, tn, m2, L2, sv2 :
          /\ m = mem /\ h = head /\ L = local /\ b = base /\ sv = served /\ tn = torn
          /\ m2 = mem' /\ L2 = local' /\ sv2 = served'
  OBVIOUS
<1>2. /\ m \in [Cells -> Cell \cup {NULL}] /\ L \in [Workers -> Local]
      /\ m2 \in [Cells -> Cell \cup {NULL}] /\ L2 \in [Workers -> Local]
  BY <1>1 DEF TypeOK
<1>3. head' = h /\ base' = b /\ torn' = tn
  BY <1>1 DEF Destroy
<1>4. Remembers(L, m2, h, L2, sv, sv2)
  BY <1>1, <1>3, RememberIs
<1>5. Shape(m, h, L, b, sv, tn, n, s)
  BY <1>1
<1>6. PICK t, l : t = L[w].temp /\ l = [L[w] EXCEPT !.pc = "step", !.temp = NULL]
  OBVIOUS
<1>7. L[w].pc = "destroy" /\ L2 = [L EXCEPT ![w] = l] /\ m2 = [m EXCEPT ![t] = NULL]
  BY <1>1, <1>6 DEF Destroy, At
<1>8. l \in Local /\ L[w] \in Local
  BY <1>2, <1>7
<1>9. l.pc = "step" /\ l.cur = L[w].cur
  BY <1>6, <1>8 DEF Local
<1>10. NoSearchAt(L, t)
  <2>1. \A v \in Workers \ {w} : ~Holds(v, t)
    BY <1>1, <1>6 DEF Destroy
  <2>2. \A v \in Workers : ~ (L[v].pc = "match" /\ L[v].cur = t)
    BY <1>1, <1>7, <2>1 DEF Holds
  <2>3. QED
    BY <2>2 DEF NoSearchAt
<1>11. OnlyAt(m, m2, t)
  BY <1>2, <1>7 DEF OnlyAt
<1>12. Shape(m2, h, L2, b, sv2, tn, n, s)
  <2>1. L2 = [L EXCEPT ![w] = l] /\ L[w].pc = "destroy" /\ t = L[w].temp
    BY <1>6, <1>7
  <2>2. QED
    BY <1>2, <1>4, <1>5, <1>8, <1>9, <1>10, <1>11, <2>1, DestroyShape
<1>13. QED
  BY <1>1, <1>3, <1>12

\* At the end of remove_temporary_streams the loop is done with all streams.
LEMMA StepKeeps ==
    ASSUME TypeOK, TypeOK', NEW n \in Nat, NEW s \in [1 .. n -> Cells],
           Shape(mem, head, local, base, served, torn, n, s),
           NEW w \in Workers, Remember, Step(w)
    PROVE  /\ Shape(mem', head', local', base', served', torn', n, s)
           /\ local'[w] = Idle => \E g : Done(mem', base, n, s, g, Len(base) + 1)
<1>1. PICK m, h, L, b, sv, tn, L2, sv2 :
          /\ m = mem /\ h = head /\ L = local /\ b = base /\ sv = served /\ tn = torn
          /\ L2 = local' /\ sv2 = served'
  OBVIOUS
<1>2. m \in [Cells -> Cell \cup {NULL}] /\ L \in [Workers -> Local] /\ L2 \in [Workers -> Local]
  BY <1>1 DEF TypeOK
<1>3. mem' = m /\ head' = h /\ base' = b /\ torn' = tn
  BY <1>1 DEF Step, history
<1>4. Remembers(L, m, h, L2, sv, sv2)
  BY <1>1, <1>3, RememberIs
<1>5. Shape(m, h, L, b, sv, tn, n, s)
  BY <1>1
<1>6. L[w].pc = "step" /\ L[w].pc \in RemoverPCs
  BY <1>1 DEF Step, At, RemoverPCs
<1>7. PICK c, x, l : /\ c = L[w].cur /\ x = m[c].next
                     /\ l = IF x = NULL THEN Idle
                            ELSE [L[w] EXCEPT !.pc = "flip", !.prev = c, !.cur = x]
  OBVIOUS
<1>8. L2 = [L EXCEPT ![w] = l]
  BY <1>1, <1>7 DEF Step
<1>9. l \in Local /\ L[w] \in Local /\ L2[w] = l
  BY <1>2, <1>8
<1>10. /\ x = NULL => l = Idle
       /\ x # NULL => l.pc = "flip" /\ l.cur = x /\ l.prev = c
  BY <1>7, <1>9 DEF Local
<1>11. /\ x = NULL => \E g : Done(m, b, n, s, g, Len(b) + 1)
       /\ \A k : x # NULL /\ k.pc = "flip" /\ k.cur = x /\ k.prev = c
                     => RemoveOK(m, b, n, s, k)
  BY <1>2, <1>5, <1>6, <1>7, StepShape
<1>12. l.pc \in RemoverPCs \/ l = Idle
  BY <1>10 DEF RemoverPCs
<1>13. l.pc \in RemoverPCs => RemoveOK(m, b, n, s, l)
  BY <1>10, <1>11 DEF RemoverPCs, Idle
<1>14. Removed(L[w]) => Removed(l) /\ l.temp = L[w].temp
  BY <1>6 DEF Removed
<1>15. Shape(m, h, L2, b, sv2, tn, n, s)
  BY <1>2, <1>4, <1>5, <1>6, <1>8, <1>9, <1>12, <1>13, <1>14, QuietShape
<1>16. L2[w] = Idle => x = NULL
  BY <1>9, <1>10 DEF Idle
<1>17. QED
  BY <1>1, <1>3, <1>11, <1>15, <1>16

\* No worker comes to a stream that was freed.
LEMMA NoWildPointer ==
    ASSUME NEW m, NEW h, NEW L \in [Workers -> Local], NEW b, NEW sv, NEW tn,
           NEW n \in Nat, NEW s \in [1 .. n -> Cells], Shape(m, h, L, b, sv, tn, n, s),
           NEW w \in Workers,
           NEW x, x = IF L[w].pc \in {"link_next", "destroy"} THEN L[w].temp
                      ELSE IF L[w].pc = "relink" THEN L[w].prev ELSE L[w].cur
    PROVE  /\ x = NULL \/ m[x] # NULL
           /\ L[w].pc \in {"link_next", "destroy"} => x # NULL
<1>1. /\ b \in Seq(Stream) /\ Chain(m, h, L, n, s)
      /\ L[w].pc = "idle" => L[w] = Idle
      /\ L[w].pc = "match" => SearchOK(m, L, n, s, sv, tn, w)
      /\ \A v \in Workers : WriterOK(m, b, n, s, L[v])
  BY DEF Shape
<1>2. \A i \in 1 .. n : m[s[i]] # NULL
  BY <1>1 DEF Chain
<1>3. Len(b) \in Nat
  BY <1>1
<1>4. ASSUME NEW v \in Workers, Removed(L[v])
      PROVE  /\ m[L[v].temp] # NULL
             /\ L[v].temp \in Cells
             /\ L[v].pc = "advance" => L[v].cur = L[v].temp
  <2>1. L[v].pc \in RemoverPCs
    BY <1>4 DEF Removed, RemoverPCs
  <2>2. RemoveOK(m, b, n, s, L[v])
    BY <1>1, <2>1 DEF WriterOK, RemoverPCs
  <2>3. PICK q \in 1 .. Len(b) + 1, i \in 1 .. n + 1 : \E g \in [1 .. n -> 1 .. Len(b)] :
             RemoverAt(m, b, n, s, L[v], g, q, i)
    BY <2>2 DEF RemoveOK
  <2>4. PICK g \in [1 .. n -> 1 .. Len(b)] : RemoverAt(m, b, n, s, L[v], g, q, i)
    BY <2>3
  <2>5. QED
    BY <1>4, <2>4 DEF RemoverAt
<1>5. CASE L[w].pc = "idle"
  BY <1>1, <1>5 DEF Idle
<1>6. CASE L[w].pc = "match"
  <2>1. x = L[w].cur
    BY <1>6
  <2>2. x = NULL \/ x \in ListCells(n, s) \/ Out(L, x)
    BY <1>1, <1>6, <2>1 DEF SearchOK
  <2>3. x \in ListCells(n, s) => m[x] # NULL
    BY <1>2 DEF ListCells
  <2>4. Out(L, x) => m[x] # NULL
    BY <1>4 DEF Out
  <2>5. QED
    BY <1>6, <2>2, <2>3, <2>4
<1>7. CASE L[w].pc \in AdderPCs
  <2>1. AddOK(m, b, n, s, L[w])
    BY <1>1, <1>7 DEF WriterOK
  <2>2. PICK p \in 1 .. Len(b) :
            /\ L[w].pc \in {"copy", "alloc", "fill", "link"} =>
                 /\ Added(m, b, L[w].to, n, s, p - 1)
                 /\ L[w].cur = s[2 * p - 1]
            /\ L[w].pc = "link_next" => /\ Added(m, b, L[w].to, n, s, p)
                                        /\ L[w].temp = s[2 * p]
    BY <2>1 DEF AddOK
  <2>3. CASE L[w].pc \in {"copy", "alloc", "fill", "link"}
    <3>1. n = Len(b) + (p - 1) /\ x = s[2 * p - 1]
      BY <2>2, <2>3 DEF Added
    <3>2. 2 * p - 1 \in 1 .. n
      BY <1>3, <3>1
    <3>3. QED
      BY <1>2, <2>3, <3>1, <3>2
  <2>4. CASE L[w].pc = "link_next"
    <3>1. n = Len(b) + p /\ x = s[2 * p]
      BY <2>2, <2>4 DEF Added
    <3>2. 2 * p \in 1 .. n
      BY <1>3, <3>1
    <3>3. QED
      BY <1>2, <3>1, <3>2, CellsAssumption
  <2>5. QED
    BY <1>7, <2>3, <2>4 DEF AdderPCs
<1>8. CASE L[w].pc \in RemoverPCs
  <2>1. RemoveOK(m, b, n, s, L[w])
    BY <1>1, <1>8 DEF WriterOK, RemoverPCs
  <2>2. PICK q \in 1 .. Len(b) + 1, i \in 1 .. n + 1 : \E g \in [1 .. n -> 1 .. Len(b)] :
             RemoverAt(m, b, n, s, L[w], g, q, i)
    BY <2>1 DEF RemoveOK
  <2>3. PICK g \in [1 .. n -> 1 .. Len(b)] : RemoverAt(m, b, n, s, L[w], g, q, i)
    BY <2>2
  <2>4. CASE L[w].pc \in {"flip", "step"}
    BY <1>2, <2>3, <2>4 DEF RemoverAt
  <2>5. CASE L[w].pc = "head"
    BY <1>2, <2>3, <2>5 DEF RemoverAt, Removes
  <2>6. CASE L[w].pc = "advance" /\ L[w].prev # NULL
    BY <1>2, <2>3, <2>6 DEF RemoverAt, Removes
  <2>7. CASE L[w].pc = "advance" /\ L[w].prev = NULL
    BY <1>4, <2>7 DEF Removed
  <2>8. CASE L[w].pc = "relink"
    <3>1. x = Elem(n, s, i - 1)
      BY <2>3, <2>8 DEF RemoverAt
    <3>2. QED
      BY <1>2, <2>8, <3>1 DEF Elem
  <2>9. CASE L[w].pc = "destroy"
    BY <1>4, <2>9, CellsAssumption DEF Removed
  <2>10. QED
    BY <1>8, <2>4, <2>5, <2>6, <2>7, <2>8, <2>9 DEF RemoverPCs
<1>9. L[w] \in Local
  OBVIOUS
<1>10. QED
  BY <1>5, <1>6, <1>7, <1>8, <1>9 DEF Local, AdderPCs, RemoverPCs

\* A search comes to no copy that has no strings yet, and a worker that copies a stream
\* has a cell to copy it to.
LEMMA StringsSet ==
    ASSUME NEW m, NEW h, NEW L \in [Workers -> Local], NEW b, NEW sv, NEW tn,
           NEW n \in Nat, NEW s \in [1 .. n -> Cells], Shape(m, h, L, b, sv, tn, n, s),
           Filled(m, L), NEW w \in Workers,
           NEW c, c = L[w].cur, NEW t, t = L[w].temp
    PROVE  /\ L[w].pc = "match" /\ c # NULL => m[c] # NULL /\ m[c].stream \in Stream
           /\ L[w].pc = "fill" => /\ c \in Cells /\ m[c] # NULL /\ m[c].stream \in Stream
                                  /\ t \in Cells /\ m[t] # NULL
<1>1. Chain(m, h, L, n, s) /\ OneWriter(L)
  BY DEF Shape
<1>2. ASSUME NEW v \in Workers, L[v].pc = "fill"
      PROVE  /\ L[v].temp \in Cells /\ L[v].temp \notin ListCells(n, s) /\ m[L[v].temp] # NULL
             /\ \A x : ~Out(L, x)
             /\ \E p \in 1 .. n : L[v].cur = s[p] /\ m[s[p]].stream \in Stream
  <2>1. L[v].pc \in AdderPCs
    BY <1>2 DEF AdderPCs
  <2>2. \A x : ~Out(L, x)
    BY <2>1, AddState
  <2>3. PICK p \in 1 .. Len(b) : CopyAt(m, b, n, s, L[v], p)
    BY <1>2, CopyState
  <2>4. QED
    BY <1>2, <2>2, <2>3 DEF CopyAt
<1>3. CASE L[w].pc = "match" /\ c # NULL
  <2>1. PICK x : x = c
    OBVIOUS
  <2>2. x \in ListCells(n, s) \/ Out(L, x)
    BY <1>3, <2>1 DEF Shape, SearchOK
  <2>3. m[x] # NULL
    <3>1. x = NULL \/ m[x] # NULL
      BY <1>3, <2>1, NoWildPointer
    <3>2. QED
      BY <1>3, <2>1, <3>1
  <2>4. x \in Cells
    <3>1. L[w] \in Local
      OBVIOUS
    <3>2. QED
      BY <1>3, <2>1, <3>1 DEF Local
  <2>5. \A v \in Workers : ~ (L[v].pc = "fill" /\ L[v].temp = x)
    BY <1>2, <2>2
  <2>6. QED
    BY <1>3, <2>1, <2>3, <2>4, <2>5 DEF Filled
<1>4. CASE L[w].pc = "fill"
  BY <1>1, <1>2, <1>4 DEF Chain
<1>5. QED
  BY <1>3, <1>4

\* As long as no worker frees a stream another one is at, no worker crashes but in
\* Advance.
LEMMA NoCrashes ==
    ASSUME TypeOK, Filled(mem, local), NEW n \in Nat, NEW s \in [1 .. n -> Cells],
           Shape(mem, head, local, base, served, torn, n, s), NEW w \in Workers
    PROVE  ~Crash(w)
<1>1. local \in [Workers -> Local]
  BY DEF TypeOK
<1>2. PICK l, x, c, t :
          /\ l = local[w] /\ c = l.cur /\ t = l.temp
          /\ x = IF l.pc \in {"link_next", "destroy"} THEN l.temp
                 ELSE IF l.pc = "relink" THEN l.prev ELSE l.cur
  OBVIOUS
<1>3. /\ x = NULL \/ mem[x] # NULL
      /\ l.pc \in {"link_next", "destroy"} => x # NULL
  BY <1>1, <1>2, NoWildPointer
<1>4. /\ l.pc = "match" /\ c # NULL => mem[c] # NULL /\ mem[c].stream \in Stream
      /\ l.pc = "fill" => /\ c \in Cells /\ mem[c] # NULL /\ mem[c].stream \in Stream
                          /\ t \in Cells /\ mem[t] # NULL
  BY <1>1, <1>2, StringsSet
<1>5. \A k \in Dereferenced(w) : k # NULL /\ mem[k] # NULL
  <2>1. CASE l.pc = "alloc"
    BY <1>2, <2>1 DEF Dereferenced
  <2>2. CASE l.pc = "fill"
    BY <1>2, <1>4, <2>2, CellsAssumption DEF Dereferenced
  <2>3. CASE l.pc \in {"link_next", "destroy"}
    BY <1>2, <1>3, <2>3 DEF Dereferenced
  <2>4. CASE l.pc = "relink"
    BY <1>2, <1>3, <2>4 DEF Dereferenced
  <2>5. CASE l.pc \notin {"alloc", "fill", "link_next", "destroy", "relink"}
    <3>1. Dereferenced(w) = {l.cur} \ {NULL}
      BY <1>2, <2>5 DEF Dereferenced
    <3>2. QED
      BY <1>2, <1>3, <2>5, <3>1
  <2>6. QED
    BY <2>1, <2>2, <2>3, <2>4, <2>5
<1>6. l.pc \in {"match", "fill"} /\ l.cur # NULL => Readable(l.cur)
  BY <1>2, <1>4 DEF Readable, Usable
<1>7. QED
  BY <1>2, <1>5, <1>6 DEF Crash, Usable

\* The steps of a worker that change no more than Remember and a step of its own do.
LEMMA GoKeeps ==
    ASSUME TypeOK, TypeOK', NEW n \in Nat, NEW s \in [1 .. n -> Cells],
           Shape(mem, head, local, base, served, torn, n, s),
           NEW w \in Workers, Start(w) \/ Go(w), Remember, ~collided',
           Filled(mem, local)
    PROVE  \E n2 \in Nat : \E s2 \in [1 .. n2 -> Cells] :
               Shape(mem', head', local', base', served', torn', n2, s2)
<1>1. CASE Start(w)
  BY <1>1, SearchKeeps DEF Start
<1>2. CASE MatchNext(w) \/ NotFound(w)
  BY <1>2, SearchKeeps
<1>3. CASE Found(w)
  BY <1>3, FoundKeeps
<1>4. CASE KeepNext(w) \/ Allocate(w) \/ CopyStream(w) \/ CopyFails(w)
  BY <1>4, CopyKeeps
<1>5. CASE Link(w)
  BY <1>5, LinkKeeps
<1>6. CASE LinkNext(w)
  BY <1>6, LinkNextKeeps
<1>7. CASE Flip(w)
  BY <1>7, FlipKeeps
<1>8. CASE Unhead(w)
  BY <1>8, UnheadKeeps
<1>9. CASE Advance(w)
  BY <1>9, AdvanceKeeps
<1>10. CASE Relink(w)
  BY <1>10, RelinkKeeps
<1>11. CASE Destroy(w)
  BY <1>11, DestroyKeeps
<1>12. CASE Step(w)
  BY <1>12, StepKeeps
<1>13. ~Crash(w)
  BY NoCrashes
<1>14. QED
  BY <1>1, <1>2, <1>3, <1>4, <1>5, <1>6, <1>7, <1>8, <1>9, <1>10, <1>11, <1>12, <1>13 DEF Go

\* A collision is not forgotten.
LEMMA CollidedStays ==
    ASSUME NEW w \in Workers, Start(w) \/ Go(w), collided
    PROVE  collided'
<1>1. CASE Start(w)
  BY <1>1 DEF Start, Begin
<1>2. CASE Found(w) \/ Destroy(w)
  BY <1>2 DEF Found, Destroy
<1>3. CASE MatchNext(w)
  BY <1>3 DEF MatchNext
<1>4. CASE \/ NotFound(w) \/ KeepNext(w) \/ Allocate(w) \/ CopyStream(w) \/ CopyFails(w)
           \/ Link(w) \/ LinkNext(w)
           \/ Flip(w) \/ Unhead(w) \/ Advance(w) \/ Relink(w) \/ Step(w) \/ Crash(w)
  BY <1>4 DEF NotFound, KeepNext, Allocate, CopyStream, CopyFails, Link, LinkNext, Flip,
              Unhead, Advance, Relink, Step, Crash, history
<1>5. QED
  BY <1>1, <1>2, <1>3, <1>4 DEF Go

LEMMA NextStreamInv == StreamInv /\ [Next]_vars => StreamInv'
<1>1. SUFFICES ASSUME StreamInv, [Next]_vars PROVE StreamInv'
  OBVIOUS
<1>2. TypeOK /\ TypeOK'
  BY <1>1, NextTypeOK DEF StreamInv
<1>3. ASSUME NEW w \in Workers, Start(w) \/ Go(w), Remember
      PROVE  Filled(mem', local')
  BY <1>1, <1>2, <1>3, FilledKept DEF StreamInv
<1>4. ASSUME NEW w \in Workers, Start(w) \/ Go(w), Remember, ~collided'
      PROVE  StreamInv'
  <2>1. ~fault
    BY <1>4, Zenon DEF Start, Begin, Go, MatchNext, NotFound, Found, KeepNext, Allocate,
       CopyStream, CopyFails, Link, LinkNext, Flip, Unhead, Advance, Relink, Destroy, Step,
       Crash, At
  <2>7. ~collided
    BY <1>4, CollidedStays
  <2>2. PICK n \in Nat : \E s \in [1 .. n -> Cells] :
             Shape(mem, head, local, base, served, torn, n, s)
    BY <1>1, <2>7 DEF StreamInv
  <2>8. Filled(mem, local)
    BY <1>1 DEF StreamInv
  <2>3. PICK s \in [1 .. n -> Cells] : Shape(mem, head, local, base, served, torn, n, s)
    BY <2>2
  <2>4. \E n2 \in Nat : \E s2 \in [1 .. n2 -> Cells] :
            Shape(mem', head', local', base', served', torn', n2, s2)
    BY <1>2, <1>4, <2>3, <2>8, GoKeeps
  <2>5. fault' => RemoveTemporaryCrashes(base') /\ local'[w].pc = "advance"
    <3>1. CASE Advance(w)
      BY <1>2, <1>4, <2>3, <3>1, AdvanceKeeps
    <3>2. CASE ~Advance(w)
      <4>1. ~Crash(w)
        BY <1>2, <2>3, <2>8, NoCrashes
      <4>2. ~fault'
        BY <1>4, <2>1, <3>2, <4>1 DEF Start, Begin, Go, MatchNext, NotFound, Found,
           KeepNext, Allocate, CopyStream, CopyFails, Link, LinkNext, Flip, Unhead, Relink,
           Destroy, Step
      <4>3. QED
        BY <4>2
    <3>3. QED
      BY <3>1, <3>2
  <2>6. QED
    BY <1>2, <1>4, <1>3, <2>4, <2>5 DEF StreamInv
<1>6. CASE UNCHANGED vars
  BY <1>1, <1>6 DEF StreamInv, TypeOK, Filled, vars
<1>5. ASSUME NEW w \in Workers, Start(w) \/ Go(w), Remember, collided'
      PROVE  StreamInv'
  BY <1>2, <1>5, <1>3 DEF StreamInv
<1>7. QED
  BY <1>1, <1>4, <1>6, <1>5 DEF Next

LEMMA InitFilled == Init => Filled(mem, local)
<1>1. SUFFICES ASSUME Init PROVE Filled(mem, local)
  OBVIOUS
<1>2. PICK ss \in Parsed :
          mem = [k \in Cells |->
                   IF \E i \in DOMAIN ss : Address(ss)[i] = k
                   THEN LET i == CHOOSE i \in DOMAIN ss : Address(ss)[i] = k
                        IN  [stream |-> ss[i],
                             next |-> IF i = Len(ss) THEN NULL ELSE Address(ss)[i + 1]]
                   ELSE NULL]
  BY <1>1 DEF Init
<1>3. \A i \in DOMAIN ss : ss[i] \in Stream
  BY ElementOfSeq, CellsAssumption
<1>4. ASSUME NEW k \in Cells PROVE mem[k] = NULL \/ mem[k].stream \in Stream
  <2>1. CASE \E i \in DOMAIN ss : Address(ss)[i] = k
    <3>1. PICK p : p = CHOOSE i \in DOMAIN ss : Address(ss)[i] = k
      OBVIOUS
    <3>2. p \in DOMAIN ss
      BY <2>1, <3>1
    <3>3. mem[k] = [stream |-> ss[p],
                    next |-> IF p = Len(ss) THEN NULL ELSE Address(ss)[p + 1]]
      BY <1>2, <2>1, <3>1
    <3>4. QED
      BY <1>3, <3>2, <3>3
  <2>2. CASE ~ \E i \in DOMAIN ss : Address(ss)[i] = k
    BY <1>2, <2>2
  <2>3. QED
    BY <2>1, <2>2
<1>5. QED
  BY <1>4 DEF Filled

LEMMA InitStreamInv == Init => StreamInv
<1>1. SUFFICES ASSUME Init PROVE StreamInv
  OBVIOUS
<1>2. PICK n \in Nat : \E s \in [1 .. n -> Cells] :
           Shape(mem, head, local, base, served, torn, n, s)
  BY <1>1, InitShape
<1>3. Filled(mem, local)
  BY <1>1, InitFilled
<1>4. ~fault
  BY <1>1 DEF Init
<1>5. QED
  BY <1>1, <1>2, <1>3, <1>4, InitTypeOK DEF StreamInv

\* The list stays a list and its changes take their course, for any workers, memory
\* and parsed lists, as long as no two workers collide.
THEOREM StreamInvariant == Spec => []StreamInv
<1>1. QED
  BY InitStreamInv, NextStreamInv, PTL DEF Spec

\* Until workers collide, the only crash is the one of remove_temporary_streams that
\* the list it began with foretells.
THEOREM CrashesAreKnown == Spec => []CrashesKnown
<1>1. StreamInv => CrashesKnown
  BY DEF StreamInv, CrashesKnown
<1>2. QED
  BY <1>1, StreamInvariant, PTL

-----------------------------------------------------------------------------
(* What the functions make of the list *)

\* A worker changes the list as the script function it runs says.
OpInv ==
    \A w \in Workers :
        /\ local[w].pc \in AdderPCs => local[w].op = "add"
        /\ local[w].pc \in RemoverPCs => local[w].op = "remove"

\* A worker copies or removes because it was called to.
LEMMA NextOpInv == TypeOK /\ OpInv /\ [Next]_vars => OpInv'
<1>1. SUFFICES ASSUME TypeOK, OpInv, [Next]_vars, NEW v \in Workers
               PROVE  /\ local'[v].pc \in AdderPCs => local'[v].op = "add"
                      /\ local'[v].pc \in RemoverPCs => local'[v].op = "remove"
  BY DEF OpInv
<1>2. /\ local \in [Workers -> Local] /\ local[v] \in Local
      /\ local[v].pc \in AdderPCs => local[v].op = "add"
      /\ local[v].pc \in RemoverPCs => local[v].op = "remove"
  BY <1>1 DEF TypeOK, OpInv
<1>3. CASE local'[v] = local[v]
  BY <1>2, <1>3
<1>4. CASE local'[v].pc \in {"idle", "match"}
  BY <1>4 DEF AdderPCs, RemoverPCs
<1>5. ASSUME NEW w \in Workers, Start(w) \/ Go(w), local'[v] # local[v],
             local'[v].pc \notin {"idle", "match"}
      PROVE  /\ local'[v].pc \in AdderPCs => local'[v].op = "add"
             /\ local'[v].pc \in RemoverPCs => local'[v].op = "remove"
  <2>1. v = w
    BY <1>2, <1>5 DEF Start, Begin, Go, MatchNext, NotFound, Found, KeepNext, Allocate,
       CopyStream, CopyFails, Link, LinkNext, Flip, Unhead, Advance, Relink, Destroy, Step,
       Crash
  <2>2. CASE Start(v)
    <3>1. PICK op, port, to : Begin(v, op, port, to)
      BY <2>2, Zenon DEF Start
    <3>2. local'[v] = [Idle EXCEPT !.pc = "match", !.op = op, !.port = port, !.to = to,
                                   !.cur = head]
      BY <1>2, <3>1 DEF Begin
    <3>3. local'[v].pc = "match"
      BY <3>2 DEF Idle
    <3>4. QED
      BY <1>5, <3>3
  <2>3. CASE MatchNext(v) \/ NotFound(v)
    BY <1>2, <1>5, <2>3 DEF MatchNext, NotFound, At, Idle, Local
  <2>4. CASE Found(v)
    <3>1. local'[v] = IF local[v].op = "search" \/ head = NULL THEN Idle
                      ELSE [local[v] EXCEPT !.pc = IF local[v].op = "add" THEN "copy"
                                                   ELSE "flip",
                                            !.cur = head]
      BY <1>2, <2>4 DEF Found
    <3>2. local'[v] # Idle
      BY <1>5 DEF Idle
    <3>3. /\ local'[v].op = local[v].op /\ local[v].op \in {"add", "remove"}
          /\ local'[v].pc = IF local[v].op = "add" THEN "copy" ELSE "flip"
      BY <1>2, <3>1, <3>2 DEF Local
    <3>4. QED
      BY <3>3 DEF AdderPCs, RemoverPCs
  <2>5. CASE \/ KeepNext(v) \/ Allocate(v) \/ CopyStream(v) \/ CopyFails(v)
             \/ Link(v) \/ LinkNext(v)
    <3>1. local[v].pc \in AdderPCs
      BY <2>5 DEF KeepNext, Allocate, CopyStream, CopyFails, Link, LinkNext, At, AdderPCs
    <3>2. /\ local'[v].op = local[v].op
          /\ local'[v].pc \in AdderPCs
      <4>1. CASE CopyStream(v)
        BY <1>2, <4>1 DEF CopyStream, Local, AdderPCs
      <4>2. CASE CopyFails(v)
        BY <1>2, <1>5, <4>2 DEF CopyFails, Idle
      <4>3. CASE Link(v)
        BY <1>2, <4>3 DEF Link, Local, AdderPCs
      <4>4. CASE LinkNext(v)
        BY <1>2, <1>5, <4>4 DEF LinkNext, Local, Idle, AdderPCs
      <4>5. CASE KeepNext(v)
        <5>1. PICK x : local'[v] = [local[v] EXCEPT !.pc = "alloc", !.next = x]
          BY <1>2, <4>5 DEF KeepNext
        <5>2. QED
          BY <1>2, <5>1 DEF Local, AdderPCs
      <4>6. CASE Allocate(v)
        <5>1. PICK x : local'[v] = [local[v] EXCEPT !.pc = "fill", !.temp = x]
          BY <1>2, <4>6 DEF Allocate
        <5>2. QED
          BY <1>2, <5>1 DEF Local, AdderPCs
      <4>7. QED
        BY <2>5, <4>1, <4>2, <4>3, <4>4, <4>5, <4>6
    <3>3. QED
      BY <1>2, <3>1, <3>2 DEF AdderPCs, RemoverPCs
  <2>6. CASE Flip(v) \/ Unhead(v) \/ Advance(v) \/ Relink(v) \/ Destroy(v) \/ Step(v)
    <3>1. local[v].pc \in RemoverPCs
      BY <2>6 DEF Flip, Unhead, Advance, Relink, Destroy, Step, At, RemoverPCs
    <3>2. local'[v].op = local[v].op /\ local'[v].pc \in RemoverPCs
      <4>1. CASE Flip(v)
        BY <1>2, <4>1 DEF Flip, Local, RemoverPCs
      <4>2. CASE Unhead(v)
        BY <1>2, <4>2 DEF Unhead, Local, RemoverPCs
      <4>3. CASE Advance(v)
        <5>1. PICK x : local'[v] = [local[v] EXCEPT !.pc = "relink", !.cur = x]
          BY <1>2, <1>5, <4>3 DEF Advance
        <5>2. QED
          BY <1>2, <5>1 DEF Local, RemoverPCs
      <4>4. CASE Relink(v)
        BY <1>2, <4>4 DEF Relink, Local, RemoverPCs
      <4>5. CASE Destroy(v)
        BY <1>2, <4>5 DEF Destroy, Local, RemoverPCs
      <4>6. CASE Step(v)
        BY <1>2, <1>5, <4>6 DEF Step, Local, Idle, RemoverPCs
      <4>7. QED
        BY <2>6, <4>1, <4>2, <4>3, <4>4, <4>5, <4>6
    <3>3. QED
      BY <1>2, <3>1, <3>2 DEF AdderPCs, RemoverPCs
  <2>7. CASE Crash(v)
    BY <1>5, <2>7 DEF Crash
  <2>8. QED
    BY <1>5, <2>1, <2>2, <2>3, <2>4, <2>5, <2>6, <2>7 DEF Go
<1>6. CASE UNCHANGED vars
  BY <1>3, <1>6 DEF vars
<1>7. QED
  BY <1>1, <1>3, <1>4, <1>5, <1>6 DEF Next

\* The streams of the list.
Streams(m, n, s) == [i \in 1 .. n |-> m[s[i]].stream]

\* With every stream copied the list is what AddTemporaryStreams makes of b.
LEMMA AllAdded ==
    ASSUME NEW m, NEW b \in Seq(Stream), NEW to, NEW n \in Nat, NEW s,
           Added(m, b, to, n, s, Len(b))
    PROVE  Streams(m, n, s) = AddTemporaryStreams(b, to)
<1>1. Len(b) \in Nat /\ n = 2 * Len(b)
  BY DEF Added
<1>2. ASSUME NEW i \in 1 .. n PROVE m[s[i]].stream = AddTemporaryStreams(b, to)[i]
  <2>1. i <= 2 * Len(b)
    BY <1>1
  <2>2. QED
    BY <2>1 DEF Added
<1>3. \E f : AddTemporaryStreams(b, to) = [i \in 1 .. n |-> f[i]]
  <2>1. PICK f : f = AddTemporaryStreams(b, to)
    OBVIOUS
  <2>2. f = [i \in 1 .. n |-> f[i]]
    BY <1>1, <2>1 DEF AddTemporaryStreams
  <2>3. QED
    BY <2>1, <2>2
<1>4. QED
  BY <1>2, <1>3 DEF Streams

\* With every position done the list is what RemoveTemporaryStreams makes of b.
LEMMA AllDone ==
    ASSUME NEW m, NEW b \in Seq(Stream), NEW n \in Nat, NEW s, NEW g,
           NEW q, q = Len(b) + 1, Done(m, b, n, s, g, q)
    PROVE  Streams(m, n, s) = RemoveTemporaryStreams(b)
<1>1. /\ g \in [1 .. n -> 1 .. Len(b)]
      /\ \A i, j \in 1 .. n : i < j => g[i] < g[j]
      /\ \A x \in 1 .. Len(b) : x >= q \/ x \in Kept(b) <=> \E i \in 1 .. n : g[i] = x
      /\ \A i \in 1 .. n : g[i] < q => m[s[i]].stream = Result(b, g[i])
  BY DEF Done
<1>2. Len(b) \in Nat /\ \A x \in Kept(b) : x \in 1 .. Len(b)
  BY Positions
<1>3. \A x \in 1 .. Len(b) : x < q /\ ~ (x >= q)
  BY <1>2
<1>4. Kept(b) = {g[i] : i \in 1 .. n}
  BY <1>1, <1>2, <1>3
<1>5. g \in [1 .. n -> Nat]
  BY <1>1
<1>6. Cardinality(Kept(b)) = n /\ \A k \in 1 .. n : Nth(Kept(b), k) = g[k]
  <2>1. PICK I : I = Kept(b)
    OBVIOUS
  <2>2. I = {g[i] : i \in 1 .. n} /\ \A i, j \in 1 .. n : i < j => g[i] < g[j]
    BY <1>1, <1>4, <2>1
  <2>3. Cardinality(I) = n /\ \A k \in 1 .. n : Nth(I, k) = g[k]
    BY <1>5, <2>2, NthIs, ZenonT(40)
  <2>4. QED
    BY <2>1, <2>3
<1>7. \A i \in 1 .. n : m[s[i]].stream = Result(b, g[i])
  BY <1>1, <1>3
<1>8. RemoveTemporaryStreams(b) = [k \in 1 .. n |-> Result(b, Nth(Kept(b), k))]
  BY <1>6 DEF RemoveTemporaryStreams, Result
<1>9. [k \in 1 .. n |-> Result(b, Nth(Kept(b), k))] = [k \in 1 .. n |-> m[s[k]].stream]
  BY <1>6, <1>7
<1>10. QED
  BY <1>8, <1>9 DEF Streams

\* The last step of a script function that does not run out of memory.
LEMMA WriterEnds ==
    ASSUME TypeOK, NEW w \in Workers, NEW v \in Workers, Start(v) \/ Go(v),
           local[w].pc \notin {"idle", "match"}, local'[w] = Idle
    PROVE  w = v /\ (CopyFails(w) \/ LinkNext(w) \/ Step(w))
<1>1. local \in [Workers -> Local] /\ local[w] \in Local
  BY DEF TypeOK
<1>2. local'[w] # local[w] /\ local'[w].pc = "idle"
  BY DEF Idle
<1>3. w = v
  BY <1>1, <1>2 DEF Start, Begin, Go, MatchNext, NotFound, Found, KeepNext, Allocate,
     CopyStream, CopyFails, Link, LinkNext, Flip, Unhead, Advance, Relink, Destroy, Step,
     Crash
<1>4. ~Start(w) /\ ~MatchNext(w) /\ ~NotFound(w) /\ ~Found(w)
  BY DEF Start, Begin, MatchNext, NotFound, Found, At
<1>5. ~KeepNext(w) /\ ~Allocate(w) /\ ~CopyStream(w) /\ ~Link(w)
  <2>1. ASSUME KeepNext(w) PROVE FALSE
    <3>1. PICK x : local' = [local EXCEPT ![w] = [local[w] EXCEPT !.pc = "alloc", !.next = x]]
      BY <2>1 DEF KeepNext
    <3>2. QED
      BY <1>1, <1>2, <3>1 DEF Local
  <2>2. ASSUME Allocate(w) PROVE FALSE
    <3>1. PICK x : local' = [local EXCEPT ![w] = [local[w] EXCEPT !.pc = "fill", !.temp = x]]
      BY <2>2 DEF Allocate
    <3>2. QED
      BY <1>1, <1>2, <3>1 DEF Local
  <2>3. ASSUME CopyStream(w) PROVE FALSE
    BY <1>1, <1>2, <2>3 DEF CopyStream, Local
  <2>4. ASSUME Link(w) PROVE FALSE
    BY <1>1, <1>2, <2>4 DEF Link, Local
  <2>5. QED
    BY <2>1, <2>2, <2>3, <2>4
<1>6. ~Flip(w) /\ ~Unhead(w) /\ ~Relink(w) /\ ~Destroy(w)
  <2>1. ASSUME Flip(w) PROVE FALSE
    BY <1>1, <1>2, <2>1 DEF Flip, Local
  <2>2. ASSUME Unhead(w) PROVE FALSE
    BY <1>1, <1>2, <2>2 DEF Unhead, Local
  <2>3. ASSUME Relink(w) PROVE FALSE
    BY <1>1, <1>2, <2>3 DEF Relink, Local
  <2>4. ASSUME Destroy(w) PROVE FALSE
    BY <1>1, <1>2, <2>4 DEF Destroy, Local
  <2>5. QED
    BY <2>1, <2>2, <2>3, <2>4
<1>7. ~Advance(w) /\ ~Crash(w)
  <2>1. ASSUME Advance(w) PROVE FALSE
    <3>1. \/ local' = local
          \/ \E x : local' = [local EXCEPT ![w] = [local[w] EXCEPT !.pc = "relink", !.cur = x]]
      BY <2>1 DEF Advance
    <3>2. CASE local' = local
      BY <1>2, <3>2
    <3>3. ASSUME NEW x, local' = [local EXCEPT ![w] = [local[w] EXCEPT !.pc = "relink", !.cur = x]]
          PROVE  FALSE
      BY <1>1, <1>2, <3>3 DEF Local
    <3>4. QED
      BY <3>1, <3>2, <3>3
  <2>2. ASSUME Crash(w) PROVE FALSE
    BY <1>1, <1>2, <2>2 DEF Crash, Local
  <2>3. QED
    BY <2>1, <2>2
<1>8. QED
  BY <1>3, <1>4, <1>5, <1>6, <1>7 DEF Go

\* The list of the next state.
LEMMA NextListIs ==
    ASSUME TypeOK', NEW n \in Nat, NEW s \in [1 .. n -> Cells], NEW b, NEW sv, NEW tn,
           Shape(mem', head', local', b, sv, tn, n, s)
    PROVE  List' = Streams(mem', n, s)
<1>1. Chain(mem', head', local', n, s) /\ OneWriter(local')
  BY DEF Shape
<1>2. CellsOf(local', mem', head') = s
  BY <1>1, CellsOfIs DEF TypeOK
<1>3. Places' = s /\ DOMAIN s = 1 .. n
  BY <1>2, PlacesIs
<1>4. QED
  BY <1>3 DEF List, Streams

\* The last step of a function leaves the list its one-step operator says.
LEMMA StepAgrees ==
    ASSUME StreamInv, OpInv, TypeOK', NEW v \in Workers, Start(v) \/ Go(v), Remember,
           NEW w \in Workers, Writes(w), local'[w] = Idle, ~collided, ~CopyFails(w)
    PROVE  List' = IF local[w].op = "add" THEN AddTemporaryStreams(base, local[w].to)
                   ELSE RemoveTemporaryStreams(base)
<1>1. PICK n \in Nat : \E s \in [1 .. n -> Cells] :
           Shape(mem, head, local, base, served, torn, n, s)
  BY DEF StreamInv
<1>2. PICK s \in [1 .. n -> Cells] : Shape(mem, head, local, base, served, torn, n, s)
  BY <1>1
<1>3. TypeOK /\ base \in Seq(Stream)
  BY <1>2 DEF StreamInv, Shape
<1>4. LinkNext(w) \/ Step(w)
  BY <1>3, WriterEnds DEF Writes
<1>5. CASE LinkNext(w)
  <2>1. /\ Shape(mem', head', local', base', served', torn', n, s)
        /\ Added(mem', base, local[w].to, n, s, Len(base))
    BY <1>2, <1>3, <1>5, LinkNextKeeps
  <2>2. List' = Streams(mem', n, s)
    BY <2>1, NextListIs
  <2>3. Streams(mem', n, s) = AddTemporaryStreams(base, local[w].to)
    <3>1. PICK m2, b, to : m2 = mem' /\ b = base /\ to = local[w].to
      OBVIOUS
    <3>2. Streams(m2, n, s) = AddTemporaryStreams(b, to)
      BY <1>3, <2>1, <3>1, AllAdded
    <3>3. QED
      BY <3>1, <3>2
  <2>4. local[w].op = "add"
    BY <1>5 DEF OpInv, LinkNext, At, AdderPCs
  <2>5. QED
    BY <2>2, <2>3, <2>4
<1>6. CASE Step(w)
  <2>1. /\ Shape(mem', head', local', base', served', torn', n, s)
        /\ \E g : Done(mem', base, n, s, g, Len(base) + 1)
    BY <1>2, <1>3, <1>6, StepKeeps
  <2>2. List' = Streams(mem', n, s)
    BY <2>1, NextListIs
  <2>3. PICK g, q : q = Len(base) + 1 /\ Done(mem', base, n, s, g, q)
    BY <2>1
  <2>4. Streams(mem', n, s) = RemoveTemporaryStreams(base)
    <3>1. PICK m2, b : m2 = mem' /\ b = base
      OBVIOUS
    <3>2. q = Len(b) + 1 /\ Done(m2, b, n, s, g, q) /\ b \in Seq(Stream)
      BY <1>3, <2>3, <3>1
    <3>3. Streams(m2, n, s) = RemoveTemporaryStreams(b)
      BY <3>2, AllDone
    <3>4. QED
      BY <3>1, <3>3
  <2>5. local[w].op = "remove"
    BY <1>6 DEF OpInv, Step, At, RemoverPCs
  <2>6. QED
    BY <2>2, <2>4, <2>5
<1>7. QED
  BY <1>4, <1>5, <1>6

\* What the pointer changes of add_temporary_streams and remove_temporary_streams make
\* of the list is what their operators say, whatever other workers read in between, if
\* no other worker changes the list too and none is at a stream that is freed.
THEOREM FunctionsDoAgree == Spec => FunctionsAgree
<1>1. Init => OpInv
  BY DEF Init, OpInv, Idle, AdderPCs, RemoverPCs
<1>2. TypeOK /\ OpInv /\ [Next]_vars => OpInv'
  BY NextOpInv
<1>3. StreamInv /\ TypeOK' /\ OpInv /\ [Next]_vars =>
        [\A w \in Workers :
           Writes(w) /\ local'[w] = Idle /\ ~collided /\ ~CopyFails(w) =>
              List' = IF local[w].op = "add" THEN AddTemporaryStreams(base, local[w].to)
                      ELSE RemoveTemporaryStreams(base)]_vars
  <2>1. SUFFICES ASSUME StreamInv, TypeOK', OpInv, NEW v \in Workers, Start(v) \/ Go(v),
                        Remember, NEW w \in Workers,
                        Writes(w), local'[w] = Idle, ~collided, ~CopyFails(w)
                 PROVE  List' = IF local[w].op = "add"
                                THEN AddTemporaryStreams(base, local[w].to)
                                ELSE RemoveTemporaryStreams(base)
    BY DEF Next
  <2>2. QED
    BY <2>1, StepAgrees
<1>4. QED
  BY <1>1, <1>2, <1>3, StreamInvariant, CellsTypeCorrect, PTL DEF Spec, FunctionsAgree

\* A search that has not read the next pointer of a copy too early comes to every
\* stream that serves its port and was in the list all the time, and so finds one.
THEOREM SearchesFind == Spec => SearchFinds
<1>1. ASSUME StreamInv, NEW w \in Workers, NotFound(w), served[w] # {}, ~collided,
             w \notin torn
      PROVE  FALSE
  <2>1. PICK n \in Nat : \E s \in [1 .. n -> Cells] :
             Shape(mem, head, local, base, served, torn, n, s)
    BY <1>1 DEF StreamInv
  <2>2. PICK s \in [1 .. n -> Cells] : Shape(mem, head, local, base, served, torn, n, s)
    BY <2>1
  <2>3. local[w].pc = "match" /\ local[w].cur = NULL
    BY <1>1 DEF NotFound, At
  <2>4. SearchOK(mem, local, n, s, served, torn, w)
    BY <2>2, <2>3 DEF Shape
  <2>5. PICK k \in served[w] : Ahead(mem, n, s, NULL, k)
    BY <1>1, <2>3, <2>4 DEF SearchOK
  <2>6. \A i \in 1 .. n : s[i] # NULL
    BY CellsAssumption
  <2>7. QED
    BY <2>5, <2>6, CellsAssumption DEF Ahead
<1>2. StreamInv =>
        [\A w \in Workers :
           NotFound(w) /\ served[w] # {} /\ ~collided => w \in torn]_vars
  BY <1>1
<1>3. QED
  BY <1>2, StreamInvariant, PTL DEF SearchFinds
=============================================================================
