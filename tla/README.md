# A formal model of sip_single_port

`sip_single_port` is a Kamailio module that relays a call's media (RTP and
RTCP) through the one UDP port on which Kamailio receives SIP.  It remembers,
for every SIP dialog, the two endpoints and their media streams, and decides for
each packet by its source address where it goes.  In *dual* mode two Kamailio
instances carry the media between them and tag each packet with its call and
media type; the routing script can then *hand over* the media to another port of
the peer while calls are up.

This directory holds TLA+ modules that model the parts of `src/` in which
the module's own logic lives, TLC configurations that check them on small
instances, and proofs that TLAPS checks for every value of the constants.
`PROJECT.json` maps each definition to the lines it models.

## 1. Inventory

| Component | State it keeps | Operations | Modelled in |
|---|---|---|---|
| Message handler, `sip_single_port_mod.c` `msg_received` | none of its own; one call per datagram, in any worker process | classify, find or create the connection, attach an endpoint, remove a connection, forward or tag a packet, look at RTCP reports | `SipSinglePort`, `SspConnList`, `SspSockets` |
| Script functions, `add_in_rule`, `remove_in_rule`, `change_socket` | none of their own | rewrite streams or sockets of every endpoint at an address | `SipSinglePort`, `SspRules`, `SspStreamCells`, `SspHandover`; counting in `SspSockets` |
| Connections list, `ssp_connection.c` | `connections_list->head`, a doubly linked list in shared memory | `find_connection_by_call_id`, `push_connection`, `remove_connection`, `find_counter_endpoint`, `get_counter_port`, rules | `SipSinglePort` (as a sequence), `SspConnList` (as cells), `CallTable` (what it promises) |
| Endpoints, `ssp_endpoint.c` | address, Call-ID pointer, socket, streams, `sibling` pointer | `parse_endpoint`, `destroy_endpoint` | `SipSinglePort` |
| Media streams, `ssp_stream.c` | list of media type, RTP and RTCP port, `temporary` flag | searches, `get_rtcp_port`, `add_temporary_streams`, `remove_temporary_streams` | `SspStreams`, `SspRules`, `SspStreamCells` (as cells) |
| Media forwarding, `ssp_media_forward.c` | none | `find_dst_port`, tags, sending | `SipSinglePort` |
| Dialog classification, `ssp_parse.c` | none | `initializes_dialog`, `cancels_dialog`, `terminates_dialog` | `SspParse` |
| Life cycle, `mod_init`, `child_init`, `mod_destroy` | allocates the two lists | | initial states of `SspConnList` and `SspSockets` |
| Socket list, `ssp_bind_address.c`, `subscribe_client` | sockets with client counts, in shared memory | initialise, count, choose the least used | `SspSockets` |
| RTCP statistics, `ssp_rtcp.c` | none | `exceeds_limit`, `notify` | `SspRtcp`, `SspSockets`, `SspHandover` |
| SDP rewriting, `ssp_replace.c`, `msg_sent` | none | replace ports and addresses of an outgoing message | `SspReplace`, `SspHandover` |
| Handover protocol, `kamailio-config/`, `php-script/` | a notification file at the client, REGISTER requests under way | client and server move the media to another pair of sockets and call the script functions | `SspHandover` |
| String helpers, `ssp_functions.c`; build and install scripts | none | | not modelled: no behaviour of their own |

**Interactions.** Kamailio calls `msg_received` for every datagram and the
routing script calls the exported functions, in one of several forked worker
processes.  Everything they share is in shared memory: the connections list, the
endpoints and streams that hang off it, and the socket list.  There are no
messages between workers.  Each connection, endpoint, stream and socket item has
a lock, taken around single assignments; nothing locks a list or a search.

Two proxies talk to each other in four ways: the SDP bodies one has rewritten
(`msg_sent`) are parsed by the other (`msg_received`), they carry the tagged
media, the server notices losses in the RTCP it receives and tells the client
which socket is least used (`notify`), and the client then starts the exchange of
REGISTER requests in which both call `add_in_rule`, `change_socket` and
`remove_in_rule`.

**What is hard.**

- *Concurrency.* Workers search, push to and take out of one unlocked list.
- *Pointers.* A connection owns two endpoints; an endpoint caches its `sibling`
  and borrows the connection's Call-ID.  Nothing counts references.
- *Message order.* INVITE, 200, CANCEL, 487, BYE and their retransmissions come
  in any order; re-INVITEs bring new SDP for a slot that is taken.
- *Handover.* `temporary` flags are flipped, not set, and a removal changes which
  stream the loop looks at next.  The two proxies move in three requests; each can
  be lost, repeated or late, and calls are set up meanwhile.
- *Dual mode.* The destination address comes from one search, its port from
  another.
- *Numbers.* Ports are strings, `atoi` and casts to 16 bits; "RTP port + 1" can
  be 65536.

**What makes each component correct.** The list: one connection per call, whole,
nothing lost, nothing freed in use, equal to a table of calls.  Endpoints: owned
by one connection, sibling pointers inside that connection.  Streams and rules:
a handover adds before it removes, and afterwards serves just the new port.
Forwarding: symmetric, and tagged media reaches the call it is tagged with.
Socket list: counts equal the clients, and a notification names the least used
socket.  Replacement: every stream is announced at the proxy's port.  RTCP: a
notification has a reason.  Handover protocol: at every moment each proxy takes
media from the socket the other one sends from, and a handover ends.

The full list of hazards, each at its line and with the properties that cover
it, is under `hazards` in `PROJECT.json`.

## 2. Modules

| Module | What it is |
|---|---|
| `SspStreams` | Stream lists: searches, the handover rewriting. Operators only. |
| `SspParse` | SIP messages and their classification. Operators only. |
| `SipSinglePort` | One instance; every handler runs to its end. |
| `CallTable` | Abstract specification of the connections list. |
| `SspRules` | One endpoint's stream list under any sequence of rule calls. |
| `SspConnList` | The list at the level of cells, several workers at a time. |
| `SspStreamCells` | The streams of one endpoint at the level of cells, several workers at a time. |
| `SspRtcp` | The look at the losses of an RTCP report. Operators only. |
| `SspSockets` | The socket list: several workers count in it and search it. |
| `SspReplace` | The rewriting of SDP bodies. Operators only. |
| `SspHandover` | Two proxies, the network between them, and the handover of all calls. |
| `MCSipSinglePort`, `MCSspRules`, `MCSspConnList`, `MCSspStreamCells`, `MCSspSockets`, `MCSspHandover` | Instances for TLC. |
| `SspStreamsProofs`, `SspRulesProofs`, `SipSinglePortProofs`, `SipSinglePortRefinement`, `SspConnListProofs`, `SspStreamCellsProofs`, `SspSocketsProofs`, `SspHandoverProofs` | Theorems and proofs. |

`SipSinglePort`, `SspRules`, `SspStreamCells` and `SspReplace` are built on
`SspStreams`, `SspHandover` on `SspReplace`, `SspSockets` on `SspRtcp`.
`SipSinglePort` and `SspConnList` each implement `CallTable`; `SspStreamCells`
shows that the pointers compute what the operators of `SspStreams` say, which is
what `SipSinglePort`, `SspRules` and `SspHandover` use.

### SspStreams, SspParse

A stream list is the sequence of the `m=` lines in list order.  Ports are
numbers; `rtcp_port = 0` stands for a missing `a=rtcp`, which `get_rtcp_port`
treats like port 0.  Each C search stops at the first match, hence `FirstOf`.
`RemoveTemporaryStreams` describes in closed form what the do-while loop of
`remove_temporary_streams` keeps; the loop itself, step by step, is
`SspRules!RemovalLoop`, and `LoopAgrees`, which is proved, says the two agree.  When the
loop removes the last stream it calls `unlock_stream(NULL)`:
`RemoveTemporaryCrashes`.

### SipSinglePort

| Variable | Code |
|---|---|
| `connections` | `connections_list`, in list order |
| `endpoint` | the `endpoint_t` at each shared memory address, `NULL` when free |
| `sent` | the datagram the last handler passed to `send_packet_to_endpoint` |
| `fault` | a handler dereferenced `NULL`; nothing happens afterwards |

| Action | Code |
|---|---|
| `SetRequestEndpoint`, `SetResponseEndpoint` | INVITE, or 2xx to INVITE, with SDP: find or create the connection, fill the empty slot |
| `LeakEndpoint` | the same message when the slot is taken: the parsed endpoint stays allocated for ever.  Also the failure of `create_connection` |
| `RemoveConnection` | CANCEL, failure of an INVITE, 2xx to BYE: `remove_connection` and `destroy_connection` |
| `DropPacket`, `ForwardPacket` | RTP or RTCP, no tag; `find_counter_endpoint` caches the sibling even when no port is found |
| `ForwardTagged` | tagged packet in dual mode: `get_counter_port` dereferences the address of both sides, so a call with one endpoint is a fault |
| `AddInRule`, `RemoveInRule`, `ChangeSocket` | every endpoint of the list at the given address |

A message is what the handlers look at: type, method, status code, Call-ID and
the SDP's address and streams.  A tag is a Call-ID and a media type.

### SspConnList

Cells are `connection_t` addresses.  A lock, the one assignment it protects and
the unlock are one step; every other access to a shared cell is its own
step, except that two reads of one cell, and writes to memory no other worker
can reach, are merged with the step next to them.  The head is not a cell:
`push_connection` tests it (`Push`) and reads it again (`PushHead`), and another
worker can empty the list in between.  A worker's local variables
are `current`, `connection`, `prev`, `next` and the destination endpoint.
`shm_malloc` may return any free address, so a freed cell can be reused.  A step
that would dereference memory that is not allocated is not enabled; `Crash` is.
`mod_init` does not set `head`, so it is `NULL` or `Wild` to begin with.
An endpoint stands for the addresses of one side of one call.

The code does race.  Rather than state that nothing ever goes wrong,
the model records in the history variable `hazard` the *first* moment two workers
meet in one of a short list of ways, each an operator of its own:

- `PushHazard`: two pushes at one place or of one call, or behind a cell that is
  being taken out;
- `UnlinkHazard`: taking out or freeing a cell another worker refers to, or
  linking around a neighbour that is being taken out;
- `EmptyHazard`: taking out the last connection while another worker has seen that
  there is a list to push to, and is going to read the head again;
- `SetHazard`: two messages fill the same slot;
- in `Match`: the counterpart is in its connection but has no socket yet;
- in `Init`: a wild head.

The safety properties say that this list is complete: until one of these
happens, every interleaving of the handlers is safe.  The run `list_lost` shows
that one of them is real, and `list_live` explores what follows them.

### SspRules

One endpoint's streams and the history of rule calls.  `paired` holds while each
`remove_in_rule` came after exactly one `add_in_rule`, the order in which the
routing scripts of `kamailio-config` call them unless a REGISTER is
retransmitted.

### SspStreamCells

The same functions on one endpoint, at the level of cells.  A cell is the address
of an `endpoint_stream_t`, `mem` what it holds.  A worker searches (a packet, or
the search at the beginning of a script function), or goes on to copy or to
remove streams; `pc` names the step that comes next.  Granularity is that
of `SspConnList`: a lock, its one assignment and the unlock are one step, as is
reading several fields of one cell.  The exception is a stream that is taken out:
it is locked, `current` moves on, and the *next* stream is unlocked, so the one
that goes stays locked until it is freed (`locked`).  Only the steps that take a
stream's lock wait for it (`Link`, `LinkNext`, `Advance`, `Relink`); all others read
and write a locked stream as the code does.  Unlocking the next stream releases it
whoever has locked it.

Copying a stream is five steps: `next` is read (`KeepNext`), `shm_malloc` returns a
free cell, maybe the one `next` points to if another worker has freed it meanwhile
(`Allocate`), the strings are set (`CopyStream`), and the copy is linked in
(`Link`, `LinkNext`).  A cell that has been allocated and has no strings yet is
`Unset`; reading a string of it is a crash.  Setting the three strings is one step,
and so is testing and setting the head: another worker could only come in between
after a collision (see below).  The initial addresses of
the list are fixed, which loses nothing, since no definition depends on them.

The history variables say what a property may assume: `collided` becomes true
when a worker frees a stream another one is at or when two workers change the
list at the same time; `served` holds, for each worker that searches, the streams
that serve its port and have been in the list ever since it began; `torn` the
workers that have read the next pointer of a copy between `Link` and `LinkNext`,
when the copy is in the list but leads nowhere.  `base` is the list the last script function began with.

### SspRtcp, SspSockets

A report is its type, the fraction lost of each block, and what the program finds
behind the last block.  The C loop adds the *index* to its pointer, in blocks:
pass `i` looks at block `i (i - 1) / 2` (`BlockOfPass`), so the first block is
looked at twice, then the second and the fourth; the third is skipped, and in a
report of five blocks the last pass looks at what is behind it.

| Variable | Code |
|---|---|
| `head` | `socket_list->head`; `mod_init` does not set it, so it starts as `NULL` or `Wild` |
| `count` | the counts of a list's items; a list is named after the worker that made it |
| `job` | the locals of a worker's handler |
| `at`, `regular`, `steady` | history: where clients are counted, whether all requests have been regular, which searches no count has changed under |

`subscribe_client` makes the list if the head is `NULL` (`SubscribeClient`,
`Publish`) and counts the client; `change_socket` takes the client away from the
socket the request came in on and counts it at the new one; `notify` walks the
list (`Walk`).  `Disturbs` names what makes a request irregular: another worker
handles a request of the same client, or a SUBSCRIBE comes from a client that is
counted already, or a REGISTER comes in on a socket where the client is not counted.
`change_socket` does not look where the client is counted, so an irregular
request may leave the counts wrong.  It takes no fault for a request to be
irregular: in `kamailio-config` the destination of a REGISTER names no port, so that
of a second handover comes in on the socket the first one has left.  The model
handles such requests as the code does; what it promises ends with the first of
them.  Two workers that publish at the same time, and a wild head, end it too.

### SspReplace, SspHandover

`ChangeMediaPorts` is what `msg_sent` makes of the ports of a body, as the
proxy that receives the body parses them: an `m=` line is found by a port of two
digits or more, and an `a=rtcp` line is added only if the body has none.

| Variable | Code |
|---|---|
| `streams[side][c]` | the streams a side has for the endpoint of call `c` that is the other proxy |
| `socket[side][c]` | the socket of the endpoint behind which the other proxy is |
| `notification`, `timer` | the client's notification file, its timer process |
| `net` | copies of each request under way |
| `pending` | a worker between `change_socket` and the rest of its route |

| Action | Code |
|---|---|
| `LearnEndpoint` | `msg_received` for an INVITE or a 200 the other side has rewritten |
| `Notify` | `notify` at the server; `notify.php` writes the file at the client |
| `CheckNotification`, `EndNotification` | `SSP_CHECKER`: `add_in_rule` for the new port, the request to move, the removal of the file |
| `Reregister`, `ServerMoved` | `REREGISTER` at the server: `change_socket`; then `add_in_rule` and the request to the client |
| `Reregister`, `ClientMoved` | `REREGISTER` at the client: `change_socket`; then `remove_in_rule` and the request that ends the handover |
| `Unregister` | `REREGISTER` at the server, `Expires: 0`: `remove_in_rule` |

`tm` repeats a request until it is answered and the routes answer without a
transaction, so each copy that arrives is handled; `Send` chooses how many
arrive, none included, and nothing bounds the delay.  Inside a route,
`change_socket` and the two rule functions are separate steps, and other workers
run in between.  Each of the three goes through all calls in one step.
All requests come from the first socket, because `uac` sends from there: hence
the server matches the calls by the port `First`, as the client does by its
`SERVER_PORT`.

`disturbed` is the set of calls for which the protocol promises nothing: those
only one side knew when the rules were added, and every call when the target of a
handover is `First` itself, the port that is then both added and taken away.

## 3. Runs

| Run | Instance | Shows |
|---|---|---|
| `core_single` | 2 calls, 4 endpoint addresses, 2 media types, INVITE, CANCEL, BYE, 200, 486 and messages without SDP for each call | `TypeOK`, `TableOK`, `SiblingOK`, `ReplyPath`, `ImplementsCalls` |
| `core_dual` | 2 calls behind one user-agent address, the other proxy at one address, tagged packets for either call from the old and the new port | `MakeBeforeBreak`, `TaggedReachesCall` |
| `rules` | SDP with 1, 2 and 3 streams (two of one type), 2 new ports, up to 5 removals | `OldPortsServed`, `FirstHandover`, `PairedRulesWork`, `HandoverPortKept`, `LoopAgrees` |
| `rules_second` | the same | counterexample to `OldRulesReplaced` |
| `rules_unpaired` | the same | counterexample to `NothingToReplace` |
| `list` | 2 workers, 3 calls, 3 cells, 3 endpoints, 5 datagrams | `NoCrash`, `ListOK`, `NothingLost`, `ImplementsCalls` |
| `list_live` | 2 workers, 2 calls, 2 cells, 2 endpoints, 3 datagrams, beyond hazards | `HandlersEnd`, `TypeOK` |
| `list_lost` | as `list` | counterexample to `PushedToList` |
| `sockets` | 2 workers, 3 clients, 2 sockets, 8 RTCP reports, 4 handlers | `TypeOK`, `CountsAreClients`, `LeastIsChosen`, `ReportsAreRead` |
| `handover` | 2 calls of one stream, 2 sockets, 1 handover, 1 second copy of a request, 1 worker a side | `TypeOK`, `MediaAccepted`, `CrashOnlyDisturbed`, `HandoverCompletes` |
| `rewrite_rtcp` | one call, two streams of which one names its RTCP port | counterexample to `EveryPortChanged` |
| `stream_cells` | 2 workers, lists of 1 and 2 streams, 4 cells, 3 searches or script functions | `TypeOK`, `CrashesKnown`, `FunctionsAgree`, `SearchFinds`, `WorkersEnd` |

**Bounds and why they suffice.**

- *Calls and endpoints.* Two calls are the least at which a message of one can
  disturb another; four addresses let both calls be complete, and a leaked
  endpoint takes one of them away.  In `list` three calls are needed for a
  connection with both neighbours.
- *`MaxStreams`* caps the list when `add_in_rule` starts (it doubles the list);
  `core_single` and `core_dual` thus see repeated rules on one call, `rules`
  lists of up to twelve streams.
- *`MaxHandovers`* is five: the flags repeat after the second handover.
- *`MaxJobs`* is the number of datagrams: five make a complete list of
  three calls with two handlers still running; three suffice for every kind of
  handler to meet every other in `list_live`.
- *`CONSTRAINT NoHazardYet`* in `list`: each property there is about what happens
  before the first hazard.  The states with a hazard are still checked but not
  continued.
- *`sockets`.* Four handlers are enough for a client to subscribe and
  change its socket while another one is counted and a search runs.  The reports
  have up to five blocks: one for each way a pass can be looked at twice, skipped,
  or read behind the end.
- *`handover`.* One handover with one second copy lets every request be lost,
  repeated and late; a second copy that arrives after the end is the case a
  further handover would add.  Bodies of one stream suffice for the ports, as
  the rules treat all streams of a call alike.  The safety properties are proved
  for any numbers.  The inductive invariant has been evaluated by TLC with two
  handovers and bodies of two streams as well (1,037,477 states).
- *`stream_cells`.* Three functions are two that overlap and one that comes upon
  what they left; four cells hold two streams and their copies, and a
  third function runs out of memory.  With one port to move to and the two lists
  the run reaches every step of both functions, and, behind a collision, the reuse of
  a cell another worker still refers to (366,031 states).
- *Symmetry* permutes endpoint addresses in the core runs (also workers, calls
  and cells in `list`, workers and clients in `sockets`), which no definition
  tells apart.  The runs that check liveness use none.
- *Deadlock* is not checked: Kamailio stops after a crash, and the bounds
  end every other behaviour.

**Fairness.** Three specifications have any, each called `FairSpec`.

- `SspConnList`, `SspStreamCells`: weak fairness of each worker's next step, since
  the operating system schedules every process and no step of a handler waits for
  long (locks are held for a few instructions).
- `SspHandover`: a request that arrives is handled and a worker that has begun a
  route goes on.  Losing a request is not a matter of fairness but of `Send`:
  liveness is claimed only when no request was lost altogether (`gaveUp`).

Receiving a datagram, starting a call and notifying are not fair: nothing makes
them happen.

### The properties

- `TableOK`: one connection per call; its endpoints are allocated, distinct,
  parsed for that call and have a socket.
- `SiblingOK`: a cached `sibling` is the other endpoint of the same live
  connection.
- `ReplyPath`: where a packet goes, the answer comes back, at the first of the
  sender's streams of that media type.  It assumes that no two endpoints
  share an address and that streams of different types do not share a port:
  the program cannot tell them apart otherwise.  The RTCP port of a stream on
  65535 without `a=rtcp` is excluded too, since it is sent to as 0.
- `MakeBeforeBreak`: `add_in_rule` redirects no flow, and the new port is served
  as the old one is, unless an endpoint there already uses the new port.  The
  second half assumes that the answer of a call has the media types of the offer:
  a copy may be found for a type the other side does not have.
- `TaggedReachesCall`: the port comes from the call in the tag, the address from
  the first matching call, and still the packet lands on that call's endpoint,
  provided the user agents behind the matching calls have one address, and not
  that of the other proxy.  Without that proviso it does not hold.
- `OldPortsServed`, `FirstHandover`, `HandoverPortKept`, `PairedRulesWork`: what
  `add_in_rule` and `remove_in_rule` keep, move and remove.
- `NoCrash`, `ListOK`, `NothingLost`, `ImplementsCalls`, `HandlersEnd`: the
  shared list, up to the first collision of two workers.  What counts as a
  collision is the list of hazards of `SspConnList` above, and no more.
- `FunctionsAgree`, `CrashesKnown`, `SearchFinds`: the shared streams, so long as
  no two workers change them at once and none is freed in use.  The pointers end
  up as `AddTemporaryStreams` and `RemoveTemporaryStreams` say; a crash is the
  one `RemoveTemporaryCrashes` predicts; and a search misses a stream that was in
  the list all the time, and serves its port, only by reading a copy that is half
  linked, which does happen.  It has to be one *stream*, not only the port: a
  search that has passed a stream before its flag is changed can miss the port
  although some stream of the list has served it at every moment.
- `WorkersEnd`: the loops over streams end unless two workers have collided.  Behind
  a collision they need not: if the `next` read by `add_temporary_streams` is freed
  before its `shm_malloc`, the copy can get that address and is linked to itself.
- `CountsAreClients`, `LeastIsChosen`: counting and choosing while others count,
  for any order of the requests of different clients, up to the first irregular
  request or lost list.  They say nothing of a client's second handover, nor of
  retransmissions: there the counts do go wrong (two hazards that no property
  covers).
- `ReportsAreRead`: a report of up to four blocks makes the server notify only
  with reason, and which blocks are sure to be noticed.  That others are not is
  what the code does; no comment says how many are meant to be looked at.
- `MediaAccepted`: at every moment of a handover each side takes media from
  the socket the other sends from, whatever happens to the requests.
- `CrashOnlyDisturbed`: a repeated or late request crashes neither proxy as long
  as no call was set up in the middle of a handover.
- `HandoverCompletes`: a handover whose requests arrive ends for every call that
  was complete when it began.

### Where code and comments disagree

1. `rules_second`: a temporary stream that a removal steps over keeps its flag.
   In the next handover it is the *old* stream, its flag is flipped off, and it
   stays: the endpoint keeps its old port too.  The comment on
   `m_remove_in_rule` says old rules are replaced.
2. `rules_unpaired`: `remove_in_rule` without an `add_in_rule` before it removes
   streams of the call, and dereferences `NULL` when the last one goes.
3. `list_lost`: two workers that push at the same time lose a connection, which
   `push_connection` says it pushes.
4. `rewrite_rtcp`: if one stream of a body names its RTCP port and another does
   not, the other is sent on with the proxy's RTP port and no RTCP port, so its
   RTCP goes to the next port, where no proxy listens.  The declaration of
   `change_media_ports` says all are changed.

## 4. Theorems

All proofs are checked by TLAPS with Z3, Zenon and LS4.  They assume
`ConstantsAssumption` (the constants have their types, `NULL` is none of the
addresses) and `NullAssumption` (`NULL` is none of the records it stands in
for), which TLC evaluates in the core runs; likewise `RulesAssumption`,
`ListAssumption`, `CellsAssumption`, `SocketsAssumption` and `HandoverAssumption`
in the runs of their modules.  The two about cells also say that `NULL` is no
connection and no stream: that is what tells a free address from an allocated one.

| Theorem | States |
|---|---|
| `SipSinglePortProofs!TypeCorrect` | `Spec => []TypeOK` |
| `SipSinglePortProofs!TableCorrect` | `Spec => []TableOK` |
| `SipSinglePortProofs!SiblingCorrect` | `Spec => []SiblingOK` |
| `SipSinglePortProofs!RepliesReturn` | `Spec => []ReplyPath` |
| `SipSinglePortProofs!RulesMakeFirst` | `Spec => MakeBeforeBreak` |
| `SipSinglePortProofs!TagsReachCall` | `Spec => TaggedReachesCall` |
| `SipSinglePortRefinement!ListImplementsCalls` | `Spec => ImplementsCalls` |
| `SspRulesProofs!RulesTypeCorrect` | `Spec => []TypeOK` |
| `SspRulesProofs!OldPortsAreServed` | `Spec => []OldPortsServed` |
| `SspRulesProofs!PairedCallsWork` | `Spec => []PairedRulesWork` |
| `SspRulesProofs!FirstHandoverMoves` | `Spec => FirstHandover` |
| `SspRulesProofs!HandoverKeepsPort` | `Spec => HandoverPortKept` |
| `SspStreamsProofs!RemoveTemporaryType` | `remove_temporary_streams` makes a stream list of every stream list |
| `SspRulesProofs!LoopDoesAgree` | `Spec => []LoopAgrees` |
| `SspConnListProofs!ListTypeCorrect` | `Spec => []TypeOK` |
| `SspConnListProofs!NoCrashWithoutHazard` | `Spec => []NoCrash` |
| `SspConnListProofs!ListStaysAList` | `Spec => []ListOK` |
| `SspConnListProofs!NoConnectionLost` | `Spec => []NothingLost` |
| `SspConnListProofs!ListImplementsCalls` | `Spec => ImplementsCalls` |
| `SspStreamCellsProofs!CellsTypeCorrect` | `Spec => []TypeOK` |
| `SspStreamCellsProofs!StreamInvariant` | `Spec => []StreamInv`, the inductive invariant of the next three |
| `SspStreamCellsProofs!CrashesAreKnown` | `Spec => []CrashesKnown` |
| `SspStreamCellsProofs!FunctionsDoAgree` | `Spec => FunctionsAgree` |
| `SspStreamCellsProofs!SearchesFind` | `Spec => SearchFinds` |
| `SspSocketsProofs!SocketsTypeCorrect` | `Spec => []TypeOK` |
| `SspSocketsProofs!SocketCounts` | `Spec => []CountsAreClients` |
| `SspSocketsProofs!SocketLeast` | `Spec => LeastIsChosen` |
| `SspSocketsProofs!ReportsRead` | `Spec => ReportsAreRead` |
| `SspHandoverProofs!HandoverTypeCorrect` | `Spec => []TypeOK` |
| `SspHandoverProofs!MediaIsAccepted` | `Spec => []MediaAccepted` |
| `SspHandoverProofs!NoCrashBefore` | `Spec => []CrashOnlyDisturbed` |
| `SspHandoverProofs!LastProxyDecides` | of two proxies that rewrite a body the last one decides what it says |

**The core.** `IInv == TypeOK /\ TableOK /\ SiblingOK` is inductive; none of
the three is alone.  A forwarded datagram has a type only if its destination is
allocated and has a socket (`TableOK`) and the cached sibling it takes the media
type from is an endpoint (`SiblingOK`).  `SiblingOK` survives
`remove_connection` only because the endpoints of different connections
are different (`TableOK`).  `SipSinglePortProofs` has one lemma per action.
`SspStreamsProofs` has what is needed of the operators: a least position exists,
a set of positions is enumerated without holes by rank (an induction over
a number, done with a least counterexample), and the results are stream lists.

`ReplyPath` needs no more than this invariant.  If no address is at two endpoints,
`find_counter_endpoint` returns the sender and its counterpart
(`MatchedIsSource`), going back from there returns the same two the other way
round (`CounterOfCounter`, since an endpoint belongs to one connection), and a
sibling pointer leads to the endpoint that matched (`SourceMatched`).  If types do
not share ports, `find_dst_port` then sees the same media type on both ways
(`DstPortOfMedia`).

So do `MakeBeforeBreak` and `TaggedReachesCall`, in one step each.  A copy follows
its stream, so the first stream that fits stays the same one (`AddedSearches`): a
rule changes which endpoints match the new port (`RuleMatches`) and no search for
another (`RuledFlow`).  A tagged packet takes its port from the one connection
with the Call-ID (`TableOK`) and its address from the first that matches; with
one address behind all of them the two agree (`TaggedServes`).

For the refinement, an endpoint the table remembers is allocated, so a freshly
parsed one is not in use; filling a slot maps to `Offer` or `Answer`, removal to
`Forget`, and everything else to a stutter.

For `SspRules` (which assumes `RulesAssumption`: parsed lists are not empty and
have no temporary streams) the invariant is about flags.  Between two paired
handovers all flags of the list are alike; within one, the list is such a list
with a copy behind every stream (`BetweenHandovers`).  If the flags were clear,
the loop looks at the odd positions and removes them (`RemoveAlternating`); if
they were set, it looks at every position and only clears flags
(`RemoveFromFlagged`).  Either way the flags are alike again (`HandoverEnds`).
`BeforeFirst` adds that the first handover starts from the parsed list itself.
The proofs are about the closed form of the loop.  That the loop computes it
is `LoopIsRemoval`: the recursive function of `RemovalLoop` exists (`LoopExists`),
and from every place it looks at it makes what the closed form keeps from there
on (`LoopMakes`).  Both go backwards from the end of the list with a least
counterexample: among the numbers of streams left for which the claim fails
there would be a least one, and one pass (`PassMakes`) shows that there is none.
The same device unfolds `Places` in `SspStreamCells`.

**The connections list.**  `ListInv` is: types, and, while there is no hazard, no
fault and a number `n` and cells `s[1], ..., s[n]` with `Shape`.  Of its parts,
`Links` says that these cells are different, linked from `head` in that order and
of different calls; `Backs` that `prev` leads back, but for the cell a worker in
the middle of `remove_connection` is about to set; `Kept` that what is allocated
is one of them or is owned by a worker that pushes or removes it; `Private` that no
other worker knows a cell that is being pushed; `EndpointsOK` that an endpoint is in
one slot of one connection or with the worker that brings it; and `LocalOK` and
`UnlinkOK` what each worker's local pointers are at each `pc`.  None of the properties
is inductive alone: that `current` is allocated needs the list; that the list stays
one when a cell is taken out needs that the neighbours the worker has read are still
its neighbours, which is what `UnlinkHazard` watches.  There is one lemma per step.
`NoCrash`, `ListOK` and `NothingLost`
follow from `Shape` once `Reachable` is known to be the list (`ReachIsList`: the
list is a set that contains `head` and with a cell the next, and every such
set contains the list).  For `ImplementsCalls` the table is a view of the list
(`View`): the step that links a connection, the one that sets a slot and the
one that takes a connection out change it at one call (`ViewChange`), all others not
at all (`ViewSame`).

**The stream list.**  Types hold beyond collisions: a worker's `cur` is an
address whenever its step uses it, because the steps are enabled only then.
`StreamInv` adds, until two workers collide, the cells of the list in order, as
above (`Chain`), that at most one worker changes it (`OneWriter`; a second one
is a collision, and `collided` stays true), and what that worker has done: in
`add_temporary_streams` the list is `base` with a copy behind each stream up to the
place of `cur` (`Added`); in `remove_temporary_streams` the list is the kept ones of
the streams looked at, changed as they should be (`Done`), and behind them `base`
itself (`Untouched`).  At the end of the function this is what the closed forms say
(`StepAgrees`), which takes `OpInv`, that a worker copies or removes because it was
called to, and the enumeration of `Kept` by rank.  A stream that was taken out
and not yet freed leads back into the list.  A search therefore is always at a cell
of the list or at such a one, and what it still must find lies ahead of it
(`Ahead`), unless it has read a copy that leads nowhere yet (`torn`): this is
what a search remembers in `served`, and it is kept by every change to the list
(`Follows`).  Reading a string of a copy that is not set yet is a crash, so the
invariant also says that only the copy a worker is still filling has none
(`Filled`), and no search can be at that copy because it is not in the list
(`StringsSet`).

**Sockets.** The invariant `CountsInv` says what each handler under way knows: a
worker about to count away a client has it at `from`, one about to count it in
has it nowhere, both have the current list, and no two have the same client
(`Alone`).  Then taking away and counting in move one client between two
sets `ClientsAt`.  For the search: the worker's `least` is the first least used
socket of those before `current` (`Searches`), as long as no count has changed.
`LastPass` may stop early, at a count of zero: nothing is below zero because counts
are cardinalities.  `ReportsAreRead` needs no invariant, only which block each pass
of the loop looks at (`LooksAtBlocks`).

**Handover.** The invariant gives the list of every undisturbed call at each side a
stage: *Fresh* (no copies, served at `First`), *Mid* (a copy on `Other` behind every
stream that is not one) or *Over* (everything on `Other`).  `SocketsAgree` ties
the stage to the socket the other side sends from.  `OrderKept` says that the server
adds its rule after it has changed its socket, and that the client's list is not
over before it has changed its own.  `RequestsTell` and `PendingTells` say how far
both sides are when a request is under way or a route half done: a *moved* means
both lists are at least *Mid* and the server has moved, a *done* that the client has
moved too.  `HalfKnown` is about calls that one side knows.  A late or repeated
request then finds lists that no longer match the old port, or lists in the stage
that makes it harmless.  This is where it matters that only `First` is matched and
that there are two sockets.

**Only model-checked.** Liveness under fairness is out of the prover's reach:
`HandlersEnd`, `WorkersEnd` and `HandoverCompletes`.  Every invariant and every
action property that a passing run checks has a theorem.  The four runs that
end in a counterexample have none, of course.

## 5. Not modelled

- Text: SDP and SIP parsing, the bytes of a tag, logging, printing, the lumps with
  which `ssp_set_body` replaces a body, `c=` lines, Content-Length, the
  JSON body of a REGISTER.  `initializes_dialog` and `skip_media_changes` select
  the same messages; the first is modelled.
- Running out of memory in the middle of `parse_endpoint`; leaks other than that of
  the parsed endpoint.
- More than two sockets in a handover.  With three, handovers to different targets
  can overlap, and a side then lets go of a port the other one still sends
  from; the repository configures two.
- The end of calls during a handover, which only removes what the rules match.
- Interleavings inside one pass of a script function over *several* calls;
  `SspStreamCells` has them for one endpoint.
- The subscription of clients by the routing script: `SUBSCRIBE` requests are
  inputs of `SspSockets`.
- Bodies all of whose streams are rejected (`ChangeCrashes`): the proxy
  crashes when it rewrites one, so `SspHandover` excludes them.
- `mod_destroy`: nothing of the module runs after it.
- The string helpers of `ssp_functions.c`, and the build and installation
  scripts: no state and no behaviour of their own.

## 6. Plan

The components whose state and order of steps matter are modelled.  What would
add most to this, in order:

1. `SspHandover` with calls that end, and with a third socket and handovers that
   start only after the one before has ended.
2. Two instances of `SipSinglePort` in dual mode with the tagged media between
   them, end to end, RTCP included.
3. The refinement of the one-step rules of `SipSinglePort` by `SspStreamCells`, as a
   temporal formula: the theorems say it of each call of a function.
