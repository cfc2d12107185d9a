# Verification of uwebfilter

TLA+ models of the uwebfilter daemon, checked with TLC on small instances, and
theorems about them proved with TLAPS for every value of the constants.
`PROJECT.json` lists components, runs, mutants, the map from definitions to
source lines, findings, hazards and theorems.

Paths below are relative to `src/uwebfilter.d/source/src/` unless they start
with `src/`.

## 1. The system

uwebfilter filters the web traffic of a network. A daemon written in C gets
outgoing packets from the kernel, finds the domain name a packet is about, asks
a server for the class of that name, and lets the packet through or drops it.
The other programs keep the server's data or collect the daemon's logs.

| part | state | operations | works with |
|---|---|---|---|
| packet loop, `nfqueue.c` | netlink socket | receive, dispatch by port, send a verdict, exit on errors | kernel queue, handlers |
| TLS handler, `tcp443.c` | none | decide one packet, open or continue a flow | flow cache, access check, `block.c` |
| flow cache, `tcpflow.c` | hash of flows, time of the last collection | lookup, create, append, complete, settle, collect | TLS handler, packet loop |
| HTTP and DNS handlers, `tcp80.c`, `udp53.c` | none | decide one packet | access check, `block.c` |
| answers, `block.c` | none | send a TCP reset, send a fake DNS answer | raw socket |
| access check, `check.c` | none | decide a name, log the decision | lookup, configuration, logs |
| configuration, `config.c` | policy lists, addresses, credentials | load once, query | access check |
| domain lookup, `domain_lookup.c` | cache of entries, arena of slots, time of the last collection | look up, ask the server, insert, collect | lookup server |
| logs, `uwebfilterlog*.c` | log buffer, token and its age | insert locally, buffer, send, renew the token | SQLite, log collector |
| lookup server, `src/uwebfilter.server` | Redis, Postgres | answer a query | daemon |
| database tools, `src/uwebfilter.database` | Redis, Postgres | add, delete, renew, dump | lookup server |
| scraper, `src/uwebfilter.scraper` | Postgres | select names, fetch pages, store categories | categorizer |
| log collector, `src/uwebfilter.logcollect` | Postgres | issue tokens, store lines | daemon |
| categorizer, `src/uwebfilter.categorify` | trained model | classify a page | scraper |

The daemon has one thread: it handles one packet at a time and waits for the
lookup server and the log collector in the middle of it. What makes it hard is
around that thread. Packets of many connections are interleaved; a packet
without a verdict stays in the kernel queue, so holding a packet back is a
debt; clients time out and send again; the process exits on any socket error
and systemd starts it anew with nothing but the packets that come later; the
server's answers change, come late or not at all; and the clock moves while the
daemon waits.

What makes each part correct:

- packet loop and flow cache: every packet gets exactly one verdict; a refused
  name does not leave in a ClientHello however it is cut; allowed packets are
  not dropped; flows stay within their arrays; connections are not mixed up;
- lookup: no slot is used twice or lost; an answer is not older than its ttl;
  a collection is thorough; a lookup returns; the server's answer is used;
- access check: the user's lists have the last word; nothing is refused for a
  class it does not have;
- logs: no line is stored twice, the buffer is drained whatever becomes of the
  transfers, a token the collector refuses is replaced;
- the thread as a whole: every packet is decided although the thread waits for
  servers, some of which it can reach only through itself;
- database: a name that is deleted or renewed is answered so (not modelled).

The hazards, each with the line where it bites and the properties that would
catch it, are listed in `PROJECT.json`.

## 2. Modules

| module | content |
|---|---|
| `PacketFilter` | packet loop, handlers, flow cache, kernel queue and clients |
| `VerdictQueue` | abstract: what the packet loop promises to the kernel queue |
| `MCPacketFilter` | instances of `PacketFilter` |
| `PacketFilterProofs` | theorems on `PacketFilter`, and that it implements `VerdictQueue` |
| `PacketFlowProofs` | what a handler does, case by case; theorems on forgetting packets and on the flows of a connection |
| `PacketStreamProofs` | reassembly: streams, queue and buffers together; theorems on buffers, refused and allowed names |
| `DomainLookup` | lookup, cache, arena, collector and the server call |
| `DomainLookupProofs` | theorems on `DomainLookup` |
| `AccessCheck` | policy and access check, on top of `DomainLookup` |
| `MCAccessCheck` | instances of `AccessCheck`, and with it of `DomainLookup` |
| `AccessCheckProofs` | theorems on `AccessCheck`, reusing the lookup's invariant |
| `CloudLog` | log buffer, transfers and token, with the log collector |
| `LogChannel` | abstract: what logging promises, an at-most-once channel |
| `CloudLogProofs` | theorems on `CloudLog`, and that it implements `LogChannel` |
| `Daemon` | the one thread, its queue and the calls it waits for |
| `MCDaemon` | instances of `Daemon` |
| `DaemonProofs` | theorems on `Daemon` |

`AccessCheck` extends `DomainLookup`; `PacketFilter` has the answers of
`AccessCheck` as a parameter; `Daemon` composes the packet loop, the lookup call
and the log calls, reduced to when the thread waits for what.

Operators whose name ends in a word after an underscore and that are marked
"Mutant" are wrong versions of the operator that follows. They are used by no
specification; putting one in place of the right operator must make TLC find
the violation of the property that `PROJECT.json` names.

### PacketFilter

A packet is its position in the sequence `pkts`, which stands for the
identifier the kernel gives it. `fate[i]` is `QUEUED` until packet `i` gets its
verdict. `taken` counts the packets the daemon has received. `flows` is
`tcpflow_cache.cache`, `lastgc` its time of the last collection, `now` is
`time(NULL)`. `stray`, `failopen`, `resent` and `missed` are history: a verdict
was sent for a packet that was not waiting; the connections the daemon declared
itself unable to filter (no memory, a record larger than a flow, a full flow, no
process running); the connections that have repeated a packet still held; the
connections whose flow was in the cache when a lookup did not find it.

Each step of the daemon, `packet_handle`, is the whole of `queue_cb` for one
packet: dispatch, handler, the access check, the answer to the client, all
verdicts, and the insertion with its collection. `Finish` is the end of every
handler. Either all its verdicts are sent, or sending one fails and the process
exits after those before it (`nfq_send_verdict` calls `exit`). When the process
is gone the kernel drops what was queued, and the rule's `bypass` lets new
packets pass until `Restart`.

A stream is measured in cells. In the instances the first cell is the record
header, five bytes, and every other cell stands for four bytes: a segment of two
cells has eight or nine bytes, too few for `packet_handle_tcp443` to look at
(`MIN_PAYLOAD`), one of three cells has at least twelve. Cells `1 .. Total(c)`
are the ClientHello of connection `c`; the record's length field, `RecLen[c]`,
does not count the header. A buffer holds the positions of the cells in it.
`extract_sni` finds the name when the buffer begins with the cells up to
`NameEnd[c]` in their places; when the length test passes and they are not, it
reads something else, so any name may come out. The bounds tests on offsets
inside the record are not modelled.

`KeyPads` is the set of values the padding of the lookup key can have: the key
on the stack of `packet_handle_tcp443` has two bytes nothing sets, and the hash
covers them. Flows in the cache have it cleared, so that any value but 0 misses
them. After a miss a segment goes out on its own, or opens a second flow, while
the segments before it stay held, so the name still does not leave
(`RefusedNamesStay`). The passing runs have `{0, 1}`, and no theorem restricts
the set; the violation runs have `{0}`, for what they show needs no miss.

`SizeAssumption` has `RECORD_HEADER < MIN_PAYLOAD`, the code's 5 and 10 bytes;
the second is the shortest payload `packet_handle_tcp443` inspects.
`NameAssumption` says which kinds of request belong to which port.

The environment: clients send their hello in order, in segments of the lengths
in `Lengths`; only the last segment may be shorter than `MIN_PAYLOAD`, for
clients fill their segments. `Rewind` is a retransmission of what was lost, when
nothing of the connection is in the queue any more; `Resend` repeats a packet
the daemon still holds, for the connections in `Spurious`. `Key[c]` is the first
connection with the addresses and ports of `c`: flows are found by it, as in the
code, and a connection is abandoned (`Abandoned`) once another one has taken its
port. A segment in the middle of a stream is assumed not to look like the
beginning of a hello. Packet identifiers do not wrap within a run, whereas the
code's have 32 bits.

A reset or a fake DNS answer may fail to be built or sent, and nothing notices:
`tcp_rst_send` and `dns_answer_send` add the packet to `answered` or not.

`Access` gives the verdicts `check_access` may return for a name.
`AccessCheck` proves what is assumed here: `{DROP}` for names on the
blacklist only, `{ACCEPT}` for names on the whitelist, both for the others.

Properties:

- `NoStrayVerdict`, `ImplementsQueue`: each packet gets one verdict, in an order
  the kernel queue allows, across collections, full flows, exits and restarts;
- `FlowsWaitForMore`: a flow is incomplete and within its arrays;
- `OneFlowPerConn`: a connection has two flows only after a lookup has missed one;
- `BufferIsPrefix`: a buffer is a prefix of the client's stream until the client
  repeats a held packet or a lookup misses its flow, for clients that have their
  port for themselves (`OwnPort`);
- `DeniedNameBlocked`: a refused name does not leave;
- `AllowedNotDropped`: nothing else is dropped while the daemon runs, no
  collection happens and the client has not repeated a segment that was held
  (the copy is in the buffer twice, or opens a flow of its own after the hello
  was complete, which swallows the data that follows);
- `ForgetsOnlyOnOverflow`: the one way the code loses track of a packet;
- `AnsweredIsDropped`: who was sent a reset is not served as well;
- `EverySettled`: no packet that was received waits for ever, except where the
  code leaves it waiting (`Stranded`: it did not fit into a full flow; a packet
  of its connection passed its flow by, because it was too short or a lookup
  missed; its client repeated what was held) or its client is kept from sending
  the rest of the hello (`CutOff`: the queue is full, or the run at its bound).
  Without any one of `Forgotten`, `PassedBy`, `resent` and the full queue the
  run finds a packet that waits for ever;
- `FreshFlowsKept`, `FlowCacheBounded`: what comments say of the collector, and
  the code does not keep.

### DomainLookup

A lookup is a sequence of steps, because the server call takes time:
`idle`, `curl` (the call), `fill` (a name to insert is next), `gc` (the
collector is running), `add` (the new entry is linked next). Slots are numbers;
`arena_ptr` and `arena_index` are the code's, `cache` is the set of slots linked
into the hash table. `Walk[d]` lists the suffixes the loop over `.` visits.
Application and category together are the class of a name. `since` and `ttl`
of an entry are history: when its answer came and how long it was good for.

Nothing keeps a name from being in the table twice, so a lookup may find any of
its entries. `rand() < 0.2` holds if `rand()` is 0: the collector may free any
entry. The server's data may change at any time. Elements of `cache_domains`
that are null or no strings are skipped by the code and left out here.

### AccessCheck

Extends `DomainLookup`: a check starts a lookup and decides when it has
returned. The policy is loaded once, from one of the contents in `ConfigFiles`.
A null in the blacklist ends the process while it starts (`config.c:262` tests
the list instead of its element) and is excluded. `told` is history: the names
and classes the server's answers have held.

### CloudLog

`array`, `last_send`, `authheader` and `authheader_timestamp` are the code's.
Lines are numbered in the order they are written, `lines[i]` is the time of line
`i`. `pc` says where `uwebfilterlog_sendto_cloud` waits: `auth` for a token,
`send` for its request to get to the collector, `wait` for the answer.
`SendEnds` is possible in `send` as well: the call failed before the request got
anywhere. `called` is `now` as `authheader_get` read it, before the call for
the token; `asked` says whether it made that call; in a request both are
history. A call never times out, so the clock may move by any amount in it.

The collector (`src/uwebfilter.logcollect`) issues a token (`Auth`), checks it
(`JWTAuth`) when a request comes (`IngestPOST`) and inserts the lines of a
request one by one (`PostgresInsertLogsV1`), an insertion that fails being
logged and skipped. It works on several requests at a time, also on those the
daemon has given up. `Rotate` is a restart with another secret. Refusals for
other reasons (credentials, rate limit, body size) are one outcome each. `Exit`
is the end and restart of the daemon at any point.

Properties: `StoredOnce` and `ImplementsChannel` (a line is stored once or lost,
neither is taken back); `BufferIsDrained`; `RefusalsEnd` (a refused token is
replaced, though the daemon never looks at the status of an answer);
`TokenAsked` (a failed renewal is tried again by the next transfer). That lines
are lost by a failed transfer, an exit or a refused token is what the code does;
the channel allows it.

### Daemon

The rules of `nftrules` are on the output hook, so packets of the daemon itself
are filtered too. `route[s]` says how server `s` is reached: `direct` (an
address and a port that is not filtered), `dns` (its host name has to be
resolved, a query to port 53) or `tcp` (it listens on a filtered port). `hand`
is the packet being handled, `pc` what the thread does or waits for, `passed`
whether a packet of the running call has got its verdict and left. When a call
ends, its packets stay in the queue as packets of nobody (`Forget`). Such a
packet is handled like any other, and one with a name can start another
lookup. Verdicts, cache and times are left out: a name may be known or not, the
log due or not, at any time. `reached` is history.

Clients send packets that are decided at once; hellos that the flow cache holds
back or forgets, which can fill the queue as well, are in `PacketFilter`.

Properties: `OnlyCollectorStops` (of the calls the thread waits in, only one to a
collector that has the connection open and never answers keeps a client's packet
from its verdict);
`FilteredIsUnreachable` (a server behind the daemon's own queue is never
reached, because the thread that would let its packets out waits for it).

## 3. Runs

All passing runs end without an error and exhaust their state space; the
violation runs each show one disagreement of the code with what the repository
says of it.

| run | result | what it shows |
|---|---|---|
| `filter_inorder` | pass | two hellos cut in every way, one client also resending what is held; collections, full flows, full queue, lookups that miss flows |
| `filter_restart` | pass | exits between any two verdicts, restarts, all kinds of packets, a hello too large for a flow, lookups that miss flows |
| `filter_settles` | pass | under fairness every packet is settled or in one of the named cases in which the code strands it; exits, missed lookups, short tails, full flows, a full queue |
| `access_check` | pass | the lists decide, refusals have evidence; arena, ages and collector under lookups, failures and updates; under fairness a lookup returns |
| `cloud_log` | pass | lines are stored at most once, the buffer is drained, refused tokens are replaced |
| `daemon` | pass | of the calls of the thread only one to a collector that hangs stops it; servers behind the filter are not reached |
| `collector_drops_fresh` | violation | flows have no timestamp, so all are dropped |
| `resend_breaks_reassembly` | violation | a segment sent twice is in the buffer twice |
| `incomplete_hello_parsed` | violation | the record header is not counted |
| `port_reuse` | violation | a new connection continues the flow of the one that had its port, and is let through by the name in the old hello |
| `flows_unbounded` | violation | the number of flows is not limited |
| `first_answer_lost` | violation | the server's answer does not reach the caller |

Bounds, and why they are enough:

- two connections, one refused and one allowed, are what mixing needs;
- hellos of six to nine cells, segments of two to six, `MIN_PAYLOAD` 3,
  `MAX_PACKET_COUNT` 2 and `FLOW_PAYLOAD_SIZE` 6 or 9: a hello completes in its
  first packet, in a later one, before a tail too short to be looked at or not at
  all because of such a tail, and it overflows the packets or the payload of a
  flow;
- `MaxPackets` 3 to 5: both hellos, or one and a retransmission after a drop;
  `filter_settles` has 4, which is room for both hellos in two packets each;
- `FLOW_TTL` and `GC_INTERVAL` 1 with a clock of two or three ticks: the first
  insertion collects, as in the code, some do not, and a later one does again;
  `filter_settles` has the first of them only, for its clock stands still;
- `QUEUE_MAXLEN` 3, in `filter_settles` 2: the queue fills up;
- `MaxExits` 1: an exit and a life after it;
- an arena of two slots, names with and without a parent, answers that name no,
  one or two entries, entries that expire within the run: the arena is full,
  partly full and empty, and slots are reused;
- `cloud_log`: a buffer of three lines, an interval and a token age of one tick,
  a token that lives for three, a clock from 2 to 6, four lines, one change of
  the secret, one exit: the buffer is sent for its size and for its age, a token
  is renewed, outlives the secret and expires, and up to four transfers are at
  work in the collector at once;
- `daemon`: three clients and a queue of four places, every combination of
  routes: the daemon's own packets meet a full queue and one with room, and
  those left over from an earlier call are handled between clients' packets.

Deadlock checking is off in the runs of `PacketFilter` and `CloudLog`, which
stop at their bounds: clients may have sent everything. It is on in
`access_check` and `daemon`.

Fairness. `filter_settles` assumes that the packet loop goes on (`packet_handle`
is weakly fair: the loop of `nfqueue_main` never ends by itself), that systemd
restarts the daemon (`Restart=always`), and that a client goes on sending until
its hello is out. The last is an assumption on the network, not on the code:
without it a flow waits until the collector runs, which happens on another
insertion only. When packets of incomplete hellos fill the queue no packet can
reach the daemon any more: that is the case `CutOff`, which the run reaches with
a queue of two places. The real queue has 1024 places, for the larger length of
`nfqueue.c:166-169` is put into a message that was already sent. `access_check`
assumes that the lookup itself goes on: the server call ends at the timeout of
curl, ten seconds. `daemon` assumes the same of the lookup and of the thread. Of
the calls to the collector it assumes that they end only while its name is
resolved or its connection opened, which the resolver and libcurl limit; over an
open connection they have no timeout, and no fairness is assumed.

## 4. Proofs

All of these hold for every value of the constants that the named assumptions
(`NameAssumption`, `SizeAssumption`, `LookupAssumption`, `BoundAssumption`,
`ConfigAssumption`, `LogAssumption`, `DaemonAssumption`) allow, the bounds of the
model included.

`PacketFilterProofs`. The inductive invariant adds to the properties that every
held packet has been received and is still queued (`HeldQueued`), that no packet
is in two places of the cache (`Separate`), that what was not received is queued
(`UntakenQueued`) and that a dead daemon holds nothing (`DownIsEmpty`).
`Separate` is what `NoStrayVerdict` rests on: settling one flow must not touch
a packet of another. Every handler is shown to be of one form (`Handled`): it
settles a set of packets within its reach and keeps a disjoint set of flows.
`FinishStep` then proves the invariant once for that form, for the normal end
and for the exit between two verdicts. The same form gives the refinement:
handling a packet is `Take` or `Stop` of `VerdictQueue`. The proofs do not
assume that a connection has one flow, so they cover a lookup that misses.

`PacketFlowProofs`. `HandlerCases` splits a handler's step into seven cases:
the packet passes; a query is judged; a hello in one packet is judged; a flow is
opened; it is given up at a limit; it is completed; it is extended. Each says
what is settled, how and which flows remain, and the theorems of this and the
next module go through them. `ForgettingNeedsOverflow` needs nothing more.
`FlowsAreUnique` is inductive with them: a flow is opened only when the lookup
found none, so either there is none of that key or the key is now in `missed`,
which never shrinks.

`PacketStreamProofs`. None of `BufferIsPrefix`, `DeniedNameBlocked` and
`AllowedNotDropped` is inductive, for what a buffer gets next depends on what is
still in the queue and on how far the client is. The inductive invariant `SInv`
relates the three, for a client that has not repeated a held packet:

- `StreamsInOrder`: its packets without a verdict are in the order of its stream
  and behind its position; those the daemon has not received leave no gap; only
  the last one of a hello is short; while the first cell waits, no copy of it is
  out; data after the hello comes after the hello has begun to leave;
- `FlowsFromHellos`: a flow's first packet begins a hello, whose length field is
  what the flow waits for;
- `BuffersInOrder`: the buffer of a flow is a prefix of the stream, and what is to
  come continues it (`NoGap`) or the end of the hello was too short to be looked
  at and has passed it (`Spent`). Or a lookup has missed the flow and a packet of
  it went by (`Skipped`): then at least `MIN_PAYLOAD` cells of the record are
  missing for good, more than the `RECORD_HEADER` cells by which a flow waits for
  less than the whole record, so this flow never completes and its first packets
  are never let through by a verdict on a name.

`Reassembly` proves `SInv` for all constants. From it follow

- `BuffersArePrefixes`, since a flow that was `Skipped` has its key in `missed`;
- `RefusedNamesStay`, `DeniedNameBlocked` also after a miss: the first cell of a
  refused hello does not leave, hence neither does the whole name;
- `DropsAreDeserved`, `AllowedNotDropped` also after a miss: a completed buffer
  parses to the client's own name.

The hypotheses of the last two are what the code needs, and runs show for most
of them that the property fails otherwise. The connections with refused names
repeat nothing that is held (`Spurious`; `resend_breaks_reassembly` shows the
garbled buffer) and have their ports for themselves (`OwnPort`; `port_reuse`).
Their names end inside what a flow waits for (`NameEnd <= RecLen`;
`incomplete_hello_parsed` has a name in the last cells of the record) and not
before `MIN_PAYLOAD`, for shorter packets are let through unread.
`DropsAreDeserved` needs `OwnPort` and `NameEnd <= RecLen` of all connections,
since a drop can come from anyone's flow, and no condition on repetition: the
property itself excludes a client from its first repetition on. The constants of
`filter_inorder` and of `filter_restart` satisfy the hypotheses of all of these
theorems.

`DomainLookupProofs`. The invariant says that the arena is partitioned (`Arena`,
by two lemmas on allocation and deallocation with cardinalities), that the slot
being filled is not an entry and the collector's list holds entries only
(`Steps`), that expiry times count from before the answer (`Ages`) and that
what the collector has passed is not expired (`Swept`).

`AccessCheckProofs`. A step of a check is a step of the lookup, so the lookup's
invariant carries over; `Evidence` adds that every entry in use was told by the
server.

`CloudLogProofs`. Three invariants on top of the types. `TokenInv`: a token in
the header was issued no earlier than its timestamp, with a secret of its time,
and a request has a token of the header as it was when `authheader_get` looked
at it; from it follow `RefusalsEnd` and `TokenAsked`. The second needs the clock
to be past `AUTHHEADER_TTL` at the start (in `LogAssumption`), or the timestamp
0 of a header without a token would not be old. `DrainInv`: no line in the
buffer is older than the last transfer, which is what bounds its wait.
`LineInv`: every line is in one place only, the buffer, one request, one list of
lines to insert, or the table, and in it once (`OnceInv`, `ApartInv`).
`StoredOnce` is a part of it, and it makes every step a step of `LogChannel`:
without it the line inserted could still be pending in another request.

`DaemonProofs`. The invariant ties the place in the code to the call
(`HandInv`: a packet is at hand exactly when the thread is not receiving;
`CallInv`: no packet of a running call has left the host, and outside calls no
packet in the queue belongs to one).

Only model-checked: the liveness properties `EverySettled`, `LookupReturns` and
`OnlyCollectorStops`, which need fairness and `ENABLED` and are out of the
prover's reach.

## 5. Not modelled

- Local logging: one insert into SQLite per line, whose result nobody looks at;
  nothing reads it. Printing, string formatting and credentials.
- Lookup server, database tools, scraper: outside the packet path. The server is
  stateless; what it may answer, and that this changes at any time, is in
  `DomainLookup` (`Entries`, `ServerUpdate`). The tools are run by hand and write
  Postgres and Redis one after the other, so that a deleted name stays in Redis
  and a name can be in Redis before it is committed; `PROJECT.json` lists both.
- Offsets inside a ClientHello: the parser is abstracted to the last cell it
  needs.
- The bytes and checksums of resets and DNS answers: no later step depends on
  them.
- Training and inference of the categorizer, deployment files and load tests
  carry no protocol. `uthash.h` is third-party code, modelled as a set.

## 6. Plan

1. `ClientHello`: the offsets of `extract_sni` against an encoder of hellos, over
   bounded hellos.
2. `DomainDB`: `manage.py` and the server on Redis and Postgres, whose two
   writes are not one; it would replace `ServerUpdate` of `DomainLookup`.
