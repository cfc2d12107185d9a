---------------------------- MODULE PacketFilter ----------------------------
(***************************************************************************)
(* The packet loop of the uwebfilter daemon: nfqueue.c receives packets    *)
(* from a kernel queue and hands each one to the handler of its port       *)
(* (tcp443.c, tcp80.c, udp53.c).  A TLS hello that spans several packets is *)
(* held back in the flow cache of tcpflow.c until it is complete.          *)
(*                                                                         *)
(* A packet is identified by its position in pkts, the order in which the  *)
(* kernel queued it.  A TCP stream is measured in cells; cells             *)
(* 1 .. Total(c) of connection c are its ClientHello record.  Connections  *)
(* that use the same addresses and ports, one after the other, have the    *)
(* same Key.  The answers of check_access are a parameter: the set of      *)
(* verdicts each name may get.                                             *)
(***************************************************************************)
EXTENDS Integers, Sequences, FiniteSets

CONSTANTS
  Conns,              \* TCP connections to port 443
  Domains,            \* names a packet can carry
  NoName,             \* no name could be extracted
  EmptyName,          \* the name of a request without a Host header
  Access,             \* [Domains -> sets of verdicts check_access may give]
  Key,                \* [Conns -> Conns], the first connection with the same ports
  Sni,                \* [Conns -> Domains \cup {NoName}], the name in the hello
  RecLen,             \* [Conns -> Nat], length field of the hello's TLS record
  NameEnd,            \* [Conns -> Nat], last cell the parser needs for the name
  RECORD_HEADER,      \* cells of the TLS record header (5 bytes)
  MIN_PAYLOAD,        \* a shorter TCP payload is "too short" (10 bytes)
  MAX_FLOW_CACHE_COUNT, \* defined for the number of flows, and not used (32)
  MAX_PACKET_COUNT,   \* packets a flow can hold (8)
  FLOW_PAYLOAD_SIZE,  \* cells a flow can hold (12000 bytes)
  FLOW_TTL,           \* age after which the collector drops a flow (5 s)
  GC_INTERVAL,        \* time between two collections (60 s)
  QUEUE_MAXLEN,       \* packets the kernel queue can hold
  KeyPads,            \* values the padding of a lookup key on the stack can have
  Lengths,            \* payload lengths the clients use
  Queries,            \* the other packets: DNS, plain HTTP and the rest
  Spurious,           \* connections that also resend packets that are still held
  StartTime, MaxTime, MaxPackets, MaxExits   \* bounds of the model

ACCEPT == "accept"
DROP   == "drop"
QUEUED == "queued"
Verdicts == {ACCEPT, DROP}

(* What the parsers of HTTP and DNS tell apart: a request with an unknown    *)
(* method or without a Host header, a DNS message without a question or with *)
(* a record type that is not inspected.                                      *)
Kinds == {"plain", "nomethod", "nohost", "noquestion", "othertype"}

ASSUME NameAssumption ==
  /\ NoName \notin Domains /\ EmptyName \in Domains
  /\ Access \in [Domains -> (SUBSET Verdicts) \ {{}}]
  /\ Sni \in [Conns -> Domains \cup {NoName}]
  /\ Key \in [Conns -> Conns] /\ \A c \in Conns : Key[Key[c]] = Key[c]
  /\ Queries \subseteq [port : {53, 80, 0}, conn : Conns, from : {0}, len : Nat,
                          kind : Kinds, name : Domains \cup {NoName}]
  /\ \A q \in Queries : /\ q.kind \in {"nomethod", "nohost"} => q.port = 80
                        /\ q.kind \in {"noquestion", "othertype"} => q.port = 53

ASSUME SizeAssumption ==
  /\ RecLen \in [Conns -> Nat] /\ NameEnd \in [Conns -> Nat]
  /\ RECORD_HEADER \in Nat /\ MIN_PAYLOAD \in Nat /\ RECORD_HEADER < MIN_PAYLOAD
  /\ MAX_PACKET_COUNT \in Nat \ {0} /\ FLOW_PAYLOAD_SIZE \in Nat
  /\ MAX_FLOW_CACHE_COUNT \in Nat /\ FLOW_TTL \in Nat /\ GC_INTERVAL \in Nat /\ QUEUE_MAXLEN \in Nat
  /\ Lengths \subseteq Nat /\ Spurious \subseteq Conns
  /\ StartTime \in Nat /\ MaxTime \in Nat /\ MaxPackets \in Nat /\ MaxExits \in Nat

VARIABLES
  pkts,      \* the packets the kernel handed to the queue, in order
  fate,      \* fate[i]: QUEUED, or the verdict packet i got
  taken,     \* packets 1 .. taken have been received by the daemon
  flows,     \* tcpflow_cache.cache
  lastgc,    \* tcpflow_cache.tcpflow_last_gc
  now,       \* time(NULL)
  alive,     \* the daemon is running
  exits,     \* how often it exited
  snd,       \* snd[c]: stream position of client c
  resent,    \* history: clients that repeated a packet that was not lost
  missed,    \* history: keys whose flow was there when a lookup did not find it
  answered,  \* packets for which a reset or a fake DNS answer was built
  stray,     \* history: a verdict was sent for a packet not in the queue
  failopen   \* history: connections the daemon gave up filtering

daemon == <<flows, lastgc, alive, exits>>
client == <<snd, resent>>
vars == <<pkts, fate, taken, flows, lastgc, now, alive, exits, snd, resent, missed,
          answered, stray, failopen>>

Packet == [port : {53, 80, 443, 0}, conn : Conns, from : Nat, len : Nat, kind : Kinds,
           name : Domains \cup {NoName}]
Flow == [key : Conns, timestamp : Nat, expected : Nat, payload : Seq(Conns \X Nat),
         ids : Seq(Nat), born : Nat]

Total(c) == RECORD_HEADER + RecLen[c]
RangeOf(s) == {s[k] : k \in DOMAIN s}
Held == UNION {RangeOf(f.ids) : f \in flows}
Queued == {i \in DOMAIN fate : fate[i] = QUEUED}

Cells(p) == [k \in 1 .. p.len |-> <<p.conn, p.from + k>>]

(* Stream cells of c that left the host. *)
Delivered(c) ==
  UNION {pkts[i].from + 1 .. pkts[i].from + pkts[i].len :
           i \in {j \in DOMAIN pkts : /\ pkts[j].port = 443
                                      /\ pkts[j].conn = c
                                      /\ fate[j] = ACCEPT}}

Init ==
  /\ pkts = <<>> /\ fate = <<>> /\ taken = 0
  /\ flows = {} /\ lastgc = 0
  /\ now = StartTime
  /\ alive = TRUE /\ exits = 0
  /\ snd = [c \in Conns |-> 0] /\ resent = {} /\ missed = {}
  /\ answered = {} /\ stray = FALSE /\ failopen = {}

-----------------------------------------------------------------------------
(* The kernel queue and the clients. *)

(* The kernel queues a packet for a running daemon; the rule says "bypass",  *)
(* so without one the packet passes at once.  A full queue loses the packet: *)
(* to the client that is a loss, and it sends the same data again.           *)
Enqueue(p) ==
  /\ Len(pkts) < MaxPackets
  /\ alive => Cardinality(Queued) < QUEUE_MAXLEN
  /\ pkts' = Append(pkts, p)
  /\ fate' = Append(fate, IF alive THEN QUEUED ELSE ACCEPT)
  /\ taken' = IF alive THEN taken ELSE Len(pkts) + 1
  /\ failopen' = IF alive \/ p.port # 443 THEN failopen
                 ELSE failopen \cup {p.conn}
  /\ UNCHANGED <<now, missed, answered, stray, daemon>>

Segment(c, from, len) ==
  [port |-> 443, conn |-> c, from |-> from, len |-> len,
   kind |-> "plain", name |-> NoName]

(* A client gives up when a new connection takes its port. *)
Abandoned(c) ==
  \E i, j \in DOMAIN pkts :
    /\ i < j /\ pkts[i].port = 443 /\ pkts[j].port = 443
    /\ pkts[i].conn = c /\ pkts[j].conn # c /\ Key[pkts[j].conn] = Key[c]

(* Client c sends the next len cells of its stream, or with len = 0 a bare   *)
(* acknowledgement.  Only the last segment of the hello may be shorter than  *)
(* MIN_PAYLOAD, and data follows only a hello that was delivered; one packet *)
(* of it is enough, for all that follow are handled alike.                   *)
Send(c, len) ==
  /\ ~Abandoned(c)
  /\ len = 0 \/ len >= MIN_PAYLOAD \/ snd[c] + len = Total(c)
  /\ snd[c] < Total(c) => snd[c] + len <= Total(c)
  /\ snd[c] >= Total(c) => /\ snd[c] = Total(c) /\ len > 0
                           /\ 1 .. Total(c) \subseteq Delivered(c)
  /\ Enqueue(Segment(c, snd[c], len))
  /\ snd' = [snd EXCEPT ![c] = @ + len] /\ UNCHANGED resent

(* A retransmission timeout: nothing of c is in the queue any more and part  *)
(* of its hello was lost, so c goes back to the first cell that is missing.  *)
Rewind(c) ==
  /\ ~Abandoned(c)
  /\ \A i \in Queued : pkts[i].port = 443 => pkts[i].conn # c
  /\ \E k \in 1 .. Total(c) :
       /\ k <= snd[c] /\ k \notin Delivered(c)
       /\ \A j \in 1 .. k - 1 : j \in Delivered(c)
       /\ snd' = [snd EXCEPT ![c] = k - 1]
  /\ UNCHANGED <<pkts, fate, taken, now, resent, missed, answered, stray, failopen, daemon>>

(* A packet that is still held is not acknowledged; client c may time out    *)
(* and send it again.                                                        *)
Resend(c) ==
  /\ c \in Spurious /\ ~Abandoned(c)
  /\ \E i \in Queued : /\ pkts[i].port = 443 /\ pkts[i].conn = c
                       /\ pkts[i].len > 0
                       /\ Enqueue(pkts[i])
  /\ resent' = resent \cup {c} /\ UNCHANGED snd

(* A DNS query, a plain HTTP request, or any other packet. *)
SendQuery(q) == Enqueue(q) /\ UNCHANGED client

Tick ==
  /\ now < MaxTime
  /\ now' = now + 1
  /\ UNCHANGED <<pkts, fate, taken, client, missed, answered, stray, failopen, daemon>>

-----------------------------------------------------------------------------
(* Verdicts. *)

(* A verdict sent for a packet that is not in the queue any more, or two     *)
(* verdicts for one packet.  Q is a set of sequences of packet identifiers.  *)
Mistaken(Q) ==
  \E q \in Q : \E k \in DOMAIN q :
    \/ q[k] \notin Queued
    \/ \E r \in Q : \E m \in DOMAIN r : q[k] = r[m] /\ (q # r \/ k # m)

nfq_send_verdict(Q, v) ==
  /\ fate' = [i \in DOMAIN fate |->
                IF i \in Queued /\ \E q \in Q : i \in RangeOf(q) THEN v ELSE fate[i]]
  /\ stray' = (stray \/ Mistaken(Q))

(* Mutant: the kernel lets through what a dead daemon left in the queue.     *)
Exit_PassesQueue(done, v) ==
  /\ exits < MaxExits
  /\ fate' = [i \in DOMAIN fate |-> IF i \notin Queued THEN fate[i]
                                    ELSE IF i \in done THEN v ELSE ACCEPT]
  /\ taken' = Len(pkts)
  /\ flows' = {} /\ lastgc' = 0
  /\ alive' = FALSE /\ exits' = exits + 1

(* The process ends after the packets of done got verdict v: its memory is   *)
(* gone and the kernel drops whatever is left in the queue.                  *)
Exit(done, v) ==
  /\ exits < MaxExits
  /\ fate' = [i \in DOMAIN fate |-> IF i \notin Queued THEN fate[i]
                                    ELSE IF i \in done THEN v ELSE DROP]
  /\ taken' = Len(pkts)
  /\ flows' = {} /\ lastgc' = 0
  /\ alive' = FALSE /\ exits' = exits + 1

(* A handler's last step: it sends verdict v for the packets of Q and leaves *)
(* cache F behind; when sending fails the process exits between two of them. *)
Finish(Q, v, F, gc) ==
  \/ /\ nfq_send_verdict(Q, v)
     /\ taken' = taken + 1
     /\ flows' = F /\ lastgc' = gc
     /\ UNCHANGED <<alive, exits>>
  \/ \E q \in Q : \E k \in 1 .. Len(q) :
       /\ Exit({q[j] : j \in 1 .. k - 1}, v)
       /\ stray' = (stray \/ Mistaken(Q))

-----------------------------------------------------------------------------
(* The flow cache. *)

(* Mutants: the lookup compares no keys, or skips flows past their ttl.      *)
tcpflow_lookup_AnyKey(c, pad) == IF pad = 0 THEN flows ELSE {}

tcpflow_lookup_SkipsOld(c, pad) ==
  IF pad = 0 THEN {f \in flows : f.key = Key[c] /\ f.timestamp >= now - FLOW_TTL} ELSE {}

tcpflow_lookup(c, pad) == IF pad = 0 THEN {f \in flows : f.key = Key[c]} ELSE {}

(* The padding kept a flow from being found. *)
Misses(c, pad) ==
  missed' = IF pad # 0 /\ \E f \in flows : f.key = Key[c] THEN missed \cup {Key[c]} ELSE missed

tcpflow_create(c, expected) ==
  [key |-> Key[c], timestamp |-> 0, expected |-> expected, payload |-> <<>>,
   ids |-> <<>>, born |-> now]

HasRoom(f, p) ==
  /\ Len(f.ids) < MAX_PACKET_COUNT
  /\ Len(f.payload) + p.len <= FLOW_PAYLOAD_SIZE

tcpflow_value_append(f, i) ==
  [f EXCEPT !.payload = @ \o Cells(pkts[i]), !.ids = Append(@, i)]

(* Mutants: a flow counts as complete one segment early, or never when its   *)
(* last cell is in.                                                          *)
tcpflow_iscomplete_Early(f) == Len(f.payload) + MIN_PAYLOAD >= f.expected

tcpflow_iscomplete_Late(f) == Len(f.payload) > f.expected + RECORD_HEADER

tcpflow_iscomplete(f) == Len(f.payload) >= f.expected

Expired(F) == {f \in F : f.timestamp < now - FLOW_TTL}

(* Mutants: the collector leaves the flows it dropped in the cache, or       *)
(* deletes them without a verdict.                                           *)
tcpflow_rungc_KeepsFlows(F) == Finish({f.ids : f \in Expired(F)}, DROP, F, now)

tcpflow_rungc_NoVerdict(F) == Finish({}, DROP, F \ Expired(F), now)

tcpflow_rungc(F) ==
  Finish({f.ids : f \in Expired(F)}, DROP, F \ Expired(F), now)

tcpflow_insert(f) ==
  LET F == flows \cup {f}
  IN  IF lastgc < now - GC_INTERVAL THEN tcpflow_rungc(F)
                                    ELSE Finish({}, DROP, F, lastgc)

-----------------------------------------------------------------------------
(* The handlers.  Each handles packet i = taken + 1. *)

(* Mutant: a packet without a name is refused.                               *)
check_access_RefusesNoName(name) == IF name = NoName THEN {DROP} ELSE Access[name]

check_access(name) == IF name = NoName THEN {ACCEPT} ELSE Access[name]

(* The names the parser may read out of a buffer that begins with the hello  *)
(* of c.  One that does not hold the hello in place up to the name parses to *)
(* anything.                                                                 *)
extract_sni(c, payload) ==
  IF Len(payload) < RecLen[c] THEN {NoName}
  ELSE IF /\ NameEnd[c] <= Len(payload)
          /\ \A k \in 1 .. NameEnd[c] : payload[k] = <<c, k>>
       THEN {Sni[c]}
       ELSE Domains \cup {NoName}

(* Mutant: the reset is for the packet after this one.                       *)
tcp_rst_send_NextPacket(i) == answered' = answered \cup {i + 1}

(* A reset and a fake DNS answer go out on a raw socket, or fail to: nobody  *)
(* looks at the result.                                                      *)
tcp_rst_send(i) == answered' \in {answered, answered \cup {i}}
dns_answer_send(i) == answered' \in {answered, answered \cup {i}}

(* Mutant: the answer does not depend on the verdict.                        *)
Answer_Always(i, v) == answered' = answered \cup {i}

Answer(i, v) ==
  \/ v = ACCEPT /\ UNCHANGED answered
  \/ v = DROP /\ pkts[i].port = 53 /\ dns_answer_send(i)
  \/ v = DROP /\ pkts[i].port # 53 /\ tcp_rst_send(i)

Judge(i, names, Q, F) ==
  \E name \in names : \E v \in check_access(name) :
    /\ Answer(i, v)
    /\ Finish(Q, v, F, lastgc)

IsHello(p) == p.from = 0

AcceptPacket(i) == Finish({<<i>>}, ACCEPT, flows, lastgc) /\ UNCHANGED answered

GiveUp(c) == failopen' = failopen \cup {c}

(* No flow of this connection is waiting for the packet. *)
NewFlow(i, p) ==
  \/ /\ ~IsHello(p)
     /\ AcceptPacket(i) /\ UNCHANGED failopen
  \/ /\ IsHello(p) /\ p.len >= RecLen[p.conn]
     /\ Judge(i, extract_sni(p.conn, Cells(p)), {<<i>>}, flows)
     /\ UNCHANGED failopen
  \/ /\ IsHello(p) /\ p.len < RecLen[p.conn] /\ RecLen[p.conn] > FLOW_PAYLOAD_SIZE
     /\ AcceptPacket(i) /\ GiveUp(p.conn)
  \/ /\ IsHello(p) /\ p.len < RecLen[p.conn] /\ RecLen[p.conn] <= FLOW_PAYLOAD_SIZE
     /\ \/ AcceptPacket(i) /\ GiveUp(p.conn)      \* calloc returned NULL
        \/ LET f == tcpflow_create(p.conn, RecLen[p.conn])
           IN  IF HasRoom(f, p)
               THEN /\ tcpflow_insert(tcpflow_value_append(f, i))
                    /\ UNCHANGED <<answered, failopen>>
               ELSE AcceptPacket(i) /\ GiveUp(p.conn)

(* The packet continues flow f. *)
ContinueFlow(i, p, f) ==
  \/ /\ ~HasRoom(f, p)      \* the verdict goes to the flow, not to the packet
     /\ Finish({f.ids}, ACCEPT, flows \ {f}, lastgc)
     /\ GiveUp(p.conn) /\ UNCHANGED answered
  \/ LET g == tcpflow_value_append(f, i)
     IN  /\ HasRoom(f, p)
         /\ UNCHANGED failopen
         /\ IF tcpflow_iscomplete(g)
            THEN Judge(i, extract_sni(pkts[g.ids[1]].conn, g.payload), {g.ids}, flows \ {f})
            ELSE /\ Finish({}, ACCEPT, (flows \ {f}) \cup {g}, lastgc)
                 /\ UNCHANGED answered

packet_handle_tcp443(i, p) ==
  \/ /\ p.len < MIN_PAYLOAD
     /\ AcceptPacket(i) /\ UNCHANGED <<failopen, missed>>
  \/ /\ p.len >= MIN_PAYLOAD
     /\ \E pad \in KeyPads :
          /\ Misses(p.conn, pad)
          /\ \/ tcpflow_lookup(p.conn, pad) = {} /\ NewFlow(i, p)
             \/ \E f \in tcpflow_lookup(p.conn, pad) : ContinueFlow(i, p, f)

(* A request without a Host header is checked with an empty name. *)
extract_http_payload(p) ==
  CASE p.kind = "nomethod" -> NoName
    [] p.kind = "nohost" -> EmptyName
    [] OTHER -> p.name

packet_handle_tcp80(i, p) ==
  /\ \/ p.len < MIN_PAYLOAD /\ AcceptPacket(i)
     \/ p.len >= MIN_PAYLOAD /\ Judge(i, {extract_http_payload(p)}, {<<i>>}, flows)
  /\ UNCHANGED <<failopen, missed>>

extract_dns_domain(p) ==
  IF p.kind \in {"noquestion", "othertype"} THEN NoName ELSE p.name

packet_handle_udp53(i, p) ==
  Judge(i, {extract_dns_domain(p)}, {<<i>>}, flows) /\ UNCHANGED <<failopen, missed>>

packet_handle ==
  /\ alive /\ taken < Len(pkts)
  /\ LET i == taken + 1
         p == pkts[i]
     IN  \/ p.port = 443 /\ packet_handle_tcp443(i, p)
         \/ p.port = 80 /\ packet_handle_tcp80(i, p)
         \/ p.port = 53 /\ packet_handle_udp53(i, p)
         \/ p.port = 0 /\ AcceptPacket(i) /\ UNCHANGED <<failopen, missed>>
  /\ UNCHANGED <<pkts, now, client>>

(* recvfrom or the callback fails. *)
ReceiveError ==
  /\ alive
  /\ Exit({}, DROP)
  /\ UNCHANGED <<pkts, now, client, missed, answered, stray, failopen>>

(* systemd starts the daemon again: it loads its configuration, binds to the *)
(* queue and receives.  When one of these fails it exits, and has done       *)
(* nothing.                                                                  *)
Restart ==
  /\ ~alive
  /\ alive' = TRUE
  /\ UNCHANGED <<pkts, fate, taken, flows, lastgc, now, exits, client, missed,
                 answered, stray, failopen>>

Client(c) == (\E len \in Lengths : Send(c, len)) \/ Rewind(c) \/ Resend(c)

Next ==
  \/ \E c \in Conns : Client(c)
  \/ \E q \in Queries : SendQuery(q)
  \/ Tick
  \/ packet_handle
  \/ ReceiveError
  \/ Restart

Spec == Init /\ [][Next]_vars

(* The daemon's loop never stops by itself, systemd restarts it, and a       *)
(* client goes on sending until its hello is out.                            *)
Fairness ==
  /\ WF_vars(packet_handle) /\ WF_vars(Restart)
  /\ \A c \in Conns : WF_vars(snd[c] < Total(c) /\ \E len \in Lengths : Send(c, len))

FairSpec == Spec /\ Fairness

-----------------------------------------------------------------------------
(* Properties. *)

TypeOK ==
  /\ pkts \in Seq(Packet) /\ fate \in Seq(Verdicts \cup {QUEUED})
  /\ Len(fate) = Len(pkts) /\ taken \in 0 .. Len(pkts)
  /\ flows \subseteq Flow /\ lastgc \in Nat /\ now \in Nat
  /\ alive \in BOOLEAN /\ exits \in Nat /\ snd \in [Conns -> Nat] /\ resent \subseteq Spurious
  /\ missed \subseteq Conns
  /\ answered \subseteq DOMAIN pkts /\ stray \in BOOLEAN /\ failopen \subseteq Conns

(* Every verdict goes to a packet that is waiting for one, and no packet     *)
(* gets two: neither the collector, nor a flow given up, nor one completed   *)
(* ever names a packet that has been settled before (tcpflow_setverdict).    *)
NoStrayVerdict == ~stray

(* A flow stays in the cache only while its hello is incomplete and within   *)
(* the arrays ids and payload of tcpflow_value_t.                            *)
FlowsWaitForMore ==
  \A f \in flows :
    /\ Len(f.ids) \in 1 .. MAX_PACKET_COUNT
    /\ Len(f.payload) < f.expected /\ f.expected <= FLOW_PAYLOAD_SIZE

(* A connection has two flows in the cache only after the padding of a key   *)
(* made a lookup miss its flow (tcpflow_key_t): neither retransmissions, nor *)
(* the collector, nor a flow given up or completed leave a second one.       *)
OneFlowPerConn == \A f, g \in flows : f.key = g.key /\ f # g => f.key \in missed

(* No other connection uses the addresses and ports of c. *)
OwnPort(c) == \A d \in Conns : Key[d] = Key[c] => d = c

(* As long as a client has not repeated a packet that was still held, has    *)
(* its port for itself, and no lookup missed its flow, the flow's buffer is  *)
(* a prefix of its stream, however the collector, an exit, the queue limit   *)
(* and the other clients cut in (tcpflow_value_append).                      *)
BufferIsPrefix ==
  \A f \in flows :
    (f.key \notin resent \cup missed /\ OwnPort(f.key))
      => \A k \in DOMAIN f.payload : f.payload[k] = <<f.key, k>>

(* The cache never holds more than MAX_FLOW_CACHE_COUNT flows: with a lot of *)
(* flows the collector runs.                                                 *)
FlowCacheBounded == Cardinality(flows) <= MAX_FLOW_CACHE_COUNT

(* A name that check_access always refuses does not leave the host in a      *)
(* ClientHello, whichever way the hello is cut into packets.                 *)
DeniedNameBlocked ==
  \A c \in Conns \ failopen :
    (Sni[c] \in Domains /\ Access[Sni[c]] = {DROP})
      => ~(1 .. NameEnd[c] \subseteq Delivered(c))

(* The name a packet really carries, however it is cut and parsed. *)
NameIn(p) ==
  IF p.port = 443 THEN Sni[p.conn]
  ELSE CASE p.kind = "nohost" -> EmptyName
         [] p.kind = "plain" -> p.name
         [] OTHER -> NoName

(* While the daemon runs and no collection happens, only packets whose own   *)
(* name is refused are dropped, whatever other connections do; a client that *)
(* repeats what is held garbles its own hello only, and only from then on.   *)
AllowedNotDropped ==
  [][\A i \in DOMAIN fate :
        (/\ fate[i] = QUEUED /\ fate'[i] = DROP /\ alive' /\ lastgc' = lastgc
         /\ pkts[i].port = 443 => pkts[i].conn \notin resent)
          => NameIn(pkts[i]) \in Domains /\ DROP \in Access[NameIn(pkts[i])]]_vars

(* A packet is forgotten when the daemon received it, did not decide it and  *)
(* does not hold it in a flow: nothing will ever settle it.                  *)
Forgotten == {i \in 1 .. taken : fate[i] = QUEUED} \ Held

(* The daemon forgets a packet in one case only: the flow it belongs to is   *)
(* at a limit, and the rest of that flow is let through in the same step.    *)
ForgetsOnlyOnOverflow ==
  [][\A i \in Forgotten' \ Forgotten :
       \E f \in flows :
         /\ f.key = Key[pkts[i].conn]
         /\ \/ Len(f.ids) = MAX_PACKET_COUNT
            \/ Len(f.payload) + pkts[i].len > FLOW_PAYLOAD_SIZE
         /\ \A k \in DOMAIN f.ids : fate'[f.ids[k]] = ACCEPT]_vars

(* A reset or a fake DNS answer is never sent for a packet that goes through *)
(* as well, even when the verdict could not be sent.                         *)
AnsweredIsDropped == \A i \in answered : fate[i] = DROP

(* A packet of flow f's connection with data came after f was opened and was *)
(* let through without f: it was too short to be inspected, or a lookup      *)
(* missed f.                                                                 *)
PassedBy(f) ==
  \E j \in DOMAIN pkts : /\ j > f.ids[1] /\ pkts[j].port = 443 /\ pkts[j].len > 0
                         /\ Key[pkts[j].conn] = f.key /\ fate[j] = ACCEPT

(* Why a packet may wait for ever: it was forgotten at a limit, its flow was *)
(* passed by, or its client repeated what was held.                          *)
Stranded(i) ==
  \/ i \in Forgotten
  \/ \E f \in flows : i \in RangeOf(f.ids) /\ PassedBy(f)
  \/ pkts[i].port = 443 /\ pkts[i].conn \in resent

(* Client c has more of its hello to send and cannot: the queue is full, or  *)
(* the model's bound is reached.                                             *)
CutOff(c) ==
  /\ snd[c] < Total(c)
  /\ Cardinality(Queued) = QUEUE_MAXLEN \/ Len(pkts) = MaxPackets

(* Every packet the daemon received from a client that has its port for      *)
(* itself is settled in the end, whatever the collector, exits and missed    *)
(* lookups do, unless it is stranded (tcp443.c, lines 38, 49 and 57) or its  *)
(* client is cut off for good.                                               *)
EverySettled ==
  \A i \in 1 .. MaxPackets :
    (i \in 1 .. taken /\ i \in Queued /\ OwnPort(pkts[i].conn))
      ~> (i \notin Queued \/ Stranded(i) \/ []CutOff(pkts[i].conn))

(* The collector spares flows that are at most FLOW_TTL old.                 *)
FreshFlowsKept ==
  [][\A f \in flows :
       (alive' /\ lastgc' # lastgc /\ now - f.born <= FLOW_TTL) => f \in flows']_vars

(* The packet loop implements the abstract queue: the packets it holds are   *)
(* those whose identifiers are in some flow of the cache.                    *)
Abstract == INSTANCE VerdictQueue WITH held <- Held
ImplementsQueue == Abstract!Spec
=============================================================================
