-------------------------- MODULE PacketFlowProofs --------------------------
(***************************************************************************)
(* What a handler does, case by case, and what follows for the flow cache: *)
(* a packet is forgotten only by a flow that is at a limit, and a          *)
(* connection has one flow until the padding of a key makes a lookup miss. *)
(***************************************************************************)
EXTENDS PacketFilterProofs

(* The packet the daemon receives next.                                     *)
Arrived == pkts[taken + 1]

(* A packet of port 443 that is long enough, and whose flow is not found: it *)
(* has none, or the lookup missed it.                                        *)
NotFound(p) ==
  /\ p.port = 443 /\ p.len >= MIN_PAYLOAD
  /\ \A f \in flows : f.key = Key[p.conn] => f.key \in missed'

(* Flow f waits for packet p of port 443.                                    *)
Found(f, p) ==
  p.port = 443 /\ p.len >= MIN_PAYLOAD /\ f \in flows /\ f.key = Key[p.conn]

Extended(f) == tcpflow_value_append(f, taken + 1)

Opened == Extended(tcpflow_create(Arrived.conn, RecLen[Arrived.conn]))

(* What a handler may do with the packet that arrived: Q gets verdict v, F   *)
(* is the cache it leaves behind and gc the time of the last collection.     *)
Passes(Q, v, F, gc) ==
  /\ Q = {<<taken + 1>>} /\ v = ACCEPT /\ F = flows /\ gc = lastgc
  /\ \/ Arrived.port # 443
     \/ Arrived.len < MIN_PAYLOAD
     \/ NotFound(Arrived) /\ Arrived.from # 0
     \/ NotFound(Arrived) /\ Arrived.conn \in failopen'

JudgesQuery(Q, v, F, gc) ==
  /\ Q = {<<taken + 1>>} /\ F = flows /\ gc = lastgc
  /\ \/ Arrived.port = 80 /\ v \in check_access(extract_http_payload(Arrived))
     \/ Arrived.port = 53 /\ v \in check_access(extract_dns_domain(Arrived))

JudgesHello(Q, v, F, gc) ==
  /\ Q = {<<taken + 1>>} /\ F = flows /\ gc = lastgc
  /\ NotFound(Arrived) /\ Arrived.from = 0 /\ Arrived.len >= RecLen[Arrived.conn]
  /\ \E name \in extract_sni(Arrived.conn, Cells(Arrived)) : v \in check_access(name)

Opens(Q, v, F, gc) ==
  /\ NotFound(Arrived) /\ Arrived.from = 0
  /\ Arrived.len < RecLen[Arrived.conn] /\ v = DROP
  /\ \E E \in SUBSET (flows \cup {Opened}) :
       /\ Q = {f.ids : f \in E} /\ F = (flows \cup {Opened}) \ E
       /\ gc = lastgc => E = {}

GivesUp(Q, v, F, gc) ==
  \E f \in flows :
    /\ Found(f, Arrived) /\ ~HasRoom(f, Arrived) /\ Arrived.conn \in failopen'
    /\ Q = {f.ids} /\ v = ACCEPT /\ F = flows \ {f} /\ gc = lastgc

Completes(Q, v, F, gc) ==
  \E f \in flows :
    /\ Found(f, Arrived) /\ tcpflow_iscomplete(Extended(f))
    /\ Q = {Extended(f).ids} /\ F = flows \ {f} /\ gc = lastgc
    /\ \E name \in extract_sni(pkts[Extended(f).ids[1]].conn, Extended(f).payload) :
         v \in check_access(name)

Extends(Q, v, F, gc) ==
  \E f \in flows :
    /\ Found(f, Arrived)
    /\ Q = {} /\ v = ACCEPT /\ F = (flows \ {f}) \cup {Extended(f)} /\ gc = lastgc

Case(Q, v, F, gc) ==
  \/ Passes(Q, v, F, gc) \/ JudgesQuery(Q, v, F, gc) \/ JudgesHello(Q, v, F, gc)
  \/ Opens(Q, v, F, gc)
  \/ GivesUp(Q, v, F, gc) \/ Completes(Q, v, F, gc) \/ Extends(Q, v, F, gc)

(* The packet that arrived is one of the queue, waits for a verdict, and is  *)
(* in no flow.                                                               *)
LEMMA ArrivedFacts ==
  ASSUME IInv, packet_handle
  PROVE  /\ alive /\ taken \in Nat /\ Len(pkts) \in Nat /\ taken < Len(pkts)
         /\ DOMAIN pkts = 1 .. Len(pkts) /\ DOMAIN fate = 1 .. Len(pkts)
         /\ taken + 1 \in DOMAIN pkts /\ taken + 1 \in Queued /\ taken + 1 \notin Held
         /\ Arrived \in Packet /\ Arrived.conn \in Conns
         /\ Arrived.len \in Nat /\ Arrived.from \in Nat
         /\ UNCHANGED <<pkts, now, snd, resent>>
<1>1. /\ pkts \in Seq(Packet) /\ Len(fate) = Len(pkts) /\ taken \in 0 .. Len(pkts)
      /\ fate \in Seq(Verdicts \cup {QUEUED}) /\ LoopInv
  BY DEF IInv, TypeOK
<1>2. alive /\ taken < Len(pkts) /\ UNCHANGED <<pkts, now, snd, resent>>
  BY DEF packet_handle, client
<1>3. /\ taken \in Nat /\ Len(pkts) \in Nat /\ DOMAIN pkts = 1 .. Len(pkts)
      /\ DOMAIN fate = 1 .. Len(pkts) /\ taken + 1 \in DOMAIN pkts
  BY <1>1, <1>2
<1>4. taken + 1 \in Queued /\ taken + 1 \notin Held
  BY <1>1, <1>3 DEF LoopInv, UntakenQueued, HeldQueued, Queued
<1>5. Arrived \in Packet
  BY <1>1, <1>3 DEF Arrived
<1>6. Arrived.conn \in Conns /\ Arrived.len \in Nat /\ Arrived.from \in Nat
  BY <1>5 DEF Packet
<1> QED BY <1>2, <1>3, <1>4, <1>5, <1>6

(* Judging a set of names ends with a verdict check_access gives one of them. *)
LEMMA JudgeVerdict ==
  ASSUME NEW names, NEW Q, NEW F, Judge(taken + 1, names, Q, F)
  PROVE  \E v : /\ Finish(Q, v, F, lastgc)
                /\ \E name \in names : v \in check_access(name)
BY DEF Judge

(* The cases of a packet for which no flow was found.                        *)
LEMMA NewFlowCases ==
  ASSUME IInv, NotFound(Arrived), NewFlow(taken + 1, Arrived)
  PROVE  \E Q, v, F, gc : Finish(Q, v, F, gc) /\ Case(Q, v, F, gc)
<1> DEFINE p == Arrived
           i == taken + 1
<1>1. now \in Nat /\ lastgc \in Nat /\ GC_INTERVAL \in Nat
  BY SizeAssumption DEF IInv, TypeOK
<1>2. CASE AcceptPacket(i) /\ (~IsHello(p) \/ GiveUp(p.conn))
  <2>1. Passes({<<i>>}, ACCEPT, flows, lastgc)
    BY <1>2 DEF Passes, IsHello, GiveUp
  <2> QED BY <1>2, <2>1 DEF Case, AcceptPacket
<1>3. CASE /\ IsHello(p) /\ p.len >= RecLen[p.conn]
           /\ Judge(i, extract_sni(p.conn, Cells(p)), {<<i>>}, flows)
  <2>1. PICK v : /\ Finish({<<i>>}, v, flows, lastgc)
                 /\ \E name \in extract_sni(p.conn, Cells(p)) : v \in check_access(name)
    BY <1>3, JudgeVerdict
  <2>2. JudgesHello({<<i>>}, v, flows, lastgc)
    BY <1>3, <2>1 DEF JudgesHello, IsHello
  <2> QED BY <2>1, <2>2 DEF Case
<1>4. CASE /\ IsHello(p) /\ p.len < RecLen[p.conn]
           /\ tcpflow_insert(Opened)
  <2> DEFINE F == flows \cup {Opened}
             E == Expired(F)
  <2>1. CASE lastgc < now - GC_INTERVAL /\ Finish({f.ids : f \in E}, DROP, F \ E, now)
    <3>1. E \in SUBSET F /\ now # lastgc
      BY <1>1, <2>1 DEF Expired
    <3>2. Opens({f.ids : f \in E}, DROP, F \ E, now)
      BY <1>4, <3>1 DEF Opens, IsHello
    <3> QED BY <2>1, <3>2 DEF Case
  <2>2. CASE Finish({}, DROP, F, lastgc)
    <3>1. Opens({}, DROP, F, lastgc)
      <4>1. {} \in SUBSET F /\ {} = {f.ids : f \in {}} /\ F = F \ {}
        OBVIOUS
      <4> HIDE DEF F
      <4> QED BY <1>4, <4>1 DEF Opens, IsHello, F
    <3> QED BY <2>2, <3>1 DEF Case
  <2> QED BY <1>4, <2>1, <2>2 DEF tcpflow_insert, tcpflow_rungc
<1> QED BY <1>2, <1>3, <1>4 DEF NewFlow, Opened, Extended

(* The cases of a packet that continues a flow.                              *)
LEMMA ContinueFlowCases ==
  ASSUME IInv, NEW f \in flows, Found(f, Arrived), ContinueFlow(taken + 1, Arrived, f)
  PROVE  \E Q, v, F, gc : Finish(Q, v, F, gc) /\ Case(Q, v, F, gc)
<1> DEFINE i == taken + 1
           g == Extended(f)
<1>1. CASE /\ ~HasRoom(f, Arrived) /\ Finish({f.ids}, ACCEPT, flows \ {f}, lastgc)
           /\ GiveUp(Arrived.conn)
  <2>1. GivesUp({f.ids}, ACCEPT, flows \ {f}, lastgc)
    BY <1>1 DEF GivesUp, GiveUp
  <2> QED BY <1>1, <2>1 DEF Case
<1>2. CASE /\ tcpflow_iscomplete(g)
           /\ Judge(i, extract_sni(pkts[g.ids[1]].conn, g.payload), {g.ids}, flows \ {f})
  <2>1. PICK v : /\ Finish({g.ids}, v, flows \ {f}, lastgc)
                 /\ \E name \in extract_sni(pkts[g.ids[1]].conn, g.payload) :
                      v \in check_access(name)
    BY <1>2, JudgeVerdict
  <2>2. Completes({g.ids}, v, flows \ {f}, lastgc)
    BY <1>2, <2>1 DEF Completes
  <2> QED BY <2>1, <2>2 DEF Case
<1>3. CASE Finish({}, ACCEPT, (flows \ {f}) \cup {g}, lastgc)
  <2>1. Extends({}, ACCEPT, (flows \ {f}) \cup {g}, lastgc)
    BY DEF Extends
  <2> QED BY <1>3, <2>1 DEF Case
<1> QED BY <1>1, <1>2, <1>3 DEF ContinueFlow, Extended

(* Every packet the daemon receives is handled in one of these ways.         *)
LEMMA HandlerCases ==
  ASSUME IInv, packet_handle
  PROVE  \E Q, v, F, gc : Finish(Q, v, F, gc) /\ Case(Q, v, F, gc)
<1> DEFINE i == taken + 1
           p == Arrived
<1>1. CASE AcceptPacket(i) /\ (p.port # 443 \/ p.len < MIN_PAYLOAD)
  <2>1. Passes({<<i>>}, ACCEPT, flows, lastgc)
    BY <1>1 DEF Passes
  <2> QED BY <1>1, <2>1 DEF Case, AcceptPacket
<1>2. CASE p.port = 443 /\ packet_handle_tcp443(i, p)
  <2>1. CASE p.len >= MIN_PAYLOAD
    <3>1. PICK pad \in KeyPads :
            /\ Misses(p.conn, pad)
            /\ \/ tcpflow_lookup(p.conn, pad) = {} /\ NewFlow(i, p)
               \/ \E f \in tcpflow_lookup(p.conn, pad) : ContinueFlow(i, p, f)
      <4>1. p.len \in Nat /\ MIN_PAYLOAD \in Nat
        BY SizeAssumption, ArrivedFacts
      <4> QED BY <1>2, <2>1, <4>1 DEF packet_handle_tcp443
    <3>2. CASE tcpflow_lookup(p.conn, pad) = {} /\ NewFlow(i, p)
      <4>1. NotFound(p)
        BY <1>2, <2>1, <3>1, <3>2 DEF NotFound, Misses, tcpflow_lookup
      <4> QED BY <3>2, <4>1, NewFlowCases
    <3>3. CASE \E f \in tcpflow_lookup(p.conn, pad) : ContinueFlow(i, p, f)
      <4>1. PICK f \in flows : f.key = Key[p.conn] /\ ContinueFlow(i, p, f)
        BY <3>3 DEF tcpflow_lookup
      <4> QED BY <1>2, <2>1, <4>1, ContinueFlowCases DEF Found
    <3> QED BY <3>1, <3>2, <3>3
  <2> QED BY <1>1, <1>2, <2>1 DEF packet_handle_tcp443
<1>3. ASSUME NEW name, Judge(i, {name}, {<<i>>}, flows),
             \/ p.port = 80 /\ name = extract_http_payload(p)
             \/ p.port = 53 /\ name = extract_dns_domain(p)
      PROVE  \E Q, v, F, gc : Finish(Q, v, F, gc) /\ Case(Q, v, F, gc)
  <2>1. PICK v : Finish({<<i>>}, v, flows, lastgc) /\ v \in check_access(name)
    BY <1>3, JudgeVerdict
  <2>2. JudgesQuery({<<i>>}, v, flows, lastgc)
    BY <1>3, <2>1 DEF JudgesQuery
  <2> QED BY <2>1, <2>2 DEF Case
<1>4. CASE p.port = 80 /\ packet_handle_tcp80(i, p)
  <2>1. AcceptPacket(i) \/ Judge(i, {extract_http_payload(p)}, {<<i>>}, flows)
    BY <1>4 DEF packet_handle_tcp80
  <2> QED BY <1>1, <1>3, <1>4, <2>1
<1>5. CASE p.port = 53 /\ packet_handle_udp53(i, p)
  BY <1>3, <1>5 DEF packet_handle_udp53
<1> QED BY <1>1, <1>2, <1>4, <1>5 DEF packet_handle, Arrived

(* A flow of the cache that takes the packet that arrived.                   *)
LEMMA ExtendedFacts ==
  ASSUME IInv, packet_handle, NEW f \in flows
  PROVE  /\ f \in Flow /\ Extended(f) \in Flow
         /\ Extended(f).ids = Append(f.ids, taken + 1)
         /\ Extended(f).key = f.key /\ Extended(f).expected = f.expected
         /\ Extended(f).payload = f.payload \o Cells(Arrived)
         /\ 1 \in DOMAIN f.ids /\ Extended(f).ids[1] = f.ids[1]
         /\ RangeOf(Extended(f).ids) = RangeOf(f.ids) \cup {taken + 1}
         /\ RangeOf(f.ids) \subseteq (1 .. taken) \cap Queued
<1>1. f \in Flow /\ f.ids \in Seq(Nat) /\ TypeOK /\ LoopInv
  BY DEF IInv, TypeOK, Flow
<1>2. taken + 1 \in DOMAIN pkts /\ taken + 1 \in Nat
  BY ArrivedFacts
<1>3. /\ Extended(f) \in Flow /\ Extended(f).ids = Append(f.ids, taken + 1)
      /\ Extended(f).key = f.key /\ Extended(f).expected = f.expected
  BY <1>1, <1>2, AppendType DEF Extended
<1>4. Extended(f).payload = f.payload \o Cells(Arrived)
  BY <1>1 DEF Extended, tcpflow_value_append, Flow, Arrived
<1>5. Len(f.ids) \in 1 .. MAX_PACKET_COUNT
  BY <1>1 DEF LoopInv, FlowsWaitForMore
<1>6. 1 \in DOMAIN f.ids
  BY <1>1, <1>5
<1>7. /\ Extended(f).ids[1] = f.ids[1]
      /\ RangeOf(Extended(f).ids) = RangeOf(f.ids) \cup {taken + 1}
  <2> DEFINE s == Append(f.ids, taken + 1)
  <2>1. /\ DOMAIN s = 1 .. Len(f.ids) + 1 /\ DOMAIN f.ids = 1 .. Len(f.ids)
        /\ \A k \in DOMAIN f.ids : s[k] = f.ids[k]
        /\ s[Len(f.ids) + 1] = taken + 1 /\ Len(f.ids) \in Nat
    BY <1>1, <1>2, AppendFacts
  <2> HIDE DEF s
  <2>2. RangeOf(s) = RangeOf(f.ids) \cup {taken + 1}
    BY <2>1 DEF RangeOf
  <2>3. s[1] = f.ids[1]
    BY <1>6, <2>1
  <2> QED BY <1>3, <2>2, <2>3 DEF s
<1>8. RangeOf(f.ids) \subseteq (1 .. taken) \cap Queued
  BY <1>1 DEF LoopInv, HeldQueued, Held
<1> QED BY <1>1, <1>3, <1>4, <1>6, <1>7, <1>8

(* A flow that begins with the packet that arrived.                          *)
LEMMA OpenedFacts ==
  ASSUME IInv, packet_handle
  PROVE  /\ Opened \in Flow /\ Opened.ids = <<taken + 1>>
         /\ RangeOf(Opened.ids) = {taken + 1} /\ Opened.ids[1] = taken + 1
         /\ Opened.key = Key[Arrived.conn]
         /\ Opened.expected = RecLen[Arrived.conn]
         /\ Opened.payload = Cells(Arrived)
<1> DEFINE f == tcpflow_create(Arrived.conn, RecLen[Arrived.conn])
<1>1. taken + 1 \in DOMAIN pkts /\ taken + 1 \in Nat /\ Arrived \in Packet /\ TypeOK
  BY ArrivedFacts DEF IInv
<1>2. Key[Arrived.conn] \in Conns /\ now \in Nat /\ RecLen[Arrived.conn] \in Nat
  BY ArrivedFacts, NameAssumption, SizeAssumption DEF IInv, TypeOK
<1>3. /\ f \in Flow /\ f.ids = <<>> /\ f.payload = <<>>
      /\ f.key = Key[Arrived.conn] /\ f.expected = RecLen[Arrived.conn]
  BY <1>2 DEF tcpflow_create, Flow
<1>4. Cells(Arrived) \in Seq(Conns \X Nat)
  BY <1>1, CellsType
<1>5. <<>> \o Cells(Arrived) = Cells(Arrived)
  BY <1>4, ConcatEmptySeq
<1>6. Append(<<>>, taken + 1) = <<taken + 1>>
  OBVIOUS
<1> HIDE DEF f
<1>7. /\ Opened \in Flow /\ Opened.ids = <<taken + 1>>
      /\ Opened.key = Key[Arrived.conn] /\ Opened.expected = RecLen[Arrived.conn]
  BY <1>1, <1>3, <1>6, AppendType DEF Opened, Extended, f
<1>8. Opened.payload = Cells(Arrived)
  <2>1. Opened.payload = f.payload \o Cells(Arrived)
    BY <1>3 DEF Opened, Extended, tcpflow_value_append, Flow, Arrived, f
  <2> QED BY <1>3, <1>5, <2>1
<1>9. RangeOf(<<taken + 1>>) = {taken + 1} /\ <<taken + 1>>[1] = taken + 1
  BY DEF RangeOf
<1> QED BY <1>7, <1>8, <1>9

(* A handler gives verdicts, to sequences of packets.                        *)
LEMMA CaseTypes ==
  ASSUME IInv, packet_handle, NEW Q, NEW v, NEW F, NEW gc, Case(Q, v, F, gc)
  PROVE  v \in Verdicts /\ \A q \in Q : q \in Seq(Nat)
<1>1. <<taken + 1>> \in Seq(Nat)
  BY ArrivedFacts
<1>2. /\ \A f \in flows : f.ids \in Seq(Nat) /\ Extended(f).ids \in Seq(Nat)
      /\ Opened.ids \in Seq(Nat)
  BY ExtendedFacts, OpenedFacts DEF Flow
<1>3. \A q \in Q : q \in Seq(Nat)
  <2>1. CASE Opens(Q, v, F, gc)
    <3>1. PICK E \in SUBSET (flows \cup {Opened}) : Q = {f.ids : f \in E}
      BY <2>1 DEF Opens
    <3> QED BY <1>2, <3>1
  <2>2. CASE Q = {<<taken + 1>>} \/ Q = {}
    BY <1>1, <2>2
  <2>3. CASE \E f \in flows : Q = {f.ids} \/ Q = {Extended(f).ids}
    BY <1>2, <2>3
  <2> QED BY <2>1, <2>2, <2>3
          DEF Case, Passes, JudgesQuery, JudgesHello, GivesUp, Completes, Extends
<1>4. \A name \in Domains \cup {NoName} : check_access(name) \subseteq Verdicts
  BY NameAssumption DEF check_access, Verdicts
<1>5. v \in Verdicts
  <2>1. CASE Passes(Q, v, F, gc) \/ Opens(Q, v, F, gc) \/ GivesUp(Q, v, F, gc)
    BY <2>1 DEF Passes, Opens, GivesUp, Verdicts
  <2>2. CASE JudgesQuery(Q, v, F, gc)
    <3>1. /\ extract_http_payload(Arrived) \in Domains \cup {NoName}
          /\ extract_dns_domain(Arrived) \in Domains \cup {NoName}
      BY ArrivedFacts, NameAssumption DEF Packet, extract_http_payload, extract_dns_domain
    <3> QED BY <1>4, <2>2, <3>1 DEF JudgesQuery
  <2>3. CASE JudgesHello(Q, v, F, gc)
    <3>1. extract_sni(Arrived.conn, Cells(Arrived)) \subseteq Domains \cup {NoName}
      BY ArrivedFacts, NameAssumption DEF extract_sni
    <3> QED BY <1>4, <2>3, <3>1 DEF JudgesHello
  <2>4. CASE Completes(Q, v, F, gc)
    <3>1. PICK f \in flows :
            \E name \in extract_sni(pkts[Extended(f).ids[1]].conn, Extended(f).payload) :
              v \in check_access(name)
      BY <2>4 DEF Completes
    <3>2. Extended(f).ids[1] \in DOMAIN pkts
      BY ExtendedFacts, ArrivedFacts DEF RangeOf
    <3>3. pkts[Extended(f).ids[1]].conn \in Conns
      <4>1. pkts[Extended(f).ids[1]] \in Packet
        BY <3>2 DEF IInv, TypeOK
      <4> QED BY <4>1 DEF Packet
    <3>4. extract_sni(pkts[Extended(f).ids[1]].conn, Extended(f).payload)
            \subseteq Domains \cup {NoName}
      BY <3>3, NameAssumption DEF extract_sni
    <3> QED BY <1>4, <3>1, <3>4
  <2> QED BY <2>1, <2>2, <2>3, <2>4 DEF Case, Extends, Verdicts
<1> QED BY <1>3, <1>5

(* What the last step of a handler does to the fates.                        *)
LEMMA FinishEffect ==
  ASSUME IInv, packet_handle, NEW Q, NEW v, NEW F, NEW gc,
         Case(Q, v, F, gc), Finish(Q, v, F, gc)
  PROVE  /\ DOMAIN fate' = DOMAIN fate
         /\ \A i \in DOMAIN fate : i \notin Queued => fate'[i] = fate[i]
         /\ \A i \in Queued :
              fate'[i] = ACCEPT => v = ACCEPT /\ \E q \in Q : i \in RangeOf(q)
         /\ \/ /\ alive' /\ taken' = taken + 1 /\ flows' = F /\ lastgc' = gc
               /\ \A i \in Queued :
                    fate'[i] = IF \E q \in Q : i \in RangeOf(q) THEN v ELSE QUEUED
            \/ /\ ~alive' /\ taken' = Len(pkts) /\ flows' = {}
               /\ \A i \in Queued : fate'[i] # QUEUED
<1> USE DEF QUEUED, ACCEPT, DROP, Verdicts
<1>1. v \in Verdicts /\ (\A q \in Q : q \in Seq(Nat)) /\ alive
  BY CaseTypes, ArrivedFacts
<1>2. CASE /\ nfq_send_verdict(Q, v)
           /\ taken' = taken + 1
           /\ flows' = F /\ lastgc' = gc
           /\ UNCHANGED <<alive, exits>>
  <2>1. /\ DOMAIN fate' = DOMAIN fate
        /\ \A i \in DOMAIN fate : i \notin Queued => fate'[i] = fate[i]
        /\ \A i \in Queued :
             fate'[i] = IF \E q \in Q : i \in RangeOf(q) THEN v ELSE QUEUED
    BY <1>2 DEF nfq_send_verdict, Queued
  <2> QED BY <1>1, <1>2, <2>1
<1>3. CASE \E q \in Q : \E k \in 1 .. Len(q) : Exit({q[j] : j \in 1 .. k - 1}, v)
  <2>1. PICK q \in Q : \E k \in 1 .. Len(q) : Exit({q[j] : j \in 1 .. k - 1}, v)
    BY <1>3
  <2>2. PICK k \in 1 .. Len(q) : Exit({q[j] : j \in 1 .. k - 1}, v)
    BY <2>1
  <2> DEFINE done == {q[j] : j \in 1 .. k - 1}
  <2>3. done \subseteq RangeOf(q)
    <3>1. q \in Seq(Nat)
      BY <1>1
    <3>2. Len(q) \in Nat /\ DOMAIN q = 1 .. Len(q) /\ k \in Nat /\ k <= Len(q)
      BY <3>1
    <3>3. 1 .. k - 1 \subseteq DOMAIN q
      BY <3>2
    <3> QED BY <3>3 DEF RangeOf
  <2>4. Exit(done, v)
    BY <2>2
  <2> HIDE DEF done
  <2>5. /\ DOMAIN fate' = DOMAIN fate
        /\ \A i \in DOMAIN fate : i \notin Queued => fate'[i] = fate[i]
        /\ \A i \in Queued : fate'[i] = IF i \in done THEN v ELSE DROP
        /\ ~alive' /\ taken' = Len(pkts) /\ flows' = {}
    BY <2>4 DEF Exit, Queued
  <2>6. \A i \in Queued :
          fate'[i] = ACCEPT => v = ACCEPT /\ \E r \in Q : i \in RangeOf(r)
    BY <2>3, <2>5
  <2>7. \A i \in Queued : fate'[i] # QUEUED
    BY <1>1, <2>5
  <2> QED BY <2>5, <2>6, <2>7
<1> QED BY <1>2, <1>3 DEF Finish

-----------------------------------------------------------------------------
(* Packets the daemon forgets. *)

(* Flow f is at a limit, gives packet i up and passes what it held.          *)
Overflows(f, i) ==
  /\ f.key = Key[pkts[i].conn]
  /\ \/ Len(f.ids) = MAX_PACKET_COUNT
     \/ Len(f.payload) + pkts[i].len > FLOW_PAYLOAD_SIZE
  /\ \A k \in DOMAIN f.ids : fate'[f.ids[k]] = ACCEPT

(* A packet that no handler settled and no flow took was forgotten before,   *)
(* or is the one an overflowing flow gave up.                                *)
LEMMA HandleForgets ==
  ASSUME IInv, packet_handle, NEW i, i \in Forgotten', i \notin Forgotten
  PROVE  \E f \in flows : Overflows(f, i)
<1> USE DEF QUEUED, ACCEPT, DROP
<1>1. PICK Q, v, F, gc : Finish(Q, v, F, gc) /\ Case(Q, v, F, gc)
  BY HandlerCases
<1>2. i \in 1 .. taken' /\ fate'[i] = QUEUED /\ i \notin Held'
  BY DEF Forgotten
<1>3. v \in Verdicts
  BY <1>1, CaseTypes
<1>4. i \in DOMAIN fate /\ i \in Queued
  <2>1. i \in DOMAIN fate
    BY <1>1, <1>2, ArrivedFacts, FinishEffect
  <2>2. i \notin Queued => fate'[i] = fate[i]
    BY <1>1, <2>1, FinishEffect
  <2> QED BY <1>2, <2>1, <2>2 DEF Queued
<1>5. /\ alive' /\ taken' = taken + 1 /\ flows' = F
      /\ \A j \in Queued : fate'[j] = IF \E q \in Q : j \in RangeOf(q) THEN v ELSE QUEUED
  BY <1>1, <1>2, <1>4, FinishEffect
<1>6. \A q \in Q : i \notin RangeOf(q)
  BY <1>2, <1>3, <1>4, <1>5 DEF Verdicts
<1>7. \A f \in F : i \notin RangeOf(f.ids)
  BY <1>2, <1>5 DEF Held
<1>8. i = taken + 1 \/ \E f \in flows : i \in RangeOf(f.ids)
  <2>1. i # taken + 1 => i \in 1 .. taken
    BY <1>2, <1>5, ArrivedFacts
  <2> QED BY <1>4, <2>1 DEF Forgotten, Queued, Held
<1>9. CASE Q = {<<taken + 1>>} /\ F = flows
  BY <1>6, <1>7, <1>8, <1>9 DEF RangeOf
<1>10. CASE Opens(Q, v, F, gc)
  <2>1. PICK E \in SUBSET (flows \cup {Opened}) :
           Q = {f.ids : f \in E} /\ F = (flows \cup {Opened}) \ E
    BY <1>10 DEF Opens
  <2>2. \A f \in flows \cup {Opened} : i \notin RangeOf(f.ids)
    BY <1>6, <1>7, <2>1
  <2> QED BY <1>8, <2>2, OpenedFacts
<1>11. CASE Completes(Q, v, F, gc)
  <2>1. PICK f \in flows : Q = {Extended(f).ids} /\ F = flows \ {f}
    BY <1>11 DEF Completes
  <2> QED BY <1>6, <1>7, <1>8, <2>1, ExtendedFacts
<1>12. CASE Extends(Q, v, F, gc)
  <2>1. PICK f \in flows : F = (flows \ {f}) \cup {Extended(f)}
    BY <1>12 DEF Extends
  <2> QED BY <1>7, <1>8, <2>1, ExtendedFacts
<1>13. CASE GivesUp(Q, v, F, gc)
  <2>1. PICK f \in flows : /\ Found(f, Arrived) /\ ~HasRoom(f, Arrived)
                           /\ Q = {f.ids} /\ v = ACCEPT /\ F = flows \ {f}
    BY <1>13 DEF GivesUp
  <2>2. i = taken + 1
    BY <1>6, <1>7, <1>8, <2>1
  <2>3. f.key = Key[pkts[i].conn]
    BY <2>1, <2>2 DEF Found, Arrived
  <2>4. \/ Len(f.ids) = MAX_PACKET_COUNT
        \/ Len(f.payload) + pkts[i].len > FLOW_PAYLOAD_SIZE
    <3>1. Len(f.ids) \in 1 .. MAX_PACKET_COUNT
      BY DEF IInv, LoopInv, FlowsWaitForMore
    <3>2. f.payload \in Seq(Conns \X Nat)
      BY DEF IInv, TypeOK, Flow
    <3>3. /\ MAX_PACKET_COUNT \in Nat /\ FLOW_PAYLOAD_SIZE \in Nat
          /\ Len(f.payload) \in Nat /\ Arrived.len \in Nat
      BY <3>2, ArrivedFacts, SizeAssumption
    <3> QED BY <2>1, <2>2, <3>1, <3>3 DEF HasRoom, Arrived
  <2>5. \A k \in DOMAIN f.ids : fate'[f.ids[k]] = ACCEPT
    <3>1. \A k \in DOMAIN f.ids : f.ids[k] \in Queued /\ f.ids[k] \in RangeOf(f.ids)
      BY ExtendedFacts DEF RangeOf
    <3> QED BY <1>5, <2>1, <3>1
  <2> QED BY <2>3, <2>4, <2>5 DEF Overflows
<1> QED BY <1>1, <1>9, <1>10, <1>11, <1>12, <1>13
        DEF Case, Passes, JudgesQuery, JudgesHello

(* No other step forgets a packet.                                           *)
LEMMA OthersForgetNothing ==
  ASSUME IInv, [Next]_vars, ~packet_handle
  PROVE  Forgotten' \subseteq Forgotten
<1> USE DEF QUEUED, ACCEPT, DROP
<1>1. /\ DOMAIN fate = 1 .. Len(pkts) /\ Len(pkts) \in Nat /\ taken \in 0 .. Len(pkts)
      /\ Len(fate) = Len(pkts) /\ fate \in Seq(Verdicts \cup {QUEUED}) /\ LoopInv
  BY DEF IInv, TypeOK
<1>2. ASSUME NEW p, Enqueue(p)
      PROVE  Forgotten' \subseteq Forgotten
  <2>1. Held' = Held
    BY <1>2 DEF Enqueue, daemon, Held
  <2>2. /\ \A i \in DOMAIN fate : fate'[i] = fate[i]
        /\ fate'[Len(pkts) + 1] = IF alive THEN QUEUED ELSE ACCEPT
    BY <1>1, <1>2 DEF Enqueue
  <2>3. CASE alive
    <3>1. taken' = taken
      BY <1>2, <2>3 DEF Enqueue
    <3> QED BY <1>1, <2>1, <2>2, <3>1 DEF Forgotten
  <2>4. CASE ~alive
    <3>1. taken' = taken + 1 /\ taken = Len(pkts)
      BY <1>1, <1>2, <2>4 DEF Enqueue, LoopInv, DownIsEmpty
    <3> QED BY <1>1, <2>1, <2>2, <2>4, <3>1 DEF Forgotten
  <2> QED BY <2>3, <2>4
<1>3. CASE UNCHANGED <<fate, taken, flows>>
  BY <1>3 DEF Forgotten, Held
<1>4. CASE ReceiveError
  <2>1. /\ taken' = Len(pkts)
        /\ \A i \in DOMAIN fate : fate'[i] # QUEUED
    BY <1>4 DEF ReceiveError, Exit, Queued
  <2> QED BY <1>1, <2>1 DEF Forgotten
<1>5. CASE \E c \in Conns : Client(c)
  BY <1>2, <1>3, <1>5 DEF Client, Send, Resend, Rewind, daemon
<1>6. CASE \E q \in Queries : SendQuery(q)
  BY <1>2, <1>6 DEF SendQuery
<1>7. CASE Tick \/ Restart \/ UNCHANGED vars
  BY <1>3, <1>7 DEF Tick, Restart, vars, daemon
<1> QED BY <1>4, <1>5, <1>6, <1>7 DEF Next

(* Only a flow at a limit makes the daemon forget the packet that did not    *)
(* fit (tcpflow_value_append fails), and then the rest of it is let through. *)
THEOREM ForgettingNeedsOverflow == Spec => ForgetsOnlyOnOverflow
<1>1. IInv /\ [Next]_vars =>
        [\A i \in Forgotten' \ Forgotten :
           \E f \in flows :
             /\ f.key = Key[pkts[i].conn]
             /\ \/ Len(f.ids) = MAX_PACKET_COUNT
                \/ Len(f.payload) + pkts[i].len > FLOW_PAYLOAD_SIZE
             /\ \A k \in DOMAIN f.ids : fate'[f.ids[k]] = ACCEPT]_vars
  <2> SUFFICES ASSUME IInv, [Next]_vars, NEW i \in Forgotten' \ Forgotten
               PROVE  \E f \in flows : Overflows(f, i)
    BY DEF Overflows
  <2>1. CASE packet_handle
    BY <2>1, HandleForgets
  <2>2. CASE ~packet_handle
    BY <2>2, OthersForgetNothing
  <2> QED BY <2>1, <2>2
<1> QED BY <1>1, Invariance, PTL DEF Spec, ForgetsOnlyOnOverflow

-----------------------------------------------------------------------------
(* One flow for each connection. *)

(* A handler leaves only flows it had, the one it extended, and a new one.   *)
LEMMA HandleFlows ==
  ASSUME IInv, packet_handle
  PROVE  \/ flows' \subseteq flows
         \/ /\ NotFound(Arrived) /\ Arrived.from = 0
            /\ flows' \subseteq flows \cup {Opened}
         \/ \E f \in flows : Found(f, Arrived) /\ flows' = (flows \ {f}) \cup {Extended(f)}
<1>1. PICK Q, v, F, gc : Finish(Q, v, F, gc) /\ Case(Q, v, F, gc)
  BY HandlerCases
<1>2. flows' = F \/ flows' = {}
  BY <1>1, FinishEffect
<1> QED BY <1>1, <1>2 DEF Case, Passes, JudgesQuery, JudgesHello, Opens, GivesUp,
                          Completes, Extends

(* Steps other than a handler's leave the cache alone or empty it.           *)
LEMMA OthersKeepFlows ==
  ASSUME [Next]_vars, ~packet_handle
  PROVE  flows' = flows \/ flows' = {}
<1>1. CASE \E c \in Conns : Client(c)
  BY <1>1 DEF Client, Send, Resend, Rewind, Enqueue, daemon
<1>2. CASE \E q \in Queries : SendQuery(q)
  BY <1>2 DEF SendQuery, Enqueue, daemon
<1>3. CASE Tick \/ Restart \/ UNCHANGED vars
  BY <1>3 DEF Tick, Restart, vars, daemon
<1>4. CASE ReceiveError
  BY <1>4 DEF ReceiveError, Exit
<1> QED BY <1>1, <1>2, <1>3, <1>4 DEF Next

(* No step forgets that a lookup missed a flow.                              *)
LEMMA MissedGrows ==
  ASSUME IInv, [Next]_vars
  PROVE  missed \subseteq missed'
<1>1. CASE \E c \in Conns : Client(c)
  BY <1>1 DEF Client, Send, Resend, Rewind, Enqueue
<1>2. CASE \E q \in Queries : SendQuery(q)
  BY <1>2 DEF SendQuery, Enqueue
<1>3. CASE Tick \/ Restart \/ ReceiveError \/ UNCHANGED vars
  BY <1>3 DEF Tick, Restart, ReceiveError, vars
<1>4. CASE packet_handle
  BY <1>4, HandleMisses
<1> QED BY <1>1, <1>2, <1>3, <1>4 DEF Next

(* For every padding, a connection has two flows only after a lookup missed  *)
(* its flow (tcpflow_lookup); nothing else makes the daemon open a second.   *)
THEOREM FlowsAreUnique == Spec => []OneFlowPerConn
<1>1. Init => OneFlowPerConn
  BY DEF Init, OneFlowPerConn
<1>2. IInv /\ OneFlowPerConn /\ [Next]_vars => OneFlowPerConn'
  <2> SUFFICES ASSUME IInv, OneFlowPerConn, [Next]_vars
               PROVE  OneFlowPerConn'
    OBVIOUS
  <2>0. missed \subseteq missed'
    BY MissedGrows
  <2>1. CASE flows' \subseteq flows
    BY <2>0, <2>1 DEF OneFlowPerConn
  <2>2. CASE packet_handle
    <3>1. CASE NotFound(Arrived) /\ flows' \subseteq flows \cup {Opened}
      <4>1. \A f \in flows : f.key = Key[Arrived.conn] => f.key \in missed'
        BY <3>1 DEF NotFound
      <4>2. Opened.key = Key[Arrived.conn]
        BY <2>2, OpenedFacts
      <4> QED BY <2>0, <3>1, <4>1, <4>2 DEF OneFlowPerConn
    <3>2. CASE \E f \in flows : Found(f, Arrived) /\ flows' = (flows \ {f}) \cup {Extended(f)}
      <4>1. PICK f \in flows : flows' = (flows \ {f}) \cup {Extended(f)}
        BY <3>2
      <4>2. Extended(f).key = f.key
        BY <2>2, ExtendedFacts
      <4> QED BY <2>0, <4>1, <4>2 DEF OneFlowPerConn
    <3> QED BY <2>1, <2>2, <3>1, <3>2, HandleFlows
  <2> QED BY <2>1, <2>2, OthersKeepFlows
<1> QED BY <1>1, <1>2, Invariance, PTL DEF Spec
=============================================================================
