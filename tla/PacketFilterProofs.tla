------------------------- MODULE PacketFilterProofs -------------------------
(***************************************************************************)
(* What holds of the packet loop for every set of connections, every cut   *)
(* of the hellos, every limit and every bound: types, no stray verdict,    *)
(* and that the loop implements the abstract verdict queue.                *)
(***************************************************************************)
EXTENDS PacketFilter, SequenceTheorems, TLAPS

(* The packets a handler may settle: those held in flows and its own one.   *)
Reach == Held \cup {taken + 1}

(* No packet is in two places of a set of flows.                            *)
Separate(F) ==
  \A f, g \in F : \A k \in DOMAIN f.ids, m \in DOMAIN g.ids :
    f.ids[k] = g.ids[m] => f = g /\ k = m

HeldQueued == Held \subseteq (1 .. taken) \cap Queued

UntakenQueued == \A i \in DOMAIN fate : i > taken => fate[i] = QUEUED

DownIsEmpty == ~alive => flows = {} /\ taken = Len(pkts)

(* The part of the types that a handler's last step decides.                *)
LoopTypes ==
  /\ fate \in Seq(Verdicts \cup {QUEUED}) /\ Len(fate) = Len(pkts)
  /\ taken \in 0 .. Len(pkts) /\ flows \subseteq Flow /\ lastgc \in Nat
  /\ alive \in BOOLEAN /\ exits \in Nat /\ stray \in BOOLEAN

LoopInv == /\ LoopTypes
           /\ NoStrayVerdict
           /\ HeldQueued
           /\ Separate(flows)
           /\ FlowsWaitForMore
           /\ UntakenQueued
           /\ DownIsEmpty

(* The inductive invariant.                                                 *)
IInv == TypeOK /\ LoopInv /\ AnsweredIsDropped

(* A set of flows a handler may build, and flows that may stay in the cache. *)
Built(F) ==
  /\ F \subseteq Flow
  /\ \A f \in F : RangeOf(f.ids) \subseteq Reach
  /\ Separate(F)

Waiting(F) ==
  \A f \in F : /\ Len(f.ids) \in 1 .. MAX_PACKET_COUNT
               /\ Len(f.payload) < f.expected /\ f.expected <= FLOW_PAYLOAD_SIZE

(* What a handler hands to its last step: Q is settled, F is kept.          *)
Sound(Q, F) ==
  /\ \A q \in Q : q \in Seq(Nat) /\ RangeOf(q) \subseteq Reach
  /\ \A q, r \in Q : \A k \in DOMAIN q, m \in DOMAIN r :
       q[k] = r[m] => q = r /\ k = m
  /\ Built(F) /\ Waiting(F)
  /\ \A f \in F, q \in Q : RangeOf(f.ids) \cap RangeOf(q) = {}

(* The payload of a packet is a sequence of cells of its stream.             *)
LEMMA CellsType ==
  ASSUME NEW p \in Packet
  PROVE  Cells(p) \in Seq(Conns \X Nat) /\ Len(Cells(p)) = p.len
BY DEF Cells, Packet

(* What appending one element does to a sequence.                            *)
LEMMA AppendFacts ==
  ASSUME NEW s \in Seq(Nat), NEW x \in Nat
  PROVE  /\ Append(s, x) \in Seq(Nat) /\ Len(s) \in Nat
         /\ DOMAIN Append(s, x) = 1 .. Len(s) + 1 /\ DOMAIN s = 1 .. Len(s)
         /\ \A k \in DOMAIN s : Append(s, x)[k] = s[k]
         /\ Append(s, x)[Len(s) + 1] = x
OBVIOUS

(* A flow that takes one more packet is a flow.                              *)
LEMMA AppendType ==
  ASSUME TypeOK, NEW f \in Flow, NEW i \in DOMAIN pkts
  PROVE  /\ tcpflow_value_append(f, i) \in Flow
         /\ tcpflow_value_append(f, i).ids = Append(f.ids, i)
         /\ tcpflow_value_append(f, i).key = f.key
         /\ tcpflow_value_append(f, i).expected = f.expected
         /\ Len(tcpflow_value_append(f, i).payload) = Len(f.payload) + pkts[i].len
<1>1. pkts[i] \in Packet /\ i \in Nat
  BY DEF TypeOK
<1>2. Cells(pkts[i]) \in Seq(Conns \X Nat) /\ Len(Cells(pkts[i])) = pkts[i].len
  BY <1>1, CellsType
<1>3. /\ f.payload \o Cells(pkts[i]) \in Seq(Conns \X Nat)
      /\ Len(f.payload \o Cells(pkts[i])) = Len(f.payload) + pkts[i].len
      /\ Append(f.ids, i) \in Seq(Nat)
  <2>1. f.payload \in Seq(Conns \X Nat) /\ f.ids \in Seq(Nat)
    BY DEF Flow
  <2>2. Append(f.ids, i) \in Seq(Nat)
    BY <1>1, <2>1, AppendProperties
  <2>3. /\ f.payload \o Cells(pkts[i]) \in Seq(Conns \X Nat)
        /\ Len(f.payload \o Cells(pkts[i])) = Len(f.payload) + Len(Cells(pkts[i]))
    BY <1>2, <2>1, ConcatProperties
  <2> QED BY <1>2, <2>2, <2>3
<1> QED BY <1>3 DEF tcpflow_value_append, Flow

(* Verdicts for distinct queued packets, each named once, are not mistaken.  *)
LEMMA NotMistaken ==
  ASSUME LoopInv, alive, taken < Len(pkts), NEW Q, NEW F, Sound(Q, F)
  PROVE  ~Mistaken(Q) /\ Reach \subseteq Queued
<1>1. taken + 1 \in Queued
  BY DEF LoopInv, LoopTypes, UntakenQueued, Queued
<1>2. Reach \subseteq Queued
  BY <1>1 DEF Reach, LoopInv, HeldQueued
<1>3. \A q \in Q : \A k \in DOMAIN q : q[k] \in Queued
  BY <1>2 DEF Sound, RangeOf
<1> QED BY <1>2, <1>3 DEF Mistaken, Sound

(* The end of the process settles every queued packet.                       *)
LEMMA ExitStep ==
  ASSUME LoopInv, pkts \in Seq(Packet), pkts' = pkts, NEW v \in Verdicts, NEW done,
         Exit(done, v), stray' \in BOOLEAN, ~stray'
  PROVE  /\ LoopInv'
         /\ \A i \in DOMAIN fate : i \notin Queued => fate'[i] = fate[i]
<1> USE DEF QUEUED, ACCEPT, DROP, Verdicts
<1>1. DOMAIN fate = 1 .. Len(pkts) /\ Len(pkts) \in Nat
  BY DEF LoopInv, LoopTypes
<1>2. /\ fate' \in Seq(Verdicts \cup {QUEUED}) /\ Len(fate') = Len(pkts')
      /\ DOMAIN fate' = DOMAIN fate
      /\ \A i \in DOMAIN fate : i \notin Queued => fate'[i] = fate[i]
  BY <1>1 DEF Exit, LoopInv, LoopTypes
<1>3. LoopTypes'
  <2>1. /\ taken' \in 0 .. Len(pkts') /\ flows' \subseteq Flow
        /\ lastgc' \in Nat /\ exits' \in Nat
    BY <1>1 DEF Exit, LoopInv, LoopTypes
  <2>2. alive' \in BOOLEAN
    BY DEF Exit
  <2> QED BY <1>2, <2>1, <2>2 DEF LoopTypes
<1>4. flows' = {} /\ taken' = Len(pkts')
  BY DEF Exit
<1>5. HeldQueued' /\ Separate(flows') /\ FlowsWaitForMore' /\ DownIsEmpty'
  BY <1>4 DEF HeldQueued, Held, Separate, FlowsWaitForMore, DownIsEmpty
<1>6. UntakenQueued'
  BY <1>1, <1>2, <1>4 DEF UntakenQueued
<1> QED BY <1>2, <1>3, <1>5, <1>6 DEF LoopInv, NoStrayVerdict, Separate

(* The last step of every handler keeps the invariant of the loop, and a    *)
(* packet that was settled before keeps its fate.                           *)
LEMMA FinishStep ==
  ASSUME LoopInv, alive, taken < Len(pkts), pkts \in Seq(Packet), pkts' = pkts,
         NEW Q, NEW v \in Verdicts, NEW F, NEW gc \in Nat,
         Sound(Q, F), Finish(Q, v, F, gc)
  PROVE  /\ LoopInv'
         /\ \A i \in DOMAIN fate : i \notin Queued => fate'[i] = fate[i]
<1> USE DEF QUEUED, ACCEPT, DROP, Verdicts
<1>1. ~Mistaken(Q) /\ Reach \subseteq Queued
  BY NotMistaken
<1>2. ~stray /\ stray \in BOOLEAN
  BY DEF LoopInv, LoopTypes, NoStrayVerdict
<1>3. DOMAIN fate = 1 .. Len(pkts) /\ Len(pkts) \in Nat /\ taken \in Nat
  BY DEF LoopInv, LoopTypes
<1>4. CASE /\ nfq_send_verdict(Q, v)
           /\ taken' = taken + 1
           /\ flows' = F /\ lastgc' = gc
           /\ UNCHANGED <<alive, exits>>
  <2>1. /\ fate' \in Seq(Verdicts \cup {QUEUED}) /\ Len(fate') = Len(pkts')
        /\ \A i \in DOMAIN fate : i \notin Queued => fate'[i] = fate[i]
        /\ \A i \in DOMAIN fate :
             (\A q \in Q : i \notin RangeOf(q)) => fate'[i] = fate[i]
        /\ DOMAIN fate' = DOMAIN fate
    BY <1>3, <1>4 DEF nfq_send_verdict, LoopInv, LoopTypes
  <2>2. stray' \in BOOLEAN /\ ~stray'
    BY <1>1, <1>2, <1>4 DEF nfq_send_verdict
  <2>3. LoopTypes'
    BY <1>3, <1>4, <2>1, <2>2 DEF LoopTypes, LoopInv, Sound, Built
  <2>4. HeldQueued'
    <3> SUFFICES ASSUME NEW f \in F, NEW i \in RangeOf(f.ids)
                 PROVE  i \in 1 .. taken + 1 /\ i \in DOMAIN fate' /\ fate'[i] = QUEUED
      BY <1>4 DEF HeldQueued, Held, Queued
    <3>1. i \in Reach /\ \A q \in Q : i \notin RangeOf(q)
      BY DEF Sound, Built
    <3>2. i \in 1 .. taken + 1 /\ i \in DOMAIN fate /\ fate[i] = QUEUED
      BY <1>1, <1>3, <3>1 DEF Reach, Queued, LoopInv, HeldQueued
    <3> QED BY <2>1, <3>1, <3>2
  <2>5. UntakenQueued'
    <3> SUFFICES ASSUME NEW i \in DOMAIN fate', i > taken + 1
                 PROVE  fate'[i] = QUEUED
      BY <1>4 DEF UntakenQueued
    <3>1. i \notin Reach
      BY <1>3, <2>1 DEF Reach, LoopInv, HeldQueued
    <3>2. \A q \in Q : i \notin RangeOf(q)
      BY <3>1 DEF Sound
    <3>3. fate[i] = QUEUED
      BY <1>3, <2>1 DEF LoopInv, UntakenQueued
    <3> QED BY <2>1, <3>2, <3>3
  <2>6. Separate(flows') /\ FlowsWaitForMore' /\ DownIsEmpty'
    BY <1>4 DEF Sound, Built, Waiting, FlowsWaitForMore, DownIsEmpty
  <2> QED BY <2>1, <2>2, <2>3, <2>4, <2>5, <2>6 DEF LoopInv, NoStrayVerdict, Separate
<1>5. CASE \E q \in Q : \E k \in 1 .. Len(q) :
             /\ Exit({q[j] : j \in 1 .. k - 1}, v)
             /\ stray' = (stray \/ Mistaken(Q))
  <2>1. PICK done : Exit(done, v) /\ stray' = (stray \/ Mistaken(Q))
    BY <1>5
  <2>2. stray' \in BOOLEAN /\ ~stray'
    BY <1>1, <1>2, <2>1
  <2> QED BY <1>3, <2>1, <2>2, ExitStep
<1> QED BY <1>4, <1>5 DEF Finish

(* The cache as it is.                                                       *)
LEMMA CacheBuilt ==
  ASSUME LoopInv
  PROVE  Built(flows) /\ Waiting(flows)
<1>1. \A f \in flows : RangeOf(f.ids) \subseteq Reach
  BY DEF Reach, Held
<1> QED BY <1>1 DEF LoopInv, LoopTypes, FlowsWaitForMore, Built, Waiting

(* A handler may settle any of the flows it has and keep the others.         *)
LEMMA SettleFlows ==
  ASSUME NEW F, Built(F), NEW E \in SUBSET F, Waiting(F \ E)
  PROVE  Sound({f.ids : f \in E}, F \ E)
<1> DEFINE Q == {f.ids : f \in E}
<1>1. \A q \in Q : q \in Seq(Nat) /\ RangeOf(q) \subseteq Reach
  BY DEF Built, Flow
<1>2. \A q, r \in Q : \A k \in DOMAIN q, m \in DOMAIN r :
        q[k] = r[m] => q = r /\ k = m
  BY DEF Built, Separate
<1>3. Built(F \ E)
  BY DEF Built, Separate
<1>4. \A f \in F \ E, q \in Q : RangeOf(f.ids) \cap RangeOf(q) = {}
  BY DEF Built, Separate, RangeOf
<1> QED BY <1>1, <1>2, <1>3, <1>4 DEF Sound

(* A handler may settle the packet it received alone.                        *)
LEMMA SettlePacket ==
  ASSUME LoopInv
  PROVE  Sound({<<taken + 1>>}, flows)
<1>1. taken + 1 \in Nat /\ taken + 1 \notin Held
  BY DEF LoopInv, LoopTypes, HeldQueued
<1>2. <<taken + 1>> \in Seq(Nat) /\ RangeOf(<<taken + 1>>) = {taken + 1}
  BY <1>1 DEF RangeOf
<1>3. \A f \in flows : RangeOf(f.ids) \cap {taken + 1} = {}
  BY <1>1 DEF Held
<1> QED BY <1>1, <1>2, <1>3, CacheBuilt DEF Sound, Reach

(* Adding the packet just received to one flow, or to a new one, keeps every *)
(* packet in one place.                                                      *)
LEMMA AppendBuilt ==
  ASSUME TypeOK, LoopInv, taken < Len(pkts), NEW f \in Flow,
         f \in flows \/ f.ids = <<>>
  PROVE  Built((flows \ {f}) \cup {tcpflow_value_append(f, taken + 1)})
<1> DEFINE g == tcpflow_value_append(f, taken + 1)
           F == (flows \ {f}) \cup {g}
<1>1. taken + 1 \in DOMAIN pkts /\ taken + 1 \in Nat /\ taken + 1 \notin Held
  BY DEF TypeOK, LoopInv, HeldQueued
<1>2. g \in Flow /\ g.ids = Append(f.ids, taken + 1)
  BY <1>1, AppendType
<1> HIDE DEF g
<1>3. /\ f.ids \in Seq(Nat) /\ Len(f.ids) \in Nat
      /\ DOMAIN g.ids = 1 .. Len(f.ids) + 1 /\ DOMAIN f.ids = 1 .. Len(f.ids)
      /\ \A k \in DOMAIN f.ids : g.ids[k] = f.ids[k]
      /\ g.ids[Len(f.ids) + 1] = taken + 1
  <2>1. f.ids \in Seq(Nat)
    BY DEF Flow
  <2> QED BY <1>1, <1>2, <2>1, AppendFacts
<1>4. \A h \in flows : \A k \in DOMAIN h.ids : h.ids[k] \in Held
  BY DEF Held, RangeOf
<1>5. \A k \in DOMAIN g.ids :
        \/ k = Len(f.ids) + 1 /\ g.ids[k] = taken + 1
        \/ /\ f \in flows /\ k \in DOMAIN f.ids
           /\ g.ids[k] = f.ids[k] /\ g.ids[k] \in Held
  <2>1. f \notin flows => Len(f.ids) = 0
    OBVIOUS
  <2> QED BY <1>3, <1>4, <2>1
<1>6. \A h \in F : RangeOf(h.ids) \subseteq Reach
  BY <1>3, <1>4, <1>5 DEF RangeOf, Reach
<1>7. Separate(F)
  <2> SUFFICES ASSUME NEW x \in F, NEW y \in F,
                      NEW k \in DOMAIN x.ids, NEW m \in DOMAIN y.ids,
                      x.ids[k] = y.ids[m]
               PROVE  x = y /\ k = m
    BY DEF Separate
  <2>0. Separate(flows)
    BY DEF LoopInv
  <2>1. CASE x = g /\ y = g
    BY <1>1, <1>5, <2>0, <2>1 DEF Separate
  <2>a. \A h \in flows \ {f} : \A i \in DOMAIN h.ids, j \in DOMAIN g.ids :
          h.ids[i] # g.ids[j]
    <3> SUFFICES ASSUME NEW h \in flows \ {f}, NEW i \in DOMAIN h.ids,
                        NEW j \in DOMAIN g.ids, h.ids[i] = g.ids[j]
                 PROVE  FALSE
      OBVIOUS
    <3>1. h.ids[i] \in Held
      BY <1>4
    <3>2. f \in flows /\ j \in DOMAIN f.ids /\ f.ids[j] = h.ids[i]
      BY <1>1, <1>5, <3>1
    <3> QED BY <2>0, <3>2 DEF Separate
  <2>2. CASE x = g /\ y \in flows \ {f}
    BY <2>a, <2>2
  <2>3. CASE x \in flows \ {f} /\ y = g
    BY <2>a, <2>3
  <2>4. CASE x \in flows \ {f} /\ y \in flows \ {f}
    BY <2>0, <2>4 DEF Separate
  <2> QED BY <2>1, <2>2, <2>3, <2>4
<1> QED BY <1>2, <1>6, <1>7 DEF Built, LoopInv, LoopTypes, g

(* The form every handler has: it ends by settling Q and keeping F, and it   *)
(* answers its packet only together with dropping it.                        *)
Handled ==
  \E Q, F : \E v \in Verdicts, gc \in Nat :
    /\ Sound(Q, F) /\ Finish(Q, v, F, gc)
    /\ \/ answered' = answered
       \/ /\ answered' = answered \cup {taken + 1}
          /\ v = DROP /\ \E q \in Q : taken + 1 \in RangeOf(q)

(* Letting the received packet through is a handler's last step.             *)
LEMMA AcceptHandled ==
  ASSUME IInv, AcceptPacket(taken + 1)
  PROVE  Handled
<1>1. Sound({<<taken + 1>>}, flows)
  BY SettlePacket DEF IInv
<1>2. lastgc \in Nat /\ ACCEPT \in Verdicts
  BY DEF IInv, TypeOK, Verdicts
<1> QED BY <1>1, <1>2 DEF AcceptPacket, Handled

(* So is the verdict of check_access on a sound set of packets.              *)
LEMMA JudgeHandled ==
  ASSUME IInv, NEW names \in SUBSET (Domains \cup {NoName}), NEW Q, NEW F,
         Sound(Q, F), \E q \in Q : taken + 1 \in RangeOf(q),
         Judge(taken + 1, names, Q, F)
  PROVE  Handled
<1>1. PICK name \in names : \E v \in check_access(name) :
         Answer(taken + 1, v) /\ Finish(Q, v, F, lastgc)
  BY DEF Judge
<1>2. PICK v \in check_access(name) : Answer(taken + 1, v) /\ Finish(Q, v, F, lastgc)
  BY <1>1
<1>3. v \in Verdicts
  BY NameAssumption DEF check_access, Verdicts
<1>4. lastgc \in Nat
  BY DEF IInv, TypeOK
<1>5. \/ answered' = answered
      \/ answered' = answered \cup {taken + 1} /\ v = DROP
  BY <1>2 DEF Answer, tcp_rst_send, dns_answer_send
<1> QED BY <1>2, <1>3, <1>4, <1>5 DEF Handled

(* A packet without a flow is judged, let through, or opens a flow.          *)
LEMMA NewFlowHandled ==
  ASSUME IInv, taken < Len(pkts), NewFlow(taken + 1, pkts[taken + 1])
  PROVE  Handled /\ failopen' \subseteq Conns
<1> DEFINE i == taken + 1
           p == pkts[taken + 1]
<1>1. i \in DOMAIN pkts /\ i \in Nat /\ p \in Packet /\ TypeOK /\ LoopInv
  BY DEF IInv, TypeOK
<1>2. p.conn \in Conns /\ p.len \in Nat /\ RecLen[p.conn] \in Nat /\ failopen \subseteq Conns
  BY <1>1, SizeAssumption DEF Packet, TypeOK
<1>3. CASE AcceptPacket(i) /\ (UNCHANGED failopen \/ GiveUp(p.conn))
  BY <1>2, <1>3, AcceptHandled DEF GiveUp
<1>4. CASE Judge(i, extract_sni(p.conn, Cells(p)), {<<i>>}, flows) /\ UNCHANGED failopen
  <2>1. extract_sni(p.conn, Cells(p)) \subseteq Domains \cup {NoName}
    BY <1>2, NameAssumption DEF extract_sni
  <2>2. taken + 1 \in RangeOf(<<taken + 1>>)
    BY DEF RangeOf
  <2>3. Handled
    BY <1>1, <1>4, <2>1, <2>2, SettlePacket, JudgeHandled
  <2> QED BY <1>2, <1>4, <2>3
<1>5. CASE LET f == tcpflow_create(p.conn, RecLen[p.conn])
           IN  /\ p.len < RecLen[p.conn] /\ RecLen[p.conn] <= FLOW_PAYLOAD_SIZE
               /\ tcpflow_insert(tcpflow_value_append(f, i))
               /\ UNCHANGED <<answered, failopen>>
  <2> DEFINE f == tcpflow_create(p.conn, RecLen[p.conn])
             g == tcpflow_value_append(f, i)
             F == flows \cup {g}
             E == Expired(F)
  <2>1. f \in Flow /\ f.ids = <<>> /\ f.payload = <<>> /\ f.expected = RecLen[p.conn]
    <3>1. Key[p.conn] \in Conns /\ now \in Nat
      BY <1>1, <1>2, NameAssumption DEF TypeOK
    <3> QED BY <1>2, <3>1 DEF tcpflow_create, Flow
  <2>2. /\ g \in Flow /\ g.ids = Append(<<>>, i) /\ g.expected = RecLen[p.conn]
        /\ Len(g.payload) = Len(f.payload) + p.len
    BY <1>1, <2>1, AppendType
  <2>3. Len(g.ids) = 1 /\ Len(g.payload) = p.len
    <3> HIDE DEF f, g, i, p
    <3>1. Len(f.payload) = 0 /\ Len(Append(<<>>, i)) = 1
      BY <1>1, <2>1
    <3> QED BY <1>2, <2>2, <3>1
  <2>4. f \notin flows
    <3>1. \A h \in flows : Len(h.ids) # 0
      BY <1>1, SizeAssumption DEF LoopInv, FlowsWaitForMore
    <3> QED BY <2>1, <3>1
  <2>5. Built(F)
    <3>1. Built((flows \ {f}) \cup {g})
      BY <1>1, <2>1, AppendBuilt
    <3>2. (flows \ {f}) \cup {g} = F
      BY <2>4
    <3> QED BY <3>1, <3>2
  <2>6. Waiting(F)
    <3>1. Waiting(flows)
      BY <1>1, CacheBuilt
    <3>2. /\ Len(g.ids) \in 1 .. MAX_PACKET_COUNT
          /\ Len(g.payload) < g.expected /\ g.expected <= FLOW_PAYLOAD_SIZE
      <4>1. p.len < RecLen[p.conn] /\ RecLen[p.conn] <= FLOW_PAYLOAD_SIZE
        BY <1>5
      <4> HIDE DEF f, g, i, p
      <4> QED BY <1>2, <2>2, <2>3, <4>1, SizeAssumption
    <3> HIDE DEF g
    <3> QED BY <3>1, <3>2 DEF Waiting
  <2>7. E \subseteq F /\ Waiting(F \ E) /\ Waiting(F \ {}) /\ now \in Nat /\ lastgc \in Nat
    BY <1>1, <2>6 DEF Expired, Waiting, TypeOK
  <2>8. Sound({h.ids : h \in E}, F \ E) /\ Sound({}, F)
    <3>1. Sound({h.ids : h \in E}, F \ E)
      BY <2>5, <2>7, SettleFlows
    <3>2. Sound({}, F)
      BY <2>5, <2>6 DEF Sound
    <3> QED BY <3>1, <3>2
  <2>9. DROP \in Verdicts
    BY DEF Verdicts
  <2>10. \/ Finish({h.ids : h \in E}, DROP, F \ E, now)
         \/ Finish({}, DROP, F, lastgc)
    BY <1>5 DEF tcpflow_insert, tcpflow_rungc
  <2> QED BY <1>2, <1>5, <2>7, <2>8, <2>9, <2>10 DEF Handled
<1> QED BY <1>3, <1>4, <1>5 DEF NewFlow

(* A packet of a flow extends it, completes it, or makes it be given up.     *)
LEMMA ContinueFlowHandled ==
  ASSUME IInv, taken < Len(pkts), NEW f \in flows,
         ContinueFlow(taken + 1, pkts[taken + 1], f)
  PROVE  Handled /\ failopen' \subseteq Conns
<1> DEFINE i == taken + 1
           p == pkts[taken + 1]
           g == tcpflow_value_append(f, i)
           F == (flows \ {f}) \cup {g}
<1>1. /\ i \in DOMAIN pkts /\ i \in Nat /\ p \in Packet /\ TypeOK /\ LoopInv
      /\ f \in Flow /\ lastgc \in Nat
  BY DEF IInv, TypeOK
<1>2. p.conn \in Conns /\ p.len \in Nat /\ failopen \subseteq Conns
  BY <1>1 DEF Packet, TypeOK
<1>3. Built(flows) /\ Waiting(flows)
  BY <1>1, CacheBuilt
<1>4. Waiting(flows \ {f})
  BY <1>3 DEF Waiting
<1>5. ACCEPT \in Verdicts
  BY DEF Verdicts
<1>6. CASE /\ Finish({f.ids}, ACCEPT, flows \ {f}, lastgc)
           /\ GiveUp(p.conn) /\ UNCHANGED answered
  <2>1. Sound({h.ids : h \in {f}}, flows \ {f})
    BY <1>3, <1>4, SettleFlows
  <2>2. {h.ids : h \in {f}} = {f.ids}
    OBVIOUS
  <2>3. Sound({f.ids}, flows \ {f})
    BY <2>1, <2>2
  <2>4. failopen' \subseteq Conns
    BY <1>2, <1>6 DEF GiveUp
  <2> QED BY <1>1, <1>5, <1>6, <2>3, <2>4 DEF Handled
<1>7. CASE HasRoom(f, p)
  <2>1. /\ g \in Flow /\ g.ids = Append(f.ids, i) /\ g.expected = f.expected
        /\ Len(g.payload) = Len(f.payload) + p.len
    BY <1>1, AppendType
  <2>2. Built(F)
    BY <1>1, AppendBuilt
  <2>3. f.ids \in Seq(Nat) /\ i \in Nat
    BY <1>1 DEF Flow
  <2>4. CASE tcpflow_iscomplete(g) /\ UNCHANGED failopen /\
             Judge(i, extract_sni(pkts[g.ids[1]].conn, g.payload), {g.ids}, flows \ {f})
    <3>1. extract_sni(pkts[g.ids[1]].conn, g.payload) \subseteq Domains \cup {NoName}
      <4>1. 1 \in DOMAIN f.ids
        BY <1>3, <2>3 DEF Waiting
      <4>2. g.ids[1] = f.ids[1]
        BY <2>1, <2>3, <4>1, AppendFacts
      <4>3. f.ids[1] \in DOMAIN pkts
        <5>1. f.ids[1] \in Held
          BY <4>1 DEF Held, RangeOf
        <5>2. DOMAIN fate = DOMAIN pkts
          BY <1>1 DEF TypeOK
        <5> QED BY <1>1, <5>1, <5>2 DEF LoopInv, HeldQueued, Queued
      <4>4. pkts[g.ids[1]].conn \in Conns
        <5>1. pkts[f.ids[1]] \in Packet
          BY <1>1, <4>3 DEF TypeOK
        <5> QED BY <4>2, <5>1 DEF Packet
      <4> QED BY <4>4, NameAssumption DEF extract_sni
    <3>2. i \in RangeOf(g.ids)
      BY <2>1, <2>3, AppendFacts DEF RangeOf
    <3>3. g \notin flows
      <4>1. i \notin Held
        BY <1>1 DEF LoopInv, LoopTypes, HeldQueued
      <4> QED BY <3>2, <4>1 DEF Held
    <3>4. F \ {g} = flows \ {f} /\ {g} \subseteq F
      BY <3>3
    <3>5. Sound({h.ids : h \in {g}}, F \ {g})
      BY <1>4, <2>2, <3>4, SettleFlows
    <3>6. {h.ids : h \in {g}} = {g.ids}
      OBVIOUS
    <3>7. Sound({g.ids}, flows \ {f})
      BY <3>4, <3>5, <3>6
    <3>8. Handled
      BY <2>4, <3>1, <3>2, <3>7, JudgeHandled
    <3> QED BY <1>2, <2>4, <3>8
  <2>5. CASE /\ ~tcpflow_iscomplete(g) /\ UNCHANGED <<answered, failopen>>
             /\ Finish({}, ACCEPT, F, lastgc)
    <3>1. /\ Len(g.ids) \in 1 .. MAX_PACKET_COUNT
          /\ Len(g.payload) < g.expected /\ g.expected <= FLOW_PAYLOAD_SIZE
      <4>1. Len(f.ids) < MAX_PACKET_COUNT /\ f.expected <= FLOW_PAYLOAD_SIZE
        BY <1>3, <1>7 DEF HasRoom, Waiting
      <4>2. Len(g.payload) \in Nat /\ g.expected \in Nat
        BY <2>1 DEF Flow
      <4>3. Len(g.payload) < g.expected
        BY <2>5, <4>2 DEF tcpflow_iscomplete
      <4>4. Len(Append(f.ids, i)) = Len(f.ids) + 1 /\ Len(f.ids) \in Nat
        BY <2>3
      <4> HIDE DEF g, i
      <4>5. Len(g.ids) = Len(f.ids) + 1
        BY <2>1, <4>4
      <4>6. g.expected <= FLOW_PAYLOAD_SIZE
        BY <2>1, <4>1
      <4>7. Len(g.ids) \in 1 .. MAX_PACKET_COUNT
        BY <4>1, <4>4, <4>5, SizeAssumption
      <4> QED BY <4>3, <4>6, <4>7
    <3>2. Waiting(F)
      <4> HIDE DEF g
      <4> QED BY <1>4, <3>1 DEF Waiting
    <3>3. Sound({}, F)
      BY <2>2, <3>2 DEF Sound
    <3>4. Handled
      BY <1>1, <1>5, <2>5, <3>3 DEF Handled
    <3> QED BY <1>2, <2>5, <3>4
  <2> QED BY <1>6, <1>7, <2>4, <2>5 DEF ContinueFlow
<1> QED BY <1>6, <1>7 DEF ContinueFlow

(* Every handler has that form.                                              *)
LEMMA HandlerHandled ==
  ASSUME IInv, packet_handle
  PROVE  Handled /\ failopen' \subseteq Conns
<1> DEFINE i == taken + 1
           p == pkts[taken + 1]
<1>1. /\ taken < Len(pkts) /\ i \in DOMAIN pkts /\ p \in Packet /\ LoopInv
      /\ failopen \subseteq Conns
  BY DEF packet_handle, IInv, TypeOK
<1>2. CASE packet_handle_tcp443(i, p)
  <2>1. CASE AcceptPacket(i) /\ UNCHANGED failopen
    BY <1>1, <2>1, AcceptHandled
  <2>2. CASE NewFlow(i, p)
    BY <1>1, <2>2, NewFlowHandled
  <2>3. CASE \E pad \in KeyPads : \E f \in tcpflow_lookup(p.conn, pad) : ContinueFlow(i, p, f)
    <3>1. PICK f \in flows : ContinueFlow(i, p, f)
      BY <2>3 DEF tcpflow_lookup
    <3> QED BY <1>1, <3>1, ContinueFlowHandled
  <2> QED BY <1>2, <2>1, <2>2, <2>3 DEF packet_handle_tcp443
<1>3. ASSUME NEW name \in Domains \cup {NoName}, Judge(i, {name}, {<<i>>}, flows),
             UNCHANGED failopen
      PROVE  Handled /\ failopen' \subseteq Conns
  <2>1. taken + 1 \in RangeOf(<<taken + 1>>)
    BY DEF RangeOf
  <2>2. Handled
    BY <1>1, <1>3, <2>1, SettlePacket, JudgeHandled
  <2> QED BY <1>1, <1>3, <2>2
<1>4. CASE AcceptPacket(i) /\ UNCHANGED failopen
  BY <1>1, <1>4, AcceptHandled
<1>5. CASE packet_handle_tcp80(i, p)
  <2>1. extract_http_payload(p) \in Domains \cup {NoName}
    BY <1>1, NameAssumption DEF Packet, extract_http_payload
  <2> QED BY <1>3, <1>4, <1>5, <2>1 DEF packet_handle_tcp80
<1>6. CASE packet_handle_udp53(i, p)
  <2>1. extract_dns_domain(p) \in Domains \cup {NoName}
    BY <1>1 DEF Packet, extract_dns_domain
  <2> QED BY <1>3, <1>6, <2>1 DEF packet_handle_udp53
<1> QED BY <1>2, <1>4, <1>5, <1>6 DEF packet_handle

(* A packet that is answered is dropped, even when the process ends first.   *)
LEMMA AnsweredDropped ==
  ASSUME IInv, packet_handle
  PROVE  AnsweredIsDropped' /\ answered' \subseteq DOMAIN pkts
<1> USE DEF QUEUED, ACCEPT, DROP
<1>1. /\ alive /\ taken < Len(pkts) /\ pkts' = pkts /\ LoopInv
      /\ pkts \in Seq(Packet) /\ DOMAIN fate = 1 .. Len(pkts)
      /\ DOMAIN pkts = 1 .. Len(pkts) /\ taken \in Nat /\ Len(pkts) \in Nat
  BY DEF packet_handle, IInv, TypeOK
<1>2. PICK Q, F : \E v \in Verdicts, gc \in Nat :
         /\ Sound(Q, F) /\ Finish(Q, v, F, gc)
         /\ \/ answered' = answered
            \/ /\ answered' = answered \cup {taken + 1}
               /\ v = DROP /\ \E q \in Q : taken + 1 \in RangeOf(q)
  BY HandlerHandled DEF Handled
<1>3. PICK v \in Verdicts, gc \in Nat :
         /\ Sound(Q, F) /\ Finish(Q, v, F, gc)
         /\ \/ answered' = answered
            \/ /\ answered' = answered \cup {taken + 1}
               /\ v = DROP /\ \E q \in Q : taken + 1 \in RangeOf(q)
  BY <1>2
<1>4. \A i \in answered : i \in DOMAIN pkts /\ fate'[i] = DROP
  <2>1. \A i \in answered : i \in DOMAIN fate /\ i \in DOMAIN pkts /\ fate[i] = DROP
    BY <1>1 DEF IInv, TypeOK, AnsweredIsDropped
  <2>2. \A i \in DOMAIN fate : i \notin Queued => fate'[i] = fate[i]
    BY <1>1, <1>3, FinishStep
  <2> QED BY <2>1, <2>2 DEF Queued
<1>5. taken + 1 \in DOMAIN pkts /\ taken + 1 \in DOMAIN fate /\ taken + 1 \in Queued
  BY <1>1 DEF LoopInv, UntakenQueued, Queued
<1>6. ASSUME v = DROP, NEW q \in Q, taken + 1 \in RangeOf(q)
      PROVE  fate'[taken + 1] = DROP
  BY <1>3, <1>5, <1>6 DEF Finish, nfq_send_verdict, Exit
<1> QED BY <1>3, <1>4, <1>5, <1>6 DEF AnsweredIsDropped

(* A lookup that misses a flow is noted under a connection, and for good.     *)
LEMMA HandleMisses ==
  ASSUME IInv, packet_handle
  PROVE  missed \subseteq missed' /\ missed' \subseteq Conns
<1> DEFINE p == pkts[taken + 1]
<1>1. taken + 1 \in DOMAIN pkts /\ pkts \in Seq(Packet) /\ missed \subseteq Conns
  BY DEF packet_handle, IInv, TypeOK
<1>2. p.conn \in Conns /\ Key[p.conn] \in Conns
  <2>1. p \in Packet
    BY <1>1
  <2>2. p.conn \in Conns
    BY <2>1 DEF Packet
  <2> QED BY <2>2, NameAssumption
<1>3. missed' = missed \/ missed' = missed \cup {Key[p.conn]}
  <2>1. CASE packet_handle_tcp443(taken + 1, p)
    BY <2>1 DEF packet_handle_tcp443, Misses
  <2>2. CASE packet_handle_tcp80(taken + 1, p)
    BY <2>2 DEF packet_handle_tcp80
  <2>3. CASE packet_handle_udp53(taken + 1, p)
    BY <2>3 DEF packet_handle_udp53
  <2> QED BY <2>1, <2>2, <2>3 DEF packet_handle
<1> QED BY <1>1, <1>2, <1>3

(* Handling a packet keeps the invariant.                                    *)
LEMMA HandleKeepsInv ==
  ASSUME IInv, packet_handle
  PROVE  IInv'
<1>1. /\ alive /\ taken < Len(pkts) /\ pkts' = pkts /\ now' = now /\ snd' = snd
      /\ resent' = resent /\ pkts \in Seq(Packet) /\ LoopInv
  BY DEF packet_handle, client, IInv, TypeOK
<1>2. LoopInv'
  BY <1>1, HandlerHandled, FinishStep DEF Handled
<1>3. AnsweredIsDropped' /\ answered' \subseteq DOMAIN pkts /\ failopen' \subseteq Conns
  BY AnsweredDropped, HandlerHandled
<1>4. TypeOK'
  BY <1>1, <1>2, <1>3, HandleMisses DEF IInv, TypeOK, LoopInv, LoopTypes
<1> QED BY <1>2, <1>3, <1>4 DEF IInv

(* A packet that arrives, or passes a dead daemon, keeps the invariant.      *)
LEMMA EnqueueKeepsInv ==
  ASSUME IInv, NEW p \in Packet, Enqueue(p), snd' \in [Conns -> Nat],
         resent' \subseteq Spurious
  PROVE  IInv'
<1> USE DEF QUEUED, ACCEPT, DROP, Verdicts
<1>1. /\ pkts \in Seq(Packet) /\ fate \in Seq(Verdicts \cup {QUEUED}) /\ Len(fate) = Len(pkts)
      /\ Len(pkts) \in Nat /\ DOMAIN fate = 1 .. Len(pkts) /\ DOMAIN pkts = 1 .. Len(pkts)
      /\ taken \in 0 .. Len(pkts)
  BY DEF IInv, TypeOK
<1>2. /\ pkts' \in Seq(Packet) /\ Len(pkts') = Len(pkts) + 1
      /\ DOMAIN pkts' = 1 .. Len(pkts) + 1
  BY <1>1 DEF Enqueue
<1>3. /\ fate' \in Seq(Verdicts \cup {QUEUED}) /\ Len(fate') = Len(pkts')
      /\ DOMAIN fate' = 1 .. Len(pkts) + 1
      /\ \A i \in DOMAIN fate : fate'[i] = fate[i]
      /\ fate'[Len(pkts) + 1] = IF alive THEN QUEUED ELSE ACCEPT
  BY <1>1, <1>2 DEF Enqueue
<1>4. taken' \in 0 .. Len(pkts') /\ taken' >= taken
  BY <1>1, <1>2 DEF Enqueue
<1>5. UNCHANGED <<flows, lastgc, alive, exits, now, missed, answered, stray>>
  BY DEF Enqueue, daemon
<1>6. failopen' \subseteq Conns
  BY DEF Enqueue, Packet, IInv, TypeOK
<1>7. TypeOK' /\ LoopTypes'
  BY <1>1, <1>2, <1>3, <1>4, <1>5, <1>6 DEF IInv, TypeOK, LoopTypes
<1>8. HeldQueued'
  <2>1. Held' = Held
    BY <1>5 DEF Held
  <2>2. Held \subseteq (1 .. taken) \cap Queued
    BY DEF IInv, LoopInv, HeldQueued
  <2> QED BY <1>1, <1>3, <1>4, <2>1, <2>2 DEF HeldQueued, Queued
<1>9. UntakenQueued' /\ DownIsEmpty'
  <2>1. CASE alive
    <3>1. \A i \in DOMAIN fate : i > taken => fate[i] = QUEUED
      BY DEF IInv, LoopInv, UntakenQueued
    <3>2. taken' = taken
      BY <2>1 DEF Enqueue
    <3> QED BY <1>1, <1>3, <1>5, <2>1, <3>1, <3>2 DEF UntakenQueued, DownIsEmpty
  <2>2. CASE ~alive
    <3>1. taken' = Len(pkts')
      BY <1>2, <2>2 DEF Enqueue
    <3>2. flows' = {}
      BY <1>5, <2>2 DEF IInv, LoopInv, DownIsEmpty
    <3> QED BY <1>1, <1>2, <1>3, <3>1, <3>2 DEF UntakenQueued, DownIsEmpty
  <2> QED BY <2>1, <2>2
<1>10. NoStrayVerdict' /\ Separate(flows') /\ FlowsWaitForMore'
  BY <1>5 DEF IInv, LoopInv, NoStrayVerdict, Separate, FlowsWaitForMore
<1>11. AnsweredIsDropped'
  BY <1>1, <1>3, <1>5 DEF IInv, TypeOK, AnsweredIsDropped
<1> QED BY <1>7, <1>8, <1>9, <1>10, <1>11 DEF IInv, LoopInv, Separate

(* The daemon starts with an empty queue and an empty cache.                 *)
LEMMA InitInv ==
  ASSUME Init
  PROVE  IInv
<1> USE DEF Init
<1>1. TypeOK /\ LoopTypes
  <2>1. /\ pkts \in Seq(Packet) /\ fate \in Seq(Verdicts \cup {QUEUED})
        /\ Len(fate) = Len(pkts) /\ taken \in 0 .. Len(pkts)
    OBVIOUS
  <2>2. /\ flows \subseteq Flow /\ lastgc \in Nat /\ now \in Nat /\ exits \in Nat
        /\ snd \in [Conns -> Nat] /\ resent \subseteq Spurious /\ missed \subseteq Conns
        /\ answered \subseteq DOMAIN pkts /\ failopen \subseteq Conns
    BY SizeAssumption
  <2>3. alive \in BOOLEAN /\ stray \in BOOLEAN
    OBVIOUS
  <2> QED BY <2>1, <2>2, <2>3 DEF TypeOK, LoopTypes
<1>2. Held = {}
  BY DEF Held
<1> QED BY <1>1, <1>2 DEF IInv, LoopInv, NoStrayVerdict, HeldQueued, Separate,
                          FlowsWaitForMore, UntakenQueued, DownIsEmpty, AnsweredIsDropped

(* Steps of a client that put no packet into the queue, and of the clock.    *)
LEMMA QuietKeepsInv ==
  ASSUME IInv, UNCHANGED <<pkts, fate, taken, missed, answered, stray, failopen, daemon>>,
         now' \in Nat, snd' \in [Conns -> Nat], resent' \subseteq Spurious
  PROVE  IInv'
<1>1. UNCHANGED <<flows, lastgc, alive, exits>>
  BY DEF daemon
<1>2. TypeOK' /\ LoopTypes' /\ Held' = Held /\ Queued' = Queued
  BY <1>1 DEF IInv, LoopInv, TypeOK, LoopTypes, Held, Queued
<1> QED BY <1>1, <1>2 DEF IInv, LoopInv, NoStrayVerdict, HeldQueued, Separate,
                          FlowsWaitForMore, UntakenQueued, DownIsEmpty, AnsweredIsDropped

(* A restarted daemon finds the queue as it was emptied at its exit.         *)
LEMMA RestartKeepsInv ==
  ASSUME IInv, Restart
  PROVE  IInv'
<1>1. /\ UNCHANGED <<pkts, fate, taken, flows, lastgc, now, exits, snd, resent,
                     missed, answered, stray, failopen>>
      /\ alive' = TRUE
  BY DEF Restart, client
<1>2. TypeOK' /\ LoopTypes' /\ Held' = Held /\ Queued' = Queued /\ DownIsEmpty'
  BY <1>1 DEF IInv, LoopInv, TypeOK, LoopTypes, Held, Queued, DownIsEmpty
<1> QED BY <1>1, <1>2 DEF IInv, LoopInv, NoStrayVerdict, HeldQueued, Separate,
                          FlowsWaitForMore, UntakenQueued, AnsweredIsDropped

(* The exit after a receive error leaves no packet queued or held.           *)
LEMMA ReceiveErrorKeepsInv ==
  ASSUME IInv, ReceiveError
  PROVE  IInv'
<1>1. /\ Exit({}, DROP) /\ UNCHANGED <<pkts, now, snd, resent, missed, answered, stray, failopen>>
      /\ pkts \in Seq(Packet) /\ LoopInv /\ DROP \in Verdicts
  BY DEF ReceiveError, client, IInv, TypeOK, Verdicts
<1>2. stray' \in BOOLEAN /\ ~stray'
  BY <1>1 DEF IInv, TypeOK, LoopInv, NoStrayVerdict
<1>3. LoopInv' /\ \A i \in DOMAIN fate : i \notin Queued => fate'[i] = fate[i]
  BY <1>1, <1>2, ExitStep
<1>4. TypeOK'
  BY <1>1, <1>3 DEF IInv, TypeOK, LoopInv, LoopTypes
<1>5. AnsweredIsDropped'
  BY <1>1, <1>3 DEF IInv, TypeOK, AnsweredIsDropped, Queued, DROP, QUEUED
<1> QED BY <1>3, <1>4, <1>5 DEF IInv

(* A client's segment is a packet, and its position stays a number.          *)
LEMMA ClientKeepsInv ==
  ASSUME IInv, NEW c \in Conns, Client(c)
  PROVE  IInv'
<1>1. /\ snd \in [Conns -> Nat] /\ pkts \in Seq(Packet) /\ now \in Nat
      /\ resent \subseteq Spurious
  BY DEF IInv, TypeOK
<1>2. CASE \E len \in Lengths : Send(c, len)
  <2>1. PICK len \in Lengths : Send(c, len)
    BY <1>2
  <2>2. len \in Nat /\ Segment(c, snd[c], len) \in Packet
    BY <1>1, SizeAssumption DEF Segment, Packet, Kinds
  <2>3. snd' \in [Conns -> Nat] /\ resent' \subseteq Spurious
    BY <1>1, <2>1, <2>2 DEF Send
  <2> QED BY <2>1, <2>2, <2>3, EnqueueKeepsInv DEF Send
<1>3. CASE Rewind(c)
  <2>1. Total(c) \in Nat
    BY SizeAssumption DEF Total
  <2>2. snd' \in [Conns -> Nat] /\ now' \in Nat /\ resent' \subseteq Spurious
    BY <1>1, <1>3, <2>1 DEF Rewind
  <2> QED BY <1>3, <2>2, QuietKeepsInv DEF Rewind
<1>4. CASE Resend(c)
  <2>1. PICK i \in Queued : Enqueue(pkts[i])
    BY <1>4 DEF Resend
  <2>2. pkts[i] \in Packet
    BY <1>1 DEF IInv, TypeOK, Queued
  <2>3. snd' \in [Conns -> Nat] /\ resent' \subseteq Spurious
    BY <1>1, <1>4 DEF Resend
  <2> QED BY <2>1, <2>2, <2>3, EnqueueKeepsInv
<1> QED BY <1>2, <1>3, <1>4 DEF Client

(* Every step keeps the inductive invariant.                                 *)
LEMMA NextKeepsInv ==
  ASSUME IInv, [Next]_vars
  PROVE  IInv'
<1>0. snd \in [Conns -> Nat] /\ now \in Nat /\ resent \subseteq Spurious
  BY DEF IInv, TypeOK
<1>1. CASE \E c \in Conns : Client(c)
  BY <1>1, ClientKeepsInv
<1>2. CASE \E q \in Queries : SendQuery(q)
  <2>1. \A q \in Queries : q \in Packet
    BY NameAssumption DEF Packet
  <2> QED BY <1>0, <1>2, <2>1, EnqueueKeepsInv DEF SendQuery, client
<1>3. CASE Tick
  BY <1>0, <1>3, QuietKeepsInv DEF Tick, client
<1>4. CASE packet_handle
  BY <1>4, HandleKeepsInv
<1>5. CASE ReceiveError
  BY <1>5, ReceiveErrorKeepsInv
<1>6. CASE Restart
  BY <1>6, RestartKeepsInv
<1>7. CASE UNCHANGED vars
  BY <1>0, <1>7, QuietKeepsInv DEF vars, daemon
<1> QED BY <1>1, <1>2, <1>3, <1>4, <1>5, <1>6, <1>7 DEF Next

(* The inductive invariant holds in every reachable state of the packet loop. *)
THEOREM Invariance == Spec => []IInv
<1>1. Init => IInv
  BY InitInv
<1>2. IInv /\ [Next]_vars => IInv'
  BY NextKeepsInv
<1> QED BY <1>1, <1>2, PTL DEF Spec

(* The types of the packet loop's state.                                     *)
THEOREM TypeCorrect == Spec => []TypeOK
<1>1. IInv => TypeOK
  BY DEF IInv
<1> QED BY <1>1, Invariance, PTL

(* No verdict is sent twice or for a packet that left the queue.             *)
THEOREM VerdictsAreSound == Spec => []NoStrayVerdict
<1>1. IInv => NoStrayVerdict
  BY DEF IInv, LoopInv
<1> QED BY <1>1, Invariance, PTL

(* A cached flow is incomplete and fits the arrays of tcpflow_value_t.       *)
THEOREM FlowsStayInBounds == Spec => []FlowsWaitForMore
<1>1. IInv => FlowsWaitForMore
  BY DEF IInv, LoopInv
<1> QED BY <1>1, Invariance, PTL

(* A packet answered with a reset or a fake DNS answer is dropped.           *)
THEOREM AnswersReplacePackets == Spec => []AnsweredIsDropped
<1>1. IInv => AnsweredIsDropped
  BY DEF IInv
<1> QED BY <1>1, Invariance, PTL

-----------------------------------------------------------------------------
(* The packet loop implements the abstract verdict queue. *)

(* An exit of the process is the abstract Stop.                              *)
LEMMA ExitIsStop ==
  ASSUME IInv, NEW v \in Verdicts, NEW done, Exit(done, v)
  PROVE  Abstract!Stop
<1>1. Len(fate) = Len(pkts) /\ fate \in Seq(Verdicts \cup {QUEUED}) /\ DROP \in Verdicts
  BY DEF IInv, TypeOK, Verdicts
<1>2. Held' = {}
  BY DEF Exit, Held
<1>3. \A i \in DOMAIN fate :
        IF fate[i] = QUEUED THEN fate'[i] \in Verdicts ELSE fate'[i] = fate[i]
  BY <1>1 DEF Exit, Queued
<1>4. DOMAIN fate' = DOMAIN fate /\ taken' = Len(fate)
  BY <1>1 DEF Exit
<1> QED BY <1>2, <1>3, <1>4 DEF Abstract!Stop

(* Handling a packet is the abstract Take, or Stop when a verdict fails.     *)
LEMMA HandleRefines ==
  ASSUME IInv, packet_handle
  PROVE  Abstract!Next
<1>1. /\ alive /\ taken < Len(pkts) /\ LoopInv /\ Len(fate) = Len(pkts) /\ taken \in Nat
  BY DEF packet_handle, IInv, TypeOK
<1>2. PICK Q, F : \E v \in Verdicts, gc \in Nat : Sound(Q, F) /\ Finish(Q, v, F, gc)
  BY HandlerHandled DEF Handled
<1>3. PICK v \in Verdicts, gc \in Nat : Sound(Q, F) /\ Finish(Q, v, F, gc)
  BY <1>2
<1>4. CASE nfq_send_verdict(Q, v) /\ taken' = taken + 1 /\ flows' = F
  <2> DEFINE S == {i \in Queued : \E q \in Q : i \in RangeOf(q)}
  <2>1. S \subseteq Held \cup {taken'}
    BY <1>3, <1>4 DEF Sound, Reach
  <2>2. \A i \in S : fate[i] = QUEUED
    BY DEF Queued
  <2>3. Abstract!Settle(S, v)
    BY <1>4 DEF nfq_send_verdict, Abstract!Settle
  <2>4. Held' \subseteq (Held \cup {taken'}) \ S
    BY <1>3, <1>4 DEF Sound, Built, Reach, Held
  <2>5. Abstract!Take
    <3> HIDE DEF S
    <3> QED BY <1>1, <1>4, <2>1, <2>2, <2>3, <2>4 DEF Abstract!Take
  <2> QED BY <2>5 DEF Abstract!Next
<1>5. CASE \E done : Exit(done, v)
  BY <1>5, ExitIsStop DEF Abstract!Next
<1> QED BY <1>3, <1>4, <1>5 DEF Finish

(* A packet arrives for a running daemon, or passes a dead one.              *)
LEMMA EnqueueRefines ==
  ASSUME IInv, NEW p, Enqueue(p)
  PROVE  Abstract!Next
<1>1. Held' = Held /\ Len(fate) = Len(pkts)
  BY DEF Enqueue, Held, daemon, IInv, TypeOK
<1>2. CASE alive
  BY <1>1, <1>2 DEF Enqueue, Abstract!Arrive, Abstract!Next
<1>3. CASE ~alive
  <2>1. taken = Len(fate) /\ Held = {}
    BY <1>1, <1>3 DEF IInv, LoopInv, DownIsEmpty, Held
  <2>2. fate' = Append(fate, ACCEPT) /\ ACCEPT \in Verdicts /\ taken' = taken + 1
    BY <1>1, <1>3, <2>1 DEF Enqueue, Verdicts
  <2> QED BY <1>1, <2>1, <2>2 DEF Abstract!Pass, Abstract!Next
<1> QED BY <1>2, <1>3

(* Every step is a step of the abstract queue or leaves it unchanged.        *)
LEMMA StepRefines ==
  ASSUME IInv, [Next]_vars
  PROVE  [Abstract!Next]_(Abstract!vars)
<1>1. ASSUME NEW c \in Conns, Client(c)
      PROVE  Abstract!Next \/ UNCHANGED Abstract!vars
  <2>1. CASE \E p : Enqueue(p)
    BY <2>1, EnqueueRefines
  <2>2. CASE Rewind(c)
    BY <2>2 DEF Rewind, daemon, Abstract!vars, Held
  <2> QED BY <1>1, <2>1, <2>2 DEF Client, Send, Resend
<1>2. CASE \E q \in Queries : SendQuery(q)
  BY <1>2, EnqueueRefines DEF SendQuery
<1>3. CASE Tick
  BY <1>3 DEF Tick, daemon, Abstract!vars, Held
<1>4. CASE packet_handle
  BY <1>4, HandleRefines
<1>5. CASE ReceiveError
  BY <1>5, ExitIsStop DEF ReceiveError, Verdicts, Abstract!Next
<1>6. CASE Restart
  BY <1>6 DEF Restart, Abstract!vars, Held
<1>7. CASE UNCHANGED vars
  BY <1>7 DEF vars, Abstract!vars, Held
<1> QED BY <1>1, <1>2, <1>3, <1>4, <1>5, <1>6, <1>7 DEF Next

(* Whatever the flow cache, the collector, the clients and exits do, the     *)
(* kernel sees a daemon that settles packets the way VerdictQueue says.      *)
THEOREM Refinement == Spec => ImplementsQueue
<1>1. Init => Abstract!Init
  BY DEF Init, Abstract!Init, Held
<1>2. IInv /\ [Next]_vars => [Abstract!Next]_(Abstract!vars)
  BY StepRefines
<1> QED BY <1>1, <1>2, Invariance, PTL DEF Spec, ImplementsQueue, Abstract!Spec
=============================================================================
