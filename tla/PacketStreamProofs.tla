------------------------- MODULE PacketStreamProofs -------------------------
(***************************************************************************)
(* Reassembly: how the stream of a client, the queue and the flow cache    *)
(* hang together, and what follows for the name in a ClientHello.          *)
(***************************************************************************)
EXTENDS PacketFlowProofs

(* Stream position after packet i.                                          *)
End(i) == pkts[i].from + pkts[i].len

(* The packets of connection c, those without a verdict, and those the       *)
(* daemon has not received yet.                                              *)
Mine(c) == {i \in DOMAIN pkts : pkts[i].port = 443 /\ pkts[i].conn = c}
Waits(c) == {i \in Mine(c) : fate[i] = QUEUED}
Ahead(c) == {i \in Mine(c) : i > taken}

(* The first cell of c left the host.                                       *)
Begun(c) == \E i \in Mine(c) : fate[i] = ACCEPT /\ pkts[i].from = 0 /\ pkts[i].len > 0

(* The packets of c without a verdict are in the order of its stream.       *)
Ordered(c) == \A i, j \in Waits(c) : i < j => End(i) <= pkts[j].from

Behind(c) == \A i \in Waits(c) : End(i) <= snd[c]

(* While the first cell waits, and when it is to be sent, it is not out.    *)
Fresh(c) ==
  /\ snd[c] = 0 => ~Begun(c)
  /\ \A i \in Waits(c) : pkts[i].from = 0 /\ pkts[i].len > 0 => ~Begun(c)

(* Data that follows the hello is sent after the hello was delivered.       *)
Follows(c) == \A i \in Mine(c) : End(i) > Total(c) /\ Total(c) > 0 => Begun(c)

(* Only the last packet of a hello is short.                                *)
Whole(c) ==
  \A i \in Mine(c) : pkts[i].len = 0 \/ pkts[i].len >= MIN_PAYLOAD \/ End(i) = Total(c)

(* The packets to come hold every cell of c after cell n that was sent.     *)
Covered(c, n) ==
  \A x \in Nat : (n < x /\ x <= snd[c]) => \E j \in Ahead(c) : pkts[j].from < x /\ x <= End(j)

Continuous(c) == \A i \in Ahead(c) : Covered(c, pkts[i].from)

Stream(c) ==
  /\ Ordered(c) /\ Behind(c) /\ Fresh(c) /\ Follows(c) /\ Whole(c) /\ Continuous(c)

(* Every other packet is one of Queries.                                    *)
OthersAreQueries == \A i \in DOMAIN pkts : pkts[i].port = 443 \/ pkts[i] \in Queries

(* What a flow remembers of its packets: all have its key, the first one     *)
(* begins a hello and says how long it is.                                   *)
FromHello(f) ==
  /\ \A k \in DOMAIN f.ids : /\ pkts[f.ids[k]].port = 443
                             /\ Key[pkts[f.ids[k]].conn] = f.key
  /\ pkts[f.ids[1]].from = 0 /\ pkts[f.ids[1]].len > 0
  /\ f.expected = RecLen[pkts[f.ids[1]].conn]

Prefix(f) == \A k \in DOMAIN f.payload : f.payload[k] = <<f.key, k>>

(* The packets to come continue the buffer of f where it ends.              *)
NoGap(f) ==
  /\ Len(f.payload) <= snd[f.key]
  /\ \A i \in Ahead(f.key) : pkts[i].from >= Len(f.payload)
  /\ Covered(f.key, Len(f.payload))

(* The end of the hello was too short for f and passed it by: no packet of   *)
(* f will come any more.                                                     *)
Spent(f) ==
  /\ snd[f.key] >= Total(f.key)
  /\ \A i \in Ahead(f.key) : pkts[i].len < MIN_PAYLOAD

(* A lookup missed f and a packet of it was let through: what is left of the *)
(* hello is too short to complete f.                                         *)
Skipped(f) ==
  /\ f.key \in missed
  /\ Len(f.payload) + MIN_PAYLOAD <= snd[f.key]
  /\ \A i \in Ahead(f.key) : pkts[i].from >= Len(f.payload) + MIN_PAYLOAD

Buffer(f) == (Prefix(f) /\ (NoGap(f) \/ Spent(f))) \/ Skipped(f)

StreamsInOrder == \A c \in Conns \ resent : Stream(c)

FlowsFromHellos == \A f \in flows : FromHello(f)

BuffersInOrder == \A f \in flows : OwnPort(f.key) /\ f.key \notin resent => Buffer(f)

(* The inductive invariant of reassembly.                                   *)
SInv == StreamsInOrder /\ OthersAreQueries /\ FlowsFromHellos /\ BuffersInOrder

-----------------------------------------------------------------------------
(* Streams. *)

(* The numbers of a stream.                                                 *)
LEMMA StreamTypes ==
  ASSUME TypeOK
  PROVE  /\ \A i \in DOMAIN pkts : /\ pkts[i].from \in Nat /\ pkts[i].len \in Nat
                                   /\ End(i) \in Nat /\ i \in Nat /\ i <= Len(pkts)
         /\ \A c \in Conns : snd[c] \in Nat /\ Total(c) \in Nat /\ RecLen[c] \in Nat
         /\ MIN_PAYLOAD \in Nat /\ MIN_PAYLOAD > 0 /\ RECORD_HEADER \in Nat
         /\ DOMAIN fate = DOMAIN pkts /\ DOMAIN pkts = 1 .. Len(pkts)
         /\ Len(pkts) \in Nat /\ taken \in Nat /\ taken <= Len(pkts)
<1>1. \A i \in DOMAIN pkts : pkts[i] \in Packet
  BY DEF TypeOK
<1>2. /\ DOMAIN fate = DOMAIN pkts /\ DOMAIN pkts = 1 .. Len(pkts)
      /\ Len(pkts) \in Nat /\ taken \in Nat /\ taken <= Len(pkts)
  BY DEF TypeOK
<1>3. \A i \in DOMAIN pkts : /\ pkts[i].from \in Nat /\ pkts[i].len \in Nat
                             /\ i \in Nat /\ i <= Len(pkts)
  BY <1>1, <1>2 DEF Packet
<1>4. \A c \in Conns : snd[c] \in Nat /\ Total(c) \in Nat /\ RecLen[c] \in Nat
  BY SizeAssumption DEF TypeOK, Total
<1>5. MIN_PAYLOAD \in Nat /\ MIN_PAYLOAD > 0 /\ RECORD_HEADER \in Nat
  BY SizeAssumption
<1> QED BY <1>2, <1>3, <1>4, <1>5 DEF End

(* A hello has begun when its first cell was delivered.                     *)
LEMMA BegunDelivered ==
  ASSUME TypeOK, NEW c
  PROVE  Begun(c) <=> 1 \in Delivered(c)
<1>1. \A i \in DOMAIN pkts :
        1 \in pkts[i].from + 1 .. pkts[i].from + pkts[i].len
          <=> pkts[i].from = 0 /\ pkts[i].len > 0
  BY StreamTypes
<1> QED BY <1>1 DEF Begun, Mine, Delivered

(* What the daemon has not received waits for a verdict.                     *)
LEMMA AheadWaits ==
  ASSUME IInv, NEW c
  PROVE  Ahead(c) \subseteq Waits(c) /\ Waits(c) = Mine(c) \cap Queued
<1>1. DOMAIN fate = DOMAIN pkts /\ UntakenQueued
  BY StreamTypes DEF IInv, LoopInv
<1> QED BY <1>1 DEF Ahead, Waits, Mine, UntakenQueued, Queued

(* Receiving and settling packets keeps the streams in order.               *)
LEMMA SettleKeepsStream ==
  ASSUME IInv, NEW c \in Conns, Stream(c), UNCHANGED <<pkts, snd>>,
         taken' \in Nat, taken' >= taken,
         \A i \in DOMAIN fate : i \notin Queued => fate'[i] = fate[i]
  PROVE  Stream(c)'
<1> USE DEF QUEUED, ACCEPT
<1>1. TypeOK /\ DOMAIN fate = DOMAIN pkts /\ taken \in Nat
  BY StreamTypes DEF IInv
<1>2. /\ Mine(c)' = Mine(c) /\ Mine(c) \subseteq DOMAIN pkts
      /\ \A i \in DOMAIN pkts : End(i)' = End(i)
      /\ Total(c)' = Total(c) /\ snd'[c] = snd[c]
  BY DEF Mine, End, Total
<1>3. Waits(c)' \subseteq Waits(c) /\ Ahead(c)' \subseteq Ahead(c)
  <2>1. Waits(c)' \subseteq Waits(c)
    BY <1>1, <1>2 DEF Waits, Queued
  <2>2. \A i \in Mine(c) : i \in Nat
    BY <1>1, <1>2, StreamTypes
  <2>3. Ahead(c)' \subseteq Ahead(c)
    BY <1>1, <1>2, <2>2 DEF Ahead
  <2> QED BY <2>1, <2>3
<1>4. Begun(c) => Begun(c)'
  BY <1>1, <1>2 DEF Begun, Queued
<1>5. ASSUME Begun(c)', ~Begun(c)
      PROVE  \E i \in Waits(c) : i \notin Waits(c)' /\ pkts[i].from = 0 /\ pkts[i].len > 0
  <2>1. PICK i \in Mine(c) : fate'[i] = ACCEPT /\ pkts[i].from = 0 /\ pkts[i].len > 0
    BY <1>2, <1>5 DEF Begun
  <2>2. i \in Queued
    BY <1>1, <1>2, <1>5, <2>1 DEF Begun
  <2> QED BY <1>2, <2>1, <2>2 DEF Waits, Queued
<1>6. Ordered(c)' /\ Behind(c)'
  BY <1>2, <1>3 DEF Ordered, Behind, Stream, Waits
<1>7. Fresh(c)'
  <2>1. ASSUME snd[c] = 0, Begun(c)'
        PROVE  FALSE
    <3>1. ~Begun(c)
      BY <2>1 DEF Stream, Fresh
    <3>2. PICK i \in Waits(c) : pkts[i].from = 0 /\ pkts[i].len > 0
      BY <1>5, <2>1, <3>1
    <3>3. End(i) <= 0 /\ End(i) = pkts[i].from + pkts[i].len /\ pkts[i].len \in Nat
      BY <1>1, <2>1, <3>2, StreamTypes DEF Stream, Behind, Waits, Mine, End
    <3> QED BY <3>2, <3>3
  <2>2. ASSUME NEW j \in Waits(c)', pkts[j].from = 0, pkts[j].len > 0, Begun(c)'
        PROVE  FALSE
    <3>1. j \in Waits(c) /\ ~Begun(c)
      BY <1>3, <2>2 DEF Stream, Fresh
    <3>2. PICK i \in Waits(c) : i # j /\ pkts[i].from = 0 /\ pkts[i].len > 0
      BY <1>5, <2>2, <3>1
    <3>3. i \in Nat /\ j \in Nat /\ pkts[i].len \in Nat /\ pkts[j].len \in Nat
      BY <1>1, <3>1, StreamTypes DEF Waits, Mine
    <3>4. End(i) <= 0 \/ End(j) <= 0
      BY <2>2, <3>1, <3>2, <3>3 DEF Stream, Ordered
    <3> QED BY <2>2, <3>2, <3>3, <3>4 DEF End
  <2> QED BY <1>2, <2>1, <2>2 DEF Fresh
<1>8. Follows(c)' /\ Whole(c)'
  BY <1>2, <1>4 DEF Follows, Whole, Stream
<1>9. Continuous(c)'
  <2> SUFFICES ASSUME NEW i \in Ahead(c)', NEW x \in Nat, pkts[i].from < x, x <= snd[c]
               PROVE  \E j \in Ahead(c)' : pkts[j].from < x /\ x <= End(j)
    BY <1>2 DEF Continuous, Covered, Ahead
  <2>1. i \in Ahead(c)
    BY <1>3
  <2>2. PICK j \in Ahead(c) : pkts[j].from < x /\ x <= End(j)
    BY <2>1 DEF Stream, Continuous, Covered
  <2>3. i \in Waits(c) /\ j \in Waits(c) /\ i \in DOMAIN pkts /\ j \in DOMAIN pkts
    BY <2>1, AheadWaits DEF Ahead, Mine
  <2>4. j < i => End(j) <= pkts[i].from
    BY <2>3 DEF Stream, Ordered
  <2>5. j >= i
    BY <1>1, <2>2, <2>3, <2>4, StreamTypes
  <2>6. j \in Ahead(c)'
    BY <1>1, <1>2, <2>3, <2>5, StreamTypes DEF Ahead
  <2> QED BY <2>2, <2>6
<1> QED BY <1>6, <1>7, <1>8, <1>9 DEF Stream

(* Nothing that c has in the queue or sends changed.                         *)
SameView(c) ==
  /\ Mine(c)' = Mine(c) /\ Waits(c)' = Waits(c) /\ Ahead(c)' = Ahead(c)
  /\ snd'[c] = snd[c]
  /\ \A i \in Mine(c) : pkts'[i] = pkts[i] /\ fate'[i] = fate[i]

LEMMA SameViewKeepsStream ==
  ASSUME NEW c, Stream(c), SameView(c)
  PROVE  Stream(c)'
<1>1. /\ Waits(c) \subseteq Mine(c) /\ Ahead(c) \subseteq Mine(c)
      /\ \A i \in Mine(c) : End(i)' = End(i)
      /\ Total(c)' = Total(c)
  BY DEF SameView, Waits, Ahead, End, Total
<1>2. Begun(c)' = Begun(c)
  BY DEF SameView, Begun
<1>3. Ordered(c)' /\ Behind(c)'
  BY <1>1 DEF SameView, Ordered, Behind, Stream
<1>4. Fresh(c)'
  BY <1>1, <1>2 DEF SameView, Fresh, Stream
<1>5. Follows(c)' /\ Whole(c)'
  BY <1>1, <1>2 DEF SameView, Follows, Whole, Stream
<1>6. Continuous(c)'
  <2>1. \A n : Covered(c, n) => Covered(c, n)'
    BY <1>1 DEF SameView, Covered
  <2> QED BY <1>1, <2>1 DEF SameView, Continuous, Stream
<1> QED BY <1>3, <1>4, <1>5, <1>6 DEF Stream

(* What a packet that arrives changes in the queue.                          *)
LEMMA EnqueueEffect ==
  ASSUME IInv, NEW p, Enqueue(p)
  PROVE  /\ DOMAIN pkts' = DOMAIN pkts \cup {Len(pkts) + 1}
         /\ Len(pkts) + 1 \notin DOMAIN pkts
         /\ pkts'[Len(pkts) + 1] = p
         /\ fate'[Len(pkts) + 1] = IF alive THEN QUEUED ELSE ACCEPT
         /\ \A i \in DOMAIN pkts : pkts'[i] = pkts[i] /\ fate'[i] = fate[i]
         /\ flows' = flows
         /\ \/ alive /\ taken' = taken
            \/ ~alive /\ taken = Len(pkts) /\ taken' = Len(pkts) + 1 /\ flows = {}
<1>1. /\ pkts \in Seq(Packet) /\ fate \in Seq(Verdicts \cup {QUEUED}) /\ Len(fate) = Len(pkts)
      /\ Len(pkts) \in Nat /\ DOMAIN fate = 1 .. Len(pkts) /\ DOMAIN pkts = 1 .. Len(pkts)
  BY DEF IInv, TypeOK
<1>2. /\ DOMAIN pkts' = DOMAIN pkts \cup {Len(pkts) + 1}
      /\ Len(pkts) + 1 \notin DOMAIN pkts
      /\ pkts'[Len(pkts) + 1] = p /\ \A i \in DOMAIN pkts : pkts'[i] = pkts[i]
  BY <1>1 DEF Enqueue
<1>3. /\ fate'[Len(pkts) + 1] = IF alive THEN QUEUED ELSE ACCEPT
      /\ \A i \in DOMAIN pkts : fate'[i] = fate[i]
  BY <1>1 DEF Enqueue
<1>4. \/ alive /\ taken' = taken
      \/ ~alive /\ taken = Len(pkts) /\ taken' = Len(pkts) + 1 /\ flows = {}
  BY DEF Enqueue, IInv, LoopInv, DownIsEmpty
<1>5. flows' = flows
  BY DEF Enqueue, daemon
<1> QED BY <1>2, <1>3, <1>4, <1>5

(* A packet of somebody else changes nothing for c.                          *)
LEMMA EnqueueOther ==
  ASSUME IInv, NEW c, NEW p, Enqueue(p), p.port # 443 \/ p.conn # c, snd'[c] = snd[c]
  PROVE  SameView(c)
<1>1. /\ DOMAIN pkts' = DOMAIN pkts \cup {Len(pkts) + 1}
      /\ pkts'[Len(pkts) + 1] = p
      /\ \A i \in DOMAIN pkts : pkts'[i] = pkts[i] /\ fate'[i] = fate[i]
  BY EnqueueEffect
<1>2. Mine(c)' = Mine(c) /\ Mine(c) \subseteq DOMAIN pkts
  BY <1>1 DEF Mine
<1>3. Waits(c)' = Waits(c)
  BY <1>1, <1>2 DEF Waits
<1>4. Ahead(c)' = Ahead(c)
  <2>1. CASE taken' = taken
    BY <1>2, <2>1 DEF Ahead
  <2>2. CASE taken = Len(pkts) /\ taken' = Len(pkts) + 1
    <3>1. \A i \in Mine(c) : i \in Nat /\ i <= Len(pkts) /\ Len(pkts) \in Nat
      BY <1>2, StreamTypes DEF IInv
    <3> QED BY <1>2, <2>2, <3>1 DEF Ahead
  <2> QED BY <2>1, <2>2, EnqueueEffect
<1> QED BY <1>1, <1>2, <1>3, <1>4 DEF SameView

(* What client c changes when it sends: packet m is the one it adds.         *)
LEMMA SendEffect ==
  ASSUME IInv, NEW c \in Conns, NEW len \in Lengths, Send(c, len), NEW m, m = Len(pkts) + 1
  PROVE  /\ Mine(c)' = Mine(c) \cup {m} /\ m \notin Mine(c)
         /\ \A i \in Mine(c) : pkts'[i] = pkts[i] /\ fate'[i] = fate[i] /\ i < m
         /\ \A i \in Mine(c) : End(i)' = End(i)
         /\ pkts'[m].from = snd[c] /\ pkts'[m].len = len /\ End(m)' = snd[c] + len
         /\ snd'[c] = snd[c] + len /\ len \in Nat /\ snd[c] \in Nat /\ m \in Nat
         /\ \/ /\ alive /\ fate'[m] = QUEUED
               /\ Waits(c)' = Waits(c) \cup {m} /\ Ahead(c)' = Ahead(c) \cup {m}
            \/ /\ ~alive /\ fate'[m] = ACCEPT
               /\ Waits(c)' = Waits(c) /\ Ahead(c)' = {}
<1> USE DEF QUEUED, ACCEPT
<1> DEFINE p == Segment(c, snd[c], len)
<1>1. Enqueue(p)
  BY DEF Send
<1>2. p.port = 443 /\ p.conn = c /\ p.from = snd[c] /\ p.len = len
  BY DEF Segment
<1>3. len \in Nat /\ snd[c] \in Nat /\ snd'[c] = snd[c] + len
  BY SizeAssumption DEF Send, IInv, TypeOK
<1> HIDE DEF p
<1>4. /\ DOMAIN pkts' = DOMAIN pkts \cup {m} /\ m \notin DOMAIN pkts
      /\ pkts'[m] = p /\ fate'[m] = IF alive THEN QUEUED ELSE ACCEPT
      /\ \A i \in DOMAIN pkts : pkts'[i] = pkts[i] /\ fate'[i] = fate[i]
  BY <1>1, EnqueueEffect
<1>5. m \in Nat /\ \A i \in DOMAIN pkts : i \in Nat /\ i < m
  BY StreamTypes DEF IInv
<1>6. Mine(c)' = Mine(c) \cup {m} /\ Mine(c) \subseteq DOMAIN pkts
  BY <1>2, <1>4 DEF Mine
<1>7. /\ \A i \in Mine(c) : End(i)' = End(i)
      /\ End(m)' = snd[c] + len
  BY <1>2, <1>4, <1>6 DEF End
<1>8. \/ /\ alive /\ fate'[m] = QUEUED
         /\ Waits(c)' = Waits(c) \cup {m} /\ Ahead(c)' = Ahead(c) \cup {m}
      \/ /\ ~alive /\ fate'[m] = ACCEPT
         /\ Waits(c)' = Waits(c) /\ Ahead(c)' = {}
  <2>1. CASE alive
    <3>1. taken' = taken /\ taken < m /\ fate'[m] = QUEUED
      BY <1>1, <1>4, <2>1, EnqueueEffect, StreamTypes DEF IInv
    <3>2. Waits(c)' = Waits(c) \cup {m}
      BY <1>4, <1>6, <3>1 DEF Waits
    <3>3. Ahead(c)' = Ahead(c) \cup {m}
      BY <1>6, <3>1 DEF Ahead
    <3> QED BY <2>1, <3>1, <3>2, <3>3
  <2>2. CASE ~alive
    <3>1. taken' = m /\ fate'[m] = ACCEPT
      BY <1>1, <1>4, <2>2, EnqueueEffect
    <3>2. Waits(c)' = Waits(c)
      BY <1>4, <1>6, <3>1 DEF Waits
    <3>3. Ahead(c)' = {}
      BY <1>5, <1>6, <3>1 DEF Ahead
    <3> QED BY <2>2, <3>1, <3>2, <3>3
  <2> QED BY <2>1, <2>2
<1> QED BY <1>2, <1>3, <1>4, <1>5, <1>6, <1>7, <1>8

(* A client's next packet continues its stream.                              *)
LEMMA SendKeepsStream ==
  ASSUME IInv, NEW c \in Conns, Stream(c), NEW len \in Lengths, Send(c, len)
  PROVE  Stream(c)'
<1> USE DEF QUEUED, ACCEPT
<1>0. PICK m : m = Len(pkts) + 1
  OBVIOUS
<1>1. /\ Mine(c)' = Mine(c) \cup {m} /\ m \notin Mine(c)
      /\ \A i \in Mine(c) : pkts'[i] = pkts[i] /\ fate'[i] = fate[i] /\ i < m
      /\ \A i \in Mine(c) : End(i)' = End(i)
      /\ pkts'[m].from = snd[c] /\ pkts'[m].len = len /\ End(m)' = snd[c] + len
      /\ snd'[c] = snd[c] + len /\ len \in Nat /\ snd[c] \in Nat /\ m \in Nat
  BY <1>0, SendEffect
<1>2. \/ /\ alive /\ fate'[m] = QUEUED
         /\ Waits(c)' = Waits(c) \cup {m} /\ Ahead(c)' = Ahead(c) \cup {m}
      \/ /\ ~alive /\ fate'[m] = ACCEPT
         /\ Waits(c)' = Waits(c) /\ Ahead(c)' = {}
  BY <1>0, SendEffect
<1>3. /\ Waits(c) \subseteq Mine(c) /\ Ahead(c) \subseteq Mine(c) /\ TypeOK
      /\ Mine(c) \subseteq DOMAIN pkts
      /\ Total(c)' = Total(c) /\ Total(c) \in Nat
  BY StreamTypes DEF Waits, Ahead, Total, IInv, Mine
<1>4. \A i \in Mine(c) : /\ pkts[i].from \in Nat /\ pkts[i].len \in Nat /\ i \in Nat
                         /\ End(i) = pkts[i].from + pkts[i].len
  BY <1>3, StreamTypes DEF End
<1>5. Begun(c)' <=> Begun(c) \/ (fate'[m] = ACCEPT /\ snd[c] = 0 /\ len > 0)
  <2>1. Begun(c)' <=> \E i \in Mine(c) \cup {m} :
                        fate'[i] = ACCEPT /\ pkts'[i].from = 0 /\ pkts'[i].len > 0
    BY <1>1 DEF Begun
  <2> QED BY <1>1, <2>1 DEF Begun
<1>6. Ordered(c)'
  <2>1. \A i \in Waits(c) : End(i) <= snd[c]
    BY DEF Stream, Behind
  <2> SUFFICES ASSUME NEW i \in Waits(c)', NEW j \in Waits(c)', i < j
               PROVE  End(i)' <= pkts'[j].from
    BY DEF Ordered
  <2>2. CASE i \in Waits(c) /\ j \in Waits(c)
    BY <1>1, <1>3, <2>2 DEF Stream, Ordered
  <2>3. CASE i \in Waits(c) /\ j = m
    BY <1>1, <1>3, <2>1, <2>3
  <2>4. CASE i = m
    BY <1>1, <1>2, <1>3, <1>4, <2>4
  <2> QED BY <1>2, <2>2, <2>3, <2>4
<1>7. Behind(c)'
  <2>1. \A i \in Waits(c) : End(i) <= snd[c] /\ End(i) \in Nat
    BY <1>3, <1>4 DEF Stream, Behind
  <2> QED BY <1>1, <1>2, <1>3, <2>1 DEF Behind
<1>8. Fresh(c)'
  <2>1. snd[c] + len = 0 => ~Begun(c)'
    BY <1>1, <1>5 DEF Stream, Fresh
  <2>2. ASSUME NEW i \in Waits(c), pkts[i].from = 0, pkts[i].len > 0
        PROVE  ~Begun(c)'
    <3>1. End(i) <= snd[c] /\ ~Begun(c)
      BY <2>2 DEF Stream, Behind, Fresh
    <3>2. snd[c] # 0
      BY <1>3, <1>4, <2>2, <3>1
    <3> QED BY <1>5, <3>1, <3>2
  <2>3. ASSUME m \in Waits(c)', snd[c] = 0
        PROVE  ~Begun(c)'
    <3>1. fate'[m] = QUEUED
      BY <1>1, <1>2, <1>3, <2>3
    <3> QED BY <1>5, <2>3, <3>1 DEF Stream, Fresh
  <2> QED BY <1>1, <1>2, <1>3, <2>1, <2>2, <2>3 DEF Fresh
<1>9. Follows(c)'
  <2>1. ASSUME snd[c] + len > Total(c), Total(c) > 0
        PROVE  Begun(c)
    <3>1. snd[c] >= Total(c)
      BY <1>1, <1>3, <2>1 DEF Send
    <3>2. 1 \in Delivered(c)
      BY <1>3, <2>1, <3>1 DEF Send
    <3> QED BY <1>3, <3>2, BegunDelivered
  <2> QED BY <1>1, <1>3, <1>5, <2>1 DEF Follows, Stream
<1>10. Whole(c)'
  BY <1>1, <1>3 DEF Whole, Stream, Send
<1>11. Continuous(c)'
  <2> SUFFICES ASSUME NEW i \in Ahead(c)', NEW x \in Nat, pkts'[i].from < x, x <= snd[c] + len
               PROVE  \E j \in Ahead(c)' : pkts'[j].from < x /\ x <= End(j)'
    BY <1>1 DEF Continuous, Covered
  <2>1. m \in Ahead(c)' /\ Ahead(c)' = Ahead(c) \cup {m}
    BY <1>2
  <2>2. CASE snd[c] < x
    BY <1>1, <2>1, <2>2
  <2>3. CASE x <= snd[c]
    <3>1. i \in Ahead(c) /\ pkts[i].from < x
      BY <1>1, <1>3, <2>1, <2>3
    <3>2. PICK j \in Ahead(c) : pkts[j].from < x /\ x <= End(j)
      BY <2>3, <3>1 DEF Stream, Continuous, Covered
    <3> QED BY <1>1, <1>3, <2>1, <3>2
  <2> QED BY <1>1, <2>2, <2>3
<1> QED BY <1>6, <1>7, <1>8, <1>9, <1>10, <1>11 DEF Stream

(* A client that starts again from the first missing cell.                   *)
LEMMA RewindKeepsStream ==
  ASSUME IInv, NEW c \in Conns, Stream(c), Rewind(c)
  PROVE  Stream(c)' /\ Waits(c) = {}
<1>1. UNCHANGED <<pkts, fate, taken>> /\ TypeOK
  BY DEF Rewind, IInv
<1>2. PICK k \in 1 .. Total(c) : k \notin Delivered(c) /\ snd' = [snd EXCEPT ![c] = k - 1]
  BY DEF Rewind
<1>3. snd'[c] = k - 1 /\ k \in Nat
  BY <1>1, <1>2, StreamTypes DEF TypeOK
<1>4. Waits(c) = {} /\ Ahead(c) = {}
  BY AheadWaits DEF Rewind, Mine
<1>5. /\ Mine(c)' = Mine(c) /\ Waits(c)' = {} /\ Ahead(c)' = {} /\ Total(c)' = Total(c)
      /\ Begun(c)' = Begun(c) /\ \A i : End(i)' = End(i)
  BY <1>1, <1>4 DEF Mine, Waits, Ahead, Begun, End, Total
<1>6. snd'[c] = 0 => ~Begun(c)
  BY <1>1, <1>2, <1>3, BegunDelivered
<1>7. Ordered(c)' /\ Behind(c)' /\ Fresh(c)' /\ Continuous(c)'
  BY <1>5, <1>6 DEF Ordered, Behind, Fresh, Continuous
<1>8. Follows(c)' /\ Whole(c)'
  BY <1>1, <1>5 DEF Stream, Follows, Whole
<1> QED BY <1>4, <1>7, <1>8 DEF Stream

(* A step adds at most one packet and leaves those that were there.          *)
LEMMA PacketsStay ==
  ASSUME IInv, [Next]_vars
  PROVE  \A i \in DOMAIN pkts : i \in DOMAIN pkts' /\ pkts'[i] = pkts[i]
<1>1. ASSUME NEW p, Enqueue(p)
      PROVE  \A i \in DOMAIN pkts : i \in DOMAIN pkts' /\ pkts'[i] = pkts[i]
  BY <1>1, EnqueueEffect
<1>2. CASE UNCHANGED pkts
  BY <1>2
<1>3. CASE \E c \in Conns : Client(c)
  BY <1>1, <1>2, <1>3 DEF Client, Send, Resend, Rewind
<1>4. CASE \E q \in Queries : SendQuery(q)
  BY <1>1, <1>4 DEF SendQuery
<1> QED BY <1>2, <1>3, <1>4 DEF Next, Tick, packet_handle, ReceiveError, Restart, vars

(* Every step keeps every stream in order, but for a client that repeats a   *)
(* packet that is still held.                                                *)
LEMMA StreamsKept ==
  ASSUME IInv, StreamsInOrder, [Next]_vars
  PROVE  StreamsInOrder'
<1> SUFFICES ASSUME NEW c \in Conns, c \notin resent'
             PROVE  Stream(c)'
  BY DEF StreamsInOrder
<1>1. resent \subseteq resent'
  BY DEF Next, Client, Send, Rewind, Resend, SendQuery, Tick, packet_handle, ReceiveError,
         Restart, client, vars
<1>2. Stream(c)
  BY <1>1 DEF StreamsInOrder
<1>3. snd \in [Conns -> Nat]
  BY DEF IInv, TypeOK
<1>4. ASSUME NEW d \in Conns, Client(d)
      PROVE  Stream(c)'
  <2>1. CASE \E len \in Lengths : Send(d, len)
    <3>1. PICK len \in Lengths : Send(d, len)
      BY <2>1
    <3>2. CASE d = c
      BY <1>2, <3>1, <3>2, SendKeepsStream
    <3>3. CASE d # c
      <4>1. Enqueue(Segment(d, snd[d], len)) /\ snd'[c] = snd[c]
        BY <1>3, <3>1, <3>3 DEF Send
      <4>2. Segment(d, snd[d], len).conn # c
        BY <3>3 DEF Segment
      <4> QED BY <1>2, <4>1, <4>2, EnqueueOther, SameViewKeepsStream
    <3> QED BY <3>2, <3>3
  <2>2. CASE Rewind(d)
    <3>1. CASE d = c
      BY <1>2, <2>2, <3>1, RewindKeepsStream
    <3>2. CASE d # c
      <4>1. UNCHANGED <<pkts, fate, taken>> /\ snd'[c] = snd[c]
        BY <1>3, <2>2, <3>2 DEF Rewind
      <4>2. SameView(c)
        BY <4>1 DEF SameView, Mine, Waits, Ahead
      <4> QED BY <1>2, <4>2, SameViewKeepsStream
    <3> QED BY <3>1, <3>2
  <2>3. CASE Resend(d)
    <3>1. PICK i \in Queued : pkts[i].conn = d /\ Enqueue(pkts[i])
      BY <2>3 DEF Resend
    <3>2. d # c /\ snd' = snd
      BY <2>3 DEF Resend
    <3> QED BY <1>2, <3>1, <3>2, EnqueueOther, SameViewKeepsStream
  <2> QED BY <1>4, <2>1, <2>2, <2>3 DEF Client
<1>5. CASE \E q \in Queries : SendQuery(q)
  <2>1. PICK q \in Queries : SendQuery(q)
    BY <1>5
  <2>2. q.port # 443 /\ Enqueue(q) /\ snd' = snd
    BY <2>1, NameAssumption DEF SendQuery, client
  <2> QED BY <1>2, <2>2, EnqueueOther, SameViewKeepsStream
<1>6. CASE Tick \/ Restart \/ UNCHANGED vars
  <2>1. UNCHANGED <<pkts, fate, taken, snd>>
    BY <1>6 DEF Tick, Restart, vars, client
  <2>2. SameView(c)
    BY <2>1 DEF SameView, Mine, Waits, Ahead
  <2> QED BY <1>2, <2>2, SameViewKeepsStream
<1>7. CASE packet_handle
  <2>1. PICK Q, v, F, gc : Finish(Q, v, F, gc) /\ Case(Q, v, F, gc)
    BY <1>7, HandlerCases
  <2>2. taken' = taken + 1 \/ taken' = Len(pkts)
    BY <1>7, <2>1, FinishEffect
  <2>3. taken' \in Nat /\ taken' >= taken /\ UNCHANGED <<pkts, snd>>
    BY <1>7, <2>2, ArrivedFacts
  <2>4. \A i \in DOMAIN fate : i \notin Queued => fate'[i] = fate[i]
    BY <1>7, <2>1, FinishEffect
  <2> QED BY <1>2, <2>3, <2>4, SettleKeepsStream
<1>8. CASE ReceiveError
  <2>1. taken' = Len(pkts) /\ UNCHANGED <<pkts, snd>>
    BY <1>8 DEF ReceiveError, Exit, client
  <2>2. \A i \in DOMAIN fate : i \notin Queued => fate'[i] = fate[i]
    BY <1>8 DEF ReceiveError, Exit
  <2>3. taken' \in Nat /\ taken' >= taken
    BY <2>1, StreamTypes DEF IInv
  <2> QED BY <1>2, <2>1, <2>2, <2>3, SettleKeepsStream
<1> QED BY <1>4, <1>5, <1>6, <1>7, <1>8 DEF Next

(* Packets of other ports come from Queries only.                            *)
LEMMA QueriesKept ==
  ASSUME IInv, OthersAreQueries, [Next]_vars
  PROVE  OthersAreQueries'
<1>1. ASSUME NEW p, Enqueue(p), p.port = 443 \/ p \in Queries
      PROVE  OthersAreQueries'
  <2>1. /\ DOMAIN pkts' = DOMAIN pkts \cup {Len(pkts) + 1}
        /\ pkts'[Len(pkts) + 1] = p /\ \A i \in DOMAIN pkts : pkts'[i] = pkts[i]
    BY <1>1, EnqueueEffect
  <2> QED BY <1>1, <2>1 DEF OthersAreQueries
<1>2. CASE UNCHANGED pkts
  BY <1>2 DEF OthersAreQueries
<1>3. ASSUME NEW c \in Conns, Client(c)
      PROVE  OthersAreQueries'
  <2>1. \A from, len : Segment(c, from, len).port = 443
    BY DEF Segment
  <2> QED BY <1>1, <1>2, <1>3, <2>1 DEF Client, Send, Resend, Rewind
<1>4. CASE \E q \in Queries : SendQuery(q)
  BY <1>1, <1>4 DEF SendQuery
<1> QED BY <1>2, <1>3, <1>4 DEF Next, Tick, packet_handle, ReceiveError, Restart, vars

-----------------------------------------------------------------------------
(* Flows. *)

(* A flow's packets are in the queue.                                        *)
LEMMA FlowIds ==
  ASSUME IInv, NEW f \in flows
  PROVE  /\ 1 \in DOMAIN f.ids
         /\ \A k \in DOMAIN f.ids : /\ f.ids[k] \in DOMAIN pkts /\ f.ids[k] <= taken
                                    /\ fate[f.ids[k]] = QUEUED
<1>1. f \in Flow /\ Len(f.ids) \in 1 .. MAX_PACKET_COUNT /\ DOMAIN fate = DOMAIN pkts
  BY StreamTypes DEF IInv, TypeOK, LoopInv, FlowsWaitForMore
<1>2. 1 \in DOMAIN f.ids
  <2>1. f.ids \in Seq(Nat)
    BY <1>1 DEF Flow
  <2> QED BY <1>1, <2>1
<1>3. \A k \in DOMAIN f.ids : f.ids[k] \in (1 .. taken) \cap Queued
  BY DEF IInv, LoopInv, HeldQueued, Held, RangeOf
<1> QED BY <1>1, <1>2, <1>3 DEF Queued

(* Every flow begins with the first packet of a hello.                       *)
LEMMA HellosKept ==
  ASSUME IInv, FlowsFromHellos, [Next]_vars
  PROVE  FlowsFromHellos'
<1> SUFFICES ASSUME NEW g \in flows'
             PROVE  FromHello(g)'
  BY DEF FlowsFromHellos
<1>1. \A i \in DOMAIN pkts : pkts'[i] = pkts[i]
  BY PacketsStay
<1>2. ASSUME g \in flows
      PROVE  FromHello(g)'
  <2>1. FromHello(g)
    BY <1>2 DEF FlowsFromHellos
  <2>2. /\ 1 \in DOMAIN g.ids
        /\ \A k \in DOMAIN g.ids : pkts'[g.ids[k]] = pkts[g.ids[k]]
    BY <1>1, <1>2, FlowIds
  <2> QED BY <2>1, <2>2 DEF FromHello
<1>3. ASSUME packet_handle, g = Opened, NotFound(Arrived), Arrived.from = 0
      PROVE  FromHello(g)'
  <2>1. /\ g.ids = <<taken + 1>> /\ g.ids[1] = taken + 1 /\ g.key = Key[Arrived.conn]
        /\ g.expected = RecLen[Arrived.conn]
    BY <1>3, OpenedFacts
  <2>2. pkts' = pkts /\ Arrived.len \in Nat /\ MIN_PAYLOAD \in Nat /\ MIN_PAYLOAD > 0
    BY <1>3, ArrivedFacts, StreamTypes DEF IInv
  <2>3. \A k \in DOMAIN g.ids : g.ids[k] = taken + 1
    BY <2>1
  <2> QED BY <1>3, <2>1, <2>2, <2>3 DEF FromHello, NotFound, Arrived
<1>4. ASSUME packet_handle, NEW f \in flows, Found(f, Arrived), g = Extended(f)
      PROVE  FromHello(g)'
  <2>1. /\ g.key = f.key /\ g.expected = f.expected /\ g.ids[1] = f.ids[1]
        /\ RangeOf(g.ids) = RangeOf(f.ids) \cup {taken + 1}
    BY <1>4, ExtendedFacts
  <2>2. pkts' = pkts
    BY <1>4, ArrivedFacts
  <2>3. FromHello(f)
    BY <1>4 DEF FlowsFromHellos
  <2>4. \A i \in RangeOf(g.ids) : pkts[i].port = 443 /\ Key[pkts[i].conn] = g.key
    BY <1>4, <2>1, <2>3 DEF FromHello, RangeOf, Found, Arrived
  <2>5. \A k \in DOMAIN g.ids : g.ids[k] \in RangeOf(g.ids)
    BY DEF RangeOf
  <2> QED BY <2>1, <2>2, <2>3, <2>4, <2>5 DEF FromHello
<1>5. CASE packet_handle
  BY <1>2, <1>3, <1>4, <1>5, HandleFlows
<1> QED BY <1>2, <1>5, OthersKeepFlows

(* The packets of a flow whose connection has its port for itself are the    *)
(* connection's own, and its first cell has not left the host.               *)
LEMMA OwnFlow ==
  ASSUME IInv, NEW f \in flows, FromHello(f), OwnPort(f.key)
  PROVE  /\ f.key \in Conns /\ Key[f.key] = f.key
         /\ \A k \in DOMAIN f.ids : /\ f.ids[k] \in Waits(f.key) /\ f.ids[k] <= taken
                                    /\ pkts[f.ids[k]].conn = f.key
         /\ 1 \in DOMAIN f.ids /\ End(f.ids[1]) > 0
         /\ f.expected = RecLen[f.key] /\ Len(f.payload) < RecLen[f.key]
         /\ Len(f.payload) \in Nat /\ f.payload \in Seq(Conns \X Nat)
<1>1. /\ f \in Flow /\ f.key \in Conns /\ f.payload \in Seq(Conns \X Nat)
      /\ TypeOK /\ Len(f.payload) < f.expected
  BY DEF IInv, TypeOK, Flow, LoopInv, FlowsWaitForMore
<1>2. /\ 1 \in DOMAIN f.ids
      /\ \A k \in DOMAIN f.ids : /\ f.ids[k] \in DOMAIN pkts /\ f.ids[k] <= taken
                                 /\ fate[f.ids[k]] = QUEUED
  BY FlowIds
<1>3. \A k \in DOMAIN f.ids : pkts[f.ids[k]].conn \in Conns
  <2>1. \A i \in DOMAIN pkts : pkts[i] \in Packet
    BY <1>1 DEF TypeOK
  <2> QED BY <1>2, <2>1 DEF Packet
<1>4. Key[f.key] = f.key
  BY <1>2, <1>3, NameAssumption DEF FromHello
<1>5. \A k \in DOMAIN f.ids : pkts[f.ids[k]].conn = f.key
  BY <1>3, <1>4 DEF FromHello, OwnPort
<1>6. \A k \in DOMAIN f.ids : f.ids[k] \in Waits(f.key)
  BY <1>2, <1>5 DEF FromHello, Waits, Mine
<1>7. End(f.ids[1]) > 0
  <2>1. f.ids[1] \in DOMAIN pkts
    BY <1>2
  <2>2. pkts[f.ids[1]].len \in Nat /\ pkts[f.ids[1]].from = 0 /\ pkts[f.ids[1]].len > 0
    BY <1>1, <2>1, StreamTypes DEF FromHello
  <2> QED BY <2>2 DEF End
<1>8. f.expected = RecLen[f.key]
  BY <1>2, <1>5 DEF FromHello
<1> QED BY <1>1, <1>2, <1>4, <1>5, <1>6, <1>7, <1>8

(* Such a connection has one flow, whatever a lookup finds.                  *)
LEMMA OwnFlowUnique ==
  ASSUME IInv, FlowsFromHellos, NEW f \in flows, NEW g \in flows, f.key = g.key,
         OwnPort(f.key), Ordered(f.key)
  PROVE  f = g
<1>1. FromHello(f) /\ FromHello(g)
  BY DEF FlowsFromHellos
<1> DEFINE a == f.ids[1]
           b == g.ids[1]
<1>2. /\ a \in Waits(f.key) /\ End(a) > 0 /\ 1 \in DOMAIN f.ids
      /\ b \in Waits(f.key) /\ End(b) > 0 /\ 1 \in DOMAIN g.ids
      /\ pkts[a].from = 0 /\ pkts[b].from = 0
  BY <1>1, OwnFlow DEF FromHello
<1>3. a \in DOMAIN pkts /\ b \in DOMAIN pkts
  BY <1>2 DEF Waits, Mine
<1>4. a \in Nat /\ b \in Nat /\ End(a) \in Nat /\ End(b) \in Nat
  BY <1>3, StreamTypes DEF IInv
<1>5. a = b
  <2> HIDE DEF a, b
  <2>1. /\ a < b => End(a) <= 0
        /\ b < a => End(b) <= 0
    BY <1>2 DEF Ordered
  <2> QED BY <1>2, <1>4, <2>1
<1> QED BY <1>2, <1>5 DEF IInv, LoopInv, Separate

(* While a flow of c waits, no packet of c begins its stream again and none   *)
(* goes beyond the hello.                                                    *)
LEMMA HelloPending ==
  ASSUME IInv, NEW f \in flows, FromHello(f), OwnPort(f.key), Stream(f.key)
  PROVE  /\ ~Begun(f.key) /\ Total(f.key) > 0
         /\ \A i \in Mine(f.key) : End(i) <= Total(f.key)
         /\ \A i \in Ahead(f.key) : pkts[i].from > 0
<1> DEFINE c == f.key
           a == f.ids[1]
<1>1. /\ c \in Conns /\ a \in Waits(c) /\ a <= taken /\ End(a) > 0
      /\ Len(f.payload) < RecLen[c] /\ Len(f.payload) \in Nat
  BY OwnFlow
<1>2. pkts[a].from = 0 /\ pkts[a].len > 0
  BY DEF FromHello
<1>3. ~Begun(c)
  BY <1>1, <1>2 DEF Stream, Fresh
<1>4. RecLen[c] \in Nat /\ RECORD_HEADER \in Nat /\ Total(c) \in Nat
  BY <1>1, StreamTypes DEF IInv
<1>5. Total(c) > 0
  <2> HIDE DEF c
  <2> QED BY <1>1, <1>4 DEF Total
<1>6. \A i \in Mine(c) : End(i) <= Total(c)
  <2>1. \A i \in Mine(c) : End(i) \in Nat
    BY StreamTypes DEF IInv, Mine
  <2> HIDE DEF c
  <2> QED BY <1>3, <1>4, <1>5, <2>1 DEF Stream, Follows, c
<1>7. \A i \in Ahead(c) : pkts[i].from > 0
  <2> SUFFICES ASSUME NEW i \in Ahead(c)
               PROVE  pkts[i].from > 0
    OBVIOUS
  <2>1. i \in Waits(c) /\ i > taken /\ i \in DOMAIN pkts /\ a \in DOMAIN pkts
    BY <1>1, AheadWaits DEF Ahead, Mine, Waits
  <2>2. /\ i \in Nat /\ a \in Nat /\ taken \in Nat
        /\ End(a) \in Nat /\ pkts[i].from \in Nat
    BY <2>1, StreamTypes DEF IInv
  <2> HIDE DEF a, c
  <2>3. a < i
    BY <1>1, <2>1, <2>2
  <2>4. End(a) <= pkts[i].from
    BY <1>1, <2>1, <2>3 DEF Stream, Ordered, c
  <2> QED BY <1>1, <2>2, <2>4
<1> QED BY <1>3, <1>5, <1>6, <1>7

(* A client that sends more of its hello while a flow waits for it.           *)
LEMMA SendKeepsBuffer ==
  ASSUME IInv, NEW f \in flows, FromHello(f), OwnPort(f.key), Stream(f.key), Buffer(f),
         NEW len \in Lengths, Send(f.key, len)
  PROVE  Buffer(f)'
<1> DEFINE c == f.key
<1>0. PICK m : m = Len(pkts) + 1
  OBVIOUS
<1>1. /\ c \in Conns /\ Len(f.payload) \in Nat /\ TypeOK
  BY OwnFlow DEF IInv
<1>2. alive
  BY DEF IInv, LoopInv, DownIsEmpty
<1>3. /\ \A i \in Mine(c) : pkts'[i] = pkts[i] /\ End(i)' = End(i)
      /\ pkts'[m].from = snd[c] /\ End(m)' = snd[c] + len
      /\ snd'[c] = snd[c] + len /\ len \in Nat /\ snd[c] \in Nat
      /\ Ahead(c)' = Ahead(c) \cup {m} /\ Ahead(c) \subseteq Mine(c)
  BY <1>0, <1>1, <1>2, SendEffect DEF Ahead
<1>4. snd[c] < Total(c) /\ Total(c) \in Nat
  <2>1. ~Begun(c) /\ Total(c) > 0 /\ Total(c) \in Nat
    BY <1>1, HelloPending, StreamTypes
  <2>2. 1 \notin Delivered(c)
    BY <1>1, <2>1, BegunDelivered
  <2> QED BY <1>3, <2>1, <2>2 DEF Send
<1>5. CASE Prefix(f) /\ NoGap(f)
  <2>1. \A i \in Ahead(c)' : pkts'[i].from >= Len(f.payload)
    BY <1>1, <1>3, <1>5 DEF NoGap
  <2>2. Covered(c, Len(f.payload))'
    <3> SUFFICES ASSUME NEW x \in Nat, Len(f.payload) < x, x <= snd[c] + len
                 PROVE  \E j \in Ahead(c)' : pkts'[j].from < x /\ x <= End(j)'
      BY <1>3 DEF Covered
    <3>1. CASE x > snd[c]
      BY <1>3, <3>1
    <3>2. CASE x <= snd[c]
      <4>1. PICK j \in Ahead(c) : pkts[j].from < x /\ x <= End(j)
        BY <1>5, <3>2 DEF NoGap, Covered
      <4> QED BY <1>3, <4>1
    <3> QED BY <1>3, <3>1, <3>2
  <2>3. Len(f.payload) <= snd'[c]
    BY <1>1, <1>3, <1>5 DEF NoGap
  <2> QED BY <1>5, <2>1, <2>2, <2>3 DEF Buffer, Prefix, NoGap
<1>6. CASE Spent(f)
  BY <1>3, <1>4, <1>6 DEF Spent
<1>7. CASE Skipped(f)
  <2>1. MIN_PAYLOAD \in Nat
    BY SizeAssumption
  <2>2. c \in missed' /\ Len(f.payload) + MIN_PAYLOAD <= snd'[c]
    BY <1>1, <1>3, <1>7, <2>1 DEF Skipped, Send, Enqueue
  <2>3. \A i \in Ahead(c)' : pkts'[i].from >= Len(f.payload) + MIN_PAYLOAD
    BY <1>1, <1>3, <1>7, <2>1 DEF Skipped
  <2> QED BY <2>2, <2>3 DEF Buffer, Skipped
<1> QED BY <1>5, <1>6, <1>7 DEF Buffer

(* Steps that do not concern a connection leave its buffer in order.         *)
LEMMA SameViewKeepsBuffer ==
  ASSUME NEW f, Buffer(f), Ahead(f.key)' = Ahead(f.key), snd'[f.key] = snd[f.key],
         missed \subseteq missed', \A i \in Ahead(f.key) : pkts'[i] = pkts[i]
  PROVE  Buffer(f)'
<1>1. \A i \in Ahead(f.key) : End(i)' = End(i)
  BY DEF End
<1>2. Prefix(f)' = Prefix(f) /\ Total(f.key)' = Total(f.key)
  BY DEF Prefix, Total
<1>3. NoGap(f) => NoGap(f)'
  BY <1>1 DEF NoGap, Covered
<1>4. Spent(f) => Spent(f)'
  BY <1>2 DEF Spent
<1>5. Skipped(f) => Skipped(f)'
  BY DEF Skipped
<1> QED BY <1>2, <1>3, <1>4, <1>5 DEF Buffer

(* What receiving the next packet changes for connection c.                  *)
LEMMA TakeEffect ==
  ASSUME IInv, packet_handle, taken' = taken + 1, NEW c \in Conns, Stream(c),
         NEW i, i = taken + 1
  PROVE  /\ Ahead(c)' = Ahead(c) \ {i} /\ UNCHANGED <<pkts, snd>>
         /\ \A j : End(j)' = End(j)
         /\ \A j \in Ahead(c) : End(j) \in Nat /\ pkts[j].from \in Nat /\ pkts[j].len \in Nat
         /\ snd[c] \in Nat /\ MIN_PAYLOAD \in Nat /\ MIN_PAYLOAD > 0 /\ Total(c) \in Nat
         /\ i \in Mine(c) =>
              /\ i \in Ahead(c) /\ End(i) <= snd[c]
              /\ \A j \in Ahead(c)' : End(i) <= pkts[j].from
              /\ \/ Arrived.len = 0 \/ Arrived.len >= MIN_PAYLOAD \/ End(i) = Total(c)
              /\ Arrived.len \in Nat /\ Arrived.from \in Nat
              /\ End(i) = Arrived.from + Arrived.len /\ End(i) \in Nat
              /\ pkts[i].from = Arrived.from /\ pkts[i].len = Arrived.len
<1>1. UNCHANGED <<pkts, snd>> /\ taken \in Nat /\ TypeOK /\ i \in Nat
  BY ArrivedFacts DEF IInv
<1>2. \A j : End(j)' = End(j)
  BY <1>1 DEF End
<1>3. Ahead(c)' = Ahead(c) \ {i}
  <2>1. Mine(c)' = Mine(c) /\ \A j \in Mine(c) : j \in Nat
    BY <1>1, StreamTypes DEF Mine
  <2> QED BY <1>1, <2>1 DEF Ahead
<1>4. /\ \A j \in Ahead(c) : End(j) \in Nat /\ pkts[j].from \in Nat /\ pkts[j].len \in Nat
      /\ snd[c] \in Nat /\ MIN_PAYLOAD \in Nat /\ MIN_PAYLOAD > 0 /\ Total(c) \in Nat
  BY <1>1, StreamTypes DEF Ahead, Mine
<1>5. ASSUME i \in Mine(c)
      PROVE  /\ i \in Ahead(c) /\ End(i) <= snd[c]
             /\ \A j \in Ahead(c)' : End(i) <= pkts[j].from
             /\ \/ Arrived.len = 0 \/ Arrived.len >= MIN_PAYLOAD \/ End(i) = Total(c)
             /\ Arrived.len \in Nat /\ Arrived.from \in Nat
             /\ End(i) = Arrived.from + Arrived.len /\ End(i) \in Nat
             /\ pkts[i].from = Arrived.from /\ pkts[i].len = Arrived.len
  <2>1. i \in Ahead(c) /\ i \in Waits(c)
    BY <1>1, <1>5, AheadWaits DEF Ahead
  <2>2. End(i) <= snd[c]
    BY <2>1 DEF Stream, Behind
  <2>3. \A j \in Ahead(c) \ {i} : j \in Waits(c) /\ i < j
    BY <1>1, AheadWaits, StreamTypes DEF Ahead, Mine
  <2>4. \A j \in Ahead(c)' : End(i) <= pkts[j].from
    BY <1>3, <2>1, <2>3 DEF Stream, Ordered
  <2>5. pkts[i].len = 0 \/ pkts[i].len >= MIN_PAYLOAD \/ End(i) = Total(c)
    BY <1>5 DEF Stream, Whole
  <2>6. pkts[i] = Arrived /\ Arrived.len \in Nat /\ Arrived.from \in Nat
    BY ArrivedFacts DEF Arrived
  <2>7. End(i) = Arrived.from + Arrived.len
    BY <2>6 DEF End
  <2> QED BY <2>1, <2>2, <2>4, <2>5, <2>6, <2>7
<1> QED BY <1>1, <1>2, <1>3, <1>4, <1>5

(* A packet passes by the flow of its connection: it is short, or a lookup   *)
(* missed the flow.                                                          *)
LEMMA PassingKeepsBuffer ==
  ASSUME IInv, packet_handle, taken' = taken + 1,
         NEW f \in flows, FromHello(f), OwnPort(f.key), Stream(f.key), Buffer(f),
         taken + 1 \in Mine(f.key), Arrived.len < MIN_PAYLOAD \/ f.key \in missed'
  PROVE  Buffer(f)'
<1>0. PICK i, c, n : i = taken + 1 /\ c = f.key /\ n = Len(f.payload)
  OBVIOUS
<1>1. c \in Conns /\ n \in Nat
  BY <1>0, OwnFlow
<1>2. /\ Ahead(c)' = Ahead(c) \ {i} /\ UNCHANGED <<pkts, snd>>
      /\ \A j : End(j)' = End(j)
      /\ \A j \in Ahead(c) : End(j) \in Nat /\ pkts[j].from \in Nat /\ pkts[j].len \in Nat
      /\ snd[c] \in Nat /\ MIN_PAYLOAD \in Nat /\ MIN_PAYLOAD > 0 /\ Total(c) \in Nat
      /\ i \in Ahead(c) /\ End(i) <= snd[c]
      /\ \A j \in Ahead(c)' : End(i) <= pkts[j].from
      /\ \/ Arrived.len = 0 \/ Arrived.len >= MIN_PAYLOAD \/ End(i) = Total(c)
      /\ Arrived.len \in Nat /\ Arrived.from \in Nat
      /\ End(i) = Arrived.from + Arrived.len /\ End(i) \in Nat
      /\ pkts[i].from = Arrived.from /\ pkts[i].len = Arrived.len
  BY <1>0, <1>1, TakeEffect
<1>3. \A j \in Ahead(c) : End(j) <= Total(c) /\ End(j) = pkts[j].from + pkts[j].len
  BY <1>0, HelloPending DEF Ahead, End
<1>4. Prefix(f)' = Prefix(f) /\ Total(c)' = Total(c)
  BY DEF Prefix, Total
<1>5. CASE Prefix(f) /\ NoGap(f)
  <2>1. /\ n <= snd[c] /\ (\A j \in Ahead(c) : pkts[j].from >= n) /\ Covered(c, n)
    BY <1>0, <1>5 DEF NoGap
  <2>2. CASE Arrived.len = 0
    <3>1. Covered(c, n)'
      <4> SUFFICES ASSUME NEW x \in Nat, n < x, x <= snd[c]
                   PROVE  \E j \in Ahead(c)' : pkts[j].from < x /\ x <= End(j)
        BY <1>2 DEF Covered
      <4>1. PICK j \in Ahead(c) : pkts[j].from < x /\ x <= End(j)
        BY <2>1 DEF Covered
      <4>2. j # i
        BY <1>2, <2>2, <4>1
      <4> QED BY <1>2, <4>1, <4>2
    <3> QED BY <1>0, <1>2, <1>4, <1>5, <2>1, <3>1 DEF Buffer, NoGap
  <2>3. CASE Arrived.len > 0 /\ Arrived.len < MIN_PAYLOAD
    <3>1. End(i) = Total(c) /\ snd[c] >= Total(c)
      BY <1>2, <2>3
    <3>2. \A j \in Ahead(c)' : pkts[j].len < MIN_PAYLOAD
      BY <1>2, <1>3, <3>1
    <3> QED BY <1>0, <1>2, <1>4, <1>5, <3>1, <3>2 DEF Buffer, Spent
  <2>4. CASE Arrived.len >= MIN_PAYLOAD
    <3>1. End(i) >= n + MIN_PAYLOAD /\ f.key \in missed'
      BY <1>1, <1>2, <2>1, <2>4
    <3>2. n + MIN_PAYLOAD <= snd[c]
      BY <1>1, <1>2, <3>1
    <3>3. \A j \in Ahead(c)' : pkts[j].from >= n + MIN_PAYLOAD
      BY <1>1, <1>2, <3>1
    <3> QED BY <1>0, <1>2, <3>1, <3>2, <3>3 DEF Buffer, Skipped
  <2> QED BY <1>2, <2>2, <2>3, <2>4
<1>6. CASE Prefix(f) /\ Spent(f)
  <2>1. Spent(f)'
    BY <1>0, <1>2, <1>4, <1>6 DEF Spent
  <2> QED BY <1>4, <1>6, <2>1 DEF Buffer
<1>7. CASE Skipped(f)
  <2>1. Skipped(f)'
    BY <1>0, <1>2, <1>7, HandleMisses DEF Skipped
  <2> QED BY <2>1 DEF Buffer
<1> QED BY <1>5, <1>6, <1>7 DEF Buffer

(* The cells of a packet, one by one.                                        *)
LEMMA CellsOf ==
  ASSUME NEW p \in Packet
  PROVE  /\ DOMAIN Cells(p) = 1 .. p.len
         /\ \A k \in 1 .. p.len : Cells(p)[k] = <<p.conn, p.from + k>>
BY DEF Cells

(* A packet that continues flow f: the buffer goes on where it ended, or a   *)
(* packet was missed before.                                                 *)
LEMMA ContinuesBuffer ==
  ASSUME IInv, packet_handle, NEW f \in flows, Found(f, Arrived),
         FromHello(f), OwnPort(f.key), Stream(f.key), Buffer(f)
  PROVE  /\ taken + 1 \in Mine(f.key) /\ Arrived.conn = f.key
         /\ Len(Extended(f).payload) = Len(f.payload) + Arrived.len
         /\ \/ /\ NoGap(f) /\ Prefix(Extended(f)) /\ Arrived.from = Len(f.payload)
            \/ Skipped(f)
<1>0. PICK i, c, n : i = taken + 1 /\ c = f.key /\ n = Len(f.payload)
  OBVIOUS
<1>1. /\ c \in Conns /\ Key[c] = c /\ n \in Nat /\ f.payload \in Seq(Conns \X Nat)
  BY <1>0, OwnFlow
<1>2. /\ i \in DOMAIN pkts /\ pkts[i] = Arrived /\ Arrived \in Packet /\ Arrived.conn \in Conns
      /\ Arrived.len \in Nat /\ Arrived.from \in Nat /\ taken \in Nat
      /\ MIN_PAYLOAD \in Nat /\ MIN_PAYLOAD > 0 /\ Arrived.len >= MIN_PAYLOAD /\ snd[c] \in Nat
  BY <1>0, <1>1, ArrivedFacts, StreamTypes DEF Arrived, Found, IInv
<1>3. Arrived.conn = c
  BY <1>0, <1>1, <1>2 DEF Found, OwnPort
<1>4. i \in Mine(c)
  BY <1>2, <1>3 DEF Mine, Found
<1>5. i \in Ahead(c) /\ i \in Waits(c) /\ End(i) = Arrived.from + Arrived.len /\ End(i) <= snd[c]
  <2>1. i \in Ahead(c) /\ i \in Waits(c)
    BY <1>0, <1>2, <1>4, AheadWaits DEF Ahead
  <2> QED BY <1>0, <1>2, <2>1 DEF Stream, Behind, End
<1>6. Len(Extended(f).payload) = n + Arrived.len
  <2>1. Cells(Arrived) \in Seq(Conns \X Nat) /\ Len(Cells(Arrived)) = Arrived.len
    BY <1>2, CellsType
  <2>2. Len(f.payload \o Cells(Arrived)) = Len(f.payload) + Len(Cells(Arrived))
    BY <1>1, <2>1, ConcatProperties
  <2>3. Extended(f).payload = f.payload \o Cells(Arrived)
    BY ExtendedFacts
  <2> QED BY <1>0, <2>1, <2>2, <2>3
<1>7. ASSUME Prefix(f), NoGap(f)
      PROVE  Arrived.from = n /\ Prefix(Extended(f))
  <2>1. Arrived.from = n
    <3>1. Arrived.from >= n
      BY <1>0, <1>2, <1>5, <1>7 DEF NoGap
    <3> SUFFICES ASSUME Arrived.from > n
                 PROVE  FALSE
      BY <1>1, <1>2, <3>1
    <3>2. n + 1 \in Nat /\ n < n + 1 /\ n + 1 <= snd[c]
      BY <1>1, <1>2, <1>5
    <3>3. PICK j \in Ahead(c) : pkts[j].from < n + 1 /\ n + 1 <= End(j)
      BY <1>0, <1>7, <3>2 DEF NoGap, Covered
    <3>4. /\ j \in Waits(c) /\ j \in DOMAIN pkts /\ j \in Nat /\ j > taken
          /\ pkts[j].from \in Nat
      BY AheadWaits, StreamTypes DEF Ahead, Mine, IInv
    <3>5. i < j
      <4>1. j # i
        BY <1>1, <1>2, <3>3
      <4> QED BY <1>0, <1>2, <3>4, <4>1
    <3>6. End(i) <= pkts[j].from
      BY <1>0, <1>5, <3>4, <3>5 DEF Stream, Ordered
    <3> QED BY <1>1, <1>2, <1>5, <3>3, <3>4, <3>6
  <2>2. Prefix(Extended(f))
    <3> DEFINE s == Cells(Arrived)
               g == Extended(f)
    <3>1. /\ s \in Seq(Conns \X Nat) /\ Len(s) = Arrived.len
          /\ \A k \in 1 .. Arrived.len : s[k] = <<c, n + k>>
      BY <1>2, <1>3, <2>1, CellsType, CellsOf
    <3>2. g.payload = f.payload \o s /\ g.key = c /\ g.payload \in Seq(Conns \X Nat)
      BY <1>0, ExtendedFacts DEF Flow
    <3> HIDE DEF s, g
    <3>3. DOMAIN g.payload = 1 .. n + Arrived.len
      BY <1>6, <3>2 DEF g
    <3>4. \A k \in 1 .. n : f.payload[k] = <<c, k>>
      BY <1>0, <1>1, <1>7 DEF Prefix
    <3>5. \A k \in 1 .. n + Arrived.len :
            g.payload[k] = IF k <= n THEN f.payload[k] ELSE s[k - n]
      BY <1>0, <1>1, <3>1, <3>2, ConcatProperties
    <3> SUFFICES ASSUME NEW k \in 1 .. n + Arrived.len
                 PROVE  g.payload[k] = <<c, k>>
      BY <3>2, <3>3 DEF Prefix, g
    <3>6. CASE k <= n
      BY <1>1, <3>4, <3>5, <3>6
    <3>7. CASE k > n
      <4>1. k - n \in 1 .. Arrived.len /\ n + (k - n) = k
        BY <1>1, <1>2, <3>7
      <4>2. g.payload[k] = s[k - n]
        BY <1>1, <3>5, <3>7
      <4> QED BY <3>1, <4>1, <4>2
    <3> QED BY <1>1, <3>6, <3>7
  <2> QED BY <2>1, <2>2
<1>8. ~Spent(f)
  BY <1>0, <1>2, <1>5 DEF Spent
<1> QED BY <1>0, <1>3, <1>4, <1>6, <1>7, <1>8 DEF Buffer

(* The flow goes on waiting with that packet in its buffer.                  *)
LEMMA ExtendKeepsBuffer ==
  ASSUME IInv, packet_handle, taken' = taken + 1, NEW f \in flows, Found(f, Arrived),
         FromHello(f), OwnPort(f.key), Stream(f.key), Buffer(f), NEW g, g = Extended(f)
  PROVE  Buffer(g)'
<1>0. PICK i, c, n : i = taken + 1 /\ c = f.key /\ n = Len(f.payload)
  OBVIOUS
<1>1. c \in Conns /\ n \in Nat /\ g.key = c
  BY <1>0, OwnFlow, ExtendedFacts
<1>2. /\ i \in Mine(c) /\ Len(g.payload) = n + Arrived.len
      /\ \/ NoGap(f) /\ Prefix(g) /\ Arrived.from = n
         \/ Skipped(f)
  BY <1>0, ContinuesBuffer
<1>3. /\ Ahead(c)' = Ahead(c) \ {i} /\ UNCHANGED <<pkts, snd>>
      /\ \A j : End(j)' = End(j)
      /\ \A j \in Ahead(c) : End(j) \in Nat /\ pkts[j].from \in Nat /\ pkts[j].len \in Nat
      /\ snd[c] \in Nat /\ MIN_PAYLOAD \in Nat
      /\ i \in Ahead(c) /\ End(i) <= snd[c]
      /\ \A j \in Ahead(c)' : End(i) <= pkts[j].from
      /\ Arrived.len \in Nat /\ Arrived.from \in Nat
      /\ End(i) = Arrived.from + Arrived.len /\ pkts[i].from = Arrived.from
  BY <1>0, <1>1, <1>2, TakeEffect
<1>4. CASE NoGap(f) /\ Prefix(g) /\ Arrived.from = n
  <2>1. Len(g.payload) = End(i)
    BY <1>2, <1>3, <1>4
  <2>2. Covered(c, End(i))'
    <3> SUFFICES ASSUME NEW x \in Nat, End(i) < x, x <= snd[c]
                 PROVE  \E j \in Ahead(c)' : pkts[j].from < x /\ x <= End(j)
      BY <1>3 DEF Covered
    <3>1. n < x
      BY <1>1, <1>3, <1>4
    <3>2. PICK j \in Ahead(c) : pkts[j].from < x /\ x <= End(j)
      BY <1>0, <1>4, <3>1 DEF NoGap, Covered
    <3>3. j # i
      BY <1>1, <1>3, <3>2
    <3> QED BY <1>3, <3>2, <3>3
  <2>3. Covered(c, Len(g.payload))'
    BY <1>3, <2>1, <2>2 DEF Covered
  <2>4. NoGap(g)'
    BY <1>1, <1>3, <2>1, <2>3 DEF NoGap
  <2>5. Prefix(g)'
    BY <1>4 DEF Prefix
  <2> QED BY <2>4, <2>5 DEF Buffer
<1>5. CASE Skipped(f)
  <2>1. End(i) >= n + MIN_PAYLOAD + Arrived.len
    BY <1>0, <1>1, <1>3, <1>5 DEF Skipped
  <2>2. Len(g.payload) + MIN_PAYLOAD <= End(i)
    BY <1>1, <1>2, <1>3, <2>1
  <2>3. Len(g.payload) + MIN_PAYLOAD \in Nat
    BY <1>1, <1>2, <1>3
  <2>4. Len(g.payload) + MIN_PAYLOAD <= snd[c]
    BY <1>1, <1>3, <2>2, <2>3
  <2>5. \A j \in Ahead(c)' : pkts[j].from >= Len(g.payload) + MIN_PAYLOAD
    BY <1>1, <1>3, <2>2, <2>3
  <2>6. g.key \in missed'
    BY <1>1, <1>5, HandleMisses, ExtendedFacts DEF Skipped
  <2> QED BY <1>1, <1>3, <2>4, <2>5, <2>6 DEF Buffer, Skipped
<1> QED BY <1>2, <1>4, <1>5

(* A new flow begins with the beginning of the stream.                       *)
LEMMA OpenStartsBuffer ==
  ASSUME IInv, packet_handle, taken' = taken + 1, NotFound(Arrived), Arrived.from = 0,
         NEW g, g = Opened, OwnPort(g.key), Stream(g.key)
  PROVE  Buffer(g)'
<1>0. PICK i, c : i = taken + 1 /\ c = g.key
  OBVIOUS
<1>1. /\ c = Key[Arrived.conn] /\ g.payload = Cells(Arrived) /\ Arrived \in Packet
      /\ i \in DOMAIN pkts /\ pkts[i] = Arrived /\ Arrived.conn \in Conns
  BY <1>0, OpenedFacts, ArrivedFacts DEF Arrived
<1>2. c \in Conns /\ Arrived.conn = c
  BY <1>0, <1>1, NameAssumption DEF OwnPort
<1>3. i \in Mine(c)
  BY <1>1, <1>2 DEF Mine, NotFound
<1>4. /\ Ahead(c)' = Ahead(c) \ {i} /\ UNCHANGED <<pkts, snd>>
      /\ \A j : End(j)' = End(j)
      /\ \A j \in Ahead(c) : End(j) \in Nat /\ pkts[j].from \in Nat /\ pkts[j].len \in Nat
      /\ snd[c] \in Nat
      /\ i \in Ahead(c) /\ End(i) <= snd[c]
      /\ \A j \in Ahead(c)' : End(i) <= pkts[j].from
      /\ Arrived.len \in Nat /\ Arrived.from \in Nat
      /\ End(i) = Arrived.from + Arrived.len
      /\ pkts[i].from = Arrived.from
  BY <1>0, <1>2, <1>3, TakeEffect
<1>5. Len(g.payload) = End(i) /\ Len(g.payload) \in Nat /\ DOMAIN g.payload = 1 .. Arrived.len
  BY <1>1, <1>4, CellsType, CellsOf
<1>6. Prefix(g)'
  <2>1. \A k \in 1 .. Arrived.len : g.payload[k] = <<c, k>>
    <3>1. \A k \in 1 .. Arrived.len : g.payload[k] = <<Arrived.conn, Arrived.from + k>>
      BY <1>1, CellsOf
    <3>2. \A k \in 1 .. Arrived.len : Arrived.from + k = k
      BY <1>4
    <3> QED BY <1>2, <3>1, <3>2
  <2> QED BY <1>0, <1>5, <2>1 DEF Prefix
<1>7. Covered(c, End(i))'
  <2> SUFFICES ASSUME NEW x \in Nat, End(i) < x, x <= snd[c]
               PROVE  \E j \in Ahead(c)' : pkts[j].from < x /\ x <= End(j)
    BY <1>4 DEF Covered
  <2>1. pkts[i].from < x
    BY <1>4
  <2>2. PICK j \in Ahead(c) : pkts[j].from < x /\ x <= End(j)
    BY <1>0, <1>4, <2>1 DEF Stream, Continuous, Covered
  <2>3. j # i
    BY <1>4, <2>2
  <2> QED BY <1>4, <2>2, <2>3
<1>8. NoGap(g)'
  <2>1. Covered(c, Len(g.payload))'
    BY <1>4, <1>5, <1>7 DEF Covered
  <2> QED BY <1>0, <1>4, <1>5, <2>1 DEF NoGap
<1> QED BY <1>6, <1>8 DEF Buffer

(* A packet of c leaves the flow of c as it was only when it is short or the *)
(* lookup missed the flow.                                                   *)
LEMMA BystanderMissed ==
  ASSUME IInv, FlowsFromHellos, packet_handle, NEW g \in flows, g \in flows',
         OwnPort(g.key), Stream(g.key), taken + 1 \in Mine(g.key)
  PROVE  Arrived.len < MIN_PAYLOAD \/ g.key \in missed'
<1>1. PICK Q, v, F, gc : Finish(Q, v, F, gc) /\ Case(Q, v, F, gc)
  BY HandlerCases
<1>2. g \in F
  BY <1>1, FinishEffect
<1>3. FromHello(g)
  BY DEF FlowsFromHellos
<1>4. Key[g.key] = g.key /\ Arrived.conn = g.key /\ Arrived.port = 443
  BY <1>3, OwnFlow DEF Mine, Arrived
<1>5. Arrived.from # 0
  <2>1. taken + 1 \in Ahead(g.key)
    BY ArrivedFacts DEF Ahead
  <2>2. pkts[taken + 1].from > 0
    BY <1>3, <2>1, HelloPending
  <2> QED BY <2>2, ArrivedFacts DEF Arrived
<1>6. ASSUME NotFound(Arrived)
      PROVE  g.key \in missed'
  BY <1>4, <1>6 DEF NotFound
<1>7. ASSUME NEW f \in flows, Found(f, Arrived)
      PROVE  f = g
  <2>1. f.key = g.key
    BY <1>4, <1>7 DEF Found
  <2>2. Ordered(g.key)
    BY DEF Stream
  <2> QED BY <2>1, <2>2, OwnFlowUnique
<1>8. g # Extended(g)
  BY ExtendedFacts, ArrivedFacts
<1>9. CASE Passes(Q, v, F, gc)
  BY <1>4, <1>6, <1>9 DEF Passes
<1>10. CASE JudgesQuery(Q, v, F, gc) \/ JudgesHello(Q, v, F, gc) \/ Opens(Q, v, F, gc)
  BY <1>4, <1>5, <1>10 DEF JudgesQuery, JudgesHello, Opens
<1>11. CASE GivesUp(Q, v, F, gc) \/ Completes(Q, v, F, gc) \/ Extends(Q, v, F, gc)
  BY <1>2, <1>7, <1>8, <1>11 DEF GivesUp, Completes, Extends
<1> QED BY <1>1, <1>9, <1>10, <1>11 DEF Case

(* Handling a packet keeps the buffers in order.                             *)
LEMMA HandleKeepsBuffers ==
  ASSUME IInv, SInv, packet_handle
  PROVE  BuffersInOrder'
<1>1. UNCHANGED <<pkts, snd, resent>>
  BY ArrivedFacts
<1> SUFFICES ASSUME NEW g \in flows', OwnPort(g.key), g.key \notin resent
             PROVE  Buffer(g)'
  BY <1>1 DEF BuffersInOrder, OwnPort
<1>2. taken' = taken + 1
  BY HandlerCases, FinishEffect
<1>3. ASSUME NEW f \in flows, OwnPort(f.key), f.key \notin resent
      PROVE  FromHello(f) /\ Buffer(f) /\ Stream(f.key) /\ f.key \in Conns
  BY <1>3, OwnFlow DEF SInv, FlowsFromHellos, BuffersInOrder, StreamsInOrder
<1>4. CASE g \in flows
  <2>1. FromHello(g) /\ Buffer(g) /\ Stream(g.key) /\ g.key \in Conns
    BY <1>3, <1>4
  <2>2. CASE taken + 1 \in Mine(g.key)
    <3>1. Arrived.len < MIN_PAYLOAD \/ g.key \in missed'
      BY <1>4, <2>1, <2>2, BystanderMissed DEF SInv
    <3> QED BY <1>2, <1>4, <2>1, <2>2, <3>1, PassingKeepsBuffer
  <2>3. CASE taken + 1 \notin Mine(g.key)
    <3>1. Ahead(g.key)' = Ahead(g.key) \ {taken + 1}
      BY <1>2, <2>1, TakeEffect
    <3>2. Ahead(g.key)' = Ahead(g.key)
      BY <2>3, <3>1 DEF Ahead
    <3> QED BY <1>1, <2>1, <3>2, HandleMisses, SameViewKeepsBuffer
  <2> QED BY <2>2, <2>3
<1>5. CASE NotFound(Arrived) /\ Arrived.from = 0 /\ g = Opened
  <2>1. g.key \in Conns
    BY <1>5, OpenedFacts DEF Flow
  <2>2. Stream(g.key)
    BY <2>1 DEF SInv, StreamsInOrder
  <2> QED BY <1>2, <1>5, <2>2, OpenStartsBuffer
<1>6. ASSUME NEW f \in flows, Found(f, Arrived), g = Extended(f)
      PROVE  Buffer(g)'
  <2>1. f.key = g.key
    BY <1>6, ExtendedFacts
  <2>2. FromHello(f) /\ Buffer(f) /\ Stream(f.key) /\ OwnPort(f.key)
    BY <1>3, <2>1
  <2> QED BY <1>2, <1>6, <2>2, ExtendKeepsBuffer
<1> QED BY <1>4, <1>5, <1>6, HandleFlows

(* So does every step.                                                       *)
LEMMA BuffersKept ==
  ASSUME IInv, SInv, [Next]_vars
  PROVE  BuffersInOrder'
<1>1. CASE packet_handle
  BY <1>1, HandleKeepsBuffers
<1>2. CASE flows' = {}
  BY <1>2 DEF BuffersInOrder
<1>3. CASE ~packet_handle /\ flows' = flows
  <2>0. resent \subseteq resent'
    BY DEF Next, Client, Send, Rewind, Resend, SendQuery, Tick, packet_handle, ReceiveError,
           Restart, client, vars
  <2> SUFFICES ASSUME NEW f \in flows, OwnPort(f.key), f.key \notin resent'
               PROVE  Buffer(f)'
    BY <1>3 DEF BuffersInOrder, OwnPort
  <2>1. /\ FromHello(f) /\ Buffer(f) /\ Stream(f.key) /\ f.key \in Conns
        /\ snd \in [Conns -> Nat]
    BY <2>0, OwnFlow DEF SInv, FlowsFromHellos, BuffersInOrder, StreamsInOrder, IInv, TypeOK
  <2>2. ASSUME SameView(f.key)
        PROVE  Buffer(f)'
    BY <2>1, <2>2, MissedGrows, SameViewKeepsBuffer DEF SameView, Ahead
  <2>3. ASSUME NEW d \in Conns, Client(d)
        PROVE  Buffer(f)'
    <3>1. CASE \E len \in Lengths : Send(d, len)
      <4>1. PICK len \in Lengths : Send(d, len)
        BY <3>1
      <4>2. CASE d = f.key
        BY <2>1, <4>1, <4>2, SendKeepsBuffer
      <4>3. CASE d # f.key
        <5>1. Enqueue(Segment(d, snd[d], len)) /\ snd'[f.key] = snd[f.key]
          BY <2>1, <4>1, <4>3 DEF Send
        <5>2. Segment(d, snd[d], len).conn # f.key
          BY <4>3 DEF Segment
        <5> QED BY <2>2, <5>1, <5>2, EnqueueOther
      <4> QED BY <4>2, <4>3
    <3>2. CASE Rewind(d)
      <4>1. d # f.key
        BY <2>1, <3>2, RewindKeepsStream, OwnFlow
      <4>2. UNCHANGED <<pkts, fate, taken>> /\ snd'[f.key] = snd[f.key]
        BY <2>1, <3>2, <4>1 DEF Rewind
      <4>3. SameView(f.key)
        BY <4>2 DEF SameView, Mine, Waits, Ahead
      <4> QED BY <2>2, <4>3
    <3>3. CASE Resend(d)
      <4>1. PICK i \in Queued : pkts[i].conn = d /\ Enqueue(pkts[i])
        BY <3>3 DEF Resend
      <4>2. d # f.key /\ snd' = snd
        BY <3>3 DEF Resend
      <4> QED BY <2>2, <4>1, <4>2, EnqueueOther
    <3> QED BY <2>3, <3>1, <3>2, <3>3 DEF Client
  <2>4. CASE \E q \in Queries : SendQuery(q)
    <3>1. PICK q \in Queries : SendQuery(q)
      BY <2>4
    <3>2. q.port # 443 /\ Enqueue(q) /\ snd' = snd
      BY <3>1, NameAssumption DEF SendQuery, client
    <3> QED BY <2>2, <3>2, EnqueueOther
  <2>5. CASE Tick \/ Restart \/ UNCHANGED vars
    <3>1. UNCHANGED <<pkts, fate, taken, snd>>
      BY <2>5 DEF Tick, Restart, vars, client
    <3>2. SameView(f.key)
      BY <3>1 DEF SameView, Mine, Waits, Ahead
    <3> QED BY <2>2, <3>2
  <2>6. CASE ReceiveError
    BY <1>3, <2>6 DEF ReceiveError, Exit
  <2> QED BY <1>3, <2>3, <2>4, <2>5, <2>6 DEF Next
<1> QED BY <1>1, <1>2, <1>3, OthersKeepFlows

(* The streams, the queue and the cache stay in order, whatever the          *)
(* collector, an exit, the limits and the other clients do.                  *)
THEOREM Reassembly == Spec => []SInv
<1>1. Init => SInv
  <2> SUFFICES ASSUME Init
               PROVE  SInv
    OBVIOUS
  <2>1. DOMAIN pkts = {} /\ flows = {} /\ \A c \in Conns : snd[c] = 0
    BY DEF Init
  <2>2. \A c \in Conns : Mine(c) = {} /\ Waits(c) = {} /\ Ahead(c) = {} /\ ~Begun(c)
    BY <2>1 DEF Mine, Waits, Ahead, Begun
  <2>3. StreamsInOrder
    BY <2>2 DEF StreamsInOrder, Stream, Ordered, Behind, Fresh, Follows, Whole, Continuous
  <2> QED BY <2>1, <2>3 DEF SInv, OthersAreQueries, FlowsFromHellos, BuffersInOrder
<1>2. IInv /\ SInv /\ [Next]_vars => SInv'
  BY StreamsKept, QueriesKept, HellosKept, BuffersKept DEF SInv
<1> QED BY <1>1, <1>2, Invariance, PTL DEF Spec

(* For every padding, the buffer of a flow is a prefix of its client's       *)
(* stream (tcpflow_value_append) until the client repeats what is held or a  *)
(* lookup misses the flow.                                                   *)
THEOREM BuffersArePrefixes == Spec => []BufferIsPrefix
<1>1. SInv => BufferIsPrefix
  BY DEF SInv, BuffersInOrder, Buffer, Skipped, Prefix, BufferIsPrefix
<1> QED BY <1>1, Reassembly, PTL

-----------------------------------------------------------------------------
(* Names. *)

(* The name is in the part of the hello a flow waits for.                    *)
NameInside(c) == NameEnd[c] <= RecLen[c]

(* A buffer that holds the hello of c in place parses to the name of c.      *)
LEMMA PrefixParses ==
  ASSUME NEW c \in Conns, NameInside(c), NEW s \in Seq(Conns \X Nat), Len(s) >= RecLen[c],
         \A k \in DOMAIN s : s[k] = <<c, k>>
  PROVE  extract_sni(c, s) = {Sni[c]}
<1>1. RecLen[c] \in Nat /\ NameEnd[c] \in Nat /\ Len(s) \in Nat /\ DOMAIN s = 1 .. Len(s)
  BY SizeAssumption
<1>2. ~(Len(s) < RecLen[c]) /\ NameEnd[c] <= Len(s)
  BY <1>1 DEF NameInside
<1>3. \A k \in 1 .. NameEnd[c] : s[k] = <<c, k>>
  BY <1>1, <1>2
<1> QED BY <1>2, <1>3 DEF extract_sni

(* A hello in one packet is judged by its name.                              *)
LEMMA HelloName ==
  ASSUME IInv, packet_handle, Arrived.from = 0, Arrived.len >= RecLen[Arrived.conn],
         NameInside(Arrived.conn)
  PROVE  extract_sni(Arrived.conn, Cells(Arrived)) = {Sni[Arrived.conn]}
<1>1. Arrived \in Packet /\ Arrived.conn \in Conns /\ Arrived.len \in Nat
  BY ArrivedFacts
<1> DEFINE s == Cells(Arrived)
<1>2. /\ s \in Seq(Conns \X Nat) /\ Len(s) = Arrived.len /\ DOMAIN s = 1 .. Arrived.len
      /\ \A k \in DOMAIN s : s[k] = <<Arrived.conn, Arrived.from + k>>
  BY <1>1, CellsType, CellsOf
<1>3. \A k \in DOMAIN s : Arrived.from + k = k
  BY <1>1, <1>2
<1> HIDE DEF s
<1>4. \A k \in DOMAIN s : s[k] = <<Arrived.conn, k>>
  BY <1>2, <1>3
<1>5. extract_sni(Arrived.conn, s) = {Sni[Arrived.conn]}
  BY <1>1, <1>2, <1>4, PrefixParses
<1> QED BY <1>5 DEF s

(* A hello that a flow completes is judged by its name: a flow that missed a *)
(* packet is never completed, for less than a record header would be left.   *)
LEMMA CompletedName ==
  ASSUME IInv, SInv, packet_handle, NEW f \in flows, Found(f, Arrived),
         tcpflow_iscomplete(Extended(f)), OwnPort(f.key), f.key \notin resent,
         NameInside(f.key)
  PROVE  extract_sni(pkts[Extended(f).ids[1]].conn, Extended(f).payload) = {Sni[f.key]}
<1>0. PICK i, c, n, g : i = taken + 1 /\ c = f.key /\ n = Len(f.payload) /\ g = Extended(f)
  OBVIOUS
<1>1. FromHello(f) /\ Buffer(f) /\ Stream(f.key) /\ c \in Conns
  BY <1>0, OwnFlow DEF SInv, FlowsFromHellos, BuffersInOrder, StreamsInOrder
<1>2. n \in Nat /\ f.expected = RecLen[c] /\ RecLen[c] \in Nat /\ pkts[f.ids[1]].conn = c
  BY <1>0, <1>1, OwnFlow, SizeAssumption
<1>3. /\ g.expected = RecLen[c] /\ g.ids[1] = f.ids[1] /\ g.key = c
      /\ g.payload \in Seq(Conns \X Nat)
  BY <1>0, <1>2, ExtendedFacts DEF Flow
<1>4. /\ i \in Mine(c) /\ Len(g.payload) = n + Arrived.len
      /\ \/ NoGap(f) /\ Prefix(g) /\ Arrived.from = n
         \/ Skipped(f)
  BY <1>0, <1>1, ContinuesBuffer
<1>5. Len(g.payload) >= RecLen[c]
  BY <1>0, <1>3 DEF tcpflow_iscomplete
<1>6. ~Skipped(f)
  <2> SUFFICES ASSUME Skipped(f)
               PROVE  FALSE
    OBVIOUS
  <2>1. i \in Ahead(c)
    BY <1>0, <1>4, ArrivedFacts DEF Ahead
  <2>2. Arrived.from >= n + MIN_PAYLOAD
    BY <1>0, <2>1 DEF Skipped, Arrived
  <2>3. Arrived.from + Arrived.len <= Total(c)
    BY <1>0, <1>1, <1>4, HelloPending DEF End, Arrived
  <2>4. Total(c) = RECORD_HEADER + RecLen[c]
    BY DEF Total
  <2> QED BY <1>2, <1>4, <1>5, <2>2, <2>3, <2>4, ArrivedFacts, SizeAssumption
<1>7. \A k \in DOMAIN g.payload : g.payload[k] = <<c, k>>
  BY <1>3, <1>4, <1>6 DEF Prefix
<1>8. extract_sni(c, g.payload) = {Sni[c]}
  BY <1>0, <1>1, <1>3, <1>5, <1>7, PrefixParses
<1> QED BY <1>0, <1>2, <1>3, <1>8

(* Check_access refuses the name of c, and c is a connection whose hello the *)
(* daemon can judge: it does not repeat what is held, it has its port for    *)
(* itself, and its name lies between the end of the shortest packet that is  *)
(* inspected and the end of what a flow waits for.                           *)
Refused(c) == Sni[c] \in Domains /\ Access[Sni[c]] = {DROP}
Plain(c) == c \notin Spurious /\ OwnPort(c) /\ MIN_PAYLOAD <= NameEnd[c] /\ NameInside(c)

(* No cell of the hello of such a connection leaves the host.                *)
RefusedNotBegun ==
  \A c \in Conns \ failopen : Refused(c) /\ Plain(c) => ~Begun(c)

(* A handler passes no first cell of a hello whose name is refused.          *)
LEMMA HandleRefuses ==
  ASSUME IInv, SInv, packet_handle, NEW c \in Conns, Refused(c), Plain(c), ~Begun(c),
         Begun(c)'
  PROVE  c \in failopen'
<1> USE DEF QUEUED, ACCEPT, DROP
<1>1. PICK Q, v, F, gc : Finish(Q, v, F, gc) /\ Case(Q, v, F, gc)
  BY HandlerCases
<1>2. pkts' = pkts /\ DOMAIN fate = DOMAIN pkts /\ TypeOK
  BY ArrivedFacts DEF IInv
<1>3. PICK i \in Mine(c) : fate'[i] = ACCEPT /\ pkts[i].from = 0 /\ pkts[i].len > 0
  BY <1>2 DEF Begun, Mine
<1>4. i \in Queued
  <2>1. fate[i] # ACCEPT /\ i \in DOMAIN fate
    BY <1>2, <1>3 DEF Begun, Mine
  <2>2. i \notin Queued => fate'[i] = fate[i]
    BY <1>1, <2>1, FinishEffect
  <2> QED BY <1>3, <2>1, <2>2
<1>5. v = ACCEPT /\ \E q \in Q : i \in RangeOf(q)
  BY <1>1, <1>3, <1>4, FinishEffect
<1>6. c \notin resent /\ Stream(c)
  BY <1>2 DEF Plain, TypeOK, SInv, StreamsInOrder
<1>7. pkts[i].port = 443 /\ pkts[i].conn = c
  BY DEF Mine
<1>8. Key[c] = c /\ check_access(Sni[c]) = {DROP}
  BY NameAssumption DEF Plain, OwnPort, Refused, check_access
<1>9. ASSUME Q = {<<taken + 1>>}
      PROVE  i = taken + 1 /\ pkts[i] = Arrived
  BY <1>5, <1>9 DEF RangeOf, Arrived
<1>10. ASSUME NEW f \in flows, Found(f, Arrived), i \in RangeOf(f.ids) \cup {taken + 1}
       PROVE  f.key = c /\ Arrived.conn = c
  <2>1. f.key = c
    BY <1>7, <1>8, <1>10 DEF SInv, FlowsFromHellos, FromHello, RangeOf, Found, Arrived
  <2>2. Key[Arrived.conn] = Key[c] /\ Arrived.conn \in Conns
    BY <1>8, <1>10, <2>1, ArrivedFacts DEF Found
  <2> QED BY <2>1, <2>2 DEF Plain, OwnPort
<1>11. CASE Passes(Q, v, F, gc)
  <2>1. i = taken + 1 /\ pkts[i] = Arrived
    BY <1>9, <1>11 DEF Passes
  <2>2. ~(Arrived.len < MIN_PAYLOAD)
    <3>1. pkts[i].len >= MIN_PAYLOAD \/ End(i) = Total(c)
      BY <1>3, <1>6, <2>1, ArrivedFacts DEF Stream, Whole
    <3>2. Total(c) = RECORD_HEADER + RecLen[c] /\ End(i) = pkts[i].from + pkts[i].len
      BY DEF Total, End
    <3>3. /\ RECORD_HEADER \in Nat /\ RecLen[c] \in Nat /\ MIN_PAYLOAD \in Nat
          /\ NameEnd[c] \in Nat /\ MIN_PAYLOAD <= RecLen[c]
      BY SizeAssumption DEF Plain, NameInside
    <3> QED BY <1>3, <2>1, <3>1, <3>2, <3>3, ArrivedFacts
  <2> QED BY <1>3, <1>7, <1>11, <2>1, <2>2 DEF Passes
<1>12. CASE JudgesQuery(Q, v, F, gc)
  BY <1>7, <1>9, <1>12 DEF JudgesQuery
<1>13. CASE JudgesHello(Q, v, F, gc)
  <2>1. /\ Arrived.conn = c /\ Arrived.from = 0 /\ Arrived.len >= RecLen[c]
        /\ \E name \in extract_sni(c, Cells(Arrived)) : v \in check_access(name)
    BY <1>7, <1>9, <1>13 DEF JudgesHello
  <2>2. extract_sni(c, Cells(Arrived)) = {Sni[c]}
    BY <2>1, HelloName DEF Plain
  <2> QED BY <1>5, <1>8, <2>1, <2>2
<1>14. CASE Opens(Q, v, F, gc) \/ Extends(Q, v, F, gc)
  BY <1>5, <1>14 DEF Opens, Extends
<1>15. CASE GivesUp(Q, v, F, gc)
  <2>1. PICK f \in flows : Found(f, Arrived) /\ Arrived.conn \in failopen' /\ Q = {f.ids}
    BY <1>15 DEF GivesUp
  <2> QED BY <1>5, <1>10, <2>1
<1>16. CASE Completes(Q, v, F, gc)
  <2>1. PICK f \in flows :
          /\ Found(f, Arrived) /\ tcpflow_iscomplete(Extended(f)) /\ Q = {Extended(f).ids}
          /\ \E name \in extract_sni(pkts[Extended(f).ids[1]].conn, Extended(f).payload) :
               v \in check_access(name)
    BY <1>16 DEF Completes
  <2>2. i \in RangeOf(f.ids) \cup {taken + 1}
    BY <1>5, <2>1, ExtendedFacts
  <2>3. f.key = c
    BY <1>10, <2>1, <2>2
  <2>4. extract_sni(pkts[Extended(f).ids[1]].conn, Extended(f).payload) = {Sni[c]}
    BY <1>6, <2>1, <2>3, CompletedName DEF Plain
  <2> QED BY <1>5, <1>8, <2>1, <2>4
<1> QED BY <1>1, <1>11, <1>12, <1>13, <1>14, <1>15, <1>16 DEF Case

(* Every step keeps the first cell back, or gives up the connection.         *)
LEMMA RefusedKept ==
  ASSUME IInv, SInv, RefusedNotBegun, [Next]_vars
  PROVE  RefusedNotBegun'
<1> USE DEF QUEUED, ACCEPT, DROP
<1>1. failopen \subseteq failopen'
  <2>1. CASE packet_handle
    BY <2>1 DEF packet_handle, packet_handle_tcp443, NewFlow, ContinueFlow, GiveUp,
                packet_handle_tcp80, packet_handle_udp53
  <2>2. CASE ~packet_handle
    BY <2>2 DEF Next, Client, Send, Rewind, Resend, SendQuery, Enqueue, Tick, ReceiveError,
                Restart, vars
  <2> QED BY <2>1, <2>2
<1> SUFFICES ASSUME NEW c \in Conns, c \notin failopen', Refused(c), Plain(c), Begun(c)'
             PROVE  FALSE
  BY DEF RefusedNotBegun, Refused, Plain, OwnPort, NameInside
<1>2. ~Begun(c)
  BY <1>1 DEF RefusedNotBegun
<1>3. ASSUME NEW p, Enqueue(p)
      PROVE  FALSE
  <2>1. PICK m : m = Len(pkts) + 1
    OBVIOUS
  <2>2. /\ DOMAIN pkts' = DOMAIN pkts \cup {m} /\ pkts'[m] = p
        /\ fate'[m] = IF alive THEN QUEUED ELSE ACCEPT
        /\ \A i \in DOMAIN pkts : pkts'[i] = pkts[i] /\ fate'[i] = fate[i]
    BY <1>3, <2>1, EnqueueEffect
  <2>3. PICK i \in DOMAIN pkts' : /\ pkts'[i].port = 443 /\ pkts'[i].conn = c
                                  /\ fate'[i] = ACCEPT /\ pkts'[i].from = 0 /\ pkts'[i].len > 0
    BY DEF Begun, Mine
  <2>4. i \notin DOMAIN pkts
    BY <1>2, <2>2, <2>3 DEF Begun, Mine
  <2>5. ~alive /\ p.port = 443 /\ p.conn = c
    BY <2>2, <2>3, <2>4
  <2> QED BY <1>3, <2>5 DEF Enqueue
<1>4. CASE UNCHANGED <<pkts, fate>>
  BY <1>2, <1>4 DEF Begun, Mine
<1>5. CASE \E d \in Conns : Client(d)
  BY <1>3, <1>4, <1>5 DEF Client, Send, Resend, Rewind
<1>6. CASE \E q \in Queries : SendQuery(q)
  BY <1>3, <1>6 DEF SendQuery
<1>7. CASE packet_handle
  BY <1>2, <1>7, HandleRefuses
<1>8. CASE ReceiveError
  <2>1. /\ pkts' = pkts /\ DOMAIN fate = DOMAIN pkts
        /\ \A i \in DOMAIN fate : fate'[i] = ACCEPT => fate[i] = ACCEPT
    BY <1>8, StreamTypes DEF ReceiveError, Exit, Queued, IInv
  <2> QED BY <1>2, <2>1 DEF Begun, Mine
<1>9. CASE Tick \/ Restart \/ UNCHANGED vars
  BY <1>4, <1>9 DEF Tick, Restart, vars
<1> QED BY <1>5, <1>6, <1>7, <1>8, <1>9 DEF Next

(* When every connection with a refused name is one whose hello can be       *)
(* judged, no refused name leaves the host in a ClientHello, whatever the    *)
(* lookups find: only connections the daemon gave up are excepted.           *)
THEOREM RefusedNamesStay ==
  ASSUME \A c \in Conns : Refused(c) => Plain(c)
  PROVE  Spec => []DeniedNameBlocked
<1>1. Init => RefusedNotBegun
  BY DEF Init, RefusedNotBegun, Begun, Mine
<1>2. IInv /\ SInv /\ RefusedNotBegun /\ [Next]_vars => RefusedNotBegun'
  BY RefusedKept
<1>3. IInv /\ RefusedNotBegun => DeniedNameBlocked
  <2> SUFFICES ASSUME IInv, RefusedNotBegun, NEW c \in Conns \ failopen, Refused(c)
               PROVE  ~(1 .. NameEnd[c] \subseteq Delivered(c))
    BY DEF DeniedNameBlocked, Refused
  <2>1. 1 \notin Delivered(c)
    BY BegunDelivered DEF RefusedNotBegun, IInv
  <2>2. 1 \in 1 .. NameEnd[c]
    BY SizeAssumption DEF Plain
  <2> QED BY <2>1, <2>2
<1> QED BY <1>1, <1>2, <1>3, Invariance, Reassembly, PTL DEF Spec

(* A packet that a running daemon drops outside a collection.                *)
Dropped(i) ==
  /\ fate[i] = QUEUED /\ fate'[i] = DROP /\ alive' /\ lastgc' = lastgc
  /\ pkts[i].port = 443 => pkts[i].conn \notin resent

(* A handler drops packets whose own name is refused, and no other.          *)
LEMMA HandleDrops ==
  ASSUME IInv, SInv, packet_handle, \A c \in Conns : OwnPort(c) /\ NameInside(c),
         NEW i \in DOMAIN fate, Dropped(i)
  PROVE  NameIn(pkts[i]) \in Domains /\ DROP \in Access[NameIn(pkts[i])]
<1> USE DEF QUEUED, ACCEPT, DROP
<1>1. PICK Q, v, F, gc : Finish(Q, v, F, gc) /\ Case(Q, v, F, gc)
  BY HandlerCases
<1>2. i \in Queued
  BY DEF Dropped, Queued
<1>3. lastgc = gc /\ v = DROP /\ \E q \in Q : i \in RangeOf(q)
  BY <1>1, <1>2, FinishEffect DEF Dropped
<1>4. \A name : DROP \in check_access(name) => name # NoName /\ DROP \in Access[name]
  BY DEF check_access
<1>5. ASSUME Q = {<<taken + 1>>}
      PROVE  pkts[i] = Arrived
  BY <1>3, <1>5 DEF RangeOf, Arrived
<1>6. CASE Passes(Q, v, F, gc) \/ GivesUp(Q, v, F, gc) \/ Extends(Q, v, F, gc)
  BY <1>3, <1>6 DEF Passes, GivesUp, Extends
<1>7. CASE Opens(Q, v, F, gc)
  BY <1>3, <1>7 DEF Opens
<1>8. CASE JudgesQuery(Q, v, F, gc)
  <2>1. pkts[i] = Arrived /\ Arrived.port \in {53, 80}
    BY <1>5, <1>8 DEF JudgesQuery
  <2>2. Arrived \in Queries
    BY <2>1, ArrivedFacts DEF SInv, OthersAreQueries, Arrived
  <2>3. /\ Arrived.kind \in Kinds /\ Arrived.name \in Domains \cup {NoName}
        /\ Arrived.kind \in {"nomethod", "nohost"} => Arrived.port = 80
        /\ Arrived.kind \in {"noquestion", "othertype"} => Arrived.port = 53
    BY <2>2, NameAssumption
  <2>4. /\ Arrived.port = 80 => extract_http_payload(Arrived) = NameIn(Arrived)
        /\ Arrived.port = 53 => extract_dns_domain(Arrived) = NameIn(Arrived)
    BY <2>1, <2>3 DEF extract_http_payload, extract_dns_domain, NameIn, Kinds
  <2>5. NameIn(Arrived) \in Domains \cup {NoName}
    BY <2>1, <2>3, NameAssumption DEF NameIn
  <2> QED BY <1>3, <1>4, <1>8, <2>1, <2>4, <2>5 DEF JudgesQuery
<1>9. ASSUME NEW c \in Conns, v \in check_access(Sni[c]), pkts[i].port = 443, pkts[i].conn = c
      PROVE  NameIn(pkts[i]) \in Domains /\ DROP \in Access[NameIn(pkts[i])]
  <2>1. NameIn(pkts[i]) = Sni[c]
    BY <1>9 DEF NameIn
  <2>2. Sni[c] \in Domains \cup {NoName}
    BY NameAssumption
  <2> QED BY <1>3, <1>4, <1>9, <2>1, <2>2
<1>10. CASE JudgesHello(Q, v, F, gc)
  <2>1. /\ pkts[i] = Arrived /\ Arrived.port = 443 /\ Arrived.conn \in Conns
        /\ Arrived.from = 0 /\ Arrived.len >= RecLen[Arrived.conn]
        /\ \E name \in extract_sni(Arrived.conn, Cells(Arrived)) : v \in check_access(name)
    BY <1>5, <1>10, ArrivedFacts DEF JudgesHello, NotFound
  <2>2. extract_sni(Arrived.conn, Cells(Arrived)) = {Sni[Arrived.conn]}
    BY <2>1, HelloName
  <2> QED BY <1>9, <2>1, <2>2
<1>11. CASE Completes(Q, v, F, gc)
  <2>1. PICK f \in flows :
          /\ Found(f, Arrived) /\ tcpflow_iscomplete(Extended(f)) /\ Q = {Extended(f).ids}
          /\ \E name \in extract_sni(pkts[Extended(f).ids[1]].conn, Extended(f).payload) :
               v \in check_access(name)
    BY <1>11 DEF Completes
  <2>2. i \in RangeOf(f.ids) \cup {taken + 1}
    BY <1>3, <2>1, ExtendedFacts
  <2>3. FromHello(f) /\ f.key \in Conns /\ OwnPort(f.key) /\ NameInside(f.key)
    BY OwnFlow, ExtendedFacts DEF SInv, FlowsFromHellos, Flow
  <2>4. pkts[i].port = 443 /\ Key[pkts[i].conn] = f.key /\ Key[f.key] = f.key
    BY <2>1, <2>2, <2>3, OwnFlow DEF FromHello, RangeOf, Found, Arrived
  <2>5. pkts[i].conn \in Conns
    <3>1. pkts[i] \in Packet
      BY StreamTypes DEF IInv, TypeOK
    <3> QED BY <3>1 DEF Packet
  <2>6. pkts[i].conn = f.key
    BY <2>3, <2>4, <2>5 DEF OwnPort
  <2>7. f.key \notin resent
    BY <2>4, <2>6 DEF Dropped
  <2>8. extract_sni(pkts[Extended(f).ids[1]].conn, Extended(f).payload) = {Sni[f.key]}
    BY <2>1, <2>3, <2>7, CompletedName
  <2> QED BY <1>9, <2>1, <2>3, <2>4, <2>6, <2>8
<1> QED BY <1>1, <1>6, <1>7, <1>8, <1>10, <1>11 DEF Case

(* When the connections have ports of their own and their names lie in what  *)
(* a flow waits for, a running daemon drops, outside a collection, only what *)
(* carries a refused name itself, whatever the lookups find.                 *)
THEOREM DropsAreDeserved ==
  ASSUME \A c \in Conns : OwnPort(c) /\ NameInside(c)
  PROVE  Spec => AllowedNotDropped
<1>1. IInv /\ SInv /\ [Next]_vars =>
        [\A i \in DOMAIN fate :
           (/\ fate[i] = QUEUED /\ fate'[i] = DROP /\ alive' /\ lastgc' = lastgc
            /\ pkts[i].port = 443 => pkts[i].conn \notin resent)
             => NameIn(pkts[i]) \in Domains /\ DROP \in Access[NameIn(pkts[i])]]_vars
  <2> SUFFICES ASSUME IInv, SInv, [Next]_vars, NEW i \in DOMAIN fate, Dropped(i)
               PROVE  NameIn(pkts[i]) \in Domains /\ DROP \in Access[NameIn(pkts[i])]
    BY DEF Dropped
  <2>1. CASE packet_handle
    BY <2>1, HandleDrops
  <2>2. ASSUME NEW p, Enqueue(p)
        PROVE  FALSE
    <3>1. fate'[i] = fate[i]
      BY <2>2, EnqueueEffect, StreamTypes DEF IInv
    <3> QED BY <3>1 DEF Dropped, QUEUED, DROP
  <2>3. CASE UNCHANGED fate
    BY <2>3 DEF Dropped, QUEUED, DROP
  <2>4. CASE ReceiveError
    BY <2>4 DEF ReceiveError, Exit, Dropped
  <2>5. CASE \E c \in Conns : Client(c)
    BY <2>2, <2>3, <2>5 DEF Client, Send, Resend, Rewind
  <2>6. CASE \E q \in Queries : SendQuery(q)
    BY <2>2, <2>6 DEF SendQuery
  <2> QED BY <2>1, <2>3, <2>4, <2>5, <2>6 DEF Next, Tick, Restart, vars
<1> QED BY <1>1, Invariance, Reassembly, PTL DEF Spec, AllowedNotDropped
=============================================================================
