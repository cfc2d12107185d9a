---------------------------- MODULE DaemonProofs ----------------------------
(***************************************************************************)
(* Proofs about Daemon, for any number of clients and any queue length.    *)
(*                                                                         *)
(* FilteredIsUnreachable is not inductive: it rests on the fact that none  *)
(* of the packets of a running call has left the host.  Those packets are  *)
(* in the queue only while the thread waits for the call, and while it     *)
(* waits it receives nothing; when the call ends they stop belonging to a  *)
(* running call.                                                           *)
(***************************************************************************)
EXTENDS Daemon, SequenceTheorems, TLAPS

(* One packet is at hand exactly while the thread is not at recv. *)
HandInv ==
  IF pc = "recv" THEN hand = <<>>
  ELSE Len(hand) = 1 /\ hand[1] \in Packet /\ hand[1].mine = FALSE

Foreign(q) == \A k \in DOMAIN q : q[k].mine = FALSE

(* Packets of a call wait only while the call runs, and none has left. *)
CallInv ==
  /\ pc \in {"recv", "decide"} => Foreign(queue)
  /\ passed = FALSE

IInv == TypeOK /\ HandInv /\ CallInv /\ FilteredIsUnreachable

-----------------------------------------------------------------------------
(* Lemmas about the helpers. *)

(* A packet sent by the daemon to a server that is not reached directly is a *)
(* packet of the queue.                                                      *)
LEMMA OwnTyped ==
  ASSUME TypeOK, NEW s \in Servers, route[s] # "direct"
  PROVE  Own(s) \in Packet
<1>1. route[s] \in {"dns", "tcp"}
  BY DEF TypeOK
<1> QED
  BY <1>1 DEF Own, Packet

(* Call leaves a queue within its limit. *)
LEMMA CallTyped ==
  ASSUME TypeOK, NEW s \in Servers,
         NEW q \in Seq(Packet), Len(q) <= QUEUE_MAXLEN, Call(s, q)
  PROVE  queue' \in Seq(Packet) /\ Len(queue') <= QUEUE_MAXLEN /\ passed' = FALSE
<1>1. QUEUE_MAXLEN \in Nat /\ Len(q) \in Nat
  BY DaemonAssumption
<1>2. CASE route[s] = "direct" \/ Len(q) >= QUEUE_MAXLEN
  BY <1>2 DEF Call
<1>3. CASE ~(route[s] = "direct" \/ Len(q) >= QUEUE_MAXLEN)
  <2>1. Own(s) \in Packet
    BY <1>3, OwnTyped
  <2>2. queue' = Append(q, Own(s)) /\ passed' = FALSE
    BY <1>3 DEF Call
  <2>3. Append(q, Own(s)) \in Seq(Packet) /\ Len(Append(q, Own(s))) = Len(q) + 1
    BY <2>1, AppendProperties
  <2> QED
    BY <1>1, <1>3, <2>2, <2>3
<1> QED
  BY <1>2, <1>3

(* Forgetting a call keeps the queue's packets and leaves none of the call. *)
LEMMA ForgetTyped ==
  ASSUME NEW q \in Seq(Packet)
  PROVE  /\ Forget(q) \in Seq(Packet)
         /\ Len(Forget(q)) = Len(q)
         /\ Foreign(Forget(q))
<1>1. DOMAIN q = 1..Len(q) /\ Len(q) \in Nat
  OBVIOUS
<1>2. \A k \in DOMAIN q : q[k] \in Packet
  OBVIOUS
<1>3. \A k \in DOMAIN q : [q[k] EXCEPT !.mine = FALSE] \in Packet
  BY <1>2 DEF Packet
<1>4. \A k \in DOMAIN q : [q[k] EXCEPT !.mine = FALSE].mine = FALSE
  BY <1>2 DEF Packet
<1>5. Forget(q) \in [1..Len(q) -> Packet]
  BY <1>1, <1>3 DEF Forget
<1>6. Forget(q) \in Seq(Packet) /\ Len(Forget(q)) = Len(q)
  BY <1>1, <1>5
<1>7. Foreign(Forget(q))
  BY <1>4 DEF Forget, Foreign
<1> QED
  BY <1>6, <1>7

(* While nothing of the call has left, only a server that is reached directly *)
(* can answer.                                                               *)
LEMMA OutcomeSafe ==
  ASSUME IInv, NEW s \in Servers, Outcome(s), UNCHANGED route
  PROVE  reached' \subseteq Servers /\ FilteredIsUnreachable'
<1>1. reached \subseteq Servers /\ (\A t \in reached : route[t] = "direct") /\ passed = FALSE
  BY DEF IInv, TypeOK, CallInv, FilteredIsUnreachable
<1>2. CASE CanAnswer(s) /\ reached' = reached \cup {s}
  <2>1. route[s] = "direct"
    BY <1>1, <1>2 DEF CanAnswer
  <2> QED
    BY <1>1, <1>2, <2>1 DEF FilteredIsUnreachable
<1>3. CASE UNCHANGED reached
  BY <1>1, <1>3 DEF FilteredIsUnreachable
<1> QED
  BY <1>2, <1>3 DEF Outcome

(* The head and the rest of the queue. *)
LEMMA QueueHead ==
  ASSUME TypeOK, queue # <<>>
  PROVE  /\ Head(queue) \in Packet /\ Head(queue) = queue[1] /\ 1 \in DOMAIN queue
         /\ Tail(queue) \in Seq(Packet)
         /\ Len(Tail(queue)) <= QUEUE_MAXLEN
         /\ Foreign(queue) => Foreign(Tail(queue))
<1>1. queue \in Seq(Packet) /\ Len(queue) <= QUEUE_MAXLEN /\ QUEUE_MAXLEN \in Nat
  BY DaemonAssumption DEF TypeOK
<1>2. Len(queue) \in Nat /\ Len(queue) > 0 /\ DOMAIN queue = 1..Len(queue)
  BY <1>1, EmptySeq
<1>3. Tail(queue) \in Seq(Packet) /\ Len(Tail(queue)) = Len(queue) - 1
      /\ \A k \in 1..Len(Tail(queue)) : Tail(queue)[k] = queue[k+1]
  BY <1>1, <1>2, HeadTailProperties
<1>4. Foreign(queue) => Foreign(Tail(queue))
  <2>1. DOMAIN Tail(queue) = 1..Len(Tail(queue))
    BY <1>3
  <2> QED
    BY <1>2, <1>3, <2>1 DEF Foreign
<1> QED
  BY <1>1, <1>2, <1>3, <1>4

-----------------------------------------------------------------------------
(* Every step keeps the invariant. *)

LEMMA SendKeeps ==
  ASSUME IInv, NEW c \in Clients, Send(c)
  PROVE  IInv'
<1> DEFINE p == [from |-> c, kind |-> "dns", mine |-> FALSE]
<1>1. p \in Packet /\ p.mine = FALSE
  BY DEF Packet
<1>2. queue \in Seq(Packet) /\ Len(queue) < QUEUE_MAXLEN /\ QUEUE_MAXLEN \in Nat
  BY DaemonAssumption DEF IInv, TypeOK, Send
<1>3. queue' = Append(queue, p)
  BY DEF Send
<1> HIDE DEF p
<1>4. /\ queue' \in Seq(Packet) /\ Len(queue') = Len(queue) + 1
      /\ \A k \in 1..Len(queue) : queue'[k] = queue[k]
      /\ queue'[Len(queue) + 1] = p
  BY <1>1, <1>2, <1>3, AppendProperties
<1>5. Len(queue') <= QUEUE_MAXLEN
  BY <1>2, <1>4
<1>6. Foreign(queue) => Foreign(queue')
  <2>1. DOMAIN queue' = 1..Len(queue) + 1 /\ Len(queue) \in Nat /\ DOMAIN queue = 1..Len(queue)
    BY <1>2, <1>4
  <2> QED
    BY <1>1, <1>4, <2>1 DEF Foreign
<1>7. UNCHANGED <<route, hand, pc, passed, reached>>
  BY DEF Send
<1>8. TypeOK'
  BY <1>4, <1>5, <1>7 DEF IInv, TypeOK
<1>9. HandInv' /\ CallInv' /\ FilteredIsUnreachable'
  BY <1>6, <1>7 DEF IInv, HandInv, CallInv, FilteredIsUnreachable
<1> QED
  BY <1>8, <1>9 DEF IInv

LEMMA RepeatKeeps ==
  ASSUME IInv, Repeat
  PROVE  IInv'
<1>1. Callee \in Servers /\ route[Callee] # "direct"
  BY DEF Callee, Servers, Repeat
<1>2. Own(Callee) \in Packet
  BY <1>1, OwnTyped DEF IInv
<1>3. queue \in Seq(Packet) /\ Len(queue) < QUEUE_MAXLEN /\ QUEUE_MAXLEN \in Nat
      /\ queue' = Append(queue, Own(Callee))
  BY DaemonAssumption DEF IInv, TypeOK, Repeat
<1>4. queue' \in Seq(Packet) /\ Len(queue') = Len(queue) + 1
  BY <1>2, <1>3, AppendProperties
<1>5. Len(queue') <= QUEUE_MAXLEN
  BY <1>3, <1>4
<1>6. UNCHANGED <<route, hand, pc, passed, reached>> /\ pc \in {"lookup", "auth", "send"}
  BY DEF Repeat
<1>7. TypeOK'
  BY <1>4, <1>5, <1>6 DEF IInv, TypeOK
<1>8. HandInv' /\ CallInv' /\ FilteredIsUnreachable'
  BY <1>6 DEF IInv, HandInv, CallInv, FilteredIsUnreachable
<1> QED
  BY <1>7, <1>8 DEF IInv

(* The packet received belongs to no running call. *)
LEMMA ReceiveKeeps ==
  ASSUME IInv, Receive
  PROVE  IInv'
<1> DEFINE p == Head(queue)
<1>1. /\ p \in Packet /\ p = queue[1] /\ 1 \in DOMAIN queue
      /\ Tail(queue) \in Seq(Packet) /\ Len(Tail(queue)) <= QUEUE_MAXLEN
      /\ Foreign(queue) => Foreign(Tail(queue))
  BY QueueHead DEF IInv, Receive
<1>2. pc = "recv" /\ Foreign(queue) /\ passed = FALSE /\ UNCHANGED <<route, reached>>
  BY DEF IInv, CallInv, Receive
<1>3. p.mine = FALSE
  BY <1>1, <1>2 DEF Foreign
<1>4. FilteredIsUnreachable'
  BY <1>2 DEF IInv, FilteredIsUnreachable
<1>5. CASE /\ queue' = Tail(queue) /\ Leave(p)
           /\ UNCHANGED <<hand, pc>>
  <2>1. passed' = FALSE
    BY <1>2, <1>3, <1>5 DEF Leave
  <2>2. TypeOK'
    BY <1>1, <1>2, <1>5, <2>1 DEF IInv, TypeOK
  <2>3. HandInv' /\ CallInv'
    BY <1>1, <1>2, <1>5, <2>1 DEF IInv, HandInv, CallInv
  <2> QED
    BY <1>4, <2>2, <2>3 DEF IInv
<1>6. ASSUME hand' = <<p>>
      PROVE  hand' \in Seq(Packet) /\ (pc' # "recv" => HandInv')
  <2> HIDE DEF p
  <2>1. hand' \in Seq(Packet) /\ Len(hand') = 1 /\ hand'[1] = p
    BY <1>1, <1>6
  <2> QED
    BY <1>1, <1>3, <2>1 DEF HandInv
<1>7. CASE /\ hand' = <<p>> /\ pc' = "decide"
           /\ queue' = Tail(queue) /\ UNCHANGED passed
  <2>1. TypeOK'
    BY <1>1, <1>2, <1>6, <1>7 DEF IInv, TypeOK
  <2>2. HandInv' /\ CallInv'
    BY <1>1, <1>2, <1>6, <1>7 DEF CallInv
  <2> QED
    BY <1>4, <2>1, <2>2 DEF IInv
<1>8. CASE /\ hand' = <<p>> /\ pc' = "lookup"
           /\ Call("lookup", Tail(queue))
  <2>1. queue' \in Seq(Packet) /\ Len(queue') <= QUEUE_MAXLEN /\ passed' = FALSE
    BY <1>1, <1>8, CallTyped DEF IInv, Servers
  <2>2. TypeOK'
    BY <1>2, <1>6, <1>8, <2>1 DEF IInv, TypeOK
  <2>3. HandInv' /\ CallInv'
    BY <1>6, <1>8, <2>1 DEF CallInv
  <2> QED
    BY <1>4, <2>2, <2>3 DEF IInv
<1> QED
  BY <1>5, <1>7, <1>8 DEF Receive

LEMMA LookupEndsKeeps ==
  ASSUME IInv, LookupEnds
  PROVE  IInv'
<1>1. /\ pc = "lookup" /\ pc' = "decide" /\ queue' = Forget(queue)
      /\ UNCHANGED <<route, hand, passed>> /\ Outcome("lookup")
  BY DEF LookupEnds
<1>2. queue' \in Seq(Packet) /\ Len(queue') = Len(queue) /\ Foreign(queue')
  BY <1>1, ForgetTyped DEF IInv, TypeOK
<1>3. reached' \subseteq Servers /\ FilteredIsUnreachable'
  BY <1>1, OutcomeSafe DEF Servers
<1>4. TypeOK'
  BY <1>1, <1>2, <1>3 DEF IInv, TypeOK
<1>5. HandInv' /\ CallInv'
  BY <1>1, <1>2 DEF IInv, HandInv, CallInv
<1> QED
  BY <1>3, <1>4, <1>5 DEF IInv

(* The packet at hand leaves the host, and it belongs to no running call. *)
LEMMA VerdictKeeps ==
  ASSUME IInv, pc # "recv", Verdict
  PROVE  /\ hand' = <<>> /\ hand' \in Seq(Packet) /\ pc' = "recv"
         /\ HandInv' /\ passed' = FALSE
<1>1. hand[1].mine = FALSE /\ passed = FALSE
  BY DEF IInv, HandInv, CallInv
<1>2. passed' = (passed \/ hand[1].mine) /\ hand' = <<>> /\ pc' = "recv"
  BY DEF Verdict, Leave
<1>3. passed' = FALSE
  BY <1>1, <1>2
<1>4. hand' \in Seq(Packet)
  BY <1>2
<1>5. HandInv'
  BY <1>2 DEF HandInv
<1> QED
  BY <1>2, <1>3, <1>4, <1>5

LEMMA DecideKeeps ==
  ASSUME IInv, Decide
  PROVE  IInv'
<1>1. pc = "decide" /\ UNCHANGED <<route, reached>>
  BY DEF Decide
<1>2. FilteredIsUnreachable'
  BY <1>1 DEF IInv, FilteredIsUnreachable
<1>3. CASE Verdict /\ UNCHANGED queue
  <2>1. hand' = <<>> /\ hand' \in Seq(Packet) /\ pc' = "recv" /\ HandInv' /\ passed' = FALSE
    BY <1>1, <1>3, VerdictKeeps
  <2>2. TypeOK'
    BY <1>1, <1>3, <2>1 DEF IInv, TypeOK
  <2>3. CallInv'
    BY <1>1, <1>3, <2>1 DEF IInv, CallInv
  <2> QED
    BY <1>2, <2>1, <2>2, <2>3 DEF IInv
<1>4. CASE pc' \in {"auth", "send"} /\ Call("log", queue) /\ UNCHANGED hand
  <2>1. queue' \in Seq(Packet) /\ Len(queue') <= QUEUE_MAXLEN /\ passed' = FALSE
    BY <1>4, CallTyped DEF IInv, TypeOK, Servers
  <2>2. TypeOK'
    BY <1>1, <1>4, <2>1 DEF IInv, TypeOK
  <2>3. HandInv' /\ CallInv'
    BY <1>1, <1>4, <2>1 DEF IInv, HandInv, CallInv
  <2> QED
    BY <1>2, <2>2, <2>3 DEF IInv
<1> QED
  BY <1>3, <1>4 DEF Decide

LEMMA AuthEndsKeeps ==
  ASSUME IInv, AuthEnds
  PROVE  IInv'
<1>1. /\ pc = "auth" /\ pc' = "send" /\ Call("log", Forget(queue))
      /\ UNCHANGED <<route, hand>> /\ Outcome("log")
  BY DEF AuthEnds
<1>2. Forget(queue) \in Seq(Packet) /\ Len(Forget(queue)) <= QUEUE_MAXLEN
  BY ForgetTyped DEF IInv, TypeOK
<1>3. queue' \in Seq(Packet) /\ Len(queue') <= QUEUE_MAXLEN /\ passed' = FALSE
  BY <1>1, <1>2, CallTyped DEF IInv, Servers
<1>4. reached' \subseteq Servers /\ FilteredIsUnreachable'
  BY <1>1, OutcomeSafe DEF Servers
<1>5. TypeOK'
  BY <1>1, <1>3, <1>4 DEF IInv, TypeOK
<1>6. HandInv' /\ CallInv'
  BY <1>1, <1>3 DEF IInv, HandInv, CallInv
<1> QED
  BY <1>4, <1>5, <1>6 DEF IInv

LEMMA SendEndsKeeps ==
  ASSUME IInv, SendEnds
  PROVE  IInv'
<1>1. /\ pc = "send" /\ Verdict /\ queue' = Forget(queue)
      /\ UNCHANGED route /\ Outcome("log")
  BY DEF SendEnds
<1>2. queue' \in Seq(Packet) /\ Len(queue') = Len(queue) /\ Foreign(queue')
  BY <1>1, ForgetTyped DEF IInv, TypeOK
<1>3. hand' = <<>> /\ hand' \in Seq(Packet) /\ pc' = "recv" /\ HandInv' /\ passed' = FALSE
  BY <1>1, VerdictKeeps
<1>4. reached' \subseteq Servers /\ FilteredIsUnreachable'
  BY <1>1, OutcomeSafe DEF Servers
<1>5. TypeOK'
  BY <1>1, <1>2, <1>3, <1>4 DEF IInv, TypeOK
<1>6. CallInv'
  BY <1>2, <1>3 DEF CallInv
<1> QED
  BY <1>3, <1>4, <1>5, <1>6 DEF IInv

-----------------------------------------------------------------------------
(* The inductive invariant holds in every state. *)
THEOREM Invariant == Spec => []IInv
<1>1. Init => IInv
  <2> SUFFICES ASSUME Init PROVE IInv
    OBVIOUS
  <2>1. QUEUE_MAXLEN \in Nat /\ Len(queue) = 0 /\ queue = <<>> /\ hand = <<>>
    BY DaemonAssumption DEF Init
  <2>2. queue \in Seq(Packet) /\ hand \in Seq(Packet) /\ Len(queue) <= QUEUE_MAXLEN
    BY <2>1
  <2>3. pc \in {"recv", "lookup", "decide", "auth", "send"} /\ passed \in BOOLEAN
        /\ reached \subseteq Servers /\ route \in [Servers -> {"direct", "dns", "tcp"}]
    BY DEF Init
  <2>4. TypeOK
    BY <2>2, <2>3 DEF TypeOK
  <2>5. HandInv /\ CallInv /\ FilteredIsUnreachable
    BY <2>1 DEF Init, HandInv, CallInv, Foreign, FilteredIsUnreachable
  <2> QED
    BY <2>4, <2>5 DEF IInv
<1>2. IInv /\ [Next]_vars => IInv'
  <2> SUFFICES ASSUME IInv, [Next]_vars PROVE IInv'
    OBVIOUS
  <2>1. CASE \E c \in Clients : Send(c)
    BY <2>1, SendKeeps
  <2>2. CASE Repeat
    BY <2>2, RepeatKeeps
  <2>3. CASE Receive
    BY <2>3, ReceiveKeeps
  <2>4. CASE LookupEnds
    BY <2>4, LookupEndsKeeps
  <2>5. CASE Decide
    BY <2>5, DecideKeeps
  <2>6. CASE AuthEnds
    BY <2>6, AuthEndsKeeps
  <2>7. CASE SendEnds
    BY <2>7, SendEndsKeeps
  <2>8. CASE UNCHANGED vars
    BY <2>8 DEF vars, IInv, TypeOK, HandInv, CallInv, Foreign, FilteredIsUnreachable
  <2> QED
    BY <2>1, <2>2, <2>3, <2>4, <2>5, <2>6, <2>7, <2>8 DEF Next
<1> QED
  BY <1>1, <1>2, PTL DEF Spec

(* The daemon keeps its types, and the kernel queue its limit, although the  *)
(* daemon's own packets come into the queue that it reads.                   *)
THEOREM TypeCorrect == Spec => []TypeOK
<1>1. IInv => TypeOK
  BY DEF IInv
<1> QED
  BY <1>1, Invariant, PTL

(* A server whose packets the daemon has to judge itself never answers one   *)
(* of its calls: domain_lookup and the cloud log wait for it in the thread   *)
(* that would have to let the packets pass.                                  *)
THEOREM FilteredNeverAnswers == Spec => []FilteredIsUnreachable
<1>1. IInv => FilteredIsUnreachable
  BY DEF IInv
<1> QED
  BY <1>1, Invariant, PTL
=============================================================================
