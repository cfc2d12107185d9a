------------------------------- MODULE Daemon -------------------------------
(***************************************************************************)
(* The single thread of the daemon and the three calls it waits for in the *)
(* middle of a packet: the question to the lookup server, the request for  *)
(* a token and the transfer of the log.  The rules of nftrules are on the  *)
(* output hook, so the daemon's own packets come into its own queue when a *)
(* server is named by a host name (a DNS query) or listens on a filtered   *)
(* port (the packets of the connection).                                   *)
(*                                                                         *)
(* Verdicts, the cache and times are left out (see PacketFilter,           *)
(* AccessCheck and CloudLog): a name may be cached or not, the log due or  *)
(* not, at any time.                                                       *)
(***************************************************************************)
EXTENDS Naturals, Sequences

CONSTANTS
  Clients,        \* local programs; a packet of client c is about the name c
  QUEUE_MAXLEN    \* packets the kernel queue can hold

Servers == {"lookup", "log"}

ASSUME DaemonAssumption ==
  QUEUE_MAXLEN \in Nat /\ Clients \cap Servers = {}

VARIABLES
  route,     \* how each server is reached: "direct", "dns" or "tcp"
  queue,     \* packets waiting for a verdict and not received yet
  hand,      \* the packet being handled, if any
  pc,        \* what the thread does or waits for
  passed,    \* a packet of the running call has left the host
  reached    \* history: servers that answered a call

vars == <<route, queue, hand, pc, passed, reached>>

(* kind: a "dns" packet carries a name, a "tcp" packet of the daemon opens a *)
(* connection and has no payload.  mine: it belongs to the running call.     *)
Packet == [from : Clients \cup Servers, kind : {"dns", "tcp"}, mine : BOOLEAN]

Init ==
  /\ route \in [Servers -> {"direct", "dns", "tcp"}]
  /\ queue = <<>> /\ hand = <<>> /\ pc = "recv"
  /\ passed = FALSE /\ reached = {}

Waiting(c) ==
  \/ \E k \in DOMAIN queue : queue[k].from = c
  \/ \E k \in DOMAIN hand : hand[k].from = c

(* A client sends a packet and waits for what becomes of it. *)
Send(c) ==
  /\ ~Waiting(c) /\ Len(queue) < QUEUE_MAXLEN
  /\ queue' = Append(queue, [from |-> c, kind |-> "dns", mine |-> FALSE])
  /\ UNCHANGED <<route, hand, pc, passed, reached>>

-----------------------------------------------------------------------------
(* Calls. *)

Own(s) == [from |-> s, kind |-> route[s], mine |-> TRUE]

(* Mutant: the limit of the queue is off by one.                             *)
Call_OneMore(s, q) ==
  /\ passed' = FALSE
  /\ queue' = IF route[s] = "direct" \/ Len(q) > QUEUE_MAXLEN THEN q
              ELSE Append(q, Own(s))

(* The first packet of a call to server s, with q as the queue; a full queue *)
(* loses it.                                                                 *)
Call(s, q) ==
  /\ passed' = FALSE
  /\ queue' = IF route[s] = "direct" \/ Len(q) >= QUEUE_MAXLEN THEN q
              ELSE Append(q, Own(s))

Forget(q) == [k \in DOMAIN q |-> [q[k] EXCEPT !.mine = FALSE]]

CanAnswer(s) == route[s] = "direct" \/ passed

Callee == IF pc = "lookup" THEN "lookup" ELSE "log"

(* The resolver and TCP repeat a packet that is not answered. *)
Repeat ==
  /\ pc \in {"lookup", "auth", "send"}
  /\ route[Callee] # "direct" /\ Len(queue) < QUEUE_MAXLEN
  /\ queue' = Append(queue, Own(Callee))
  /\ UNCHANGED <<route, hand, pc, passed, reached>>

(* A call ends with an answer or without. *)
Outcome(s) ==
  \/ CanAnswer(s) /\ reached' = reached \cup {s}
  \/ UNCHANGED reached

-----------------------------------------------------------------------------
(* The thread. *)

Leave(p) == passed' = (passed \/ p.mine)

(* Mutant: packets are also received while the lookup waits.                 *)
Receive_Reentrant ==
  /\ pc \in {"recv", "lookup"} /\ queue # <<>>
  /\ LET p == Head(queue)
     IN  \/ /\ p.kind = "tcp"
            /\ queue' = Tail(queue) /\ Leave(p)
            /\ UNCHANGED <<hand, pc>>
         \/ /\ p.kind = "dns" /\ hand' = <<p>>
            /\ \/ pc' = "decide" /\ queue' = Tail(queue) /\ UNCHANGED passed
               \/ pc' = "lookup" /\ Call("lookup", Tail(queue))
  /\ UNCHANGED <<route, reached>>

(* The thread receives a packet.  One without a name is let through, a name  *)
(* the cache knows is decided at once, for another one the server is asked.  *)
Receive ==
  /\ pc = "recv" /\ queue # <<>>
  /\ LET p == Head(queue)
     IN  \/ /\ p.kind = "tcp"
            /\ queue' = Tail(queue) /\ Leave(p)
            /\ UNCHANGED <<hand, pc>>
         \/ /\ p.kind = "dns" /\ hand' = <<p>>
            /\ \/ pc' = "decide" /\ queue' = Tail(queue) /\ UNCHANGED passed
               \/ pc' = "lookup" /\ Call("lookup", Tail(queue))
  /\ UNCHANGED <<route, reached>>

(* Mutant: the question is put again when its timeout has passed.            *)
LookupEnds_AsksAgain ==
  /\ pc = "lookup"
  /\ \/ /\ CanAnswer("lookup") /\ Outcome("lookup")
        /\ queue' = Forget(queue) /\ pc' = "decide"
        /\ UNCHANGED passed
     \/ Call("lookup", Forget(queue)) /\ UNCHANGED <<pc, reached>>
  /\ UNCHANGED <<route, hand>>

(* The lookup returns, after its timeout at the latest.                      *)
LookupEnds ==
  /\ pc = "lookup"
  /\ Outcome("lookup")
  /\ queue' = Forget(queue)
  /\ pc' = "decide"
  /\ UNCHANGED <<route, hand, passed>>

(* The verdict for the packet at hand.                                       *)
Verdict ==
  /\ Leave(hand[1])
  /\ hand' = <<>>
  /\ pc' = "recv"

(* check_access writes its line: the log may be due, its token old.          *)
Decide ==
  /\ pc = "decide"
  /\ \/ Verdict /\ UNCHANGED queue
     \/ /\ pc' \in {"auth", "send"} /\ Call("log", queue)
        /\ UNCHANGED hand
  /\ UNCHANGED <<route, reached>>

AuthEnds ==
  /\ pc = "auth"
  /\ Outcome("log")
  /\ pc' = "send" /\ Call("log", Forget(queue))
  /\ UNCHANGED <<route, hand>>

SendEnds ==
  /\ pc = "send"
  /\ Outcome("log")
  /\ Verdict /\ queue' = Forget(queue)
  /\ UNCHANGED route

Next ==
  \/ \E c \in Clients : Send(c)
  \/ Repeat
  \/ Receive \/ LookupEnds \/ Decide \/ AuthEnds \/ SendEnds

Spec == Init /\ [][Next]_vars

(* The thread goes on by itself, and the lookup has a timeout.  The calls to *)
(* the collector have none: they surely end only while a name is resolved or *)
(* a connection opened, which libcurl and the resolver limit.                *)
FairSpec ==
  /\ Spec
  /\ WF_vars(Receive) /\ WF_vars(LookupEnds) /\ WF_vars(Decide)
  /\ WF_vars(route["log"] # "direct" /\ (AuthEnds \/ SendEnds))

-----------------------------------------------------------------------------
(* Properties. *)

TypeOK ==
  /\ route \in [Servers -> {"direct", "dns", "tcp"}]
  /\ queue \in Seq(Packet) /\ Len(queue) <= QUEUE_MAXLEN
  /\ hand \in Seq(Packet)
  /\ pc \in {"recv", "lookup", "decide", "auth", "send"}
  /\ passed \in BOOLEAN /\ reached \subseteq Servers

(* The collector has the daemon's connection open and does not answer. *)
CollectorStalls == pc \in {"auth", "send"} /\ route["log"] = "direct"

(* Of the calls the thread waits in, only one to a collector that stalls for *)
(* ever keeps a client's packet from its verdict: the daemon's own packets,  *)
(* which wait for it while it waits for them, and bring forth more of their  *)
(* kind, hold it up for a timeout only.  Hellos the flow cache holds back or *)
(* forgets, which can fill the queue too, are PacketFilter's.                *)
OnlyCollectorStops ==
  \A c \in Clients : Waiting(c) ~> (~Waiting(c) \/ []CollectorStalls)

(* A server whose packets come into the queue never answers, because no      *)
(* packet of a call leaves the host before the call has ended.               *)
FilteredIsUnreachable == \A s \in reached : route[s] = "direct"
=============================================================================
