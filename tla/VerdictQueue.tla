---------------------------- MODULE VerdictQueue ----------------------------
(***************************************************************************)
(* What the packet loop promises to the kernel queue, without flows, names *)
(* or timers: packets are taken in the order they were queued; the daemon  *)
(* may keep a packet it took; a verdict goes only to the packet just taken *)
(* or to kept ones, is the same for all that one step settles, and is      *)
(* final; only the end of the process settles packets in another way.      *)
(***************************************************************************)
EXTENDS Integers, Sequences

CONSTANTS QUEUED, Verdicts

VARIABLES
  fate,    \* fate[i]: QUEUED, or the verdict packet i got
  taken,   \* packets 1 .. taken have been received
  held     \* received packets kept for a later verdict

vars == <<fate, taken, held>>

Init == fate = <<>> /\ taken = 0 /\ held = {}

Arrive == fate' = Append(fate, QUEUED) /\ UNCHANGED <<taken, held>>

(* No process is bound to the queue: the packet passes. *)
Pass ==
  /\ taken = Len(fate) /\ held = {}
  /\ \E v \in Verdicts : fate' = Append(fate, v)
  /\ taken' = taken + 1
  /\ UNCHANGED held

Settle(S, v) == fate' = [i \in DOMAIN fate |-> IF i \in S THEN v ELSE fate[i]]

Take ==
  /\ taken < Len(fate)
  /\ taken' = taken + 1
  /\ \E S \in SUBSET (held \cup {taken'}), v \in Verdicts :
       /\ \A i \in S : fate[i] = QUEUED
       /\ Settle(S, v)
       /\ held' \subseteq (held \cup {taken'}) \ S

(* The process ends; the kernel settles what is left. *)
Stop ==
  /\ taken' = Len(fate) /\ held' = {}
  /\ DOMAIN fate' = DOMAIN fate
  /\ \A i \in DOMAIN fate :
       IF fate[i] = QUEUED THEN fate'[i] \in Verdicts ELSE fate'[i] = fate[i]

Next == Arrive \/ Pass \/ Take \/ Stop

Spec == Init /\ [][Next]_vars
=============================================================================
