----------------------------- MODULE LogChannel -----------------------------
(***************************************************************************)
(* What logging to the collector promises: an at-most-once channel.  Lines *)
(* are numbered as they are written; a pending line is stored once or is   *)
(* lost, and neither is ever taken back.                                   *)
(***************************************************************************)
EXTENDS Naturals, Sequences

VARIABLES
  written,   \* number of lines written
  pending,   \* lines on their way
  stored     \* lines in the collector's table, in the order they came in

vars == <<written, pending, stored>>

Init == written = 0 /\ pending = {} /\ stored = <<>>

Write ==
  /\ written' = written + 1
  /\ pending' = pending \cup {written'}
  /\ UNCHANGED stored

Store(i) ==
  /\ i \in pending
  /\ pending' = pending \ {i}
  /\ stored' = Append(stored, i)
  /\ UNCHANGED written

Lose == pending' \subseteq pending /\ UNCHANGED <<written, stored>>

Next == Write \/ (\E i \in pending : Store(i)) \/ Lose

Spec == Init /\ [][Next]_vars
=============================================================================
