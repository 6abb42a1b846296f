------------------------------ MODULE QueryLog ------------------------------
(***************************************************************************)
(* What the engine promises of the log of one database while its process   *)
(* lives: a legal history behind it, and one accepted query after another. *)
(* Engine implements it; RollupNode and Validator are built on the same    *)
(* operator `accepts'.                                                     *)
(***************************************************************************)
EXTENDS Nonces

VARIABLE log    \* the committed queries

Init == Legal(log)

(* One more query, the last of the new log. *)
Accept ==
  /\ Len(log') = Len(log) + 1
  /\ LET q == log'[Len(log')]
     IN  q \in Query /\ accepts(log, q) /\ log' = Append(log, q)

Spec == Init /\ [][Accept]_log
=============================================================================
