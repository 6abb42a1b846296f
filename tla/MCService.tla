------------------------------ MODULE MCService ------------------------------
(* Service for TLC: calls are interchangeable. *)
EXTENDS Service, TLC

Calls == Permutations(Call)
=============================================================================
