---------------------------- MODULE MCDirectory ----------------------------
(* Directory for TLC: an index of two fields, triggers of each match type. *)
EXTENDS Directory, TLC

CONSTANTS x, y

MCCompound == {<<x, y>>}
MCTrigger ==
  {[on |-> {"create", "delete"}, fields |-> NONE, match |-> "all"],
   [on |-> {"update"}, fields |-> {x, y}, match |-> "all"],
   [on |-> {"update", "create"}, fields |-> {x, y}, match |-> "any"],
   [on |-> {"update"}, fields |-> {x}, match |-> "none"]}
Symmetry == Permutations(Value) \cup Permutations(Key)
=============================================================================
