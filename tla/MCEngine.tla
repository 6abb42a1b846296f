------------------------------ MODULE MCEngine ------------------------------
(* Engine for TLC: a new database, or one with an open directory; rule     *)
(* lists of the kinds setAuth tells apart (none, one, two with the same    *)
(* key); batches that fail half way, write what they deleted, or write     *)
(* nothing.                                                                *)
EXTENDS Engine, TLC

CONSTANTS d1, d2

all == [ops |-> {"add", "set", "update", "del"}, who |-> "anyone"]
adds == [ops |-> {"add"}, who |-> "owner"]
addsToo == [ops |-> {"add"}, who |-> "anyone"]

MCRuleSet == {<<>>, <<all>>, <<adds, addsToo>>}
MCBatches ==
  {<<[op |-> "set", dir |-> d1, doc |-> 0], [op |-> "add", dir |-> d2]>>,
   <<[op |-> "del", dir |-> d1, doc |-> 0], [op |-> "update", dir |-> d1, doc |-> 0]>>,
   <<>>, <<[op |-> "init"], [op |-> "mkdir", dir |-> d2]>>}
By(a, n, op) == [q |-> Single(a, n, op)]
Opened(a) ==
  <<By(a, 1, [op |-> "init"]), By(a, 2, [op |-> "mkdir", dir |-> d1]),
    By(a, 3, [op |-> "setAuth", dir |-> d1, rules |-> <<all>>])>>
MCHistories == {<<>>} \cup {Opened(a) : a \in Account}
Symmetry == Permutations(Account)
=============================================================================
