----------------------------- MODULE CommitLog -----------------------------
(***************************************************************************)
(* What the transactional store promises the rest of a node: a log of      *)
(* committed transactions of which a prefix is durable.  A commit appends, *)
(* a flush makes everything committed so far durable at once, and a crash  *)
(* keeps exactly the durable prefix.  WeaveKV implements it; RollupNode is *)
(* built on it.                                                            *)
(***************************************************************************)
EXTENDS Naturals, Sequences

CONSTANT Entry

VARIABLES
  log,      \* the committed transactions, durable or not
  durable   \* how many of them are durable

Init == log = <<>> /\ durable = 0

Commit(e) == log' = Append(log, e) /\ UNCHANGED durable
Flush == durable' = Len(log) /\ UNCHANGED log
Crash == log' = SubSeq(log, 1, durable) /\ UNCHANGED durable

Next == (\E e \in Entry : Commit(e)) \/ Flush \/ Crash

Spec == Init /\ [][Next]_<<log, durable>>

TypeOK == log \in Seq(Entry) /\ durable \in 0..Len(log)
=============================================================================
