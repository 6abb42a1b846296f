------------------------------ MODULE WalFeed ------------------------------
(***************************************************************************)
(* What a node promises those who follow its log on HyperBEAM: every       *)
(* message is a bundle of consecutive entries of its durable WAL, under    *)
(* their numbers.  Bundles may repeat one another, come late, and leave    *)
(* gaps.  RollupNode implements it, and is what Validator takes the        *)
(* messages it downloads from.                                             *)
(***************************************************************************)
EXTENDS Integers, Sequences

VARIABLES
  size,   \* how many entries the durable WAL has
  hb      \* the bundles in the HyperBEAM log: the numbers of their entries

Init == size = 0 /\ hb = <<>>

Grow == size' \in Nat /\ size' > size /\ UNCHANGED hb

(* The entries f..t-1. *)
Ship(f, t) ==
  /\ f < t /\ t <= size
  /\ hb' = Append(hb, [k \in 1..(t - f) |-> f + k - 1])
  /\ UNCHANGED size

Next == Grow \/ \E f \in 0..size, t \in 1..size : Ship(f, t)

Spec == Init /\ [][Next]_<<size, hb>>
=============================================================================
