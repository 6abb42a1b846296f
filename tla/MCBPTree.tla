------------------------------ MODULE MCBPTree ------------------------------
(* BPTree for TLC. *)
EXTENDS BPTree

Keys == 1..9
=============================================================================
