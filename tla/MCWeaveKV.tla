----------------------------- MODULE MCWeaveKV -----------------------------
(* WeaveKV for TLC; its constants get their values in the .cfg files. *)
EXTENDS WeaveKV
=============================================================================
