---------------------------- MODULE MCRollupNode ----------------------------
(* RollupNode for TLC; its constants get their values in the .cfg files. *)
EXTENDS RollupNode
=============================================================================
