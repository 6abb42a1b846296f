------------------------------ MODULE MCBundler ------------------------------
(* Bundler for TLC; its constants get their values in the .cfg file. *)
EXTENDS Bundler
=============================================================================
