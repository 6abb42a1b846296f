---------------------------- MODULE MCAOUnits ----------------------------
(* AOUnits for TLC; its constants get their values in the .cfg file. *)
EXTENDS AOUnits
=============================================================================
