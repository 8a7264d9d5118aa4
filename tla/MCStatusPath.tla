---------------------------- MODULE MCStatusPath ----------------------------
(* Small instances of StatusPath. *)
EXTENDS StatusPath
=============================================================================
