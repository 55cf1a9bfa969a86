---------------------------- MODULE MCSmuSession ----------------------------
(* Small instances of SmuSession. *)
EXTENDS SmuSession
=============================================================================
