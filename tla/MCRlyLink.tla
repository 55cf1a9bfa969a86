----------------------------- MODULE MCRlyLink -----------------------------
(* The instance: one connection of the client, so that with a cut or a     *)
(* restart the server has up to four, two of them at a time in the network.*)
EXTENDS RlyLink
=============================================================================
