---------------------------- MODULE MCTokenCache ----------------------------
(* Model-checking instance of the token cache. *)
EXTENDS TokenCache
=============================================================================
