-------------------------- MODULE MCSessionIngest --------------------------
(* Small instances of SessionIngest for TLC. *)
EXTENDS SessionIngest

(* A session of four events, with a login that fails and one that succeeds. *)
ShortLog == <<"connect", "failed", "success", "closed">>
=============================================================================
