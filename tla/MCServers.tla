----------------------------- MODULE MCServers -----------------------------
(* Three clients, of which one may be killed, and each of the servers. *)
EXTENDS Servers
=============================================================================
