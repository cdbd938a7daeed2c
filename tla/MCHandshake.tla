---------------------------- MODULE MCHandshake ----------------------------
(***************************************************************************)
(* Handshake with two clients: one is served, the other one waits.         *)
(***************************************************************************)
EXTENDS Handshake

=============================================================================
