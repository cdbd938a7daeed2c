----------------------------- MODULE MCChannel -----------------------------
(***************************************************************************)
(* Channel with two opcodes, four requests and a replay cache of two slots: *)
(* a repeated frame arrives while its nonce is kept and after it was        *)
(* pushed out.                                                              *)
(***************************************************************************)
EXTENDS Channel

=============================================================================
