------------------------------ MODULE MCClient ------------------------------
(***************************************************************************)
(* Client on small sets.                                                   *)
(***************************************************************************)
EXTENDS Client

=============================================================================
