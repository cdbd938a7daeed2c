----------------------------- MODULE MCFraming -----------------------------
(***************************************************************************)
(* Framing with fields of two bytes and payloads up to the limit and one   *)
(* over it; the kernel holds less than a frame.                            *)
(***************************************************************************)
EXTENDS Framing

=============================================================================
