------------------------------ MODULE MCReplay ------------------------------
(***************************************************************************)
(* Replay with a ring of three slots and five nonces: the ring fills up,   *)
(* wraps twice over and sees every nonce again after it was evicted.       *)
(***************************************************************************)
EXTENDS Replay

=============================================================================
