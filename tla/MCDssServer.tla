---------------------------- MODULE MCDssServer ----------------------------
(***************************************************************************)
(* DssServer on small sets: users and passwords are interchangeable.       *)
(***************************************************************************)
EXTENDS DssServer, TLC

Symmetry == Permutations(User \ Unkeyable) \cup Permutations(Password)

=============================================================================
