--------------------------- MODULE MCAccountFile ---------------------------
(***************************************************************************)
(* AccountFile with two users: no seed, one for both with an empty line in *)
(* it, one with a line that does not parse, one that names a user twice.   *)
(***************************************************************************)
EXTENDS AccountFile
CONSTANTS u1, u2

Line(u) == [user |-> u, deleted |-> 0, n |-> 0]
MCSeeds ==
  {Absent, <<Line(u1), Blank, Line(u2)>>, <<Line(u1), Bad>>, <<Line(u1), Line(u1)>>}

=============================================================================
