-------------------------- MODULE MCAccountLines --------------------------
(***************************************************************************)
(* AccountLines with names of up to five characters, newlines among them,  *)
(* where a line of users.db has room for a name of three: every table of   *)
(* at most two accounts whose names differ, every seed for one, and seeds  *)
(* for two of short names.                                                 *)
(***************************************************************************)
EXTENDS AccountLines

MCChar == {"b", "a", "p", NL, Colon} \cup FlagText

MCName == UNION {[1 .. n -> {"b", NL}] : n \in 1 .. 5}

MCOne == {<<a>> : a \in {x \in Account : Flagged(x)}}
MCActive == {x \in Account : Flagged(x) /\ x.deleted = "0"}
MCTwo == {s \in {<<a, b>> : a, b \in MCActive} : s[1].name # s[2].name}
MCTables == {<<>>} \cup MCOne \cup MCTwo

MCTyped == {x \in Account : NL \notin ToSet(x.name)}
MCShort == {x \in MCTyped : Len(x.name) < 3 \/ x.deleted = "0"}
MCSeeds == {<<a>> : a \in MCTyped} \cup {<<a, b>> : a, b \in MCShort}

=============================================================================
