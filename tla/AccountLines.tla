---------------------------- MODULE AccountLines ----------------------------
(***************************************************************************)
(* The text of users.db and users.seed: what auth_write_db, the            *)
(* provisioning tool and whoever writes a seed put there for a table of    *)
(* accounts, line by line, and what fgets, strtok and the field parsers    *)
(* make of it at the next start.  A name is any string the tool takes: not *)
(* empty, and no colon in it.  The salt and the hash of an account are     *)
(* digits of a fixed number.                                               *)
(***************************************************************************)
EXTENDS Integers, Sequences, SequencesExt

CONSTANTS
  Char,        \* the characters of a text
  Name,        \* usernames, as sequences of characters
  Tables,      \* tables of accounts to write to users.db
  Seeds,       \* accounts of a seed, in order
  PasswordLen, \* lengths of the passwords in a seed
  LineMax,     \* AUTH_LINE_MAX, AP_LINE_MAX
  Digits       \* 2 * AUTH_SALT_LEN, and 2 * AUTH_HASH_LEN

NL == "\n"
Colon == ":"

\* Flags as the files spell them; strtol takes 0 and 1 in other spellings too,
\* which nobody writes, and refuses the rest.
FlagText == {"0", "1", "2"}
Account == [name : Name, must_change : FlagText, deleted : FlagText]

Flagged(a) == {a.must_change, a.deleted} \subseteq {"0", "1"}

ASSUME CharAssumption == {NL, Colon, "a", "p"} \cup FlagText \subseteq Char
ASSUME NameAssumption ==
  \A n \in Name : n \in Seq(Char) /\ Len(n) > 0 /\ Colon \notin ToSet(n)
ASSUME SizeAssumption ==
  LineMax \in Nat /\ LineMax > 1 /\ Digits \in Nat \ {0} /\ PasswordLen \subseteq Nat \ {0}
\* The accounts of a table come from flags that are 0 or 1; a seed's are typed,
\* in lines of their own.
ASSUME TablesAssumption == \A t \in Tables : t \in Seq({a \in Account : Flagged(a)})
ASSUME SeedsAssumption == \A s \in Seeds : s \in Seq({a \in Account : NL \notin ToSet(a.name)})

VARIABLES
  given,     \* the accounts, as the writer of the file holds them
  pwlen,     \* length of the passwords of a seed
  seed,      \* text of users.seed
  text,      \* text of users.db
  seedEnds,  \* history: where the lines of users.seed end
  textEnds,  \* history: where those of users.db end
  pos,       \* how far the file under way has been read
  users,     \* g_users
  at         \* "type" or "copy" a seed, "write" or "read" users.db, "loaded", "refused"

vars == <<given, pwlen, seed, text, seedEnds, textEnds, pos, users, at>>

-----------------------------------------------------------------------------
(* Writing.                                                                *)

Repeat(c, n) == [i \in 1 .. n |-> c]

\* fprintf(fp, "%s:%d:%d:%s:%s\n", ...)
DbLine(a) ==
  a.name \o <<Colon, a.must_change, Colon, a.deleted, Colon>>
         \o Repeat("a", Digits) \o <<Colon>> \o Repeat("a", Digits) \o <<NL>>

SeedLine(a) ==
  a.name \o <<Colon>> \o Repeat("p", pwlen) \o <<Colon, a.must_change, Colon, a.deleted, NL>>

PrintLine(a) ==
  /\ text' = text \o DbLine(a)
  /\ textEnds' = Append(textEnds, Len(text'))

-----------------------------------------------------------------------------
(* Reading.                                                                *)

\* Mutant: fgets is told one byte less than the buffer has.
fgets_short(s, p) == Min({i \in p + 1 .. Len(s) : s[i] = NL} \cup {Len(s), p + LineMax - 2})

\* How far one fgets gets: to a newline, or as far as the buffer or the text goes.
fgets(s, p) == Min({i \in p + 1 .. Len(s) : s[i] = NL} \cup {Len(s), p + LineMax - 1})

\* The line without its newline.
Line(s, p) ==
  LET e == fgets(s, p) IN SubSeq(s, p + 1, IF s[e] = NL THEN e - 1 ELSE e)

\* strtok: from the next character that is no colon to the next one that is.  The
\* token is empty where strtok returns NULL.
TokenFrom(line, p) == Min({i \in p + 1 .. Len(line) : line[i] # Colon} \cup {Len(line) + 1})
TokenTo(line, p) ==
  Min({i \in TokenFrom(line, p) .. Len(line) : line[i] = Colon} \cup {Len(line) + 1})
strtok(line, p) == SubSeq(line, TokenFrom(line, p), TokenTo(line, p) - 1)

\* Where each call goes on from the one before.
Cuts(line) ==
  LET c1 == TokenTo(line, 0)
      c2 == TokenTo(line, c1)
      c3 == TokenTo(line, c2)
      c4 == TokenTo(line, c3)
      c5 == TokenTo(line, c4)
  IN <<0, c1, c2, c3, c4, c5>>

Field(line, k) == strtok(line, Cuts(line)[k])

\* Exactly n fields: n calls find one, and the next does not.
HasFields(line, n) == Field(line, n) # <<>> /\ Field(line, n + 1) = <<>>

auth_parse_bool(f) == f \in {<<"0">>, <<"1">>}
auth_hex_decode(f) == f = Repeat("a", Digits)

auth_parse_db_line(line) ==
  /\ HasFields(line, 5)
  /\ auth_parse_bool(Field(line, 2)) /\ auth_parse_bool(Field(line, 3))
  /\ auth_hex_decode(Field(line, 4)) /\ auth_hex_decode(Field(line, 5))

ParseSeedLine(line) ==
  HasFields(line, 4) /\ auth_parse_bool(Field(line, 3)) /\ auth_parse_bool(Field(line, 4))

FromFields(name, mc, del) == [name |-> name, must_change |-> mc[1], deleted |-> del[1]]

-----------------------------------------------------------------------------

Init ==
  /\ \/ given \in Tables /\ pwlen = 0 /\ at = "write"
     \/ given \in Seeds /\ pwlen \in PasswordLen /\ at = "type"
  /\ seed = <<>> /\ text = <<>> /\ seedEnds = <<>> /\ textEnds = <<>>
  /\ pos = 0
  /\ users = <<>>

\* Somebody types a seed.
TypeLine ==
  /\ at = "type" /\ Len(seedEnds) < Len(given)
  /\ seed' = seed \o SeedLine(given[Len(seedEnds) + 1])
  /\ seedEnds' = Append(seedEnds, Len(seed'))
  /\ UNCHANGED <<given, pwlen, text, textEnds, pos, users, at>>

SeedTyped ==
  /\ at = "type" /\ Len(seedEnds) = Len(given)
  /\ at' = "copy"
  /\ UNCHANGED <<given, pwlen, seed, text, seedEnds, textEnds, pos, users>>

\* The server or the tool writes its table.
WriteLine ==
  /\ at = "write" /\ Len(textEnds) < Len(given)
  /\ PrintLine(given[Len(textEnds) + 1])
  /\ UNCHANGED <<given, pwlen, seed, seedEnds, pos, users, at>>

Written ==
  /\ at = "write" /\ Len(textEnds) = Len(given)
  /\ at' = "read"
  /\ UNCHANGED <<given, pwlen, seed, text, seedEnds, textEnds, pos, users>>

\* Mutant: the two flags change places.
CopyLineSwapped ==
  /\ at = "copy" /\ pos < Len(seed)
  /\ pos' = fgets(seed, pos)
  /\ LET line == Line(seed, pos)
     IN \/ line = <<>> /\ UNCHANGED <<text, textEnds, at>>
        \/ /\ line # <<>> /\ ParseSeedLine(line)
           /\ PrintLine(FromFields(Field(line, 1), Field(line, 4), Field(line, 3)))
           /\ UNCHANGED at
        \/ /\ line # <<>> /\ ~ParseSeedLine(line)
           /\ at' = "refused" /\ text' = <<>> /\ textEnds' = <<>>
  /\ UNCHANGED <<given, pwlen, seed, seedEnds, users>>

\* One line of the seed becomes one of users.db.  A line that does not parse ends
\* the copy, and users.db is unlinked.
CopyLine ==
  /\ at = "copy" /\ pos < Len(seed)
  /\ pos' = fgets(seed, pos)
  /\ LET line == Line(seed, pos)
     IN \/ line = <<>> /\ UNCHANGED <<text, textEnds, at>>
        \/ /\ line # <<>> /\ ParseSeedLine(line)
           /\ PrintLine(FromFields(Field(line, 1), Field(line, 3), Field(line, 4)))
           /\ UNCHANGED at
        \/ /\ line # <<>> /\ ~ParseSeedLine(line)
           /\ at' = "refused" /\ text' = <<>> /\ textEnds' = <<>>
  /\ UNCHANGED <<given, pwlen, seed, seedEnds, users>>

SeedDone ==
  /\ at = "copy" /\ pos = Len(seed)
  /\ at' = "read"
  /\ pos' = 0
  /\ UNCHANGED <<given, pwlen, seed, text, seedEnds, textEnds, users>>

Found(name) == \E i \in 1 .. Len(users) : users[i].name = name

\* Mutant: the lines before the one refused stay in the table.
ReadLineKeeps ==
  /\ at = "read" /\ pos < Len(text)
  /\ pos' = fgets(text, pos)
  /\ LET line == Line(text, pos)
         good == auth_parse_db_line(line) /\ ~Found(Field(line, 1))
     IN \/ line = <<>> /\ UNCHANGED <<users, at>>
        \/ /\ line # <<>> /\ good
           /\ users' = Append(users, FromFields(Field(line, 1), Field(line, 2), Field(line, 3)))
           /\ UNCHANGED at
        \/ line # <<>> /\ ~good /\ at' = "refused" /\ UNCHANGED users
  /\ UNCHANGED <<given, pwlen, seed, text, seedEnds, textEnds>>

\* One line of users.db.
ReadLine ==
  /\ at = "read" /\ pos < Len(text)
  /\ pos' = fgets(text, pos)
  /\ LET line == Line(text, pos)
         good == auth_parse_db_line(line) /\ ~Found(Field(line, 1))
     IN \/ line = <<>> /\ UNCHANGED <<users, at>>
        \/ /\ line # <<>> /\ good
           /\ users' = Append(users, FromFields(Field(line, 1), Field(line, 2), Field(line, 3)))
           /\ UNCHANGED at
        \/ line # <<>> /\ ~good /\ at' = "refused" /\ users' = <<>>
  /\ UNCHANGED <<given, pwlen, seed, text, seedEnds, textEnds>>

LoadDone ==
  /\ at = "read" /\ pos = Len(text)
  /\ at' = "loaded"
  /\ UNCHANGED <<given, pwlen, seed, text, seedEnds, textEnds, pos, users>>

Next ==
  \/ TypeLine \/ SeedTyped \/ WriteLine \/ Written
  \/ CopyLine \/ SeedDone \/ ReadLine \/ LoadDone

Spec == Init /\ [][Next]_vars

-----------------------------------------------------------------------------

\* The types of every variable; only a file that is read whole leaves a table, and
\* nothing is in it that was not in the file.
TypeOK ==
  /\ given \in Seq(Account) /\ pwlen \in PasswordLen \cup {0}
  /\ seed \in Seq(Char) /\ text \in Seq(Char)
  /\ seedEnds \in Seq(Nat) /\ textEnds \in Seq(Nat)
  /\ at \in {"type", "copy", "write", "read", "loaded", "refused"}
  /\ at \in {"type", "write"} => pos = 0
  /\ pos \in Nat
  /\ at = "copy" => pos <= Len(seed)
  /\ at = "read" => pos <= Len(text)
  /\ at \notin {"read", "loaded"} => users = <<>>
  /\ users \in Seq([name : Seq(Char) \ {<<>>}, must_change : FlagText, deleted : FlagText])
  /\ Len(users) <= Len(textEnds)
  /\ at = "loaded" => pos = Len(text)

\* The newlines a name begins with make empty lines, which are skipped.
Lead(name) == Min({i \in 1 .. Len(name) : name[i] # NL} \cup {Len(name) + 1}) - 1
Unled(name) == SubSeq(name, Lead(name) + 1, Len(name))

\* The name comes back from the file: no newline inside, and the line with its
\* digits is no longer than one fgets.
Survives(name) ==
  /\ Unled(name) # <<>> /\ NL \notin ToSet(Unled(name))
  /\ Len(Unled(name)) + 6 + 2 * Digits <= LineMax - 1

\* The first n accounts come back, and as different ones.
ReadableTo(n) ==
  /\ \A i \in 1 .. n : Survives(given[i].name)
  /\ \A i, j \in 1 .. n : i # j => Unled(given[i].name) # Unled(given[j].name)

Readable == ReadableTo(Len(given))

ReadBack(n) == [i \in 1 .. n |-> [given[i] EXCEPT !.name = Unled(@)]]

\* A table of accounts with proper names is read back as it was written, and the
\* others make the whole file unreadable, or give a name its leading newlines
\* back off: one such name locks every account out.
WrittenIsRead ==
  pwlen = 0 =>
    /\ at = "loaded" => Readable /\ users = ReadBack(Len(given))
    /\ at = "refused" => ~Readable

\* A line of a seed that is copied: it fits in one fgets, and its flags parse.
Copied(a) == Len(a.name) + pwlen + 5 <= LineMax - 1 /\ Flagged(a)

\* The accounts of a seed are in the table the server loads, flags and all, if
\* all of their lines and all of the longer ones in users.db fit in one fgets;
\* when only the first do, the seed has been put away and no start succeeds any
\* more.
SeedIsRead ==
  pwlen # 0 =>
    /\ at = "loaded" =>
         (\A i \in 1 .. Len(given) : Copied(given[i])) /\ Readable /\ users = given
    /\ at = "refused" => ~((\A i \in 1 .. Len(given) : Copied(given[i])) /\ Readable)

-----------------------------------------------------------------------------
(* Why they hold: what is true of every state besides.                     *)

\* A table from memory has flags that parse; typed names have no newline in them.
GivenInv ==
  /\ at = "write" => pwlen = 0
  /\ at \in {"type", "copy"} => pwlen # 0
  /\ pwlen = 0 => \A i \in 1 .. Len(given) : Flagged(given[i])
  /\ pwlen # 0 => \A i \in 1 .. Len(given) : NL \notin ToSet(given[i].name)

DbLines == [i \in 1 .. Len(given) |-> DbLine(given[i])]
SeedLines == [i \in 1 .. Len(given) |-> SeedLine(given[i])]

\* Where line k begins, less one.
Before(ends, k) == IF k = 1 THEN 0 ELSE ends[k - 1]

\* A text is the first lines of these, one after the other.
Laid(s, ends, lines) ==
  /\ Len(ends) <= Len(lines)
  /\ \A k \in 1 .. Len(ends) :
       /\ ends[k] = Before(ends, k) + Len(lines[k])
       /\ \A i \in 1 .. Len(lines[k]) : s[Before(ends, k) + i] = lines[k][i]
       /\ ends[k] <= Len(s)
  /\ Len(s) = Before(ends, Len(ends) + 1)

LaidInv ==
  /\ Laid(seed, seedEnds, SeedLines)
  /\ Laid(text, textEnds, DbLines)
  /\ at = "type" => textEnds = <<>>
  /\ at = "copy" => Len(seedEnds) = Len(given)
  /\ at \in {"read", "loaded"} => Len(textEnds) = Len(given)

\* A reader that has taken n lines is behind the last one, or at its newline if
\* that was one too many for the buffer.
Behind(ends, n) == {Before(ends, n + 1)} \cup {ends[k] - 1 : k \in {n} \ {0}}

\* The lines copied are the lines read, and each of them is one that can be.
CopyInv ==
  /\ at = "copy" => pos \in Behind(seedEnds, Len(textEnds))
  /\ at \in {"copy", "read", "loaded"} =>
       \A i \in 1 .. Len(textEnds) : Copied(given[i]) \/ pwlen = 0

\* The accounts loaded are the first ones of the file, which are readable; the
\* reader is behind them, and may have skipped newlines that begin the next name.
ReadInv ==
  /\ at \in {"read", "loaded"} =>
       /\ Len(users) <= Len(given)
       /\ ReadableTo(Len(users)) /\ users = ReadBack(Len(users))
  /\ at = "read" =>
       \/ pos \in Behind(textEnds, Len(users))
       \/ /\ Len(users) < Len(given)
          /\ \E l \in 1 .. Lead(given[Len(users) + 1].name) :
               pos = Before(textEnds, Len(users) + 1) + l

EndInv ==
  /\ at = "loaded" => Len(users) = Len(given)
  /\ at = "refused" =>
       ~Readable \/ (pwlen # 0 /\ \E i \in 1 .. Len(given) : ~Copied(given[i]))

=============================================================================
