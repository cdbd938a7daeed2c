---------------------------- MODULE AccountFile ----------------------------
(***************************************************************************)
(* The file server/res/users.db and the processes that write it, call by   *)
(* call: the server, which fills it from users.seed at its first start     *)
(* (writing into the file itself), loads it and replaces it after a        *)
(* change, and the provisioning tools, which load and replace it at any    *)
(* time.  Nothing locks the file.                                          *)
(***************************************************************************)
EXTENDS Integers, Sequences, SequencesExt, Functions

CONSTANTS
  User, Tool, Server,
  Blank, Bad, Torn,  \* an empty line, one that does not parse, a line cut off
  Absent,            \* no file of this name
  Seeds,             \* seed files to start from
  MaxChanges,        \* bound: changes of one record
  MaxFaults,         \* bound: calls that fail
  MaxCrashes         \* bound: processes killed

Proc == Tool \cup {Server}
Record == [user : User, deleted : 0 .. 1, n : 0 .. MaxChanges]

ASSUME ProcAssumption == Server \notin Tool
ASSUME LineAssumption == {Blank, Bad, Torn} \cap Record = {}
ASSUME AbsentAssumption == Absent \notin Seq(Record \cup {Blank, Bad, Torn})
ASSUME SeedsAssumption == Seeds \subseteq {Absent} \cup Seq(Record \cup {Blank, Bad})
ASSUME BoundsAssumption ==
  MaxChanges \in Nat /\ MaxFaults \in Nat /\ MaxCrashes \in Nat

VARIABLES
  db, seed, consumed,  \* users.db, users.seed, users.seed.consumed
  tmp,       \* each process's temporary file
  srv,       \* the server: where it is, and which call of the bootstrap
  out,       \* records the bootstrap has formatted, in the buffer or on disk
  next,      \* the seed line it reads next
  attached,  \* its descriptor is still the file named users.db
  table,     \* each process's copy of the accounts
  busy,      \* the record a process is changing, how far, what it was before
  stale,     \* history: processes that have loaded a users.db since changed
  raced,     \* history: a stale copy was written, or one of a half-copied file
  dropped,   \* history: users.db removed when the path could not be made
  promised,  \* history: users whose account was reported as stored
  faults, crashes

files == <<db, seed, consumed>>
copying == <<out, next, attached>>
history == <<raced, dropped, promised>>
vars == <<files, tmp, srv, copying, table, busy, stale, history, faults, crashes>>

Nobody == [who |-> Absent, at |-> "idle", was |-> Absent]

Records(f) == ToSet(f) \cap Record
Users(f) == IF f = Absent THEN {} ELSE {r.user : r \in Records(f)}
Parses(f) == f # Absent /\ ToSet(f) \subseteq Record

\* The first record of a user, as a search from the start finds it.
Position(f, u) ==
  CHOOSE i \in DOMAIN f : f[i].user = u /\ \A j \in 1 .. i - 1 : f[j].user # u

Init ==
  /\ seed \in Seeds /\ consumed = Absent
  /\ db \in {Absent} \cup {<<[user |-> u, deleted |-> 1, n |-> 0]>> : u \in User}
  /\ tmp = [p \in Proc |-> Absent]
  /\ srv = [at |-> "down", call |-> 1]
  /\ out = <<>> /\ next = 1 /\ attached = FALSE
  /\ table = [p \in Proc |-> Absent]
  /\ busy = [p \in Proc |-> Nobody]
  /\ stale = {}
  /\ raced = FALSE /\ dropped = FALSE /\ promised = Users(db)
  /\ faults = 0 /\ crashes = 0

Fault == faults < MaxFaults /\ faults' = faults + 1

\* Others hold a copy of a file that is no longer there.
Outdated(p) == {q \in Proc \ {p} : table[q] # Absent}

-----------------------------------------------------------------------------
(* The first start: the seed is copied.  main calls the bootstrap, then    *)
(* auth_load_db calls it again.                                            *)

Start ==
  /\ srv.at = "down"
  /\ srv' = [at |-> "boot", call |-> 1]
  /\ UNCHANGED <<files, tmp, copying, table, busy, stale, history, faults, crashes>>

NextCall == IF srv.call = 1 THEN [at |-> "boot", call |-> 2] ELSE [at |-> "load", call |-> 2]

\* rc is not 0: whatever users.db there is is unlinked, and the server exits.
Cleanup ==
  /\ srv' = [srv EXCEPT !.at = "down"]
  /\ db' = Absent
  /\ stale' = {p \in Proc : table[p] # Absent}
  /\ out' = <<>> /\ next' = 1 /\ attached' = FALSE
  /\ UNCHANGED <<seed, consumed, tmp, table, busy, crashes>>

NothingToCopy == db # Absent \/ seed = Absent

BootstrapSkipped ==
  /\ srv.at = "boot" /\ NothingToCopy
  /\ srv' = NextCall
  /\ UNCHANGED <<files, tmp, copying, table, busy, stale, history, faults, crashes>>

\* No memory for the name of the consumed seed: it is needed before anybody
\* asks whether users.db is there.
PathFails ==
  /\ srv.at = "boot" /\ Fault
  /\ Cleanup
  /\ dropped' = (dropped \/ db # Absent)
  /\ UNCHANGED <<raced, promised>>

\* No memory for the seed's own name, in auth_load_db: nothing is unlinked.
SeedPathFails ==
  /\ srv = [at |-> "boot", call |-> 2] /\ Fault
  /\ srv' = [srv EXCEPT !.at = "down"]
  /\ UNCHANGED <<files, tmp, copying, table, busy, stale, history, crashes>>

OpenFiles ==
  /\ srv.at = "boot" /\ ~NothingToCopy
  /\ db' = <<>>
  /\ srv' = [srv EXCEPT !.at = "copy"]
  /\ out' = <<>> /\ next' = 1 /\ attached' = TRUE
  /\ UNCHANGED <<seed, consumed, tmp, table, busy, stale, history, faults, crashes>>

\* Mutant: an empty line is not skipped.
CopyLineStrict ==
  /\ srv.at = "copy" /\ next <= Len(seed)
  /\ IF seed[next] \in {Bad, Blank} THEN Cleanup
     ELSE /\ next' = next + 1
          /\ out' = Append(out, seed[next])
          /\ UNCHANGED <<files, tmp, srv, attached, table, busy, stale, crashes>>
  /\ UNCHANGED <<history, faults>>

\* One fgets.  A line that does not parse ends the start.
CopyLine ==
  /\ srv.at = "copy" /\ next <= Len(seed)
  /\ IF seed[next] = Bad THEN Cleanup
     ELSE /\ next' = next + 1
          /\ out' = IF seed[next] = Blank THEN out ELSE Append(out, seed[next])
          /\ UNCHANGED <<files, tmp, srv, attached, table, busy, stale, crashes>>
  /\ UNCHANGED <<history, faults>>

\* Whole lines that have reached the file: only its last line can be cut off.
OnDisk == IF db # <<>> /\ Last(db) = Torn THEN Len(db) - 1 ELSE Len(db)

\* A part of the buffer reaches the file, cut anywhere.
Flush ==
  /\ srv.at = "copy" /\ attached
  /\ \E k \in OnDisk .. Len(out) :
       \/ db' = SubSeq(out, 1, k)
       \/ k < Len(out) /\ db' = Append(SubSeq(out, 1, k), Torn)
  /\ db' # db
  /\ stale' = Outdated(Server)
  /\ UNCHANGED <<seed, consumed, tmp, srv, copying, table, busy, history, faults, crashes>>

\* Mutant: the seed is put away before its copy has left the buffer.
ConsumeThenClose ==
  /\ srv.at = "copy" /\ next > Len(seed)
  /\ consumed' = seed /\ seed' = Absent
  /\ promised' = promised \cup Users(seed)
  /\ srv' = NextCall
  /\ UNCHANGED <<db, tmp, copying, table, busy, stale, raced, dropped, faults, crashes>>

\* fclose(db): the rest of the buffer reaches the file.
CloseDb ==
  /\ srv.at = "copy" /\ next > Len(seed)
  /\ db' = IF attached THEN out ELSE db
  /\ stale' = IF attached THEN Outdated(Server) ELSE stale
  /\ srv' = [srv EXCEPT !.at = "rename"]
  /\ UNCHANGED <<seed, consumed, tmp, copying, table, busy, history, faults, crashes>>

ConsumeSeed ==
  /\ srv.at = "rename"
  /\ consumed' = seed /\ seed' = Absent
  /\ promised' = promised \cup Users(seed)
  /\ attached' = FALSE
  /\ srv' = NextCall
  /\ UNCHANGED <<db, tmp, out, next, table, busy, stale, raced, dropped, faults, crashes>>

\* Mutant: the half-written file is left behind.
CopyFailsAndStays ==
  /\ srv.at \in {"copy", "rename"} /\ Fault
  /\ srv' = [srv EXCEPT !.at = "down"]
  /\ out' = <<>> /\ next' = 1 /\ attached' = FALSE
  /\ UNCHANGED <<files, tmp, table, busy, stale, history, crashes>>

\* Any other call of the bootstrap fails: opening, hashing, writing, renaming.
CopyFails ==
  /\ srv.at \in {"copy", "rename"} /\ Fault
  /\ Cleanup
  /\ UNCHANGED history

-----------------------------------------------------------------------------
(* The server's table.                                                     *)

\* No two lines are of one user.
Distinct(f) ==
  f = Absent \/ \A i, j \in DOMAIN f :
                  {f[i], f[j]} \subseteq Record /\ f[i].user = f[j].user => i = j

Loadable(f) == Parses(f) /\ Distinct(f)

\* Mutant: the lines before the one refused stay in the table.
LoadKeepsLines ==
  /\ srv.at = "load"
  /\ srv' = [srv EXCEPT !.at = IF Loadable(db) THEN "up" ELSE "down"]
  /\ table' = [table EXCEPT ![Server] = IF db = Absent THEN db ELSE SelectSeq(db, LAMBDA line : line \in Record)]
  /\ stale' = stale \ {Server}
  /\ UNCHANGED <<files, tmp, copying, busy, history, faults, crashes>>

auth_load_db ==
  /\ srv.at = "load"
  /\ IF Loadable(db)
     THEN /\ srv' = [srv EXCEPT !.at = "up"]
          /\ table' = [table EXCEPT ![Server] = db]
     ELSE srv' = [srv EXCEPT !.at = "down"] /\ UNCHANGED table
  /\ stale' = stale \ {Server}
  /\ UNCHANGED <<files, tmp, copying, busy, history, faults, crashes>>

LoadFails ==
  /\ srv.at = "load" /\ Fault
  /\ srv' = [srv EXCEPT !.at = "down"]
  /\ UNCHANGED <<files, tmp, copying, table, busy, stale, history, crashes>>

\* A password change or a tombstone: the record in memory first, then the
\* temporary file.
Change(u) ==
  /\ srv.at = "up" /\ busy[Server] = Nobody
  /\ u \in Users(table[Server])
  /\ LET i == Position(table[Server], u)
         r == table[Server][i]
     IN \E new \in {[r EXCEPT !.n = @ + 1], [r EXCEPT !.deleted = 1]} :
          /\ new.n <= MaxChanges
          /\ table' = [table EXCEPT ![Server] = [@ EXCEPT ![i] = new]]
          /\ busy' = [busy EXCEPT ![Server] = [who |-> u, at |-> "memory", was |-> r]]
  /\ UNCHANGED <<files, tmp, srv, copying, stale, history, faults, crashes>>

\* Undone only when it was the tombstone that could not be written.
ChangeFails ==
  /\ busy[Server] # Nobody /\ Fault
  /\ LET i == Position(table[Server], busy[Server].who)
     IN table' = IF table[Server][i].n = busy[Server].was.n
                 THEN [table EXCEPT ![Server] = [@ EXCEPT ![i] = busy[Server].was]]
                 ELSE table
  /\ busy' = [busy EXCEPT ![Server] = Nobody]
  /\ tmp' = [tmp EXCEPT ![Server] = Absent]
  /\ UNCHANGED <<files, srv, copying, stale, history, crashes>>

GoDown ==
  /\ srv' = [srv EXCEPT !.at = "down"]
  /\ table' = [table EXCEPT ![Server] = Absent]
  /\ busy' = [busy EXCEPT ![Server] = Nobody]
  /\ stale' = stale \ {Server}
  /\ out' = <<>> /\ next' = 1 /\ attached' = FALSE

Exit ==
  /\ srv.at = "up" /\ busy[Server] = Nobody
  /\ GoDown
  /\ UNCHANGED <<files, tmp, history, faults, crashes>>

\* What was in the buffer is gone, files stay as they are.
Crash ==
  /\ srv.at # "down"
  /\ crashes < MaxCrashes /\ crashes' = crashes + 1
  /\ GoDown
  /\ UNCHANGED <<files, tmp, history, faults>>

-----------------------------------------------------------------------------
(* The provisioning tool.                                                  *)

\* ap_load_db, then ap_update_record or ap_append_user.  It needs a users.db,
\* does not look for the seed, and leaves an active account alone.
Register(t, u) ==
  /\ table[t] = Absent
  /\ Parses(db)
  /\ IF u \in Users(db)
     THEN LET i == Position(db, u)
          IN /\ db[i].deleted = 1
             /\ table' = [table EXCEPT ![t] = [db EXCEPT ![i].deleted = 0]]
     ELSE table' = [table EXCEPT ![t] = Append(db, [user |-> u, deleted |-> 0, n |-> 0])]
  /\ busy' = [busy EXCEPT ![t] = [who |-> u, at |-> "memory", was |-> Absent]]
  /\ stale' = stale \ {t}
  /\ UNCHANGED <<files, tmp, srv, copying, history, faults, crashes>>

\* The tool ends without having written.
RegisterFails(t) ==
  /\ table[t] # Absent /\ Fault
  /\ table' = [table EXCEPT ![t] = Absent]
  /\ busy' = [busy EXCEPT ![t] = Nobody]
  /\ tmp' = [tmp EXCEPT ![t] = Absent]
  /\ stale' = stale \ {t}
  /\ UNCHANGED <<files, srv, copying, history, crashes>>

-----------------------------------------------------------------------------
(* Both replace users.db: a temporary file is filled and synced, then      *)
(* renamed.                                                                *)

\* Mutant: the tool uses the fixed name the server uses.
FixedName(p) == Server

\* The server's is users.db.tmp, a tool's comes from mkstemp.
TmpName(p) == p

FillTmp(p) ==
  /\ busy[p].at = "memory"
  /\ tmp' = [tmp EXCEPT ![TmpName(p)] = table[p]]
  /\ busy' = [busy EXCEPT ![p].at = "file"]
  /\ UNCHANGED <<files, srv, copying, table, stale, history, faults, crashes>>

Copied == srv.at \in {"copy", "rename"}

RenameTmp(p) ==
  /\ busy[p].at = "file" /\ tmp[TmpName(p)] # Absent
  /\ db' = tmp[TmpName(p)]
  /\ tmp' = [tmp EXCEPT ![TmpName(p)] = Absent]
  /\ attached' = FALSE
  /\ raced' = (raced \/ p \in stale \/ Copied)
  /\ promised' = promised \cup {busy[p].who}
  /\ busy' = [busy EXCEPT ![p] = Nobody]
  /\ table' = IF p = Server THEN table ELSE [table EXCEPT ![p] = Absent]
  /\ stale' = Outdated(p)
  /\ UNCHANGED <<seed, consumed, srv, out, next, dropped, faults, crashes>>

-----------------------------------------------------------------------------

Bootstrap ==
  \/ BootstrapSkipped \/ PathFails \/ SeedPathFails \/ OpenFiles
  \/ CopyLine \/ Flush \/ CloseDb \/ ConsumeSeed \/ CopyFails

Next ==
  \/ Start \/ Bootstrap
  \/ auth_load_db \/ LoadFails
  \/ \E u \in User : Change(u)
  \/ ChangeFails \/ Exit \/ Crash
  \/ \E t \in Tool, u \in User : Register(t, u)
  \/ \E t \in Tool : RegisterFails(t)
  \/ \E p \in Proc : FillTmp(p) \/ RenameTmp(p)

Spec == Init /\ [][Next]_vars

\* A start that has begun goes on: none of its calls waits for anybody.
FairSpec ==
  /\ Spec
  /\ WF_vars(BootstrapSkipped \/ OpenFiles) /\ WF_vars(CopyLine)
  /\ WF_vars(CloseDb) /\ WF_vars(ConsumeSeed) /\ WF_vars(auth_load_db)

-----------------------------------------------------------------------------

\* The types of every variable: tables and temporary files hold whole records,
\* only a server that is up has a table, who changes a record has a table with
\* it, and users.db holds records, of which the last can be cut off.
TypeOK ==
  /\ seed \in {Absent} \cup Seq(Record \cup {Blank, Bad})
  /\ consumed \in {Absent} \cup Seq(Record \cup {Blank, Bad})
  /\ db \in {Absent} \cup Seq(Record \cup {Torn})
  /\ tmp \in [Proc -> {Absent} \cup Seq(Record)]
  /\ table \in [Proc -> {Absent} \cup Seq(Record)]
  /\ srv \in [at : {"down", "boot", "copy", "rename", "load", "up"}, call : 1 .. 2]
  /\ out \in Seq(Record) /\ next \in Nat \ {0} /\ attached \in BOOLEAN
  /\ busy \in [Proc -> [who : User \cup {Absent}, at : {"idle", "memory", "file"},
                        was : Record \cup {Absent}]]
  /\ \A p \in Proc : busy[p].at # "idle" => busy[p].who \in Users(table[p])
  /\ stale \subseteq {p \in Proc : table[p] # Absent}
  /\ table[Server] # Absent <=> srv.at = "up"
  /\ attached => Copied /\ db # Absent
  /\ raced \in BOOLEAN /\ dropped \in BOOLEAN /\ promised \subseteq User
  /\ faults \in 0 .. MaxFaults /\ crashes \in 0 .. MaxCrashes

\* Every account there ever was stays in users.db: those it began with, those of
\* a seed that has been put away, those a tool reported as registered and those
\* the server changed, through failing calls and crashes at any point.  Two
\* things lose accounts: writing a copy that is out of date (raced; a tool run
\* beside the server), and the unlink of a users.db that was there (dropped).
AccountsKept == ~raced /\ ~dropped => promised \subseteq Users(db)

\* Without a crash every users.db a start can find is one it can load: what a
\* failed first start has written is removed, writers replace the file whole,
\* and nobody adds a second line of one user.
StaysLoadable ==
  crashes = 0 /\ ~Copied /\ db # Absent /\ Distinct(seed) /\ Distinct(consumed) => Loadable(db)

\* The records of one user, by the line they are on.
RecordsOf(f, u) == Restrict(f, {i \in DOMAIN f : f[i].user = u})

\* A writer whose copy is up to date changes the record it was asked to change
\* and no other; the server's may also carry a change that failed before.
OwnRecordOnly ==
  [][\A p \in Proc :
       /\ busy[p].at = "file" /\ busy'[p] = Nobody /\ db' # db
       /\ ~raced' /\ (p = Server => faults = 0)
       => \A u \in User \ {busy[p].who} : RecordsOf(db', u) = RecordsOf(db, u)]_vars

\* A first start with a seed it can read ends in a server that is up, if no call
\* fails and the server is not killed.
FirstStartEnds ==
  /\ srv.at = "boot" /\ db = Absent
  /\ seed # Absent /\ Bad \notin ToSet(seed) /\ Distinct(seed)
  ~> srv.at = "up" \/ faults > 0 \/ crashes > 0

-----------------------------------------------------------------------------
(* Why they hold: what is true of every state besides.                     *)

\* Of a process with a copy of the file: what it has written is its copy, and a
\* copy that is up to date has every account of the file.
WriterInv ==
  \A p \in Proc :
    /\ busy[p].at = "idle" => busy[p] = Nobody
    /\ busy[p].at = "file" => tmp[p] = table[p]
    /\ p = Server /\ busy[p].at # "idle" =>
         busy[p].was \in Record /\ busy[p].was.user = busy[p].who
    /\ table[p] # Absent /\ p \notin stale =>
         Parses(db) /\ Users(db) \subseteq Users(table[p])

\* Of the first start: out holds the records of the lines that were read, and
\* all of it has reached the file before the seed is put away.
CopyInv ==
  /\ seed # Absent => consumed = Absent
  /\ Copied =>
       /\ seed # Absent /\ db # Absent
       /\ \A i \in DOMAIN out : \E j \in DOMAIN seed : j < next /\ seed[j] = out[i]
       /\ \A j \in DOMAIN seed : j < next /\ seed[j] \in Record => seed[j].user \in Users(out)
  /\ srv.at = "rename" => next > Len(seed) /\ (attached => db = out)

\* Nobody relies on the file while it is copied, and nobody has replaced it.
KeptInv ==
  ~raced /\ ~dropped =>
    promised \subseteq Users(db) /\ (Copied => attached /\ promised = {})

\* No file, no copy of it and no buffer has two lines of one user, and only a
\* file that is still being copied can end in a part of a line.
LoadInv ==
  crashes = 0 /\ Distinct(seed) /\ Distinct(consumed) =>
    /\ Distinct(db) /\ \A p \in Proc : Distinct(table[p])
    /\ Copied => Distinct(out)
    /\ attached \/ db = Absent \/ Parses(db)

\* A copy that is up to date differs from the file in the record that is being
\* changed.
OwnInv ==
  /\ srv.at = "up" /\ busy[Server].at = "idle" /\ faults = 0 /\ Server \notin stale =>
       table[Server] = db
  /\ \A p \in Proc :
       busy[p].at # "idle" /\ p \notin stale /\ (p = Server => faults = 0) =>
         \A u \in User \ {busy[p].who} : RecordsOf(table[p], u) = RecordsOf(db, u)

=============================================================================
