------------------------- MODULE AccountFileProofs -------------------------
(***************************************************************************)
(* Proofs about AccountFile, for every set of users and tools, every seed  *)
(* and any number of failing calls, crashes and changes.                   *)
(***************************************************************************)
EXTENDS AccountFile, SeqFacts, WellFoundedInduction, TLAPS

-----------------------------------------------------------------------------
(* Lines, users and positions.                                             *)

\* A line a file may hold.
Text == Record \cup {Blank, Bad, Torn}

LEMMA NotAbsent ==
  ASSUME NEW f \in Seq(Text)
  PROVE  f # Absent
  BY AbsentAssumption DEF Text

\* A user of a file has a record in it.
LEMMA UserHasLine ==
  ASSUME NEW f \in Seq(Text), NEW u
  PROVE  u \in Users(f) <=> \E i \in 1 .. Len(f) : f[i] \in Record /\ f[i].user = u
  BY NotAbsent DEF Users, Records, ToSet

LEMMA RecordIsText == Seq(Record) \subseteq Seq(Text) /\ Seq(Record \cup {Torn}) \subseteq Seq(Text)
                      /\ Seq(Record \cup {Blank, Bad}) \subseteq Seq(Text)
  BY DEF Text

LEMMA ParsesIs ==
  ASSUME NEW f \in {Absent} \cup Seq(Text)
  PROVE  Parses(f) <=> f \in Seq(Record)
  BY NotAbsent, RecordIsText DEF Parses, ToSet

\* A search from the start finds the user of a record.
LEMMA PositionFacts ==
  ASSUME NEW f \in Seq(Record), NEW u \in Users(f)
  PROVE  Position(f, u) \in 1 .. Len(f) /\ f[Position(f, u)].user = u
  <1> DEFINE Of == {i \in 1 .. Len(f) : f[i].user = u}
  <1> DEFINE Less == {ss \in Nat \X Nat : ss[1] < ss[2]}
  <1>1. Of # {} /\ Of \subseteq Nat
    BY UserHasLine, RecordIsText
  <1>2. IsWellFoundedOn(Less, Nat)
    BY NatLessThanWellFounded DEF OpToRel
  <1>3. PICK i \in Of : \A j \in Of : ~(<<j, i>> \in Less)
    <2> HIDE DEF Of, Less
    <2> QED
      BY <1>1, <1>2, WFMin, Zenon
  <1>4. ASSUME NEW j \in 1 .. i - 1 PROVE f[j].user # u
    <2>1. i \in 1 .. Len(f) /\ Len(f) \in Nat /\ j \in Nat /\ j < i /\ j \in 1 .. Len(f)
      BY <1>3
    <2>2. <<j, i>> \in Less
      BY <2>1
    <2> QED
      BY <1>3, <2>1, <2>2
  <1>5. \E k \in DOMAIN f : f[k].user = u /\ \A j \in 1 .. k - 1 : f[j].user # u
    BY <1>3, <1>4
  <1> QED
    BY <1>5 DEF Position

-----------------------------------------------------------------------------
(* What the writers make of a file.                                        *)

\* A record replaced by one of the same user.
LEMMA PutFacts ==
  ASSUME NEW f \in Seq(Record), NEW i \in 1 .. Len(f), NEW r \in Record, r.user = f[i].user,
         NEW g, g = [f EXCEPT ![i] = r]
  PROVE  /\ g \in Seq(Record) /\ Len(g) = Len(f)
         /\ \A j \in 1 .. Len(f) : g[j] \in Record /\ g[j].user = f[j].user
         /\ \A j \in 1 .. Len(f) : f[j].user # r.user => g[j] = f[j]
  <1>1. Len(f) \in Nat /\ f \in [1 .. Len(f) -> Record]
    OBVIOUS
  <1>2. g \in [1 .. Len(f) -> Record]
    BY <1>1
  <1>3. g \in Seq(Record) /\ Len(g) = Len(f)
    BY <1>1, <1>2
  <1> QED
    BY <1>1, <1>3

LEMMA PutKeeps ==
  ASSUME NEW f \in Seq(Record), NEW i \in 1 .. Len(f), NEW r \in Record, r.user = f[i].user
  PROVE  /\ [f EXCEPT ![i] = r] \in Seq(Record)
         /\ Users([f EXCEPT ![i] = r]) = Users(f)
         /\ Distinct(f) => Distinct([f EXCEPT ![i] = r])
         /\ \A v : v # r.user => RecordsOf([f EXCEPT ![i] = r], v) = RecordsOf(f, v)
  <1> DEFINE g == [f EXCEPT ![i] = r]
  <1>1. /\ g \in Seq(Record) /\ Len(g) = Len(f)
        /\ \A j \in 1 .. Len(f) : g[j] \in Record /\ g[j].user = f[j].user
        /\ \A j \in 1 .. Len(f) : f[j].user # r.user => g[j] = f[j]
    BY PutFacts
  <1> HIDE DEF g
  <1>2. Users(g) = Users(f)
    <2>1. \A u : u \in Users(f) <=> u \in Users(g)
      BY <1>1, UserHasLine, RecordIsText
    <2> QED
      BY <2>1
  <1>3. Distinct(f) => Distinct(g)
    BY <1>1, NotAbsent, RecordIsText DEF Distinct
  <1>4. ASSUME NEW v, v # r.user PROVE RecordsOf(g, v) = RecordsOf(f, v)
    <2>1. DOMAIN g = 1 .. Len(f) /\ DOMAIN f = 1 .. Len(f)
      BY <1>1
    <2>2. {j \in DOMAIN g : g[j].user = v} = {j \in DOMAIN f : f[j].user = v}
      BY <1>1, <2>1
    <2>3. \A j \in {k \in DOMAIN f : f[k].user = v} : g[j] = f[j]
      BY <1>1, <1>4, <2>1
    <2> QED
      BY <2>2, <2>3 DEF RecordsOf, Restrict
  <1> QED
    BY <1>1, <1>2, <1>3, <1>4 DEF g

\* A record added at the end.
LEMMA AddKeeps ==
  ASSUME NEW f \in Seq(Record), NEW r \in Record
  PROVE  /\ Append(f, r) \in Seq(Record)
         /\ Users(Append(f, r)) = Users(f) \cup {r.user}
         /\ Distinct(f) /\ r.user \notin Users(f) => Distinct(Append(f, r))
         /\ \A v : v # r.user => RecordsOf(Append(f, r), v) = RecordsOf(f, v)
  <1> DEFINE g == Append(f, r)
  <1>1. /\ g \in Seq(Record) /\ Len(g) = Len(f) + 1 /\ g[Len(f) + 1] = r
        /\ \A j \in 1 .. Len(f) : g[j] = f[j] /\ f[j] \in Record
        /\ Len(f) \in Nat
    BY AppendFacts
  <1> HIDE DEF g
  <1>2. \A j \in 1 .. Len(g) : j \in 1 .. Len(f) \/ j = Len(f) + 1
    BY <1>1
  <1>3. Users(g) = Users(f) \cup {r.user}
    <2>1. \A u : u \in Users(f) => u \in Users(g)
      BY <1>1, UserHasLine, RecordIsText
    <2>2. r.user \in Users(g)
      BY <1>1, UserHasLine, RecordIsText
    <2>3. ASSUME NEW u \in Users(g) PROVE u \in Users(f) \cup {r.user}
      BY <1>1, <1>2, UserHasLine, RecordIsText
    <2> QED
      BY <2>1, <2>2, <2>3
  <1>4. ASSUME Distinct(f), r.user \notin Users(f) PROVE Distinct(g)
    <2>1. \A j \in 1 .. Len(f) : f[j].user # r.user
      BY <1>1, <1>4, UserHasLine, RecordIsText
    <2>2. \A j, k \in 1 .. Len(f) : f[j].user = f[k].user => j = k
      BY <1>1, <1>4, NotAbsent, RecordIsText DEF Distinct
    <2>3. ASSUME NEW j \in 1 .. Len(g), NEW k \in 1 .. Len(g), g[j].user = g[k].user
          PROVE  j = k
      BY <1>1, <1>2, <2>1, <2>2, <2>3
    <2> QED
      BY <1>1, <2>3 DEF Distinct
  <1>5. ASSUME NEW v, v # r.user PROVE RecordsOf(g, v) = RecordsOf(f, v)
    <2>1. DOMAIN g = 1 .. Len(g) /\ DOMAIN f = 1 .. Len(f)
      BY <1>1
    <2>2. {j \in DOMAIN g : g[j].user = v} = {j \in DOMAIN f : f[j].user = v}
      BY <1>1, <1>2, <1>5, <2>1
    <2>3. \A j \in {k \in DOMAIN f : f[k].user = v} : g[j] = f[j]
      BY <1>1, <2>1
    <2> QED
      BY <2>2, <2>3 DEF RecordsOf, Restrict
  <1> QED
    BY <1>1, <1>3, <1>4, <1>5 DEF g

\* What has reached the file: some of the lines, and perhaps a part of the next.
LEMMA CutKeeps ==
  ASSUME NEW f \in Seq(Record), NEW k \in 0 .. Len(f), Distinct(f)
  PROVE  Distinct(SubSeq(f, 1, k)) /\ Distinct(Append(SubSeq(f, 1, k), Torn))
  <1> DEFINE g == SubSeq(f, 1, k)
  <1>1. /\ g \in Seq(Record) /\ Len(g) = k
        /\ \A j \in 1 .. k : g[j] = f[j] /\ f[j] \in Record
        /\ k \in Nat /\ Len(f) \in Nat
    BY CutFacts
  <1> HIDE DEF g
  <1>2. \A i, j \in 1 .. Len(f) : f[i].user = f[j].user => i = j
    BY NotAbsent, RecordIsText DEF Distinct
  <1>3. Distinct(g)
    BY <1>1, <1>2 DEF Distinct
  <1>4. Distinct(Append(g, Torn))
    <2> DEFINE h == Append(g, Torn)
    <2>1. /\ h \in Seq(Record \cup {Torn}) /\ Len(h) = k + 1 /\ h[k + 1] = Torn
          /\ \A j \in 1 .. k : h[j] = f[j]
      BY <1>1, AppendFacts
    <2> HIDE DEF h
    <2>2. Torn \notin Record
      BY LineAssumption
    <2>3. ASSUME NEW i \in DOMAIN h, NEW j \in DOMAIN h, h[i] \in Record, h[j] \in Record,
                 h[i].user = h[j].user
          PROVE  i = j
      <3>1. i \in 1 .. k /\ j \in 1 .. k
        BY <1>1, <2>1, <2>2, <2>3
      <3> QED
        BY <1>1, <1>2, <2>1, <2>3, <3>1
    <2>4. Distinct(h)
      BY <2>3 DEF Distinct
    <2> QED
      BY <2>4 DEF h
  <1> QED
    BY <1>3, <1>4 DEF g

-----------------------------------------------------------------------------
(* Types.                                                                  *)

LEMMA InitTyped == Init => TypeOK
  <1> SUFFICES ASSUME Init PROVE TypeOK
    OBVIOUS
  <1>1. seed \in {Absent} \cup Seq(Record \cup {Blank, Bad})
    BY SeedsAssumption DEF Init
  <1>2. db \in {Absent} \cup Seq(Record)
    <2>1. CASE db = Absent
      BY <2>1
    <2>2. CASE \E u \in User : db = <<[user |-> u, deleted |-> 1, n |-> 0]>>
      <3>1. PICK u \in User : db = <<[user |-> u, deleted |-> 1, n |-> 0]>>
        BY <2>2
      <3>2. [user |-> u, deleted |-> 1, n |-> 0] \in Record
        BY BoundsAssumption DEF Record
      <3> HIDE DEF Record
      <3> QED
        BY <3>1, <3>2
    <2> QED
      BY <2>1, <2>2 DEF Init
  <1>3. db \in {Absent} \cup Seq(Record \cup {Torn})
    BY <1>2
  <1>4. Users(db) \subseteq User
    BY <1>2 DEF Users, Records, Record
  <1>5. busy \in [Proc -> [who : User \cup {Absent}, at : {"idle", "memory", "file"},
                           was : Record \cup {Absent}]]
    BY DEF Init, Nobody
  <1>6. \A p \in Proc : busy[p].at = "idle" /\ table[p] = Absent
    BY DEF Init, Nobody
  <1>7. Server \in Proc
    BY DEF Proc
  <1>8. out \in Seq(Record) /\ next \in Nat \ {0}
    BY EmptyFacts DEF Init
  <1>9. ~attached /\ attached \in BOOLEAN /\ raced \in BOOLEAN /\ dropped \in BOOLEAN
    BY Zenon DEF Init
  <1>10. srv = [at |-> "down", call |-> 1] /\ consumed = Absent /\ promised \subseteq User
    BY <1>4 DEF Init
  <1>11. /\ tmp \in [Proc -> {Absent} \cup Seq(Record)]
         /\ table \in [Proc -> {Absent} \cup Seq(Record)]
    BY DEF Init
  <1>12. stale \subseteq {p \in Proc : table[p] # Absent}
    BY DEF Init
  <1>13. faults \in 0 .. MaxFaults /\ crashes \in 0 .. MaxCrashes
    BY BoundsAssumption DEF Init
  <1> QED
    BY <1>1, <1>3, <1>5, <1>6, <1>7, <1>8, <1>9, <1>10, <1>11, <1>12, <1>13 DEF TypeOK

\* What the bootstrap does to the file.
LEMMA BootTyped == TypeOK /\ WriterInv /\ CopyInv /\ Bootstrap => TypeOK'
  <1> SUFFICES ASSUME TypeOK, WriterInv, CopyInv, Bootstrap PROVE TypeOK'
    OBVIOUS
  <1>s. Server \in Proc /\ 1 \in Nat \ {0}
    BY DEF Proc
  <1>c. ASSUME Cleanup, UNCHANGED <<raced, promised>>, dropped' \in BOOLEAN,
               faults' \in 0 .. MaxFaults, srv.at # "up"
        PROVE  TypeOK'
    BY <1>s, <1>c, EmptyFacts DEF Cleanup, TypeOK, Copied
  <1>f. Fault => faults' \in 0 .. MaxFaults
    BY BoundsAssumption DEF Fault, TypeOK
  <1>1. CASE BootstrapSkipped
    BY <1>1 DEF BootstrapSkipped, NextCall, TypeOK, Copied, files, copying, history
  <1>2. CASE PathFails
    <2>1. dropped' \in BOOLEAN
      BY <1>2 DEF PathFails, TypeOK
    <2> QED
      BY <1>2, <1>c, <1>f, <2>1 DEF PathFails
  <1>3. CASE SeedPathFails
    BY <1>3, <1>f DEF SeedPathFails, TypeOK, Copied, files, copying, history
  <1>4. CASE OpenFiles
    <2>1. <<>> \in Seq(Record \cup {Torn}) /\ <<>> \in Seq(Record) /\ <<>> # Absent
      BY EmptyFacts, NotAbsent
    <2> QED
      BY <1>s, <1>4, <2>1 DEF OpenFiles, TypeOK, Copied, history
  <1>5. CASE CopyLine
    <2>1. CASE seed[next] = Bad
      BY <1>5, <2>1, <1>c DEF CopyLine, history, TypeOK
    <2>2. CASE seed[next] # Bad
      <3>1. seed \in Seq(Record \cup {Blank, Bad}) /\ next \in 1 .. Len(seed)
        BY <1>5 DEF CopyLine, TypeOK, CopyInv, Copied
      <3>2. seed[next] \in Record \cup {Blank}
        BY <2>2, <3>1
      <3>3. out' \in Seq(Record)
        <4>1. out \in Seq(Record)
          BY DEF TypeOK
        <4>2. CASE seed[next] = Blank
          BY <1>5, <2>2, <4>1, <4>2 DEF CopyLine
        <4>3. CASE seed[next] # Blank
          BY <1>5, <2>2, <3>2, <4>1, <4>3, AppendFacts DEF CopyLine
        <4> QED
          BY <4>2, <4>3
      <3>4. next' \in Nat \ {0}
        BY <1>5, <2>2, <3>1 DEF CopyLine
      <3> QED
        BY <1>5, <2>2, <3>3, <3>4 DEF CopyLine, TypeOK, Copied, files, history
    <2> QED
      BY <2>1, <2>2
  <1>6. CASE Flush
    <2>1. db \in Seq(Record \cup {Torn}) /\ out \in Seq(Record)
      BY <1>6 DEF Flush, TypeOK
    <2>2. Len(db) \in Nat /\ Len(out) \in Nat /\ (db # <<>> => Len(db) > 0)
      BY <2>1
    <2>3. OnDisk \in Nat
      BY <2>2 DEF OnDisk
    <2>4. PICK k \in OnDisk .. Len(out) :
               \/ db' = SubSeq(out, 1, k)
               \/ k < Len(out) /\ db' = Append(SubSeq(out, 1, k), Torn)
      BY <1>6 DEF Flush
    <2>5. SubSeq(out, 1, k) \in Seq(Record)
      BY <2>1, <2>2, <2>3, <2>4, CutFacts
    <2>6. db' \in Seq(Record \cup {Torn})
      <3> DEFINE g == SubSeq(out, 1, k)
      <3>1. g \in Seq(Record \cup {Torn})
        BY <2>5
      <3> HIDE DEF g
      <3>2. Append(g, Torn) \in Seq(Record \cup {Torn})
        BY <3>1
      <3> QED
        BY <2>4, <3>1, <3>2 DEF g
    <2>7. db' # Absent
      BY <2>6, NotAbsent, RecordIsText
    <2>8. stale' \subseteq {p \in Proc : table'[p] # Absent}
      BY <1>6 DEF Flush, Outdated
    <2> QED
      BY <1>6, <2>6, <2>7, <2>8 DEF Flush, TypeOK, Copied, copying, history
  <1>7. CASE CloseDb
    <2>1. out \in Seq(Record \cup {Torn}) /\ out # Absent
      BY NotAbsent, RecordIsText DEF TypeOK
    <2>2. stale' \subseteq {p \in Proc : table'[p] # Absent}
      BY <1>7 DEF CloseDb, Outdated, TypeOK
    <2> QED
      BY <1>7, <2>1, <2>2 DEF CloseDb, TypeOK, Copied, copying, history
  <1>8. CASE ConsumeSeed
    <2>1. Users(seed) \subseteq User
      BY DEF Users, Records, Record
    <2>2. ~attached' /\ attached' \in BOOLEAN
      BY <1>8, Zenon DEF ConsumeSeed
    <2>3. promised' \subseteq User
      BY <1>8, <2>1 DEF ConsumeSeed, TypeOK
    <2>4. srv'.at \in {"boot", "load"} /\ srv'.call = 2
      BY <1>8 DEF ConsumeSeed, NextCall
    <2>5. srv' \in [at : {"down", "boot", "copy", "rename", "load", "up"}, call : 1 .. 2]
      BY <1>8 DEF ConsumeSeed, NextCall
    <2> QED
      BY <1>8, <2>2, <2>3, <2>4, <2>5 DEF ConsumeSeed, TypeOK, Copied
  <1>9. CASE CopyFails
    BY <1>9, <1>c, <1>f DEF CopyFails, history, TypeOK
  <1> QED
    BY <1>1, <1>2, <1>3, <1>4, <1>5, <1>6, <1>7, <1>8, <1>9 DEF Bootstrap


\* A server that goes down forgets its table.
LEMMA DownTyped ==
  TypeOK /\ GoDown /\ UNCHANGED <<files, tmp, history, faults>> /\ crashes' \in 0 .. MaxCrashes
    => TypeOK'
  <1> SUFFICES ASSUME TypeOK, GoDown, UNCHANGED <<files, tmp, history, faults>>,
                      crashes' \in 0 .. MaxCrashes
               PROVE  TypeOK'
    OBVIOUS
  <1>1. Server \in Proc
    BY DEF Proc
  <1>2. out' \in Seq(Record) /\ next' \in Nat \ {0}
    BY EmptyFacts DEF GoDown
  <1>3. ~attached' /\ attached' \in BOOLEAN
    BY Zenon DEF GoDown
  <1>4. /\ busy' \in [Proc -> [who : User \cup {Absent}, at : {"idle", "memory", "file"},
                              was : Record \cup {Absent}]]
        /\ \A p \in Proc : busy'[p].at # "idle" => busy'[p].who \in Users(table'[p])
    BY <1>1 DEF GoDown, TypeOK, Nobody
  <1>5. /\ table' \in [Proc -> {Absent} \cup Seq(Record)]
        /\ stale' \subseteq {p \in Proc : table'[p] # Absent}
        /\ table'[Server] = Absent
    BY <1>1 DEF GoDown, TypeOK
  <1> QED
    BY <1>1, <1>2, <1>3, <1>4, <1>5 DEF GoDown, TypeOK, files, history, Copied

\* The table of one process and what it is changing.
LEMMA TableTyped ==
  ASSUME TypeOK, NEW p \in Proc, NEW f \in {Absent} \cup Seq(Record),
         NEW b \in [who : User \cup {Absent}, at : {"idle", "memory", "file"},
                    was : Record \cup {Absent}],
         b.at # "idle" => b.who \in Users(f),
         p = Server => (f # Absent <=> srv'.at = "up"),
         p # Server => srv'.at = srv.at,
         srv' \in [at : {"down", "boot", "copy", "rename", "load", "up"}, call : 1 .. 2],
         table' = [table EXCEPT ![p] = f], busy' = [busy EXCEPT ![p] = b]
  PROVE  /\ table' \in [Proc -> {Absent} \cup Seq(Record)]
         /\ busy' \in [Proc -> [who : User \cup {Absent}, at : {"idle", "memory", "file"},
                               was : Record \cup {Absent}]]
         /\ \A q \in Proc : busy'[q].at # "idle" => busy'[q].who \in Users(table'[q])
         /\ table'[Server] # Absent <=> srv'.at = "up"
  <1>1. Server \in Proc
    BY DEF Proc
  <1>2. /\ table \in [Proc -> {Absent} \cup Seq(Record)]
        /\ busy \in [Proc -> [who : User \cup {Absent}, at : {"idle", "memory", "file"},
                              was : Record \cup {Absent}]]
        /\ \A q \in Proc : busy[q].at # "idle" => busy[q].who \in Users(table[q])
        /\ table[Server] # Absent <=> srv.at = "up"
    BY DEF TypeOK
  <1> QED
    BY <1>1, <1>2

\* Loading, changing and writing the table.
LEMMA LoadTyped == TypeOK /\ auth_load_db => TypeOK'
  <1> SUFFICES ASSUME TypeOK, auth_load_db PROVE TypeOK'
    OBVIOUS
  <1>1. Server \in Proc
    BY DEF Proc
  <1>2. CASE Loadable(db)
    <2>1. db \in Seq(Record) /\ db # Absent
      BY <1>2, ParsesIs, NotAbsent, RecordIsText DEF Loadable, TypeOK
    <2>2. srv' = [srv EXCEPT !.at = "up"] /\ table' = [table EXCEPT ![Server] = db]
      BY <1>2 DEF auth_load_db
    <2>3. srv.at = "load" /\ busy[Server].at = "idle" /\ ~Copied /\ ~attached
      BY <1>1 DEF auth_load_db, TypeOK, Users, Copied
    <2>4. \A p \in Proc : table'[p] # Absent \/ table'[p] = table[p]
      BY <1>1, <2>1, <2>2 DEF TypeOK
    <2> QED
      BY <1>1, <2>1, <2>2, <2>3, <2>4
      DEF auth_load_db, TypeOK, Copied, files, copying, history
  <1>3. CASE ~Loadable(db)
    BY <1>1, <1>3 DEF auth_load_db, TypeOK, Copied, files, copying, history
  <1> QED
    BY <1>2, <1>3

\* A change leaves a table with the same users in which only the record of the
\* user has changed, and keeps what the record was.
LEMMA ChangeIs ==
  ASSUME TypeOK, NEW u \in User, Change(u)
  PROVE  \E f \in Seq(Record), r \in Record :
           /\ table' = [table EXCEPT ![Server] = f]
           /\ busy' = [busy EXCEPT ![Server] = [who |-> u, at |-> "memory", was |-> r]]
           /\ r.user = u /\ f # Absent /\ table[Server] \in Seq(Record)
           /\ u \in Users(f) /\ Users(f) = Users(table[Server])
           /\ Distinct(table[Server]) => Distinct(f)
           /\ \A v : v # u => RecordsOf(f, v) = RecordsOf(table[Server], v)
  <1> DEFINE i == Position(table[Server], u)
             r == table[Server][i]
  <1>1. Server \in Proc
    BY DEF Proc
  <1>2. table[Server] \in Seq(Record) /\ table[Server] # Absent /\ u \in Users(table[Server])
    BY <1>1 DEF Change, TypeOK
  <1>3. i \in 1 .. Len(table[Server]) /\ r.user = u
    BY <1>2, PositionFacts
  <1>4. r \in Record
    BY <1>2, <1>3
  <1> HIDE DEF i, r
  <1>5. PICK new \in {[r EXCEPT !.n = @ + 1], [r EXCEPT !.deleted = 1]} :
             /\ new.n <= MaxChanges
             /\ table' = [table EXCEPT ![Server] = [@ EXCEPT ![i] = new]]
             /\ busy' = [busy EXCEPT ![Server] = [who |-> u, at |-> "memory", was |-> r]]
    BY DEF Change, i, r
  <1>6. new \in Record /\ new.user = u
    BY <1>3, <1>4, <1>5, BoundsAssumption DEF Record, r
  <1> DEFINE f == [table[Server] EXCEPT ![i] = new]
  <1>7. /\ f \in Seq(Record) /\ Users(f) = Users(table[Server])
        /\ Distinct(table[Server]) => Distinct(f)
        /\ \A v : v # u => RecordsOf(f, v) = RecordsOf(table[Server], v)
    BY <1>2, <1>3, <1>6, PutKeeps DEF r
  <1>8. f # Absent
    BY <1>7, NotAbsent, RecordIsText
  <1>9. table' = [table EXCEPT ![Server] = f]
    BY <1>1, <1>5 DEF TypeOK
  <1> HIDE DEF f
  <1> QED
    BY <1>2, <1>3, <1>4, <1>5, <1>7, <1>8, <1>9

\* A change that fails leaves the table, or puts the record back.
LEMMA ChangeFailsIs ==
  ASSUME TypeOK, WriterInv, ChangeFails
  PROVE  \E f \in Seq(Record) :
           /\ table' = [table EXCEPT ![Server] = f]
           /\ f # Absent /\ table[Server] \in Seq(Record) /\ table[Server] # Absent
           /\ Users(f) = Users(table[Server])
           /\ Distinct(table[Server]) => Distinct(f)
  <1> DEFINE u == busy[Server].who
             i == Position(table[Server], u)
             r == busy[Server].was
  <1>1. Server \in Proc
    BY DEF Proc
  <1>2. busy[Server].at # "idle"
    BY <1>1 DEF ChangeFails, WriterInv
  <1>3. u \in Users(table[Server])
    BY <1>1, <1>2 DEF TypeOK
  <1>4. table[Server] \in Seq(Record) /\ table[Server] # Absent
    BY <1>1, <1>3 DEF TypeOK, Users
  <1>5. r \in Record /\ r.user = u
    BY <1>1, <1>2 DEF WriterInv
  <1>6. i \in 1 .. Len(table[Server]) /\ table[Server][i].user = u
    BY <1>3, <1>4, PositionFacts
  <1> HIDE DEF u, i, r
  <1>7. table' = table \/ table' = [table EXCEPT ![Server] = [@ EXCEPT ![i] = r]]
    BY DEF ChangeFails, i, u, r
  <1>8. CASE table' = table
    <2>1. table' = [table EXCEPT ![Server] = table[Server]]
      BY <1>1, <1>8 DEF TypeOK
    <2> QED
      BY <1>4, <2>1
  <1>9. CASE table' = [table EXCEPT ![Server] = [@ EXCEPT ![i] = r]]
    <2> DEFINE f == [table[Server] EXCEPT ![i] = r]
    <2>1. /\ f \in Seq(Record) /\ Users(f) = Users(table[Server])
          /\ Distinct(table[Server]) => Distinct(f)
      BY <1>4, <1>5, <1>6, PutKeeps
    <2>2. f # Absent
      BY <2>1, NotAbsent, RecordIsText
    <2>3. table' = [table EXCEPT ![Server] = f]
      BY <1>1, <1>9 DEF TypeOK
    <2> HIDE DEF f
    <2> QED
      BY <1>4, <2>1, <2>2, <2>3
  <1> QED
    BY <1>7, <1>8, <1>9

\* A tool's copy is the file with the record of one user added or changed.
LEMMA RegisterIs ==
  ASSUME TypeOK, NEW t \in Tool, NEW u \in User, Register(t, u)
  PROVE  \E f \in Seq(Record) :
           /\ table' = [table EXCEPT ![t] = f]
           /\ db \in Seq(Record) /\ db # Absent /\ f # Absent
           /\ u \in Users(f) /\ Users(db) \subseteq Users(f)
           /\ Distinct(db) => Distinct(f)
           /\ \A v : v # u => RecordsOf(f, v) = RecordsOf(db, v)
  <1>1. t \in Proc
    BY DEF Proc
  <1>2. db \in Seq(Record) /\ db # Absent
    BY ParsesIs, RecordIsText DEF Register, TypeOK, Parses
  <1>3. CASE u \in Users(db)
    <2> DEFINE i == Position(db, u)
               r == [db[i] EXCEPT !.deleted = 0]
               f == [db EXCEPT ![i] = r]
    <2>1. i \in 1 .. Len(db) /\ db[i].user = u
      BY <1>2, <1>3, PositionFacts
    <2>2. db[i] \in Record
      BY <1>2, <2>1
    <2>3. table' = [table EXCEPT ![t] = [db EXCEPT ![i].deleted = 0]]
      BY <1>3 DEF Register
    <2> HIDE DEF i
    <2>4. r \in Record /\ r.user = u
      BY <2>1, <2>2 DEF Record
    <2>5. table' = [table EXCEPT ![t] = f]
      BY <2>3
    <2> HIDE DEF r
    <2>6. /\ f \in Seq(Record) /\ Users(f) = Users(db)
          /\ Distinct(db) => Distinct(f)
          /\ \A v : v # u => RecordsOf(f, v) = RecordsOf(db, v)
      BY <1>2, <2>1, <2>4, PutKeeps
    <2>7. f # Absent
      BY <2>6, NotAbsent, RecordIsText
    <2> HIDE DEF f
    <2> QED
      BY <1>2, <1>3, <2>5, <2>6, <2>7
  <1>4. CASE u \notin Users(db)
    <2> DEFINE r == [user |-> u, deleted |-> 0, n |-> 0]
               f == Append(db, r)
    <2>1. table' = [table EXCEPT ![t] = f]
      BY <1>4 DEF Register
    <2>2. r \in Record /\ r.user = u
      BY BoundsAssumption DEF Record
    <2> HIDE DEF r
    <2>3. /\ f \in Seq(Record) /\ Users(f) = Users(db) \cup {u}
          /\ Distinct(db) => Distinct(f)
          /\ \A v : v # u => RecordsOf(f, v) = RecordsOf(db, v)
      BY <1>2, <1>4, <2>2, AddKeeps
    <2>4. f # Absent
      BY <2>3, NotAbsent, RecordIsText
    <2> HIDE DEF f
    <2> QED
      BY <1>2, <2>1, <2>3, <2>4
  <1> QED
    BY <1>3, <1>4

LEMMA ChangeTyped == ASSUME TypeOK, NEW u \in User, Change(u) PROVE TypeOK'
  <1>1. Server \in Proc
    BY DEF Proc
  <1>2. PICK f \in Seq(Record), r \in Record :
           /\ table' = [table EXCEPT ![Server] = f]
           /\ busy' = [busy EXCEPT ![Server] = [who |-> u, at |-> "memory", was |-> r]]
           /\ f # Absent /\ u \in Users(f)
    BY ChangeIs
  <1> DEFINE b == [who |-> u, at |-> "memory", was |-> r]
  <1>3. b \in [who : User \cup {Absent}, at : {"idle", "memory", "file"},
               was : Record \cup {Absent}] /\ b.who = u
    OBVIOUS
  <1>4. busy' = [busy EXCEPT ![Server] = b]
    BY <1>2
  <1>5. UNCHANGED <<files, tmp, srv, copying, stale, history, faults, crashes>>
        /\ srv.at = "up"
    BY DEF Change
  <1> HIDE DEF b
  <1>6. /\ table' \in [Proc -> {Absent} \cup Seq(Record)]
        /\ busy' \in [Proc -> [who : User \cup {Absent}, at : {"idle", "memory", "file"},
                              was : Record \cup {Absent}]]
        /\ \A q \in Proc : busy'[q].at # "idle" => busy'[q].who \in Users(table'[q])
        /\ table'[Server] # Absent <=> srv'.at = "up"
    BY <1>1, <1>2, <1>3, <1>4, <1>5, TableTyped DEF TypeOK
  <1>7. stale' \subseteq {p \in Proc : table'[p] # Absent}
    BY <1>1, <1>2, <1>5 DEF TypeOK
  <1> QED
    BY <1>5, <1>6, <1>7 DEF TypeOK, Copied, files, copying, history

LEMMA ChangeFailsTyped == TypeOK /\ WriterInv /\ ChangeFails => TypeOK'
  <1> SUFFICES ASSUME TypeOK, WriterInv, ChangeFails PROVE TypeOK'
    OBVIOUS
  <1>1. Server \in Proc
    BY DEF Proc
  <1>2. PICK f \in Seq(Record) :
           /\ table' = [table EXCEPT ![Server] = f]
           /\ f # Absent /\ table[Server] # Absent
    BY ChangeFailsIs
  <1>3. Nobody \in [who : User \cup {Absent}, at : {"idle", "memory", "file"},
                    was : Record \cup {Absent}] /\ Nobody.at = "idle"
    BY DEF Nobody
  <1>4. /\ busy' = [busy EXCEPT ![Server] = Nobody]
        /\ tmp' = [tmp EXCEPT ![Server] = Absent]
        /\ UNCHANGED <<files, srv, copying, stale, history, crashes>>
        /\ faults' \in 0 .. MaxFaults
    BY BoundsAssumption DEF ChangeFails, Fault, TypeOK
  <1>5. /\ table' \in [Proc -> {Absent} \cup Seq(Record)]
        /\ busy' \in [Proc -> [who : User \cup {Absent}, at : {"idle", "memory", "file"},
                              was : Record \cup {Absent}]]
        /\ \A q \in Proc : busy'[q].at # "idle" => busy'[q].who \in Users(table'[q])
        /\ table'[Server] # Absent <=> srv'.at = "up"
    BY <1>1, <1>2, <1>3, <1>4, TableTyped DEF TypeOK
  <1>6. stale' \subseteq {p \in Proc : table'[p] # Absent}
    BY <1>1, <1>2, <1>4 DEF TypeOK
  <1>7. tmp' \in [Proc -> {Absent} \cup Seq(Record)]
    BY <1>1, <1>4 DEF TypeOK
  <1> QED
    BY <1>4, <1>5, <1>6, <1>7 DEF TypeOK, Copied, files, copying, history

\* The tool, and what it shares with the server.
LEMMA RegisterTyped ==
  ASSUME TypeOK, NEW t \in Tool, NEW u \in User, Register(t, u) PROVE TypeOK'
  <1>1. t \in Proc /\ t # Server
    BY ProcAssumption DEF Proc
  <1>2. PICK f \in Seq(Record) :
           table' = [table EXCEPT ![t] = f] /\ f # Absent /\ u \in Users(f)
    BY RegisterIs
  <1> DEFINE b == [who |-> u, at |-> "memory", was |-> Absent]
  <1>3. b \in [who : User \cup {Absent}, at : {"idle", "memory", "file"},
               was : Record \cup {Absent}] /\ b.who = u
    OBVIOUS
  <1>4. /\ busy' = [busy EXCEPT ![t] = b] /\ stale' = stale \ {t}
        /\ UNCHANGED <<files, tmp, srv, copying, history, faults, crashes>>
    BY DEF Register
  <1> HIDE DEF b
  <1>5. /\ table' \in [Proc -> {Absent} \cup Seq(Record)]
        /\ busy' \in [Proc -> [who : User \cup {Absent}, at : {"idle", "memory", "file"},
                              was : Record \cup {Absent}]]
        /\ \A q \in Proc : busy'[q].at # "idle" => busy'[q].who \in Users(table'[q])
        /\ table'[Server] # Absent <=> srv'.at = "up"
    BY <1>1, <1>2, <1>3, <1>4, TableTyped DEF TypeOK
  <1>6. stale' \subseteq {p \in Proc : table'[p] # Absent}
    BY <1>1, <1>2, <1>4 DEF TypeOK
  <1> QED
    BY <1>4, <1>5, <1>6 DEF TypeOK, Copied, files, copying, history

LEMMA RegisterFailsTyped ==
  ASSUME TypeOK, NEW t \in Tool, RegisterFails(t) PROVE TypeOK'
  <1>1. t \in Proc /\ t # Server
    BY ProcAssumption DEF Proc
  <1>2. Nobody \in [who : User \cup {Absent}, at : {"idle", "memory", "file"},
                    was : Record \cup {Absent}] /\ Nobody.at = "idle"
    BY DEF Nobody
  <1>3. /\ table' = [table EXCEPT ![t] = Absent] /\ busy' = [busy EXCEPT ![t] = Nobody]
        /\ tmp' = [tmp EXCEPT ![t] = Absent] /\ stale' = stale \ {t}
        /\ UNCHANGED <<files, srv, copying, history, crashes>>
        /\ faults' \in 0 .. MaxFaults
    BY BoundsAssumption DEF RegisterFails, Fault, TypeOK
  <1>4. /\ table' \in [Proc -> {Absent} \cup Seq(Record)]
        /\ busy' \in [Proc -> [who : User \cup {Absent}, at : {"idle", "memory", "file"},
                              was : Record \cup {Absent}]]
        /\ \A q \in Proc : busy'[q].at # "idle" => busy'[q].who \in Users(table'[q])
        /\ table'[Server] # Absent <=> srv'.at = "up"
    BY <1>1, <1>2, <1>3, TableTyped DEF TypeOK
  <1>5. stale' \subseteq {p \in Proc : table'[p] # Absent}
    BY <1>1, <1>3 DEF TypeOK
  <1>6. tmp' \in [Proc -> {Absent} \cup Seq(Record)]
    BY <1>1, <1>3 DEF TypeOK
  <1> QED
    BY <1>3, <1>4, <1>5, <1>6 DEF TypeOK, Copied, files, copying, history

LEMMA FillTyped == ASSUME TypeOK, NEW p \in Proc, FillTmp(p) PROVE TypeOK'
  <1>1. /\ busy' \in [Proc -> [who : User \cup {Absent}, at : {"idle", "memory", "file"},
                              was : Record \cup {Absent}]]
        /\ \A q \in Proc : busy'[q].at # "idle" => busy'[q].who \in Users(table'[q])
    BY DEF FillTmp, TypeOK
  <1>2. tmp' \in [Proc -> {Absent} \cup Seq(Record)]
    BY DEF FillTmp, TypeOK, TmpName
  <1> QED
    BY <1>1, <1>2 DEF FillTmp, TypeOK, Copied, files, copying, history

LEMMA RenameTyped == ASSUME TypeOK, NEW p \in Proc, RenameTmp(p) PROVE TypeOK'
  <1>1. Nobody \in [who : User \cup {Absent}, at : {"idle", "memory", "file"},
                    was : Record \cup {Absent}] /\ Nobody.at = "idle"
    BY DEF Nobody
  <1>2. db' \in {Absent} \cup Seq(Record \cup {Torn})
    <2>1. db' \in Seq(Record)
      BY DEF RenameTmp, TypeOK, TmpName
    <2> QED
      BY <2>1
  <1>3. tmp' \in [Proc -> {Absent} \cup Seq(Record)]
    BY DEF RenameTmp, TypeOK, TmpName
  <1>4. busy' = [busy EXCEPT ![p] = Nobody] /\ srv' = srv
    BY DEF RenameTmp
  <1>5. table' = [table EXCEPT ![p] = IF p = Server THEN table[p] ELSE Absent]
    BY DEF RenameTmp, TypeOK
  <1>6. /\ table' \in [Proc -> {Absent} \cup Seq(Record)]
        /\ busy' \in [Proc -> [who : User \cup {Absent}, at : {"idle", "memory", "file"},
                              was : Record \cup {Absent}]]
        /\ \A q \in Proc : busy'[q].at # "idle" => busy'[q].who \in Users(table'[q])
        /\ table'[Server] # Absent <=> srv'.at = "up"
    BY <1>1, <1>4, <1>5, TableTyped DEF TypeOK
  <1>7. stale' \subseteq {q \in Proc : table'[q] # Absent}
    BY <1>5 DEF RenameTmp, Outdated, TypeOK
  <1>8. ~attached' /\ attached' \in BOOLEAN
    BY Zenon DEF RenameTmp
  <1>9. raced' \in BOOLEAN
    BY Zenon DEF RenameTmp, TypeOK
  <1>10. promised' \subseteq User
    <2>1. busy[p].who \in Users(table[p]) /\ promised \subseteq User
      BY DEF RenameTmp, TypeOK
    <2>2. Users(table[p]) \subseteq User
      BY DEF Users, Records, Record
    <2> QED
      BY <2>1, <2>2 DEF RenameTmp
  <1> QED
    BY <1>2, <1>3, <1>4, <1>6, <1>7, <1>8, <1>9, <1>10 DEF RenameTmp, TypeOK, Copied

LEMMA NextTyped == TypeOK /\ WriterInv /\ CopyInv /\ [Next]_vars => TypeOK'
  <1> SUFFICES ASSUME TypeOK, WriterInv, CopyInv, [Next]_vars PROVE TypeOK'
    OBVIOUS
  <1>1. CASE Start
    BY <1>1 DEF Start, TypeOK, Copied, files, copying, history
  <1>2. CASE Bootstrap
    BY <1>2, BootTyped
  <1>3. CASE auth_load_db
    BY <1>3, LoadTyped
  <1>4. CASE LoadFails
    BY <1>4, BoundsAssumption DEF LoadFails, Fault, TypeOK, Copied, files, copying, history
  <1>5. CASE \E u \in User : Change(u)
    BY <1>5, ChangeTyped
  <1>6. CASE ChangeFails
    BY <1>6, ChangeFailsTyped
  <1>7. CASE Exit
    BY <1>7, DownTyped DEF Exit, TypeOK
  <1>8. CASE Crash
    BY <1>8, DownTyped, BoundsAssumption DEF Crash, TypeOK
  <1>9. CASE \E t \in Tool, u \in User : Register(t, u)
    BY <1>9, RegisterTyped
  <1>10. CASE \E t \in Tool : RegisterFails(t)
    BY <1>10, RegisterFailsTyped
  <1>11. CASE \E p \in Proc : FillTmp(p) \/ RenameTmp(p)
    BY <1>11, FillTyped, RenameTyped
  <1>12. CASE UNCHANGED vars
    BY <1>12 DEF vars, TypeOK, Copied, files, copying, history
  <1> QED
    BY <1>1, <1>2, <1>3, <1>4, <1>5, <1>6, <1>7, <1>8, <1>9, <1>10, <1>11, <1>12 DEF Next

-----------------------------------------------------------------------------
(* The writers: copies of the file and what is done with them.             *)

\* No copy is up to date once the file has been changed by somebody without one.
LEMMA AllOutdated ==
  ASSUME WriterInv, UNCHANGED <<busy, tmp, table>>,
         \A p \in Proc : table[p] # Absent => p \in stale'
  PROVE  WriterInv'
  BY DEF WriterInv

LEMMA NobodyMoves ==
  WriterInv /\ UNCHANGED <<busy, tmp, table, stale, db>> => WriterInv'
  BY DEF WriterInv, Parses, Users, Records

\* Nobody has a copy that is up to date of a file that is not there, and the
\* server has none before it is up.
LEMMA NoCopies ==
  ASSUME TypeOK, WriterInv
  PROVE  /\ db = Absent => \A p \in Proc : table[p] # Absent => p \in stale
         /\ srv.at # "up" => table[Server] = Absent /\ Server \notin stale
                             /\ \A p \in Proc : table[p] # Absent => p \in Outdated(Server)
  <1>1. Server \in Proc
    BY DEF Proc
  <1> QED
    BY <1>1 DEF TypeOK, WriterInv, Parses, Outdated

LEMMA BootWriters == TypeOK /\ WriterInv /\ Bootstrap => WriterInv'
  <1> SUFFICES ASSUME TypeOK, WriterInv, Bootstrap PROVE WriterInv'
    OBVIOUS
  <1>c. Cleanup => WriterInv'
    BY AllOutdated DEF Cleanup
  <1>1. CASE BootstrapSkipped \/ SeedPathFails \/ ConsumeSeed
    BY <1>1, NobodyMoves DEF BootstrapSkipped, SeedPathFails, ConsumeSeed, files
  <1>2. CASE PathFails \/ CopyFails
    BY <1>2, <1>c DEF PathFails, CopyFails
  <1>3. CASE OpenFiles
    BY <1>3, NoCopies, AllOutdated DEF OpenFiles, NothingToCopy
  <1>4. CASE CopyLine
    BY <1>4, <1>c, NobodyMoves DEF CopyLine, files
  <1>5. CASE Flush
    BY <1>5, NoCopies, AllOutdated DEF Flush
  <1>6. CASE CloseDb
    <2>1. CASE attached
      BY <1>6, <2>1, NoCopies, AllOutdated DEF CloseDb
    <2>2. CASE ~attached
      BY <1>6, <2>2, NobodyMoves DEF CloseDb
    <2> QED
      BY <2>1, <2>2
  <1> QED
    BY <1>1, <1>2, <1>3, <1>4, <1>5, <1>6 DEF Bootstrap

\* A process takes a copy, changes it or lets it go.
LEMMA OneMoves ==
  ASSUME TypeOK, WriterInv, NEW p \in Proc, NEW f, NEW b,
         table' = [table EXCEPT ![p] = f], busy' = [busy EXCEPT ![p] = b],
         tmp' = tmp \/ tmp' = [tmp EXCEPT ![p] = Absent],
         stale' = stale \/ stale' = stale \ {p}, db' = db,
         b = Nobody \/ b.at = "memory",
         p = Server /\ b # Nobody => b.was \in Record /\ b.was.user = b.who,
         f # Absent /\ p \notin stale' => Parses(db) /\ Users(db) \subseteq Users(f)
  PROVE  WriterInv'
  <1> SUFFICES ASSUME NEW q \in Proc
               PROVE  /\ busy'[q].at = "idle" => busy'[q] = Nobody
                      /\ busy'[q].at = "file" => tmp'[q] = table'[q]
                      /\ q = Server /\ busy'[q].at # "idle" =>
                           busy'[q].was \in Record /\ busy'[q].was.user = busy'[q].who
                      /\ table'[q] # Absent /\ q \notin stale' =>
                           Parses(db') /\ Users(db') \subseteq Users(table'[q])
    BY DEF WriterInv, Parses, Users, Records
  <1>1. CASE q = p
    <2>1. busy'[q] = b /\ table'[q] = f
      BY <1>1 DEF TypeOK
    <2>2. Nobody.at = "idle"
      BY DEF Nobody
    <2> QED
      BY <1>1, <2>1, <2>2
  <1>2. CASE q # p
    <2>1. busy'[q] = busy[q] /\ table'[q] = table[q] /\ tmp'[q] = tmp[q]
      BY <1>2 DEF TypeOK
    <2>2. q \notin stale' => q \notin stale
      BY <1>2
    <2> QED
      BY <2>1, <2>2 DEF WriterInv
  <1> QED
    BY <1>1, <1>2

LEMMA LoadWriters == TypeOK /\ WriterInv /\ auth_load_db => WriterInv'
  <1> SUFFICES ASSUME TypeOK, WriterInv, auth_load_db PROVE WriterInv'
    OBVIOUS
  <1>1. Server \in Proc
    BY DEF Proc
  <1>2. busy[Server].at = "idle" /\ busy[Server] = Nobody /\ srv.at # "up"
    BY <1>1 DEF auth_load_db, TypeOK, WriterInv, Users
  <1>3. /\ busy' = [busy EXCEPT ![Server] = Nobody] /\ tmp' = tmp /\ db' = db
        /\ stale' = stale \ {Server}
    BY <1>1, <1>2 DEF auth_load_db, files, TypeOK
  <1>4. CASE Loadable(db)
    BY <1>1, <1>3, <1>4, OneMoves DEF auth_load_db, Loadable
  <1>5. CASE ~Loadable(db)
    <2>1. stale' = stale
      BY <1>2, <1>3, NoCopies
    <2> QED
      BY <1>2, <1>3, <1>5, <2>1, NobodyMoves DEF auth_load_db
  <1> QED
    BY <1>4, <1>5

LEMMA ChangeWriters ==
  ASSUME TypeOK, WriterInv, NEW u \in User, Change(u) PROVE WriterInv'
  <1>1. Server \in Proc
    BY DEF Proc
  <1>2. PICK f \in Seq(Record), r \in Record :
           /\ table' = [table EXCEPT ![Server] = f]
           /\ busy' = [busy EXCEPT ![Server] = [who |-> u, at |-> "memory", was |-> r]]
           /\ r.user = u /\ table[Server] \in Seq(Record)
           /\ Users(f) = Users(table[Server])
    BY ChangeIs
  <1> DEFINE b == [who |-> u, at |-> "memory", was |-> r]
  <1>3. b.at = "memory" /\ b.was = r /\ b.who = u /\ busy' = [busy EXCEPT ![Server] = b]
    BY <1>2
  <1>4. tmp' = tmp /\ stale' = stale /\ db' = db /\ table[Server] # Absent
    BY <1>1 DEF Change, files, TypeOK
  <1>5. Server \notin stale => Parses(db) /\ Users(db) \subseteq Users(f)
    BY <1>1, <1>2, <1>4 DEF WriterInv
  <1> HIDE DEF b
  <1> QED
    BY <1>1, <1>2, <1>3, <1>4, <1>5, OneMoves

LEMMA ChangeFailsWriters == TypeOK /\ WriterInv /\ ChangeFails => WriterInv'
  <1> SUFFICES ASSUME TypeOK, WriterInv, ChangeFails PROVE WriterInv'
    OBVIOUS
  <1>1. Server \in Proc
    BY DEF Proc
  <1>2. PICK f \in Seq(Record) :
           /\ table' = [table EXCEPT ![Server] = f]
           /\ table[Server] # Absent /\ Users(f) = Users(table[Server])
    BY ChangeFailsIs
  <1>3. /\ busy' = [busy EXCEPT ![Server] = Nobody] /\ stale' = stale /\ db' = db
        /\ tmp' = [tmp EXCEPT ![Server] = Absent]
    BY DEF ChangeFails, files
  <1>4. Server \notin stale => Parses(db) /\ Users(db) \subseteq Users(f)
    BY <1>1, <1>2 DEF WriterInv
  <1> QED
    BY <1>1, <1>2, <1>3, <1>4, OneMoves

LEMMA ToolWriters ==
  ASSUME TypeOK, WriterInv, NEW t \in Tool,
         (\E u \in User : Register(t, u)) \/ RegisterFails(t)
  PROVE  WriterInv'
  <1>1. t \in Proc /\ t # Server
    BY ProcAssumption DEF Proc
  <1>2. ASSUME NEW u \in User, Register(t, u) PROVE WriterInv'
    <2>1. PICK f \in Seq(Record) :
             /\ table' = [table EXCEPT ![t] = f]
             /\ db \in Seq(Record) /\ db # Absent /\ Users(db) \subseteq Users(f)
      BY <1>2, RegisterIs
    <2> DEFINE b == [who |-> u, at |-> "memory", was |-> Absent]
    <2>2. b.at = "memory" /\ busy' = [busy EXCEPT ![t] = b]
      BY <1>2 DEF Register
    <2>3. tmp' = tmp /\ stale' = stale \ {t} /\ db' = db /\ Parses(db)
      BY <1>2 DEF Register, files
    <2> HIDE DEF b
    <2> QED
      BY <1>1, <2>1, <2>2, <2>3, OneMoves
  <1>3. CASE RegisterFails(t)
    BY <1>1, <1>3, OneMoves DEF RegisterFails, files
  <1> QED
    BY <1>2, <1>3

LEMMA DownWriters == TypeOK /\ WriterInv /\ GoDown /\ UNCHANGED <<files, tmp>> => WriterInv'
  <1> SUFFICES ASSUME TypeOK, WriterInv, GoDown, UNCHANGED <<files, tmp>> PROVE WriterInv'
    OBVIOUS
  <1>1. Server \in Proc
    BY DEF Proc
  <1> QED
    BY <1>1, OneMoves DEF GoDown, files

LEMMA FillWriters == ASSUME TypeOK, WriterInv, NEW p \in Proc, FillTmp(p) PROVE WriterInv'
  <1> SUFFICES ASSUME NEW q \in Proc
               PROVE  /\ busy'[q].at = "idle" => busy'[q] = Nobody
                      /\ busy'[q].at = "file" => tmp'[q] = table'[q]
                      /\ q = Server /\ busy'[q].at # "idle" =>
                           busy'[q].was \in Record /\ busy'[q].was.user = busy'[q].who
                      /\ table'[q] # Absent /\ q \notin stale' =>
                           Parses(db') /\ Users(db') \subseteq Users(table'[q])
    BY DEF WriterInv, Parses, Users, Records
  <1>1. /\ busy[p].at = "memory" /\ tmp' = [tmp EXCEPT ![p] = table[p]]
        /\ busy' = [busy EXCEPT ![p].at = "file"]
        /\ UNCHANGED <<db, table, stale>>
    BY DEF FillTmp, TmpName, files
  <1>2. /\ busy'[q].at = "idle" => busy'[q] = Nobody
        /\ busy'[q].at = "file" => tmp'[q] = table'[q]
    BY <1>1 DEF TypeOK, WriterInv
  <1>3. /\ busy'[q].was = busy[q].was /\ busy'[q].who = busy[q].who
        /\ busy'[q].at # "idle" => busy[q].at # "idle"
    BY <1>1 DEF TypeOK
  <1> QED
    BY <1>1, <1>2, <1>3 DEF WriterInv

\* The copy that becomes the file is up to date, and no other is.
LEMMA RenameWriters ==
  ASSUME TypeOK, WriterInv, NEW p \in Proc, RenameTmp(p) PROVE WriterInv'
  <1> SUFFICES ASSUME NEW q \in Proc
               PROVE  /\ busy'[q].at = "idle" => busy'[q] = Nobody
                      /\ busy'[q].at = "file" => tmp'[q] = table'[q]
                      /\ q = Server /\ busy'[q].at # "idle" =>
                           busy'[q].was \in Record /\ busy'[q].was.user = busy'[q].who
                      /\ table'[q] # Absent /\ q \notin stale' =>
                           Parses(db') /\ Users(db') \subseteq Users(table'[q])
    BY DEF WriterInv, Parses, Users, Records
  <1>1. /\ db' = table[p] /\ db' # Absent /\ db' \in Seq(Record)
        /\ tmp' = [tmp EXCEPT ![p] = Absent]
        /\ busy' = [busy EXCEPT ![p] = Nobody]
    BY DEF RenameTmp, TmpName, WriterInv, TypeOK
  <1>2. CASE q = p
    <2>1. busy'[q] = Nobody /\ Nobody.at = "idle"
      BY <1>1, <1>2 DEF TypeOK, Nobody
    <2>2. table'[q] # Absent => table'[q] = db'
      BY <1>1, <1>2 DEF RenameTmp, TypeOK
    <2>3. Parses(db')
      BY <1>1 DEF Parses, ToSet
    <2> QED
      BY <2>1, <2>2, <2>3
  <1>3. CASE q # p
    <2>1. busy'[q] = busy[q] /\ tmp'[q] = tmp[q] /\ table'[q] = table[q]
      BY <1>1, <1>3 DEF RenameTmp, TypeOK
    <2>2. table'[q] # Absent => q \in stale'
      BY <1>3, <2>1 DEF RenameTmp, Outdated
    <2> QED
      BY <2>1, <2>2 DEF WriterInv
  <1> QED
    BY <1>2, <1>3

LEMMA NextWriters == TypeOK /\ WriterInv /\ [Next]_vars => WriterInv'
  <1> SUFFICES ASSUME TypeOK, WriterInv, [Next]_vars PROVE WriterInv'
    OBVIOUS
  <1>1. CASE Start \/ LoadFails
    BY <1>1, NobodyMoves DEF Start, LoadFails, files
  <1>2. CASE Bootstrap
    BY <1>2, BootWriters
  <1>3. CASE auth_load_db
    BY <1>3, LoadWriters
  <1>4. CASE \E u \in User : Change(u)
    BY <1>4, ChangeWriters
  <1>5. CASE ChangeFails
    BY <1>5, ChangeFailsWriters
  <1>6. CASE Exit \/ Crash
    BY <1>6, DownWriters DEF Exit, Crash
  <1>7. CASE \E t \in Tool : (\E u \in User : Register(t, u)) \/ RegisterFails(t)
    BY <1>7, ToolWriters
  <1>8. CASE \E p \in Proc : FillTmp(p) \/ RenameTmp(p)
    BY <1>8, FillWriters, RenameWriters
  <1>9. CASE UNCHANGED vars
    BY <1>9, NobodyMoves DEF vars, files
  <1> QED
    BY <1>1, <1>2, <1>3, <1>4, <1>5, <1>6, <1>7, <1>8, <1>9 DEF Next


-----------------------------------------------------------------------------
(* The first start: what has been copied.                                  *)

\* Nothing is said of a server that is not copying.
LEMMA NotCopying ==
  ASSUME ~Copied', seed' # Absent => consumed' = Absent
  PROVE  CopyInv'
  <1>1. srv'.at # "rename"
    BY DEF Copied
  <1> QED
    BY <1>1, Zenon DEF CopyInv

\* The server goes on to something else.
LEMMA LeavesCopy ==
  ASSUME TypeOK, CopyInv, NEW a \in {"down", "boot", "load", "up"},
         srv'.at = a, UNCHANGED <<seed, consumed>>
  PROVE  CopyInv'
  <1>1. seed' # Absent => consumed' = Absent
    BY Zenon DEF CopyInv
  <1>2. ~Copied'
    BY DEF Copied
  <1> QED
    BY <1>1, <1>2, NotCopying

LEMMA CopyStays == CopyInv /\ UNCHANGED <<srv, seed, consumed, db, out, next, attached>> => CopyInv'
  <1> SUFFICES ASSUME CopyInv, UNCHANGED <<srv, seed, consumed, db, out, next, attached>>
               PROVE  CopyInv'
    OBVIOUS
  <1>1. Users(out)' = Users(out) /\ Copied' = Copied
    BY DEF Users, Records, Copied
  <1> QED
    BY <1>1, Zenon DEF CopyInv

LEMMA CopyLineCopies == TypeOK /\ CopyInv /\ CopyLine => CopyInv'
  <1> SUFFICES ASSUME TypeOK, CopyInv, CopyLine PROVE CopyInv'
    OBVIOUS
  <1>1. CASE seed[next] = Bad
    BY <1>1, LeavesCopy DEF CopyLine, Cleanup, TypeOK
  <1>2. CASE seed[next] # Bad
    <2>1. /\ seed \in Seq(Record \cup {Blank, Bad}) /\ next \in 1 .. Len(seed)
          /\ DOMAIN seed = 1 .. Len(seed) /\ Len(seed) \in Nat
      BY DEF CopyLine, TypeOK, CopyInv, Copied
    <2>2. seed[next] \in Record \cup {Blank}
      BY <1>2, <2>1
    <2>3. /\ next' = next + 1 /\ UNCHANGED <<seed, consumed, db, srv, attached>>
          /\ out' = IF seed[next] = Blank THEN out ELSE Append(out, seed[next])
      BY <1>2 DEF CopyLine, files
    <2>4. \A j \in DOMAIN seed : j < next' <=> j < next \/ j = next
      BY <2>1, <2>3
    <2>5. /\ \A i \in DOMAIN out : \E j \in DOMAIN seed : j < next /\ seed[j] = out[i]
          /\ \A j \in DOMAIN seed : j < next /\ seed[j] \in Record => seed[j].user \in Users(out)
          /\ out \in Seq(Record)
      BY DEF CopyInv, CopyLine, Copied, TypeOK
    <2>6. /\ \A i \in DOMAIN out' : \E j \in DOMAIN seed : j < next' /\ seed[j] = out'[i]
          /\ \A j \in DOMAIN seed : j < next' /\ seed[j] \in Record => seed[j].user \in Users(out')
      <3>1. CASE seed[next] = Blank
        <4>1. out' = out /\ seed[next] \notin Record
          BY <2>3, <3>1, LineAssumption
        <4> QED
          BY <2>4, <2>5, <4>1
      <3>2. CASE seed[next] # Blank
        <4>1. out' = Append(out, seed[next]) /\ seed[next] \in Record
          BY <2>2, <2>3, <3>2
        <4>2. /\ DOMAIN out' = 1 .. Len(out) + 1 /\ DOMAIN out = 1 .. Len(out)
              /\ Len(out) \in Nat
              /\ \A i \in 1 .. Len(out) : out'[i] = out[i]
              /\ out'[Len(out) + 1] = seed[next]
          BY <2>5, <4>1, AppendFacts
        <4>3. Users(out') = Users(out) \cup {seed[next].user}
          BY <2>5, <4>1, AddKeeps
        <4>4. ASSUME NEW i \in DOMAIN out'
              PROVE  \E j \in DOMAIN seed : j < next' /\ seed[j] = out'[i]
          <5>1. CASE i \in DOMAIN out
            BY <2>4, <2>5, <4>2, <5>1
          <5>2. CASE i = Len(out) + 1
            BY <2>1, <2>4, <4>2, <5>2
          <5> QED
            BY <4>2, <5>1, <5>2
        <4>5. \A j \in DOMAIN seed : j < next' /\ seed[j] \in Record => seed[j].user \in Users(out')
          BY <2>4, <2>5, <4>3
        <4> QED
          BY <4>4, <4>5
      <3> QED
        BY <3>1, <3>2
    <2>7. srv.at = "copy"
      BY DEF CopyLine
    <2> QED
      BY <2>3, <2>6, <2>7 DEF CopyInv, Copied
  <1> QED
    BY <1>1, <1>2

LEMMA BootCopies == TypeOK /\ WriterInv /\ CopyInv /\ Bootstrap => CopyInv'
  <1> SUFFICES ASSUME TypeOK, WriterInv, CopyInv, Bootstrap PROVE CopyInv'
    OBVIOUS
  <1>1. CASE BootstrapSkipped \/ SeedPathFails
    BY <1>1, LeavesCopy DEF BootstrapSkipped, SeedPathFails, NextCall, files, TypeOK
  <1>2. CASE PathFails \/ CopyFails
    BY <1>2, LeavesCopy DEF PathFails, CopyFails, Cleanup, TypeOK
  <1>3. CASE OpenFiles
    <2>1. out' = <<>> /\ next' = 1 /\ seed' = seed /\ consumed' = consumed /\ srv'.at = "copy"
      BY <1>3 DEF OpenFiles, TypeOK
    <2>2. seed # Absent /\ db' # Absent
      BY <1>3, EmptyFacts, NotAbsent DEF OpenFiles, NothingToCopy
    <2>3. seed \in Seq(Record \cup {Blank, Bad})
      BY <2>2 DEF TypeOK
    <2>4. DOMAIN out' = {} /\ \A j \in DOMAIN seed : ~(j < next')
      BY <2>1, <2>3
    <2> QED
      BY <2>1, <2>2, <2>4 DEF CopyInv, Copied
  <1>4. CASE CopyLine
    BY <1>4, CopyLineCopies
  <1>5. CASE Flush
    <2>1. UNCHANGED <<srv, seed, consumed, out, next, attached>> /\ srv.at = "copy"
      BY <1>5 DEF Flush, copying
    <2>2. db' # Absent
      <3>1. TypeOK'
        BY <1>5, BootTyped DEF Bootstrap
      <3>2. attached'
        BY <1>5, <2>1 DEF Flush
      <3> QED
        BY <3>1, <3>2 DEF TypeOK
    <2> QED
      BY <2>1, <2>2 DEF CopyInv, Copied, Users, Records
  <1>6. CASE CloseDb
    <2>1. UNCHANGED <<seed, consumed, out, next, attached>> /\ srv.at = "copy" /\ next > Len(seed)
      BY <1>6 DEF CloseDb, copying
    <2>2. (attached => db' = out) /\ db' # Absent
      BY <1>6, NotAbsent, RecordIsText DEF CloseDb, TypeOK, CopyInv, Copied
    <2> QED
      BY <2>1, <2>2 DEF CopyInv, Copied, Users, Records
  <1>7. CASE ConsumeSeed
    BY <1>7, NotCopying DEF ConsumeSeed, NextCall, Copied
  <1> QED
    BY <1>1, <1>2, <1>3, <1>4, <1>5, <1>6, <1>7 DEF Bootstrap

\* Another process may replace the file under the copy.
LEMMA RenameCopies ==
  ASSUME TypeOK, WriterInv, CopyInv, NEW p \in Proc, RenameTmp(p) PROVE CopyInv'
  <1>1. db' # Absent /\ ~attached' /\ UNCHANGED <<srv, seed, consumed, out, next>>
    BY DEF RenameTmp
  <1> QED
    BY <1>1 DEF CopyInv, Copied, Users, Records

LEMMA NextCopies == TypeOK /\ WriterInv /\ CopyInv /\ [Next]_vars => CopyInv'
  <1> SUFFICES ASSUME TypeOK, WriterInv, CopyInv, [Next]_vars PROVE CopyInv'
    OBVIOUS
  <1>1. CASE Start \/ LoadFails \/ auth_load_db
    BY <1>1, LeavesCopy DEF Start, LoadFails, auth_load_db, files, TypeOK
  <1>2. CASE Bootstrap
    BY <1>2, BootCopies
  <1>3. CASE (\E u \in User : Change(u)) \/ ChangeFails
    BY <1>3, CopyStays DEF Change, ChangeFails, files, copying
  <1>4. CASE Exit \/ Crash
    BY <1>4, LeavesCopy DEF Exit, Crash, GoDown, files, TypeOK
  <1>5. CASE \E t \in Tool : (\E u \in User : Register(t, u)) \/ RegisterFails(t)
    BY <1>5, CopyStays DEF Register, RegisterFails, files, copying
  <1>6. CASE \E p \in Proc : FillTmp(p)
    BY <1>6, CopyStays DEF FillTmp, files, copying
  <1>7. CASE \E p \in Proc : RenameTmp(p)
    BY <1>7, RenameCopies
  <1>8. CASE UNCHANGED vars
    BY <1>8, CopyStays DEF vars, files, copying
  <1> QED
    BY <1>1, <1>2, <1>3, <1>4, <1>5, <1>6, <1>7, <1>8 DEF Next


-----------------------------------------------------------------------------
(* No account is lost.                                                     *)

LEMMA NoFileNoUsers == Users(Absent) = {} /\ ~Parses(Absent) /\ Distinct(Absent)
  BY DEF Users, Parses, Distinct

\* What KeptInv says of a state that has lost nothing yet.
Kept == promised \subseteq Users(db) /\ (Copied => attached /\ promised = {})

LEMMA KeptIs == KeptInv <=> (~raced /\ ~dropped => Kept)
  BY Zenon DEF KeptInv, Kept

LEMMA KeptNext ==
  ASSUME ~raced' /\ ~dropped' => Kept'
  PROVE  KeptInv'
  BY Zenon DEF KeptInv, Kept

LEMMA KeptStays ==
  ASSUME KeptInv, UNCHANGED <<raced, dropped, promised, db>>, ~Copied' \/ UNCHANGED <<srv, attached>>
  PROVE  KeptInv'
  <1> SUFFICES ASSUME ~raced', ~dropped' PROVE Kept'
    BY KeptNext
  <1>1. raced' = raced /\ dropped' = dropped
    OBVIOUS
  <1>2. Kept
    BY <1>1, KeptIs
  <1>3. Users(db') = Users(db) /\ (Copied' => Copied /\ attached' = attached)
    BY DEF Copied
  <1> QED
    BY <1>2, <1>3 DEF Kept

LEMMA BootKept == TypeOK /\ CopyInv /\ KeptInv /\ Bootstrap => KeptInv'
  <1> SUFFICES ASSUME TypeOK, CopyInv, KeptInv, Bootstrap, ~raced', ~dropped' PROVE Kept'
    BY KeptNext
  <1>1. ~raced /\ ~dropped
    <2>1. raced' = raced
      BY DEF Bootstrap, BootstrapSkipped, PathFails, SeedPathFails, OpenFiles, CopyLine, Flush,
         CloseDb, ConsumeSeed, CopyFails, Cleanup, history
    <2>2. dropped' = dropped \/ PathFails
      BY DEF Bootstrap, BootstrapSkipped, SeedPathFails, OpenFiles, CopyLine, Flush,
         CloseDb, ConsumeSeed, CopyFails, Cleanup, history
    <2>3. PathFails => ~dropped
      BY Zenon DEF PathFails
    <2> QED
      BY <2>1, <2>2, <2>3
  <1>2. promised \subseteq Users(db) /\ (Copied => attached /\ promised = {})
    BY <1>1, KeptIs DEF Kept
  <1>3. CASE BootstrapSkipped \/ SeedPathFails
    <2>1. ~Copied' /\ db' = db /\ promised' = promised
      BY <1>3 DEF BootstrapSkipped, SeedPathFails, NextCall, Copied, files, history, TypeOK
    <2> QED
      BY <1>2, <2>1 DEF Kept
  <1>4. CASE PathFails
    <2>1. db = Absent /\ promised' = promised /\ srv'.at = "down"
      BY <1>4 DEF PathFails, Cleanup, TypeOK
    <2>2. promised = {}
      BY <1>2, <2>1, NoFileNoUsers
    <2> QED
      BY <2>1, <2>2 DEF Kept, Copied
  <1>5. CASE OpenFiles
    <2>1. db = Absent /\ promised' = promised /\ attached'
      BY <1>5 DEF OpenFiles, NothingToCopy, history
    <2>2. promised = {}
      BY <1>2, <2>1, NoFileNoUsers
    <2> QED
      BY <2>1, <2>2 DEF Kept
  <1>6. CASE CopyLine \/ Flush \/ CloseDb \/ CopyFails
    <2>1. Copied /\ promised' = promised
      BY <1>6 DEF CopyLine, Flush, CloseDb, CopyFails, Copied, history
    <2>2. attached /\ promised' = {}
      BY <1>2, <2>1
    <2>3. Copied' => attached' = attached
      BY <1>6 DEF CopyLine, Flush, CloseDb, CopyFails, Cleanup, Copied, copying, TypeOK
    <2> QED
      BY <2>2, <2>3 DEF Kept
  <1>7. CASE ConsumeSeed
    <2>1. srv.at = "rename" /\ Copied /\ db' = db /\ promised' = promised \cup Users(seed)
      BY <1>7 DEF ConsumeSeed, Copied
    <2>2. attached /\ promised = {} /\ db = out /\ next > Len(seed) /\ seed # Absent
      BY <1>2, <2>1 DEF CopyInv
    <2>3. \A j \in DOMAIN seed : j < next /\ seed[j] \in Record => seed[j].user \in Users(out)
      BY <2>1 DEF CopyInv
    <2>4. seed \in Seq(Record \cup {Blank, Bad})
      BY <2>2 DEF TypeOK
    <2>5. Len(seed) \in Nat /\ next \in Nat /\ DOMAIN seed = 1 .. Len(seed)
      BY <2>4 DEF TypeOK
    <2>6. ASSUME NEW u \in Users(seed) PROVE u \in Users(db)
      <3>1. PICK j \in 1 .. Len(seed) : seed[j] \in Record /\ seed[j].user = u
        BY <2>4, <2>6, UserHasLine, RecordIsText
      <3> QED
        BY <2>2, <2>3, <2>5, <3>1
    <2>7. ~Copied'
      BY <1>7 DEF ConsumeSeed, NextCall, Copied
    <2> QED
      BY <2>1, <2>2, <2>6, <2>7 DEF Kept
  <1> QED
    BY <1>3, <1>4, <1>5, <1>6, <1>7 DEF Bootstrap

\* The file is replaced by a copy that has all its accounts.
LEMMA RenameKept ==
  ASSUME TypeOK, WriterInv, KeptInv, NEW p \in Proc, RenameTmp(p) PROVE KeptInv'
  <1> SUFFICES ASSUME ~raced', ~dropped' PROVE Kept'
    BY KeptNext
  <1>1. ~raced /\ ~dropped /\ p \notin stale /\ ~Copied
    BY Zenon DEF RenameTmp
  <1>2. promised \subseteq Users(db)
    BY <1>1, KeptIs DEF Kept
  <1>3. busy[p].who \in Users(table[p]) /\ db' = table[p] /\ table[p] # Absent
    BY DEF RenameTmp, TmpName, WriterInv, TypeOK
  <1>4. Users(db) \subseteq Users(table[p])
    BY <1>1, <1>3 DEF WriterInv
  <1>5. promised' = promised \cup {busy[p].who} /\ ~Copied'
    BY <1>1 DEF RenameTmp, Copied
  <1> QED
    BY <1>2, <1>3, <1>4, <1>5 DEF Kept

LEMMA NextKept == TypeOK /\ WriterInv /\ CopyInv /\ KeptInv /\ [Next]_vars => KeptInv'
  <1> SUFFICES ASSUME TypeOK, WriterInv, CopyInv, KeptInv, [Next]_vars PROVE KeptInv'
    OBVIOUS
  <1>1. CASE Start \/ LoadFails \/ auth_load_db
    <2>1. ~Copied' /\ UNCHANGED <<raced, dropped, promised, db>>
      BY <1>1 DEF Start, LoadFails, auth_load_db, files, history, Copied, TypeOK
    <2> QED
      BY <2>1, KeptStays
  <1>2. CASE Bootstrap
    BY <1>2, BootKept
  <1>3. CASE (\E u \in User : Change(u)) \/ ChangeFails
    BY <1>3, KeptStays DEF Change, ChangeFails, files, copying, history
  <1>4. CASE Exit \/ Crash
    <2>1. ~Copied' /\ UNCHANGED <<raced, dropped, promised, db>>
      BY <1>4 DEF Exit, Crash, GoDown, files, history, Copied, TypeOK
    <2> QED
      BY <2>1, KeptStays
  <1>5. CASE \E t \in Tool : (\E u \in User : Register(t, u)) \/ RegisterFails(t)
    BY <1>5, KeptStays DEF Register, RegisterFails, files, copying, history
  <1>6. CASE \E p \in Proc : FillTmp(p)
    BY <1>6, KeptStays DEF FillTmp, files, copying, history
  <1>7. CASE \E p \in Proc : RenameTmp(p)
    BY <1>7, RenameKept
  <1>8. CASE UNCHANGED vars
    BY <1>8, KeptStays DEF vars, files, copying, history
  <1> QED
    BY <1>1, <1>2, <1>3, <1>4, <1>5, <1>6, <1>7, <1>8 DEF Next

-----------------------------------------------------------------------------
(* What a start can load.                                                  *)

\* What LoadInv says of a state, and when.
Sound ==
  /\ Distinct(db) /\ \A p \in Proc : Distinct(table[p])
  /\ Copied => Distinct(out)
  /\ attached \/ db = Absent \/ Parses(db)

Unharmed == crashes = 0 /\ Distinct(seed) /\ Distinct(consumed)

LEMMA LoadIs == LoadInv <=> (Unharmed => Sound)
  BY Zenon DEF LoadInv, Unharmed, Sound

\* Only a crash, or the seed's move, changes whether the seed and the past are
\* harmless.
LEMMA UnharmedBefore ==
  ASSUME TypeOK, CopyInv, [Next]_vars, Unharmed'
  PROVE  Unharmed
  <1>1. CASE Crash
    <2>1. crashes \in Nat /\ crashes' = crashes + 1
      BY <1>1, BoundsAssumption DEF Crash, TypeOK
    <2> QED
      BY <2>1 DEF Unharmed
  <1>2. CASE ConsumeSeed
    <2>1. seed # Absent /\ consumed = Absent
      BY <1>2 DEF ConsumeSeed, CopyInv, Copied
    <2>2. consumed' = seed /\ crashes' = crashes
      BY <1>2 DEF ConsumeSeed
    <2> QED
      BY <2>1, <2>2, NoFileNoUsers DEF Unharmed, Distinct
  <1>3. CASE ~Crash /\ ~ConsumeSeed
    <2>1. UNCHANGED <<seed, consumed, crashes>>
      BY <1>3, Zenon DEF Next, Bootstrap, Start, BootstrapSkipped, PathFails, SeedPathFails, OpenFiles,
         CopyLine, Flush, CloseDb, CopyFails, Cleanup, auth_load_db, LoadFails, Change, ChangeFails,
         Exit, GoDown, Register, RegisterFails, FillTmp, RenameTmp, files, vars
    <2> QED
      BY <2>1 DEF Unharmed, Distinct
  <1> QED
    BY <1>1, <1>2, <1>3

LEMMA SoundStays ==
  ASSUME Sound, UNCHANGED <<db, table, out, attached>>, ~Copied' \/ srv' = srv
  PROVE  Sound'
  BY DEF Sound, Distinct, Copied, Parses

\* One process has another table.
LEMMA SoundTable ==
  ASSUME TypeOK, Sound, db' = db, attached' = attached \/ ~attached,
         ~Copied' \/ UNCHANGED <<srv, out>>,
         NEW p \in Proc, NEW f, Distinct(f), table' = [table EXCEPT ![p] = f]
  PROVE  Sound'
  <1>1. \A q \in Proc : Distinct(table'[q])
    BY DEF Sound, TypeOK
  <1>2. Distinct(db) /\ (Copied' => Distinct(out')) /\ (attached' \/ db = Absent \/ Parses(db))
    BY DEF Sound, Copied
  <1> QED
    BY <1>1, <1>2 DEF Sound, Parses, Distinct, Copied

LEMMA CopyLineSound == TypeOK /\ CopyInv /\ Sound /\ Distinct(seed) /\ CopyLine => Sound'
  <1> SUFFICES ASSUME TypeOK, CopyInv, Sound, Distinct(seed), CopyLine PROVE Sound'
    OBVIOUS
  <1>1. CASE seed[next] = Bad
    <2>1. db' = Absent /\ table' = table /\ ~Copied'
      BY <1>1 DEF CopyLine, Cleanup, Copied, TypeOK
    <2> QED
      BY <2>1, NoFileNoUsers DEF Sound
  <1>2. CASE seed[next] # Bad
    <2>1. /\ seed \in Seq(Record \cup {Blank, Bad}) /\ next \in 1 .. Len(seed)
          /\ DOMAIN seed = 1 .. Len(seed) /\ Len(seed) \in Nat /\ seed # Absent
          /\ out \in Seq(Record) /\ srv.at = "copy"
      BY DEF CopyLine, TypeOK, CopyInv, Copied
    <2>2. UNCHANGED <<db, table, srv, attached>>
      BY <1>2 DEF CopyLine, files
    <2>3. Distinct(out)
      BY <2>1 DEF Sound, Copied
    <2>4. Distinct(out')
      <3>1. CASE seed[next] = Blank
        BY <1>2, <2>3, <3>1 DEF CopyLine
      <3>2. CASE seed[next] # Blank
        <4>1. seed[next] \in Record /\ out' = Append(out, seed[next])
          BY <1>2, <2>1, <3>2 DEF CopyLine
        <4>2. \A j \in DOMAIN seed : seed[j] \in Record /\ seed[j].user = seed[next].user => j = next
          BY <2>1, <4>1 DEF Distinct
        <4>3. ASSUME seed[next].user \in Users(out) PROVE FALSE
          <5>1. PICK i \in 1 .. Len(out) : out[i] \in Record /\ out[i].user = seed[next].user
            BY <2>1, <4>3, UserHasLine, RecordIsText
          <5>2. i \in DOMAIN out
            BY <2>1, <5>1
          <5>3. PICK j \in DOMAIN seed : j < next /\ seed[j] = out[i]
            BY <2>1, <5>2 DEF CopyInv, Copied
          <5>4. j = next
            BY <4>2, <5>1, <5>3
          <5> QED
            BY <2>1, <5>3, <5>4
        <4> QED
          BY <2>1, <2>3, <4>1, <4>3, AddKeeps
      <3> QED
        BY <3>1, <3>2
    <2> QED
      BY <2>2, <2>4 DEF Sound, Distinct, Parses
  <1> QED
    BY <1>1, <1>2

LEMMA BootSound ==
  TypeOK /\ WriterInv /\ CopyInv /\ Sound /\ Distinct(seed) /\ Bootstrap => Sound'
  <1> SUFFICES ASSUME TypeOK, WriterInv, CopyInv, Sound, Distinct(seed), Bootstrap PROVE Sound'
    OBVIOUS
  <1>1. CASE BootstrapSkipped \/ SeedPathFails
    <2>1. ~Copied' /\ UNCHANGED <<db, table, out, attached>>
      BY <1>1 DEF BootstrapSkipped, SeedPathFails, NextCall, Copied, files, copying, TypeOK
    <2> QED
      BY <2>1, SoundStays
  <1>2. CASE PathFails \/ CopyFails
    <2>1. db' = Absent /\ table' = table /\ ~Copied'
      BY <1>2 DEF PathFails, CopyFails, Cleanup, Copied, TypeOK
    <2> QED
      BY <2>1, NoFileNoUsers DEF Sound
  <1>3. CASE OpenFiles
    <2>1. db' = <<>> /\ out' = <<>> /\ attached' /\ table' = table
      BY <1>3 DEF OpenFiles
    <2>2. Distinct(<<>>)
      BY EmptyFacts DEF Distinct
    <2> QED
      BY <2>1, <2>2 DEF Sound
  <1>4. CASE CopyLine
    BY <1>4, CopyLineSound
  <1>5. CASE Flush
    <2>1. out \in Seq(Record) /\ Distinct(out) /\ db \in Seq(Record \cup {Torn})
      BY <1>5 DEF Flush, TypeOK, Sound, Copied
    <2>2. Len(db) \in Nat /\ Len(out) \in Nat /\ (db # <<>> => Len(db) > 0)
      BY <2>1
    <2>3. OnDisk \in Nat
      BY <2>2 DEF OnDisk
    <2>4. PICK k \in OnDisk .. Len(out) :
               \/ db' = SubSeq(out, 1, k)
               \/ k < Len(out) /\ db' = Append(SubSeq(out, 1, k), Torn)
      BY <1>5 DEF Flush
    <2>5. k \in 0 .. Len(out)
      BY <2>2, <2>3
    <2>6. Distinct(db')
      BY <2>1, <2>4, <2>5, CutKeeps
    <2>7. attached /\ UNCHANGED <<table, out, attached, srv>>
      BY <1>5 DEF Flush, copying
    <2> QED
      BY <2>1, <2>6, <2>7 DEF Sound, Distinct, Copied
  <1>6. CASE CloseDb
    <2>1. UNCHANGED <<table, out, attached>> /\ Distinct(out) /\ out \in Seq(Record)
      BY <1>6 DEF CloseDb, copying, Sound, Copied, TypeOK
    <2>2. (attached => db' = out) /\ (~attached => db' = db)
      BY <1>6 DEF CloseDb
    <2>3. Distinct(db') /\ (attached \/ db' = Absent \/ Parses(db'))
      BY <2>1, <2>2 DEF Sound
    <2> QED
      BY <2>1, <2>3 DEF Sound, Distinct, Copied
  <1>7. CASE ConsumeSeed
    <2>1. UNCHANGED <<db, table, out>> /\ ~Copied'
      BY <1>7 DEF ConsumeSeed, NextCall, Copied
    <2>2. db = Absent \/ Parses(db)
      <3>1. CASE attached
        <4>1. db = out
          BY <1>7, <3>1 DEF ConsumeSeed, CopyInv
        <4>2. db \in Seq(Record) /\ db # Absent
          BY <4>1, NotAbsent, RecordIsText DEF TypeOK
        <4> QED
          BY <4>2 DEF Parses, ToSet
      <3>2. CASE ~attached
        BY <3>2 DEF Sound
      <3> QED
        BY <3>1, <3>2
    <2> QED
      BY <2>1, <2>2 DEF Sound, Distinct, Parses
  <1> QED
    BY <1>1, <1>2, <1>3, <1>4, <1>5, <1>6, <1>7 DEF Bootstrap


\* The file is replaced by a copy that can be loaded.
LEMMA RenameSound ==
  ASSUME TypeOK, WriterInv, Sound, NEW p \in Proc, RenameTmp(p) PROVE Sound'
  <1>1. db' = table[p] /\ db' # Absent /\ db' \in Seq(Record)
    BY DEF RenameTmp, TmpName, WriterInv, TypeOK
  <1>2. Distinct(db') /\ Parses(db')
    BY <1>1 DEF Sound, Parses, ToSet
  <1>3. \A q \in Proc : Distinct(table'[q])
    <2>1. ASSUME NEW q \in Proc PROVE table'[q] = table[q] \/ table'[q] = Absent
      BY DEF RenameTmp, TypeOK
    <2> QED
      BY <2>1, NoFileNoUsers DEF Sound
  <1>4. Copied' => Distinct(out')
    BY DEF RenameTmp, Copied, Sound
  <1> QED
    BY <1>2, <1>3, <1>4 DEF Sound, Distinct, Parses

LEMMA NextSound ==
  TypeOK /\ WriterInv /\ CopyInv /\ Sound /\ Unharmed /\ Unharmed' /\ [Next]_vars => Sound'
  <1> SUFFICES ASSUME TypeOK, WriterInv, CopyInv, Sound, Unharmed, Unharmed', [Next]_vars
               PROVE  Sound'
    OBVIOUS
  <1>s. Server \in Proc
    BY DEF Proc
  <1>1. CASE Start \/ LoadFails
    <2>1. ~Copied' /\ UNCHANGED <<db, table, out, attached>>
      BY <1>1 DEF Start, LoadFails, files, copying, Copied, TypeOK
    <2> QED
      BY <2>1, SoundStays
  <1>2. CASE Bootstrap
    BY <1>2, BootSound DEF Unharmed
  <1>3. CASE auth_load_db
    <2>1. ~Copied' /\ UNCHANGED <<db, out, attached>>
      BY <1>3 DEF auth_load_db, files, copying, Copied, TypeOK
    <2>2. CASE Loadable(db)
      BY <1>s, <1>3, <2>1, <2>2, SoundTable DEF auth_load_db, Loadable
    <2>3. CASE ~Loadable(db)
      BY <1>3, <2>1, <2>3, SoundStays DEF auth_load_db
    <2> QED
      BY <2>2, <2>3
  <1>4. ASSUME NEW u \in User, Change(u) PROVE Sound'
    <2>1. PICK f \in Seq(Record) :
             /\ table' = [table EXCEPT ![Server] = f]
             /\ Distinct(table[Server]) => Distinct(f)
      BY <1>4, ChangeIs
    <2>2. Distinct(f) /\ UNCHANGED <<db, out, attached, srv>>
      BY <1>s, <1>4, <2>1 DEF Sound, Change, files, copying
    <2> QED
      BY <1>s, <2>1, <2>2, SoundTable
  <1>5. CASE ChangeFails
    <2>1. PICK f \in Seq(Record) :
             /\ table' = [table EXCEPT ![Server] = f]
             /\ Distinct(table[Server]) => Distinct(f)
      BY <1>5, ChangeFailsIs
    <2>2. Distinct(f) /\ UNCHANGED <<db, out, attached, srv>>
      BY <1>s, <1>5, <2>1 DEF Sound, ChangeFails, files, copying
    <2> QED
      BY <1>s, <2>1, <2>2, SoundTable
  <1>6. CASE Exit
    <2>1. ~attached /\ ~Copied' /\ db' = db
      BY <1>6 DEF Exit, GoDown, files, TypeOK, Copied
    <2>2. table' = [table EXCEPT ![Server] = Absent]
      BY <1>6 DEF Exit, GoDown
    <2> QED
      BY <1>s, <2>1, <2>2, SoundTable, NoFileNoUsers
  <1>7. CASE Crash
    <2>1. crashes \in Nat /\ crashes' = crashes + 1
      BY <1>7, BoundsAssumption DEF Crash, TypeOK
    <2> QED
      BY <2>1 DEF Unharmed
  <1>8. ASSUME NEW t \in Tool, NEW u \in User, Register(t, u) PROVE Sound'
    <2>1. PICK f \in Seq(Record) :
             table' = [table EXCEPT ![t] = f] /\ (Distinct(db) => Distinct(f))
      BY <1>8, RegisterIs
    <2>2. Distinct(f) /\ UNCHANGED <<db, out, attached, srv>> /\ t \in Proc
      BY <1>8, <2>1 DEF Sound, Register, files, copying, Proc
    <2> QED
      BY <2>1, <2>2, SoundTable
  <1>9. ASSUME NEW t \in Tool, RegisterFails(t) PROVE Sound'
    BY <1>9, SoundTable, NoFileNoUsers DEF RegisterFails, files, copying, Proc
  <1>10. CASE \E p \in Proc : FillTmp(p)
    BY <1>10, SoundStays DEF FillTmp, files, copying
  <1>11. CASE \E p \in Proc : RenameTmp(p)
    BY <1>11, RenameSound
  <1>12. CASE UNCHANGED vars
    BY <1>12, SoundStays DEF vars, files, copying
  <1> QED
    BY <1>1, <1>2, <1>3, <1>4, <1>5, <1>6, <1>7, <1>8, <1>9, <1>10, <1>11, <1>12 DEF Next

LEMMA NextLoad == TypeOK /\ WriterInv /\ CopyInv /\ LoadInv /\ [Next]_vars => LoadInv'
  <1> SUFFICES ASSUME TypeOK, WriterInv, CopyInv, LoadInv, [Next]_vars, Unharmed' PROVE Sound'
    <2>1. LoadInv' <=> (Unharmed' => Sound')
      BY Zenon DEF LoadInv, Unharmed, Sound
    <2> QED
      BY <2>1
  <1> QED
    BY UnharmedBefore, LoadIs, NextSound

-----------------------------------------------------------------------------
(* What a writer changes.                                                  *)

\* The two parts of OwnInv.
ServerOwn ==
  srv.at = "up" /\ busy[Server].at = "idle" /\ faults = 0 /\ Server \notin stale =>
    table[Server] = db

Own(p) ==
  busy[p].at # "idle" /\ p \notin stale /\ (p = Server => faults = 0) =>
    \A u \in User \ {busy[p].who} : RecordsOf(table[p], u) = RecordsOf(db, u)

LEMMA OwnIs == OwnInv <=> ServerOwn /\ \A p \in Proc : Own(p)
  BY DEF OwnInv, ServerOwn, Own

LEMMA OwnNext ==
  ASSUME ServerOwn', \A p \in Proc : Own(p)'
  PROVE  OwnInv'
  BY DEF OwnInv, ServerOwn, Own

\* A call that fails is counted, and none is forgotten.
LEMMA FaultsGrow == TypeOK /\ [Next]_vars => (faults' = 0 => faults' = faults) /\ (Fault => faults' # 0)
  <1> SUFFICES ASSUME TypeOK, [Next]_vars
               PROVE  (faults' = 0 => faults' = faults) /\ (Fault => faults' # 0)
    OBVIOUS
  <1>1. faults \in Nat
    BY BoundsAssumption DEF TypeOK
  <1>2. Fault => faults' = faults + 1
    BY DEF Fault
  <1>3. Fault \/ faults' = faults
    BY DEF Next, Bootstrap, Start, BootstrapSkipped, PathFails, SeedPathFails, OpenFiles,
       CopyLine, Flush, CloseDb, ConsumeSeed, CopyFails, Cleanup, auth_load_db, LoadFails, Change,
       ChangeFails, Exit, Crash, GoDown, Register, RegisterFails, FillTmp, RenameTmp, vars
  <1> QED
    BY <1>1, <1>2, <1>3

LEMMA OwnStays ==
  ASSUME OwnInv, UNCHANGED <<busy, table, db, stale>>, faults' = 0 => faults' = faults,
         srv'.at = "up" => srv' = srv
  PROVE  OwnInv'
  <1>1. ServerOwn'
    BY DEF OwnInv, ServerOwn
  <1>2. ASSUME NEW p \in Proc PROVE Own(p)'
    BY OwnIs DEF Own
  <1> QED
    BY <1>1, <1>2, OwnNext

\* Nothing is claimed of a copy of another file.
LEMMA OwnOutdated ==
  ASSUME TypeOK, UNCHANGED <<busy, table>>, srv'.at # "up",
         \A p \in Proc : table[p] # Absent => p \in stale'
  PROVE  OwnInv'
  <1>1. ServerOwn'
    BY DEF ServerOwn
  <1>2. ASSUME NEW p \in Proc PROVE Own(p)'
    <2>1. busy[p].at # "idle" => table[p] # Absent
      BY NoFileNoUsers DEF TypeOK
    <2> QED
      BY <2>1 DEF Own
  <1> QED
    BY <1>1, <1>2, OwnNext

LEMMA BootOwn == TypeOK /\ WriterInv /\ OwnInv /\ [Next]_vars /\ Bootstrap => OwnInv'
  <1> SUFFICES ASSUME TypeOK, WriterInv, OwnInv, [Next]_vars, Bootstrap PROVE OwnInv'
    OBVIOUS
  <1>f. faults' = 0 => faults' = faults
    BY FaultsGrow
  <1>c. Cleanup => OwnInv'
    BY OwnOutdated DEF Cleanup, TypeOK
  <1>1. CASE BootstrapSkipped \/ SeedPathFails \/ ConsumeSeed
    <2>1. UNCHANGED <<busy, table, db, stale>> /\ srv'.at # "up"
      BY <1>1 DEF BootstrapSkipped, SeedPathFails, ConsumeSeed, NextCall, files, TypeOK
    <2> QED
      BY <1>f, <2>1, OwnStays
  <1>2. CASE PathFails \/ CopyFails
    BY <1>2, <1>c DEF PathFails, CopyFails
  <1>3. CASE OpenFiles
    BY <1>3, NoCopies, OwnOutdated DEF OpenFiles, NothingToCopy, TypeOK
  <1>4. CASE CopyLine
    <2>1. CASE seed[next] = Bad
      BY <1>4, <1>c, <2>1 DEF CopyLine
    <2>2. CASE seed[next] # Bad
      <3>1. UNCHANGED <<busy, table, db, stale, srv>>
        BY <1>4, <2>2 DEF CopyLine, files
      <3> QED
        BY <1>f, <3>1, OwnStays
    <2> QED
      BY <2>1, <2>2
  <1>5. CASE Flush
    BY <1>5, NoCopies, OwnOutdated DEF Flush
  <1>6. CASE CloseDb
    <2>1. CASE attached
      BY <1>6, <2>1, NoCopies, OwnOutdated DEF CloseDb, TypeOK
    <2>2. CASE ~attached
      BY <1>6, <1>f, <2>2, OwnStays DEF CloseDb, TypeOK
    <2> QED
      BY <2>1, <2>2
  <1> QED
    BY <1>1, <1>2, <1>3, <1>4, <1>5, <1>6 DEF Bootstrap

\* One process has another table or another record in hand; of the others
\* nothing changes.
LEMMA OwnOne ==
  ASSUME TypeOK, OwnInv, NEW p \in Proc, NEW f, NEW b,
         table' = [table EXCEPT ![p] = f], busy' = [busy EXCEPT ![p] = b], db' = db,
         faults' = 0 => faults' = faults, stale' = stale \/ stale' = stale \ {p},
         p = Server => (srv'.at = "up" /\ b.at = "idle" /\ faults' = 0 /\ p \notin stale' => f = db),
         p # Server => srv' = srv,
         b.at # "idle" /\ p \notin stale' /\ (p = Server => faults' = 0) =>
           \A u \in User \ {b.who} : RecordsOf(f, u) = RecordsOf(db, u)
  PROVE  OwnInv'
  <1>1. busy'[p] = b /\ table'[p] = f
    BY DEF TypeOK
  <1>2. ASSUME NEW q \in Proc, q # p
        PROVE  busy'[q] = busy[q] /\ table'[q] = table[q] /\ (q \in stale' <=> q \in stale)
    BY <1>2 DEF TypeOK
  <1>3. Server \in Proc
    BY DEF Proc
  <1>4. ServerOwn'
    <2>1. CASE p = Server
      BY <1>1, <2>1 DEF ServerOwn
    <2>2. CASE p # Server
      BY <1>2, <1>3, <2>2 DEF ServerOwn, OwnInv
    <2> QED
      BY <2>1, <2>2
  <1>5. ASSUME NEW q \in Proc PROVE Own(q)'
    <2>1. CASE q = p
      BY <1>1, <2>1 DEF Own
    <2>2. CASE q # p
      <3>1. Own(q)
        BY OwnIs
      <3>2. busy'[q] = busy[q] /\ table'[q] = table[q] /\ (q \in stale' <=> q \in stale)
        BY <1>2, <2>2
      <3> QED
        BY <3>1, <3>2 DEF Own
    <2> QED
      BY <2>1, <2>2
  <1> QED
    BY <1>4, <1>5, OwnNext

LEMMA LoadOwn == TypeOK /\ WriterInv /\ OwnInv /\ auth_load_db => OwnInv'
  <1> SUFFICES ASSUME TypeOK, WriterInv, OwnInv, auth_load_db PROVE OwnInv'
    OBVIOUS
  <1>1. Server \in Proc
    BY DEF Proc
  <1>2. busy[Server].at = "idle" /\ srv.at # "up" /\ faults' = faults
    BY <1>1 DEF auth_load_db, TypeOK, Users
  <1>3. /\ busy' = [busy EXCEPT ![Server] = busy[Server]] /\ db' = db
        /\ stale' = stale \ {Server}
    BY <1>1 DEF auth_load_db, files, TypeOK
  <1>4. CASE Loadable(db)
    <2>1. table' = [table EXCEPT ![Server] = db]
      BY <1>4 DEF auth_load_db
    <2> QED
      BY <1>1, <1>2, <1>3, <2>1, OwnOne
  <1>5. CASE ~Loadable(db)
    <2>1. table' = [table EXCEPT ![Server] = table[Server]] /\ srv'.at = "down"
      BY <1>1, <1>5 DEF auth_load_db, TypeOK
    <2> QED
      BY <1>1, <1>2, <1>3, <2>1, OwnOne
  <1> QED
    BY <1>4, <1>5

LEMMA ChangeOwn == ASSUME TypeOK, OwnInv, NEW u \in User, Change(u) PROVE OwnInv'
  <1>1. Server \in Proc
    BY DEF Proc
  <1>2. PICK f \in Seq(Record), r \in Record :
           /\ table' = [table EXCEPT ![Server] = f]
           /\ busy' = [busy EXCEPT ![Server] = [who |-> u, at |-> "memory", was |-> r]]
           /\ \A v : v # u => RecordsOf(f, v) = RecordsOf(table[Server], v)
    BY ChangeIs
  <1> DEFINE b == [who |-> u, at |-> "memory", was |-> r]
  <1>3. b.at = "memory" /\ b.who = u /\ busy' = [busy EXCEPT ![Server] = b]
    BY <1>2
  <1>4. stale' = stale /\ db' = db /\ faults' = faults /\ srv.at = "up" /\ busy[Server].at = "idle"
    BY DEF Change, files, Nobody
  <1>5. faults = 0 /\ Server \notin stale => table[Server] = db
    BY <1>4 DEF OwnInv
  <1>6. faults' = 0 /\ Server \notin stale' =>
          \A v \in User \ {b.who} : RecordsOf(f, v) = RecordsOf(db, v)
    BY <1>2, <1>3, <1>4, <1>5
  <1>7. b.at # "idle"
    BY <1>3
  <1> HIDE DEF b
  <1> QED
    BY <1>1, <1>2, <1>3, <1>4, <1>6, <1>7, OwnOne

\* A failing change may leave the table ahead of the file: from then on nothing
\* is claimed of the server's copy.
LEMMA ChangeFailsOwn ==
  TypeOK /\ WriterInv /\ OwnInv /\ [Next]_vars /\ ChangeFails => OwnInv'
  <1> SUFFICES ASSUME TypeOK, WriterInv, OwnInv, [Next]_vars, ChangeFails PROVE OwnInv'
    OBVIOUS
  <1>1. Server \in Proc
    BY DEF Proc
  <1>2. PICK f \in Seq(Record) : table' = [table EXCEPT ![Server] = f]
    BY ChangeFailsIs
  <1>3. /\ busy' = [busy EXCEPT ![Server] = Nobody] /\ stale' = stale /\ db' = db
        /\ Nobody.at = "idle" /\ Fault
    BY DEF ChangeFails, files, Nobody
  <1>4. faults' # 0
    BY <1>3, FaultsGrow
  <1> QED
    BY <1>1, <1>2, <1>3, <1>4, OwnOne

LEMMA ToolOwn ==
  ASSUME TypeOK, OwnInv, [Next]_vars, NEW t \in Tool,
         (\E u \in User : Register(t, u)) \/ RegisterFails(t)
  PROVE  OwnInv'
  <1>1. t \in Proc /\ t # Server
    BY ProcAssumption DEF Proc
  <1>2. ASSUME NEW u \in User, Register(t, u) PROVE OwnInv'
    <2>1. PICK f \in Seq(Record) :
             /\ table' = [table EXCEPT ![t] = f]
             /\ \A v : v # u => RecordsOf(f, v) = RecordsOf(db, v)
      BY <1>2, RegisterIs
    <2> DEFINE b == [who |-> u, at |-> "memory", was |-> Absent]
    <2>2. b.at = "memory" /\ b.who = u /\ busy' = [busy EXCEPT ![t] = b]
      BY <1>2 DEF Register
    <2>3. stale' = stale \ {t} /\ db' = db /\ faults' = faults /\ srv' = srv
      BY <1>2 DEF Register, files
    <2> HIDE DEF b
    <2> QED
      BY <1>1, <2>1, <2>2, <2>3, OwnOne
  <1>3. CASE RegisterFails(t)
    <2>1. /\ table' = [table EXCEPT ![t] = Absent] /\ busy' = [busy EXCEPT ![t] = Nobody]
          /\ stale' = stale \ {t} /\ db' = db /\ srv' = srv /\ Nobody.at = "idle"
      BY <1>3 DEF RegisterFails, files, Nobody
    <2>2. faults' = 0 => faults' = faults
      BY FaultsGrow
    <2> QED
      BY <1>1, <2>1, <2>2, OwnOne
  <1> QED
    BY <1>2, <1>3

LEMMA DownOwn == TypeOK /\ OwnInv /\ GoDown /\ UNCHANGED <<files, faults>> => OwnInv'
  <1> SUFFICES ASSUME TypeOK, OwnInv, GoDown, UNCHANGED <<files, faults>> PROVE OwnInv'
    OBVIOUS
  <1>1. Server \in Proc
    BY DEF Proc
  <1>2. /\ table' = [table EXCEPT ![Server] = Absent]
        /\ busy' = [busy EXCEPT ![Server] = Nobody]
        /\ stale' = stale \ {Server} /\ db' = db /\ faults' = faults
        /\ srv'.at = "down" /\ Nobody.at = "idle"
    BY DEF GoDown, files, Nobody, TypeOK
  <1> QED
    BY <1>1, <1>2, OwnOne

LEMMA FillOwn == ASSUME TypeOK, OwnInv, NEW p \in Proc, FillTmp(p) PROVE OwnInv'
  <1>1. /\ busy[p].at = "memory" /\ busy' = [busy EXCEPT ![p].at = "file"]
        /\ UNCHANGED <<db, table, stale, faults, srv>>
    BY DEF FillTmp, files
  <1>2. ASSUME NEW q \in Proc
        PROVE  busy'[q].who = busy[q].who /\ (busy'[q].at = "idle" <=> busy[q].at = "idle")
    BY <1>1 DEF TypeOK
  <1>3. Server \in Proc
    BY DEF Proc
  <1>4. ServerOwn'
    BY <1>1, <1>2, <1>3 DEF ServerOwn, OwnInv
  <1>5. ASSUME NEW q \in Proc PROVE Own(q)'
    <2>1. Own(q)
      BY OwnIs
    <2> QED
      BY <1>1, <1>2, <2>1 DEF Own
  <1> QED
    BY <1>4, <1>5, OwnNext

LEMMA RenameOwn ==
  ASSUME TypeOK, WriterInv, OwnInv, NEW p \in Proc, RenameTmp(p) PROVE OwnInv'
  <1>1. db' = table[p] /\ busy' = [busy EXCEPT ![p] = Nobody] /\ Nobody.at = "idle"
    BY DEF RenameTmp, TmpName, WriterInv, Nobody
  <1>2. Server \in Proc
    BY DEF Proc
  <1>3. ASSUME NEW q \in Proc, q # p
        PROVE  busy'[q] = busy[q] /\ table'[q] = table[q] /\ (table[q] # Absent => q \in stale')
    BY <1>3 DEF RenameTmp, TypeOK, Outdated
  <1>4. ServerOwn'
    <2>1. CASE p = Server
      BY <1>1, <2>1 DEF ServerOwn, RenameTmp
    <2>2. CASE p # Server
      <3>1. srv'.at = "up" => Server \in stale'
        BY <1>2, <1>3, <2>2 DEF RenameTmp, TypeOK
      <3> QED
        BY <3>1 DEF ServerOwn
    <2> QED
      BY <2>1, <2>2
  <1>5. ASSUME NEW q \in Proc PROVE Own(q)'
    <2>1. CASE q = p
      <3>1. busy'[q].at = "idle"
        BY <1>1, <2>1 DEF TypeOK
      <3> QED
        BY <3>1 DEF Own
    <2>2. CASE q # p
      <3>1. busy'[q].at # "idle" => q \in stale'
        BY <1>3, <2>2, NoFileNoUsers DEF TypeOK
      <3> QED
        BY <3>1 DEF Own
    <2> QED
      BY <2>1, <2>2
  <1> QED
    BY <1>4, <1>5, OwnNext

LEMMA NextOwn == TypeOK /\ WriterInv /\ OwnInv /\ [Next]_vars => OwnInv'
  <1> SUFFICES ASSUME TypeOK, WriterInv, OwnInv, [Next]_vars PROVE OwnInv'
    OBVIOUS
  <1>f. faults' = 0 => faults' = faults
    BY FaultsGrow
  <1>1. CASE Start \/ LoadFails
    <2>1. UNCHANGED <<busy, table, db, stale>> /\ srv'.at # "up"
      BY <1>1 DEF Start, LoadFails, files, TypeOK
    <2> QED
      BY <1>f, <2>1, OwnStays
  <1>2. CASE Bootstrap
    BY <1>2, BootOwn
  <1>3. CASE auth_load_db
    BY <1>3, LoadOwn
  <1>4. CASE \E u \in User : Change(u)
    BY <1>4, ChangeOwn
  <1>5. CASE ChangeFails
    BY <1>5, ChangeFailsOwn
  <1>6. CASE Exit \/ Crash
    BY <1>6, DownOwn DEF Exit, Crash
  <1>7. CASE \E t \in Tool : (\E u \in User : Register(t, u)) \/ RegisterFails(t)
    BY <1>7, ToolOwn
  <1>8. CASE \E p \in Proc : FillTmp(p) \/ RenameTmp(p)
    BY <1>8, FillOwn, RenameOwn
  <1>9. CASE UNCHANGED vars
    BY <1>9, <1>f, OwnStays DEF vars, files
  <1> QED
    BY <1>1, <1>2, <1>3, <1>4, <1>5, <1>6, <1>7, <1>8, <1>9 DEF Next

-----------------------------------------------------------------------------
(* The invariant and what follows from it.                                 *)

FileInv == TypeOK /\ WriterInv /\ CopyInv /\ KeptInv /\ LoadInv /\ OwnInv

LEMMA InitFile == Init => FileInv
  <1> SUFFICES ASSUME Init PROVE FileInv
    OBVIOUS
  <1>1. TypeOK
    BY InitTyped
  <1>2. \A p \in Proc : busy[p] = Nobody /\ table[p] = Absent
    BY DEF Init
  <1>3. srv.at = "down" /\ consumed = Absent /\ Nobody.at = "idle" /\ Server \in Proc /\ ~Copied
    BY DEF Init, Nobody, Proc, Copied
  <1>4. WriterInv
    BY <1>2, <1>3 DEF WriterInv
  <1>5. CopyInv
    BY <1>3 DEF CopyInv
  <1>6. KeptInv
    BY <1>3 DEF Init, KeptInv
  <1>7. Sound
    <2>1. db = Absent \/ (Parses(db) /\ Distinct(db))
      <3>1. CASE db = Absent
        BY <3>1
      <3>2. CASE \E u \in User : db = <<[user |-> u, deleted |-> 1, n |-> 0]>>
        <4>1. PICK u \in User : db = <<[user |-> u, deleted |-> 1, n |-> 0]>>
          BY <3>2
        <4>2. [user |-> u, deleted |-> 1, n |-> 0] \in Record
          BY BoundsAssumption DEF Record
        <4> DEFINE r == [user |-> u, deleted |-> 1, n |-> 0]
        <4> HIDE DEF r
        <4>3. db \in Seq(Record) /\ Len(db) = 1 /\ DOMAIN db = 1 .. 1
          <5>1. r \in Record /\ db = <<r>>
            BY <4>1, <4>2 DEF r
          <5> QED
            BY <5>1
        <4>4. Distinct(db)
          BY <4>3 DEF Distinct
        <4>5. Parses(db)
          BY <4>3, ParsesIs, RecordIsText
        <4> QED
          BY <4>4, <4>5
      <3> QED
        BY <3>1, <3>2 DEF Init
    <2> QED
      BY <1>2, <1>3, <2>1, NoFileNoUsers DEF Sound
  <1>8. LoadInv
    BY <1>7, LoadIs
  <1>9. OwnInv
    BY <1>2, <1>3 DEF OwnInv
  <1> QED
    BY <1>1, <1>4, <1>5, <1>6, <1>8, <1>9 DEF FileInv

LEMMA NextFile == FileInv /\ [Next]_vars => FileInv'
  BY NextTyped, NextWriters, NextCopies, NextKept, NextLoad, NextOwn DEF FileInv

LEMMA FileCorrect == Spec => []FileInv
  BY InitFile, NextFile, PTL DEF Spec

\* What every variable can hold: in particular the server's table and the file
\* a writer has ready hold whole records only.
THEOREM FileTyped == Spec => []TypeOK
  <1>1. FileInv => TypeOK
    BY DEF FileInv
  <1> QED
    BY <1>1, FileCorrect, PTL

\* No account that was there, was in a seed put away or was reported as stored
\* is ever missing from users.db, as long as no copy that is out of date was
\* written and no users.db was unlinked: whatever fails, is killed or is cut off.
THEOREM AccountsSafety == Spec => []AccountsKept
  <1>1. FileInv => AccountsKept
    BY Zenon DEF FileInv, KeptInv, AccountsKept
  <1> QED
    BY <1>1, FileCorrect, PTL

\* As long as the server is not killed, the users.db a start finds can be loaded.
THEOREM LoadableSafety == Spec => []StaysLoadable
  <1>1. FileInv => StaysLoadable
    <2> SUFFICES ASSUME FileInv, crashes = 0, ~Copied, db # Absent, Distinct(seed), Distinct(consumed)
                 PROVE  Loadable(db)
      BY DEF StaysLoadable
    <2>1. Sound
      BY LoadIs DEF FileInv, Unharmed
    <2>2. ~attached
      BY DEF FileInv, TypeOK
    <2> QED
      BY <2>1, <2>2 DEF Sound, Loadable
  <1> QED
    BY <1>1, FileCorrect, PTL

\* A writer whose copy is up to date leaves every record but its own as it was.
THEOREM OwnRecordSafety == Spec => OwnRecordOnly
  <1> DEFINE Claim(p) ==
               /\ busy[p].at = "file" /\ busy'[p] = Nobody /\ db' # db
               /\ ~raced' /\ (p = Server => faults = 0)
               => \A u \in User \ {busy[p].who} : RecordsOf(db', u) = RecordsOf(db, u)
  <1>1. FileInv /\ [Next]_vars => [\A p \in Proc : Claim(p)]_vars
    <2> SUFFICES ASSUME FileInv, [Next]_vars, NEW p \in Proc,
                        busy[p].at = "file", busy'[p] = Nobody, db' # db, ~raced',
                        p = Server => faults = 0
                 PROVE  \A u \in User \ {busy[p].who} : RecordsOf(db', u) = RecordsOf(db, u)
      OBVIOUS
    <2>1. busy[p] # Nobody /\ busy'[p] # busy[p]
      BY DEF Nobody
    <2>2. PICK q \in Proc : RenameTmp(q)
      <3>1. UNCHANGED busy \/ UNCHANGED db \/ \E q \in Proc : RenameTmp(q)
        BY DEF Next, Bootstrap, Start, BootstrapSkipped, PathFails, SeedPathFails, OpenFiles,
           CopyLine, Flush, CloseDb, ConsumeSeed, CopyFails, Cleanup, auth_load_db, LoadFails, Change,
           ChangeFails, Exit, Crash, GoDown, Register, RegisterFails, FillTmp, files, vars
      <3> QED
        BY <2>1, <3>1
    <2>3. q = p
      BY <2>1, <2>2 DEF RenameTmp, FileInv, TypeOK
    <2>4. db' = table[p] /\ p \notin stale
      BY <2>2, <2>3 DEF RenameTmp, TmpName, FileInv, WriterInv
    <2>5. Own(p)
      BY OwnIs DEF FileInv
    <2> QED
      BY <2>4, <2>5 DEF Own
  <1> QED
    BY <1>1, FileCorrect, PTL DEF Spec, OwnRecordOnly

=============================================================================
