------------------------- MODULE AccountLinesProofs -------------------------
(***************************************************************************)
(* Proofs about AccountLines, for any names, tables and seeds.  First the  *)
(* tokens strtok cuts of a line; then which lines parse, cut short or not; *)
(* then what fgets takes of a text that consists of such lines, account    *)
(* by account.  From that, IInv, and what the module says of the files.    *)
(***************************************************************************)
EXTENDS AccountLines, SeqFacts, WellFoundedInduction, TLAPS

\* The least of some numbers is one of them, and below all of them.
LEMMA LeastOf ==
  ASSUME NEW S \in SUBSET Nat, S # {}
  PROVE  Min(S) \in S /\ \A y \in S : Min(S) <= y
  <1> DEFINE Less == OpToRel(<, Nat)
  <1>1. IsWellFoundedOn(Less, Nat)
    BY NatLessThanWellFounded
  <1>2. PICK x \in S : \A y \in S : ~(<<y, x>> \in Less)
    <2> HIDE DEF Less
    <2> QED
      BY <1>1, WFMin, Zenon
  <1>3. \A y \in S : x <= y
    <2> SUFFICES ASSUME NEW y \in S PROVE x <= y
      OBVIOUS
    <2>1. y \in Nat /\ x \in Nat
      OBVIOUS
    <2>2. ~(y < x)
      <3>1. y < x => <<y, x>> \in Less
        BY <2>1 DEF OpToRel
      <3> QED
        BY <3>1, <1>2, Zenon
    <2> QED
      BY <2>1, <2>2
  <1> QED
    BY <1>3, Zenon DEF Min

-----------------------------------------------------------------------------
(* Tokens.                                                                 *)

\* Where a token begins and ends, and what is before, in and behind it.
LEMMA TokenFacts ==
  ASSUME NEW line \in Seq(Char), NEW p \in 0 .. Len(line) + 1
  PROVE  LET f == TokenFrom(line, p)
             t == TokenTo(line, p)
         IN /\ f \in p .. Len(line) + 1
            /\ f <= Len(line) => p < f /\ line[f] # Colon
            /\ \A i \in p + 1 .. f - 1 : i <= Len(line) => line[i] = Colon
            /\ t \in f .. Len(line) + 1
            /\ t <= Len(line) => line[t] = Colon
            /\ \A i \in f .. t - 1 : line[i] # Colon
  <1> DEFINE F == {i \in p + 1 .. Len(line) : line[i] # Colon} \cup {Len(line) + 1}
             f == TokenFrom(line, p)
             T == {i \in f .. Len(line) : line[i] = Colon} \cup {Len(line) + 1}
             t == TokenTo(line, p)
  <1>1. Len(line) \in Nat /\ p \in Nat
    OBVIOUS
  <1>2. f \in F /\ \A y \in F : f <= y
    <2>1. F \in SUBSET Nat /\ F # {} /\ f = Min(F)
      BY <1>1 DEF TokenFrom
    <2> HIDE DEF F, f
    <2> QED
      BY <2>1, LeastOf
  <1>3. /\ f \in p .. Len(line) + 1
        /\ f <= Len(line) => p < f /\ line[f] # Colon
        /\ \A i \in p + 1 .. f - 1 : i <= Len(line) => line[i] = Colon
    <2> HIDE DEF f
    <2> QED
      BY <1>1, <1>2
  <1>4. t \in T /\ \A y \in T : t <= y
    <2>1. t = Min(T)
      BY DEF TokenTo
    <2> HIDE DEF f, t
    <2>2. T \in SUBSET Nat /\ T # {}
      BY <1>1, <1>3
    <2> HIDE DEF T
    <2> QED
      BY <2>1, <2>2, LeastOf
  <1>5. /\ t \in f .. Len(line) + 1
        /\ t <= Len(line) => line[t] = Colon
        /\ \A i \in f .. t - 1 : line[i] # Colon
    <2> HIDE DEF f, t, F
    <2> QED
      BY <1>1, <1>3, <1>4
  <1> QED
    BY <1>3, <1>5

\* The token itself; strtok returns NULL when only colons are left.
LEMMA StrtokFacts ==
  ASSUME NEW line \in Seq(Char), NEW p \in 0 .. Len(line) + 1
  PROVE  /\ strtok(line, p) \in Seq(Char)
         /\ Len(strtok(line, p)) = TokenTo(line, p) - TokenFrom(line, p)
         /\ strtok(line, p) # <<>> <=> TokenFrom(line, p) < TokenTo(line, p)
         /\ strtok(line, p) # <<>> <=> TokenFrom(line, p) <= Len(line)
  <1> DEFINE f == TokenFrom(line, p)
             t == TokenTo(line, p)
  <1>1. /\ f \in p .. Len(line) + 1
        /\ f <= Len(line) => p < f /\ line[f] # Colon
        /\ t \in f .. Len(line) + 1
        /\ t <= Len(line) => line[t] = Colon
    BY TokenFacts
  <1>2. strtok(line, p) = SubSeq(line, f, t - 1)
    BY DEF strtok
  <1> HIDE DEF f, t
  <1>3. Len(line) \in Nat /\ f \in Nat \ {0} /\ t \in Nat /\ f <= t /\ t <= Len(line) + 1
    BY <1>1
  <1>4. \A i \in f .. t - 1 : line[i] \in Char
    BY <1>3
  <1>5. /\ strtok(line, p) \in Seq(Char)
        /\ Len(strtok(line, p)) = t - f
    BY <1>2, <1>3, <1>4, SubSeqProperties
  <1>6. strtok(line, p) # <<>> <=> f < t
    BY <1>3, <1>5, EmptyFacts
  <1>7. f < t <=> f <= Len(line)
    BY <1>1, <1>3
  <1> QED
    BY <1>5, <1>6, <1>7 DEF f, t

\* A token whose bounds are known.
LEMMA TokenAt ==
  ASSUME NEW line \in Seq(Char), NEW p \in 0 .. Len(line), NEW e \in p + 2 .. Len(line) + 1,
         \A i \in p + 1 .. e - 1 : line[i] # Colon,
         e <= Len(line) => line[e] = Colon
  PROVE  /\ TokenFrom(line, p) = p + 1
         /\ TokenTo(line, p) = e
         /\ strtok(line, p) = SubSeq(line, p + 1, e - 1)
         /\ strtok(line, p) # <<>>
  <1> DEFINE f == TokenFrom(line, p)
             t == TokenTo(line, p)
  <1>1. /\ f \in p .. Len(line) + 1
        /\ f <= Len(line) => p < f /\ line[f] # Colon
        /\ \A i \in p + 1 .. f - 1 : i <= Len(line) => line[i] = Colon
        /\ t \in f .. Len(line) + 1
        /\ t <= Len(line) => line[t] = Colon
        /\ \A i \in f .. t - 1 : line[i] # Colon
    BY TokenFacts
  <1>2. strtok(line, p) = SubSeq(line, f, t - 1) /\ (strtok(line, p) # <<>> <=> f < t)
    BY StrtokFacts DEF strtok
  <1> HIDE DEF f, t
  <1>3. Len(line) \in Nat
    OBVIOUS
  <1>4. f = p + 1
    <2>1. p < f
      BY <1>1, <1>3
    <2>2. line[p + 1] # Colon /\ p + 1 <= Len(line)
      BY <1>3
    <2>3. ~(p + 1 \in p + 1 .. f - 1)
      BY <1>1, <2>2
    <2> QED
      BY <1>1, <1>3, <2>1, <2>3
  <1>5. t = e
    <2>1. ~(t < e)
      BY <1>1, <1>3, <1>4
    <2>2. ~(e < t)
      BY <1>1, <1>3, <1>4
    <2> QED
      BY <1>1, <1>3, <2>1, <2>2
  <1> QED
    BY <1>2, <1>3, <1>4, <1>5 DEF f, t

\* Where each field is looked for.
LEMMA CutsAre ==
  ASSUME NEW line
  PROVE  /\ Cuts(line)[1] = 0
         /\ Cuts(line)[2] = TokenTo(line, Cuts(line)[1])
         /\ Cuts(line)[3] = TokenTo(line, Cuts(line)[2])
         /\ Cuts(line)[4] = TokenTo(line, Cuts(line)[3])
         /\ Cuts(line)[5] = TokenTo(line, Cuts(line)[4])
         /\ Cuts(line)[6] = TokenTo(line, Cuts(line)[5])
  BY DEF Cuts

\* A field that is looked for before the end of the line is behind a colon, and
\* something is between the two.
LEMMA CutAfter ==
  ASSUME NEW line \in Seq(Char), NEW p \in 0 .. Len(line) + 1,
         NEW t, t = TokenTo(line, p)
  PROVE  /\ t \in 0 .. Len(line) + 1
         /\ t <= Len(line) => line[t] = Colon /\ p + 2 <= t
  <1> DEFINE f == TokenFrom(line, p)
  <1>1. /\ f \in p .. Len(line) + 1
        /\ f <= Len(line) => p < f /\ line[f] # Colon
        /\ t \in f .. Len(line) + 1
        /\ t <= Len(line) => line[t] = Colon
    BY TokenFacts
  <1> HIDE DEF f
  <1> QED
    BY <1>1

\* What fields behind which a line has a fifth, or a fourth, need of it.
LEMMA FieldsNeed ==
  ASSUME NEW line \in Seq(Char)
  PROVE  LET c == Cuts(line) IN
         /\ \A k \in 1 .. 6 : c[k] \in 0 .. Len(line) + 1
         /\ \A k \in 1 .. 5 : c[k + 1] <= Len(line) => line[c[k + 1]] = Colon /\ c[k] + 2 <= c[k + 1]
         /\ \A k \in 1 .. 6 : Field(line, k) # <<>> =>
              c[k] + Len(Field(line, k)) <= Len(line) /\ Len(Field(line, k)) > 0
  <1> DEFINE c == Cuts(line)
  <1>1. Len(line) \in Nat
    OBVIOUS
  <1>2. /\ c[1] = 0
        /\ c[2] = TokenTo(line, c[1]) /\ c[3] = TokenTo(line, c[2])
        /\ c[4] = TokenTo(line, c[3]) /\ c[5] = TokenTo(line, c[4])
        /\ c[6] = TokenTo(line, c[5])
    BY CutsAre
  <1>3. \A k \in 1 .. 6 : Field(line, k) = strtok(line, c[k])
    BY DEF Field
  <1> HIDE DEF c
  <1>4. c[1] \in 0 .. Len(line) + 1
    BY <1>1, <1>2
  <1>5. c[2] \in 0 .. Len(line) + 1 /\ (c[2] <= Len(line) => line[c[2]] = Colon /\ c[1] + 2 <= c[2])
    BY <1>2, <1>4, CutAfter
  <1>6. c[3] \in 0 .. Len(line) + 1 /\ (c[3] <= Len(line) => line[c[3]] = Colon /\ c[2] + 2 <= c[3])
    BY <1>2, <1>5, CutAfter
  <1>7. c[4] \in 0 .. Len(line) + 1 /\ (c[4] <= Len(line) => line[c[4]] = Colon /\ c[3] + 2 <= c[4])
    BY <1>2, <1>6, CutAfter
  <1>8. c[5] \in 0 .. Len(line) + 1 /\ (c[5] <= Len(line) => line[c[5]] = Colon /\ c[4] + 2 <= c[5])
    BY <1>2, <1>7, CutAfter
  <1>9. c[6] \in 0 .. Len(line) + 1 /\ (c[6] <= Len(line) => line[c[6]] = Colon /\ c[5] + 2 <= c[6])
    BY <1>2, <1>8, CutAfter
  <1>10. \A k \in 1 .. 6 : c[k] \in 0 .. Len(line) + 1
    <2>1. \A k \in 1 .. 6 : k \in {1, 2, 3, 4, 5, 6}
      OBVIOUS
    <2> QED
      BY <2>1, <1>4, <1>5, <1>6, <1>7, <1>8, <1>9
  <1>11. \A k \in 1 .. 5 : c[k + 1] <= Len(line) => line[c[k + 1]] = Colon /\ c[k] + 2 <= c[k + 1]
    <2>1. \A k \in 1 .. 5 : k \in {1, 2, 3, 4, 5}
      OBVIOUS
    <2> QED
      BY <2>1, <1>5, <1>6, <1>7, <1>8, <1>9
  <1>12. ASSUME NEW k \in 1 .. 6, Field(line, k) # <<>>
         PROVE  c[k] + Len(Field(line, k)) <= Len(line) /\ Len(Field(line, k)) > 0
    <2> DEFINE f == TokenFrom(line, c[k])
               t == TokenTo(line, c[k])
    <2>1. c[k] \in 0 .. Len(line) + 1
      BY <1>10
    <2>2. /\ f \in c[k] .. Len(line) + 1
          /\ f <= Len(line) => c[k] < f
          /\ t \in f .. Len(line) + 1
      BY <2>1, TokenFacts
    <2>3. Len(Field(line, k)) = t - f /\ f < t /\ f <= Len(line)
      BY <1>3, <1>12, <2>1, StrtokFacts
    <2> HIDE DEF f, t
    <2> QED
      BY <1>1, <2>1, <2>2, <2>3
  <1> QED
    BY <1>10, <1>11, <1>12 DEF c

-----------------------------------------------------------------------------
(* Lines.                                                                  *)

\* The beginning of a line of users.db that begins with u characters of a name,
\* colons aside, and the beginning of a line of a seed.
DbStart(line, u, a) ==
  /\ Len(line) <= u + 6 + 2 * Digits
  /\ \A i \in 1 .. Len(line) :
       /\ i <= u => line[i] # Colon
       /\ i \in {u + 1, u + 3, u + 5, u + 6 + Digits} => line[i] = Colon
       /\ i = u + 2 => line[i] = a.must_change
       /\ i = u + 4 => line[i] = a.deleted
       /\ u + 6 <= i /\ i <= u + 5 + Digits => line[i] = "a"
       /\ u + 7 + Digits <= i => line[i] = "a"

SeedStart(line, u, w, a) ==
  /\ Len(line) <= u + w + 5
  /\ \A i \in 1 .. Len(line) :
       /\ i <= u => line[i] # Colon
       /\ i \in {u + 1, u + w + 2, u + w + 4} => line[i] = Colon
       /\ u + 2 <= i /\ i <= u + w + 1 => line[i] = "p"
       /\ i = u + w + 3 => line[i] = a.must_change
       /\ i = u + w + 5 => line[i] = a.deleted

\* No character of a flag or a digit is a colon or a newline.
LEMMA Characters ==
  /\ NL # Colon /\ "a" # Colon /\ "a" # NL /\ "p" # Colon /\ "p" # NL
  /\ \A f \in FlagText : f # Colon /\ f # NL
  BY DEF NL, Colon, FlagText

\* Colons that stand two or more apart, D characters before the end, in a line that
\* has them at four places only.
LEMMA FourColons ==
  ASSUME NEW m \in Nat, NEW u \in Nat, NEW D \in Nat \ {0},
         NEW c2 \in Nat, NEW c3 \in Nat, NEW c4 \in Nat, NEW c5 \in Nat,
         2 <= c2, c2 + 2 <= c3, c3 + 2 <= c4, c4 + 2 <= c5, c5 + D <= m,
         m <= u + 6 + 2 * D,
         \A i \in {c2, c3, c4, c5} : i \in {u + 1, u + 3, u + 5, u + 6 + D}
  PROVE  u > 0 /\ m = u + 6 + 2 * D
  <1>1. c2 >= u + 1
    OBVIOUS
  <1>2. c3 >= u + 3
    BY <1>1
  <1>3. c4 >= u + 5
    BY <1>2
  <1>4. c5 >= u + 6 + D
    BY <1>3
  <1>5. c5 = u + 6 + D /\ c4 = u + 5
    BY <1>3, <1>4
  <1>6. c3 = u + 3
    BY <1>2, <1>5
  <1>7. c2 = u + 1
    BY <1>1, <1>6
  <1> QED
    BY <1>4, <1>7

\* Only a line that is not cut short has five fields, and a name that is not empty.
LEMMA DbNeeds ==
  ASSUME NEW line \in Seq(Char), NEW u \in Nat, NEW a \in Account,
         DbStart(line, u, a), auth_parse_db_line(line)
  PROVE  u > 0 /\ Len(line) = u + 6 + 2 * Digits
  <1> DEFINE m == Len(line)
             c1 == Cuts(line)[1]
             c2 == Cuts(line)[2]
             c3 == Cuts(line)[3]
             c4 == Cuts(line)[4]
             c5 == Cuts(line)[5]
  <1>1. m \in Nat /\ Digits \in Nat \ {0}
    BY SizeAssumption
  <1>2. c1 \in Nat /\ c2 \in Nat /\ c3 \in Nat /\ c4 \in Nat /\ c5 \in Nat
    BY <1>1, FieldsNeed
  <1>3. c5 + Digits <= m
    <2>1. Field(line, 5) = Repeat("a", Digits) /\ Field(line, 5) # <<>>
      BY DEF auth_parse_db_line, HasFields, auth_hex_decode
    <2>2. Len(Repeat("a", Digits)) = Digits
      BY <1>1 DEF Repeat
    <2>3. 5 \in 1 .. 6
      OBVIOUS
    <2> QED
      BY <2>1, <2>2, <2>3, FieldsNeed
  <1>4. /\ c2 <= m => line[c2] = Colon /\ c1 + 2 <= c2
        /\ c3 <= m => line[c3] = Colon /\ c2 + 2 <= c3
        /\ c4 <= m => line[c4] = Colon /\ c3 + 2 <= c4
        /\ c5 <= m => line[c5] = Colon /\ c4 + 2 <= c5
    <2>1. \A k \in {1, 2, 3, 4} : Cuts(line)[k + 1] <= m =>
            line[Cuts(line)[k + 1]] = Colon /\ Cuts(line)[k] + 2 <= Cuts(line)[k + 1]
      BY FieldsNeed
    <2> QED
      BY <2>1
  <1>5. /\ m <= u + 6 + 2 * Digits
        /\ \A i \in 1 .. m : line[i] = Colon => i \in {u + 1, u + 3, u + 5, u + 6 + Digits}
    <2>1. m <= u + 6 + 2 * Digits
      BY DEF DbStart
    <2> SUFFICES ASSUME NEW i \in 1 .. m, line[i] = Colon
                 PROVE  i \in {u + 1, u + 3, u + 5, u + 6 + Digits}
      BY <2>1
    <2>2. a.must_change # Colon /\ a.deleted # Colon /\ "a" # Colon
      BY Characters DEF Account
    <2> QED
      BY <1>1, <2>2 DEF DbStart
  <1> HIDE DEF m, c1, c2, c3, c4, c5
  <1>6. /\ 2 <= c2 /\ c2 + 2 <= c3 /\ c3 + 2 <= c4 /\ c4 + 2 <= c5
        /\ line[c2] = Colon /\ line[c3] = Colon /\ line[c4] = Colon /\ line[c5] = Colon
        /\ c2 \in 1 .. m /\ c3 \in 1 .. m /\ c4 \in 1 .. m /\ c5 \in 1 .. m
    BY <1>1, <1>2, <1>3, <1>4
  <1>7. \A i \in {c2, c3, c4, c5} : i \in {u + 1, u + 3, u + 5, u + 6 + Digits}
    BY <1>5, <1>6
  <1> QED
    BY <1>1, <1>2, <1>3, <1>5, <1>6, <1>7, FourColons DEF m

\* Only a line that is not cut short has a fourth field.
LEMMA SeedNeeds ==
  ASSUME NEW line \in Seq(Char), NEW u \in Nat, NEW w \in Nat \ {0}, NEW a \in Account,
         SeedStart(line, u, w, a), ParseSeedLine(line)
  PROVE  Len(line) = u + w + 5
  <1> DEFINE m == Len(line)
             c1 == Cuts(line)[1]
             c2 == Cuts(line)[2]
             c3 == Cuts(line)[3]
             c4 == Cuts(line)[4]
  <1>1. m \in Nat
    OBVIOUS
  <1>2. c1 \in Nat /\ c2 \in Nat /\ c3 \in Nat /\ c4 \in Nat
    BY <1>1, FieldsNeed
  <1>3. c4 + 1 <= m
    <2>1. Field(line, 4) # <<>>
      BY DEF ParseSeedLine, HasFields
    <2>2. c4 + Len(Field(line, 4)) <= m /\ Len(Field(line, 4)) > 0
      BY <2>1, FieldsNeed
    <2>3. Len(Field(line, 4)) \in Nat
      <3>1. Cuts(line)[4] \in 0 .. Len(line) + 1
        BY FieldsNeed
      <3>2. Field(line, 4) \in Seq(Char)
        BY <3>1, StrtokFacts DEF Field
      <3> QED
        BY <3>2
    <2> QED
      BY <1>1, <1>2, <2>2, <2>3
  <1>4. /\ c2 <= m => line[c2] = Colon /\ c1 + 2 <= c2
        /\ c3 <= m => line[c3] = Colon /\ c2 + 2 <= c3
        /\ c4 <= m => line[c4] = Colon /\ c3 + 2 <= c4
    <2>1. \A k \in {1, 2, 3} : Cuts(line)[k + 1] <= Len(line) =>
            line[Cuts(line)[k + 1]] = Colon /\ Cuts(line)[k] + 2 <= Cuts(line)[k + 1]
      BY FieldsNeed
    <2> QED
      BY <2>1
  <1>5. /\ m <= u + w + 5
        /\ \A i \in 1 .. m : line[i] = Colon => i \in {u + 1, u + w + 2, u + w + 4}
    <2>1. m <= u + w + 5
      BY DEF SeedStart
    <2> SUFFICES ASSUME NEW i \in 1 .. m, line[i] = Colon
                 PROVE  i \in {u + 1, u + w + 2, u + w + 4}
      BY <2>1
    <2>2. a.must_change # Colon /\ a.deleted # Colon /\ "p" # Colon
      BY Characters DEF Account
    <2> QED
      BY <1>1, <2>2 DEF SeedStart
  <1> HIDE DEF m, c1, c2, c3, c4
  <1>6. /\ 2 <= c2 /\ c2 + 2 <= c3 /\ c3 + 2 <= c4
        /\ line[c2] = Colon /\ line[c3] = Colon /\ line[c4] = Colon
        /\ c2 \in 1 .. m /\ c3 \in 1 .. m /\ c4 \in 1 .. m
    BY <1>1, <1>2, <1>3, <1>4
  <1>7. c4 = u + w + 4
    <2>1. \A i \in {c2, c3, c4} : i \in {u + 1, u + w + 2, u + w + 4}
      BY <1>5, <1>6
    <2>2. /\ c2 = u + 1 \/ c2 = u + w + 2 \/ c2 = u + w + 4
          /\ c3 = u + 1 \/ c3 = u + w + 2 \/ c3 = u + w + 4
          /\ c4 = u + 1 \/ c4 = u + w + 2 \/ c4 = u + w + 4
      BY <2>1
    <2>3. c2 >= u + 1
      BY <1>2, <2>2
    <2>4. c3 >= u + w + 2
      BY <1>2, <1>6, <2>2, <2>3
    <2> QED
      BY <1>2, <1>6, <2>2, <2>4
  <1> QED
    BY <1>1, <1>3, <1>5, <1>7 DEF m

\* The first token, of u characters.
LEMMA FirstToken ==
  ASSUME NEW line \in Seq(Char), NEW u \in Nat \ {0}, u + 1 <= Len(line),
         \A i \in 1 .. u : line[i] # Colon, line[u + 1] = Colon
  PROVE  TokenTo(line, 0) = u + 1 /\ strtok(line, 0) = SubSeq(line, 1, u) /\ strtok(line, 0) # <<>>
  <1> DEFINE p == 0
             e == u + 1
  <1>1. /\ Len(line) \in Nat /\ p \in 0 .. Len(line) /\ e \in p + 2 .. Len(line) + 1
        /\ p + 1 = 1 /\ e - 1 = u
    OBVIOUS
  <1>2. (\A i \in p + 1 .. e - 1 : line[i] # Colon) /\ line[e] = Colon
    BY <1>1
  <1> HIDE DEF p, e
  <1>3. TokenTo(line, p) = e /\ strtok(line, p) = SubSeq(line, p + 1, e - 1) /\ strtok(line, p) # <<>>
    BY <1>1, <1>2, TokenAt
  <1>4. TokenTo(line, p) = e /\ strtok(line, p) = SubSeq(line, 1, u) /\ strtok(line, p) # <<>>
    BY <1>1, <1>3
  <1> QED
    BY <1>4 DEF p, e

\* A token of n times the same character.
LEMMA RepeatToken ==
  ASSUME NEW line \in Seq(Char), NEW n \in Nat \ {0}, NEW p \in 0 .. Len(line) - n,
         NEW c \in Char, c # Colon, \A i \in p + 1 .. p + n : line[i] = c,
         p + n + 1 <= Len(line) => line[p + n + 1] = Colon
  PROVE  TokenTo(line, p) = p + n + 1 /\ strtok(line, p) = Repeat(c, n)
         /\ strtok(line, p) # <<>>
  <1>1. Len(line) \in Nat /\ p \in 0 .. Len(line) /\ p + n + 1 \in p + 2 .. Len(line) + 1
    OBVIOUS
  <1>2. \A i \in p + 1 .. p + n + 1 - 1 : line[i] # Colon
    BY <1>1
  <1>3. TokenTo(line, p) = p + n + 1 /\ strtok(line, p) = SubSeq(line, p + 1, p + n + 1 - 1)
        /\ strtok(line, p) # <<>>
    BY <1>1, <1>2, TokenAt
  <1>4. SubSeq(line, p + 1, p + n + 1 - 1) = Repeat(c, n)
    <2>1. \A i \in p + 1 .. p + n + 1 - 1 : line[i] \in Char
      BY <1>1
    <2>2. /\ SubSeq(line, p + 1, p + n + 1 - 1) \in Seq(Char)
          /\ Len(SubSeq(line, p + 1, p + n + 1 - 1)) = n
          /\ \A i \in 1 .. n : SubSeq(line, p + 1, p + n + 1 - 1)[i] = c
      BY <1>1, <2>1, SubSeqProperties
    <2>3. Repeat(c, n) \in Seq(Char) /\ Len(Repeat(c, n)) = n
          /\ \A i \in 1 .. n : Repeat(c, n)[i] = c
      BY DEF Repeat
    <2> QED
      BY <2>2, <2>3, SeqEqual
  <1> QED
    BY <1>3, <1>4

\* A token of one character.
LEMMA OneToken ==
  ASSUME NEW line \in Seq(Char), NEW p \in 0 .. Len(line) - 1,
         NEW c \in Char, c # Colon, line[p + 1] = c, p + 2 <= Len(line) => line[p + 2] = Colon
  PROVE  TokenTo(line, p) = p + 2 /\ strtok(line, p) = <<c>> /\ strtok(line, p) # <<>>
  <1>1. \A n \in Nat \ {0} : n = 1 =>
          /\ TokenTo(line, p) = p + n + 1 /\ strtok(line, p) = Repeat(c, n)
          /\ strtok(line, p) # <<>>
    <2> SUFFICES ASSUME NEW n \in Nat \ {0}, n = 1
                 PROVE  /\ TokenTo(line, p) = p + n + 1 /\ strtok(line, p) = Repeat(c, n)
                        /\ strtok(line, p) # <<>>
      OBVIOUS
    <2>1. Len(line) \in Nat /\ p \in 0 .. Len(line) - n
      OBVIOUS
    <2>2. \A i \in p + 1 .. p + n : line[i] = c
      BY <2>1
    <2>3. p + n + 1 <= Len(line) => line[p + n + 1] = Colon
      BY <2>1
    <2> QED
      BY <2>1, <2>2, <2>3, RepeatToken
  <1>2. Repeat(c, 1) = <<c>>
    BY DEF Repeat
  <1> QED
    BY <1>1, <1>2

\* No field is behind the last one.
LEMMA NoToken ==
  ASSUME NEW line \in Seq(Char)
  PROVE  strtok(line, Len(line) + 1) = <<>>
  <1>1. Len(line) \in Nat /\ Len(line) + 1 \in 0 .. Len(line) + 1
    OBVIOUS
  <1> DEFINE p == Len(line) + 1
  <1>2. TokenFrom(line, p) \in p .. Len(line) + 1
    BY <1>1, TokenFacts
  <1>3. strtok(line, p) # <<>> <=> TokenFrom(line, p) <= Len(line)
    BY <1>1, StrtokFacts
  <1> HIDE DEF p
  <1>4. p = Len(line) + 1
    BY DEF p
  <1>5. ~(TokenFrom(line, p) <= Len(line))
    BY <1>1, <1>2, <1>4
  <1> QED
    BY <1>3, <1>4, <1>5

\* A line of users.db that is read whole has the fields that were written.
LEMMA DbWhole ==
  ASSUME NEW line \in Seq(Char), NEW u \in Nat \ {0}, NEW a \in Account,
         DbStart(line, u, a), Len(line) = u + 6 + 2 * Digits
  PROVE  /\ auth_parse_db_line(line) <=> Flagged(a)
         /\ Field(line, 1) = SubSeq(line, 1, u)
         /\ Field(line, 2) = <<a.must_change>>
         /\ Field(line, 3) = <<a.deleted>>
  <1> DEFINE D == Digits
             m == Len(line)
  <1>1. D \in Nat \ {0} /\ m \in Nat /\ m = u + 6 + 2 * D
    BY SizeAssumption
  <1>2. /\ a.must_change \in Char /\ a.must_change # Colon
        /\ a.deleted \in Char /\ a.deleted # Colon
        /\ "a" \in Char /\ "a" # Colon
    BY Characters, CharAssumption DEF Account
  <1>3. \A i \in 1 .. m :
          /\ i <= u => line[i] # Colon
          /\ i \in {u + 1, u + 3, u + 5, u + 6 + D} => line[i] = Colon
          /\ i = u + 2 => line[i] = a.must_change
          /\ i = u + 4 => line[i] = a.deleted
          /\ u + 6 <= i /\ i <= u + 5 + D => line[i] = "a"
          /\ u + 7 + D <= i => line[i] = "a"
    BY DEF DbStart
  <1> HIDE DEF D
  <1>4. TokenTo(line, 0) = u + 1 /\ strtok(line, 0) = SubSeq(line, 1, u) /\ strtok(line, 0) # <<>>
    <2>1. u + 1 <= m /\ (\A i \in 1 .. u : line[i] # Colon) /\ line[u + 1] = Colon
      BY <1>1, <1>3
    <2> QED
      BY <2>1, FirstToken
  <1>5. /\ TokenTo(line, u + 1) = u + 3 /\ strtok(line, u + 1) = <<a.must_change>>
        /\ strtok(line, u + 1) # <<>>
    <2> DEFINE p == u + 1
    <2>1. /\ p \in 0 .. m - 1 /\ line[p + 1] = a.must_change /\ line[p + 2] = Colon
          /\ p + 2 = u + 3
      BY <1>1, <1>3
    <2> HIDE DEF p
    <2>2. TokenTo(line, p) = p + 2 /\ strtok(line, p) = <<a.must_change>> /\ strtok(line, p) # <<>>
      BY <1>2, <2>1, OneToken
    <2> QED
      BY <2>1, <2>2 DEF p
  <1>6. /\ TokenTo(line, u + 3) = u + 5 /\ strtok(line, u + 3) = <<a.deleted>>
        /\ strtok(line, u + 3) # <<>>
    <2> DEFINE p == u + 3
    <2>1. /\ p \in 0 .. m - 1 /\ line[p + 1] = a.deleted /\ line[p + 2] = Colon
          /\ p + 2 = u + 5
      BY <1>1, <1>3
    <2> HIDE DEF p
    <2>2. TokenTo(line, p) = p + 2 /\ strtok(line, p) = <<a.deleted>> /\ strtok(line, p) # <<>>
      BY <1>2, <2>1, OneToken
    <2> QED
      BY <2>1, <2>2 DEF p
  <1>7. /\ TokenTo(line, u + 5) = u + 6 + D /\ strtok(line, u + 5) = Repeat("a", D)
        /\ strtok(line, u + 5) # <<>>
    <2> DEFINE p == u + 5
    <2>1. /\ p \in 0 .. m - D /\ \A i \in p + 1 .. p + D : line[i] = "a"
          /\ line[p + D + 1] = Colon /\ p + D + 1 = u + 6 + D
      BY <1>1, <1>3
    <2> HIDE DEF p
    <2>2. TokenTo(line, p) = p + D + 1 /\ strtok(line, p) = Repeat("a", D) /\ strtok(line, p) # <<>>
      BY <1>1, <1>2, <2>1, RepeatToken
    <2> QED
      BY <2>1, <2>2 DEF p
  <1>8. /\ TokenTo(line, u + 6 + D) = m + 1 /\ strtok(line, u + 6 + D) = Repeat("a", D)
        /\ strtok(line, u + 6 + D) # <<>>
    <2> DEFINE p == u + 6 + D
    <2>1. /\ p \in 0 .. m - D /\ \A i \in p + 1 .. p + D : line[i] = "a"
          /\ ~(p + D + 1 <= m) /\ p + D + 1 = m + 1
      BY <1>1, <1>3
    <2> HIDE DEF p
    <2>2. TokenTo(line, p) = p + D + 1 /\ strtok(line, p) = Repeat("a", D) /\ strtok(line, p) # <<>>
      BY <1>1, <1>2, <2>1, RepeatToken
    <2> QED
      BY <2>1, <2>2 DEF p
  <1>9. /\ Field(line, 1) = strtok(line, 0) /\ Field(line, 2) = strtok(line, u + 1)
        /\ Field(line, 3) = strtok(line, u + 3) /\ Field(line, 4) = strtok(line, u + 5)
        /\ Field(line, 5) = strtok(line, u + 6 + D) /\ Field(line, 6) = strtok(line, m + 1)
    BY <1>4, <1>5, <1>6, <1>7, <1>8, CutsAre DEF Field
  <1>10. strtok(line, m + 1) = <<>>
    BY NoToken
  <1>11. HasFields(line, 5) /\ auth_hex_decode(Field(line, 4)) /\ auth_hex_decode(Field(line, 5))
    BY <1>7, <1>8, <1>9, <1>10 DEF HasFields, auth_hex_decode, D
  <1>12. auth_parse_bool(Field(line, 2)) /\ auth_parse_bool(Field(line, 3)) <=> Flagged(a)
    <2>1. \A c : auth_parse_bool(<<c>>) <=> c \in {"0", "1"}
      BY DEF auth_parse_bool
    <2>2. Flagged(a) <=> a.must_change \in {"0", "1"} /\ a.deleted \in {"0", "1"}
      BY DEF Flagged
    <2> QED
      BY <1>5, <1>6, <1>9, <2>1, <2>2
  <1> QED
    BY <1>4, <1>5, <1>6, <1>9, <1>11, <1>12 DEF auth_parse_db_line

\* A line of a seed that is read whole has the fields that were typed.
LEMMA SeedWhole ==
  ASSUME NEW line \in Seq(Char), NEW u \in Nat \ {0}, NEW w \in Nat \ {0}, NEW a \in Account,
         SeedStart(line, u, w, a), Len(line) = u + w + 5
  PROVE  /\ ParseSeedLine(line) <=> Flagged(a)
         /\ Field(line, 1) = SubSeq(line, 1, u)
         /\ Field(line, 3) = <<a.must_change>>
         /\ Field(line, 4) = <<a.deleted>>
  <1> DEFINE m == Len(line)
  <1>1. m \in Nat /\ m = u + w + 5
    OBVIOUS
  <1>2. /\ a.must_change \in Char /\ a.must_change # Colon
        /\ a.deleted \in Char /\ a.deleted # Colon
        /\ "p" \in Char /\ "p" # Colon
    BY Characters, CharAssumption DEF Account
  <1>3. \A i \in 1 .. m :
          /\ i <= u => line[i] # Colon
          /\ i \in {u + 1, u + w + 2, u + w + 4} => line[i] = Colon
          /\ u + 2 <= i /\ i <= u + w + 1 => line[i] = "p"
          /\ i = u + w + 3 => line[i] = a.must_change
          /\ i = u + w + 5 => line[i] = a.deleted
    BY DEF SeedStart
  <1>4. TokenTo(line, 0) = u + 1 /\ strtok(line, 0) = SubSeq(line, 1, u) /\ strtok(line, 0) # <<>>
    <2>1. u + 1 <= m /\ (\A i \in 1 .. u : line[i] # Colon) /\ line[u + 1] = Colon
      BY <1>1, <1>3
    <2> QED
      BY <2>1, FirstToken
  <1>5. TokenTo(line, u + 1) = u + w + 2 /\ strtok(line, u + 1) # <<>>
    <2> DEFINE p == u + 1
    <2>1. /\ p \in 0 .. m - w /\ \A i \in p + 1 .. p + w : line[i] = "p"
          /\ line[p + w + 1] = Colon /\ p + w + 1 = u + w + 2
      BY <1>1, <1>3
    <2> HIDE DEF p
    <2>2. TokenTo(line, p) = p + w + 1 /\ strtok(line, p) # <<>>
      BY <1>1, <1>2, <2>1, RepeatToken
    <2> QED
      BY <2>1, <2>2 DEF p
  <1>6. /\ TokenTo(line, u + w + 2) = u + w + 4 /\ strtok(line, u + w + 2) = <<a.must_change>>
        /\ strtok(line, u + w + 2) # <<>>
    <2> DEFINE p == u + w + 2
    <2>1. /\ p \in 0 .. m - 1 /\ line[p + 1] = a.must_change /\ line[p + 2] = Colon
          /\ p + 2 = u + w + 4
      BY <1>1, <1>3
    <2> HIDE DEF p
    <2>2. TokenTo(line, p) = p + 2 /\ strtok(line, p) = <<a.must_change>> /\ strtok(line, p) # <<>>
      BY <1>2, <2>1, OneToken
    <2> QED
      BY <2>1, <2>2 DEF p
  <1>7. /\ TokenTo(line, u + w + 4) = m + 1 /\ strtok(line, u + w + 4) = <<a.deleted>>
        /\ strtok(line, u + w + 4) # <<>>
    <2> DEFINE p == u + w + 4
    <2>1. /\ p \in 0 .. m - 1 /\ line[p + 1] = a.deleted /\ ~(p + 2 <= m)
          /\ p + 2 = m + 1
      BY <1>1, <1>3
    <2> HIDE DEF p
    <2>2. TokenTo(line, p) = p + 2 /\ strtok(line, p) = <<a.deleted>> /\ strtok(line, p) # <<>>
      BY <1>2, <2>1, OneToken
    <2> QED
      BY <2>1, <2>2 DEF p
  <1>8. /\ Field(line, 1) = strtok(line, 0) /\ Field(line, 2) = strtok(line, u + 1)
        /\ Field(line, 3) = strtok(line, u + w + 2) /\ Field(line, 4) = strtok(line, u + w + 4)
        /\ Field(line, 5) = strtok(line, m + 1)
    BY <1>4, <1>5, <1>6, <1>7, CutsAre DEF Field
  <1>9. strtok(line, m + 1) = <<>>
    BY NoToken
  <1>10. HasFields(line, 4)
    BY <1>7, <1>8, <1>9 DEF HasFields
  <1>11. auth_parse_bool(Field(line, 3)) /\ auth_parse_bool(Field(line, 4)) <=> Flagged(a)
    <2>1. \A c : auth_parse_bool(<<c>>) <=> c \in {"0", "1"}
      BY DEF auth_parse_bool
    <2>2. Flagged(a) <=> a.must_change \in {"0", "1"} /\ a.deleted \in {"0", "1"}
      BY DEF Flagged
    <2> QED
      BY <1>6, <1>7, <1>8, <2>1, <2>2
  <1> QED
    BY <1>4, <1>6, <1>7, <1>8, <1>10, <1>11 DEF ParseSeedLine

-----------------------------------------------------------------------------
(* What the writers write.                                                 *)

\* An account's name is not empty and has no colon, and its flags are characters.
LEMMA AccountFacts ==
  ASSUME NEW a \in Account
  PROVE  /\ a.name \in Seq(Char) /\ Len(a.name) \in Nat \ {0}
         /\ \A i \in 1 .. Len(a.name) : a.name[i] \in Char /\ a.name[i] # Colon
         /\ a.must_change \in FlagText /\ a.deleted \in FlagText
         /\ a.must_change \in Char /\ a.deleted \in Char
         /\ a = [name |-> a.name, must_change |-> a.must_change, deleted |-> a.deleted]
  <1>1. a.name \in Name /\ a.must_change \in FlagText /\ a.deleted \in FlagText
        /\ a = [name |-> a.name, must_change |-> a.must_change, deleted |-> a.deleted]
    BY DEF Account
  <1>2. a.name \in Seq(Char) /\ Len(a.name) > 0 /\ Colon \notin ToSet(a.name)
    BY <1>1, NameAssumption
  <1>3. \A i \in 1 .. Len(a.name) : a.name[i] \in Char /\ a.name[i] # Colon
    BY <1>2 DEF ToSet
  <1> QED
    BY <1>1, <1>2, <1>3, CharAssumption

\* n times the same character.
LEMMA RepeatFacts ==
  ASSUME NEW c \in Char, NEW n \in Nat
  PROVE  /\ Repeat(c, n) \in Seq(Char) /\ Len(Repeat(c, n)) = n
         /\ \A i \in 1 .. n : Repeat(c, n)[i] = c
  BY DEF Repeat

\* Two texts, one after the other.
LEMMA Joined ==
  ASSUME NEW s \in Seq(Char), NEW t \in Seq(Char), NEW z, z = s \o t
  PROVE  /\ z \in Seq(Char) /\ Len(z) = Len(s) + Len(t)
         /\ \A i \in 1 .. Len(s) : z[i] = s[i]
         /\ \A i \in 1 .. Len(t) : z[Len(s) + i] = t[i]
  <1>1. /\ z \in Seq(Char) /\ Len(z) = Len(s) + Len(t)
        /\ \A i \in 1 .. Len(s) : z[i] = s[i]
        /\ \A i \in Len(s) + 1 .. Len(s) + Len(t) : z[i] = t[i - Len(s)]
    BY JoinFacts
  <1>2. ASSUME NEW i \in 1 .. Len(t) PROVE z[Len(s) + i] = t[i]
    <2>1. Len(s) + i \in Len(s) + 1 .. Len(s) + Len(t) /\ (Len(s) + i) - Len(s) = i
      OBVIOUS
    <2> QED
      BY <1>1, <2>1
  <1> QED
    BY <1>1, <1>2

\* A line of users.db, character by character.
LEMMA DbLineAt ==
  ASSUME NEW a \in Account
  PROVE  LET n == Len(a.name)
             line == DbLine(a)
         IN /\ line \in Seq(Char) /\ Len(line) = n + 7 + 2 * Digits
            /\ \A i \in 1 .. Len(line) :
                 /\ i <= n => line[i] = a.name[i]
                 /\ i \in {n + 1, n + 3, n + 5, n + 6 + Digits} => line[i] = Colon
                 /\ i = n + 2 => line[i] = a.must_change
                 /\ i = n + 4 => line[i] = a.deleted
                 /\ n + 6 <= i /\ i <= n + 5 + Digits => line[i] = "a"
                 /\ n + 7 + Digits <= i /\ i <= n + 6 + 2 * Digits => line[i] = "a"
                 /\ i = n + 7 + 2 * Digits => line[i] = NL
  <1> DEFINE n == Len(a.name)
             D == Digits
             X == <<Colon, a.must_change, Colon, a.deleted, Colon>>
             R == Repeat("a", D)
             C == <<Colon>>
             N == <<NL>>
             s1 == a.name \o X
             s2 == s1 \o R
             s3 == s2 \o C
             s4 == s3 \o R
             s5 == s4 \o N
  <1>1. n \in Nat \ {0} /\ D \in Nat \ {0} /\ a.name \in Seq(Char)
    BY SizeAssumption, AccountFacts
  <1>2. /\ X \in Seq(Char) /\ Len(X) = 5
        /\ X[1] = Colon /\ X[2] = a.must_change /\ X[3] = Colon /\ X[4] = a.deleted /\ X[5] = Colon
    <2>1. Colon \in Char /\ a.must_change \in Char /\ a.deleted \in Char
      BY AccountFacts, CharAssumption
    <2> QED
      BY <2>1
  <1>3. R \in Seq(Char) /\ Len(R) = D /\ \A i \in 1 .. D : R[i] = "a"
    BY <1>1, RepeatFacts, CharAssumption
  <1>4. C \in Seq(Char) /\ Len(C) = 1 /\ C[1] = Colon
    BY CharAssumption
  <1>5. N \in Seq(Char) /\ Len(N) = 1 /\ N[1] = NL
    BY CharAssumption
  <1>6. DbLine(a) = s5
    BY DEF DbLine
  <1> HIDE DEF n, X, R, C, N, D
  <1>7. /\ s1 \in Seq(Char) /\ Len(s1) = n + 5
        /\ \A i \in 1 .. n : s1[i] = a.name[i]
        /\ \A i \in 1 .. 5 : s1[n + i] = X[i]
    <2>1. s1 = a.name \o X
      OBVIOUS
    <2>2. Len(a.name) = n
      BY DEF n
    <2> HIDE DEF s1
    <2>3. a.name \in Seq(Char) /\ X \in Seq(Char)
      BY <1>1, <1>2
    <2>4. /\ s1 \in Seq(Char) /\ Len(s1) = Len(a.name) + Len(X)
          /\ \A i \in 1 .. Len(a.name) : s1[i] = a.name[i]
          /\ \A i \in 1 .. Len(X) : s1[Len(a.name) + i] = X[i]
      BY <2>1, <2>3, Joined
    <2> QED
      BY <1>1, <1>2, <2>2, <2>4
  <1> HIDE DEF s1
  <1>8. /\ s2 \in Seq(Char) /\ Len(s2) = n + 5 + D
        /\ \A i \in 1 .. n + 5 : s2[i] = s1[i]
        /\ \A i \in 1 .. D : s2[n + 5 + i] = R[i]
    <2>1. s2 = s1 \o R
      OBVIOUS
    <2> HIDE DEF s2
    <2>2. s1 \in Seq(Char) /\ R \in Seq(Char)
      BY <1>1, <1>3, <1>7
    <2>3. /\ s2 \in Seq(Char) /\ Len(s2) = Len(s1) + Len(R)
          /\ \A i \in 1 .. Len(s1) : s2[i] = s1[i]
          /\ \A i \in 1 .. Len(R) : s2[Len(s1) + i] = R[i]
      BY <2>1, <2>2, Joined
    <2> QED
      BY <1>1, <1>3, <1>7, <2>3
  <1> HIDE DEF s2
  <1>9. /\ s3 \in Seq(Char) /\ Len(s3) = n + 5 + D + 1
        /\ \A i \in 1 .. n + 5 + D : s3[i] = s2[i]
        /\ \A i \in 1 .. 1 : s3[n + 5 + D + i] = C[i]
    <2>1. s3 = s2 \o C
      OBVIOUS
    <2> HIDE DEF s3
    <2>2. s2 \in Seq(Char) /\ C \in Seq(Char)
      BY <1>1, <1>4, <1>8
    <2>3. /\ s3 \in Seq(Char) /\ Len(s3) = Len(s2) + Len(C)
          /\ \A i \in 1 .. Len(s2) : s3[i] = s2[i]
          /\ \A i \in 1 .. Len(C) : s3[Len(s2) + i] = C[i]
      BY <2>1, <2>2, Joined
    <2> QED
      BY <1>1, <1>4, <1>8, <2>3
  <1> HIDE DEF s3
  <1>10. /\ s4 \in Seq(Char) /\ Len(s4) = n + 5 + D + 1 + D
         /\ \A i \in 1 .. n + 5 + D + 1 : s4[i] = s3[i]
         /\ \A i \in 1 .. D : s4[n + 5 + D + 1 + i] = R[i]
    <2>1. s4 = s3 \o R
      OBVIOUS
    <2> HIDE DEF s4
    <2>2. s3 \in Seq(Char) /\ R \in Seq(Char)
      BY <1>1, <1>3, <1>9
    <2>3. /\ s4 \in Seq(Char) /\ Len(s4) = Len(s3) + Len(R)
          /\ \A i \in 1 .. Len(s3) : s4[i] = s3[i]
          /\ \A i \in 1 .. Len(R) : s4[Len(s3) + i] = R[i]
      BY <2>1, <2>2, Joined
    <2> QED
      BY <1>1, <1>3, <1>9, <2>3
  <1> HIDE DEF s4
  <1>11. /\ s5 \in Seq(Char) /\ Len(s5) = n + 5 + D + 1 + D + 1
         /\ \A i \in 1 .. n + 5 + D + 1 + D : s5[i] = s4[i]
         /\ \A i \in 1 .. 1 : s5[n + 5 + D + 1 + D + i] = N[i]
    <2>1. s5 = s4 \o N
      OBVIOUS
    <2> HIDE DEF s5
    <2>2. s4 \in Seq(Char) /\ N \in Seq(Char)
      BY <1>1, <1>5, <1>10
    <2>3. /\ s5 \in Seq(Char) /\ Len(s5) = Len(s4) + Len(N)
          /\ \A i \in 1 .. Len(s4) : s5[i] = s4[i]
          /\ \A i \in 1 .. Len(N) : s5[Len(s4) + i] = N[i]
      BY <2>1, <2>2, Joined
    <2> QED
      BY <1>1, <1>5, <1>10, <2>3
  <1> HIDE DEF s5
  <1>12. /\ \A i \in 1 .. n + 5 : s5[i] = s1[i]
         /\ \A i \in 1 .. D : s5[n + 5 + i] = R[i]
         /\ s5[n + 5 + D + 1] = Colon
         /\ \A i \in 1 .. D : s5[n + 5 + D + 1 + i] = R[i]
         /\ s5[n + 5 + D + 1 + D + 1] = NL
    <2>1. \A i \in 1 .. n + 5 : s5[i] = s1[i]
      BY <1>1, <1>8, <1>9, <1>10, <1>11
    <2>2. ASSUME NEW i \in 1 .. D PROVE s5[n + 5 + i] = R[i]
      <3>1. n + 5 + i \in 1 .. n + 5 + D
        BY <1>1
      <3> QED
        BY <1>1, <1>8, <1>9, <1>10, <1>11, <3>1
    <2>3. s5[n + 5 + D + 1] = Colon
      <3>1. n + 5 + D + 1 \in 1 .. n + 5 + D + 1 /\ 1 \in 1 .. 1
        BY <1>1
      <3>2. s3[n + 5 + D + 1] = C[1]
        BY <1>9, <3>1
      <3> QED
        BY <1>1, <1>4, <1>10, <1>11, <3>1, <3>2
    <2>4. ASSUME NEW i \in 1 .. D PROVE s5[n + 5 + D + 1 + i] = R[i]
      <3>1. n + 5 + D + 1 + i \in 1 .. n + 5 + D + 1 + D
        BY <1>1
      <3> QED
        BY <1>10, <1>11, <3>1
    <2>5. s5[n + 5 + D + 1 + D + 1] = NL
      <3>1. 1 \in 1 .. 1
        OBVIOUS
      <3> QED
        BY <1>5, <1>11, <3>1
    <2> QED
      BY <2>1, <2>2, <2>3, <2>4, <2>5
  <1>13. /\ s1[n + 1] = Colon /\ s1[n + 2] = a.must_change /\ s1[n + 3] = Colon
         /\ s1[n + 4] = a.deleted /\ s1[n + 5] = Colon
    BY <1>2, <1>7
  <1> DEFINE z == s5
             L == n + 7 + 2 * D
  <1>14. z \in Seq(Char) /\ Len(z) = L
    BY <1>1, <1>11
  <1> HIDE DEF z
  <1>15. ASSUME NEW i \in 1 .. Len(z)
         PROVE  /\ i <= n => z[i] = a.name[i]
                /\ i \in {n + 1, n + 3, n + 5, n + 6 + D} => z[i] = Colon
                /\ i = n + 2 => z[i] = a.must_change
                /\ i = n + 4 => z[i] = a.deleted
                /\ n + 6 <= i /\ i <= n + 5 + D => z[i] = "a"
                /\ n + 7 + D <= i /\ i <= n + 6 + 2 * D => z[i] = "a"
                /\ i = n + 7 + 2 * D => z[i] = NL
    <2>1. i \in Nat /\ i >= 1 /\ i <= L
      BY <1>1, <1>14
    <2>2. i <= n => z[i] = a.name[i]
      <3>1. i <= n => i \in 1 .. n /\ i \in 1 .. n + 5
        BY <1>1, <2>1
      <3> QED
        BY <1>7, <1>12, <3>1 DEF z
    <2>3. i \in {n + 1, n + 3, n + 5} => z[i] = Colon
      BY <1>1, <1>12, <1>13, <2>1 DEF z
    <2>4. i = n + 6 + D => z[i] = Colon
      <3>1. n + 6 + D = n + 5 + D + 1
        BY <1>1
      <3> QED
        BY <1>12, <3>1 DEF z
    <2>5. (i = n + 2 => z[i] = a.must_change) /\ (i = n + 4 => z[i] = a.deleted)
      BY <1>1, <1>12, <1>13, <2>1 DEF z
    <2>6. ASSUME n + 6 <= i /\ i <= n + 5 + D PROVE z[i] = "a"
      <3>1. i - (n + 5) \in 1 .. D /\ n + 5 + (i - (n + 5)) = i
        BY <1>1, <2>1, <2>6
      <3> QED
        BY <1>3, <1>12, <3>1 DEF z
    <2>7. ASSUME n + 7 + D <= i /\ i <= n + 6 + 2 * D PROVE z[i] = "a"
      <3>1. i - (n + 5 + D + 1) \in 1 .. D /\ n + 5 + D + 1 + (i - (n + 5 + D + 1)) = i
        BY <1>1, <2>1, <2>7
      <3> QED
        BY <1>3, <1>12, <3>1 DEF z
    <2>8. i = n + 7 + 2 * D => z[i] = NL
      <3>1. n + 7 + 2 * D = n + 5 + D + 1 + D + 1
        BY <1>1
      <3> QED
        BY <1>12, <3>1 DEF z
    <2> QED
      BY <2>2, <2>3, <2>4, <2>5, <2>6, <2>7, <2>8
  <1> QED
    BY <1>6, <1>14, <1>15 DEF n, D, z

\* A line of a seed, character by character.
LEMMA SeedLineAt ==
  ASSUME NEW a \in Account, pwlen \in Nat
  PROVE  LET n == Len(a.name)
             line == SeedLine(a)
         IN /\ line \in Seq(Char) /\ Len(line) = n + pwlen + 6
            /\ \A i \in 1 .. Len(line) :
                 /\ i <= n => line[i] = a.name[i]
                 /\ i \in {n + 1, n + pwlen + 2, n + pwlen + 4} => line[i] = Colon
                 /\ n + 2 <= i /\ i <= n + pwlen + 1 => line[i] = "p"
                 /\ i = n + pwlen + 3 => line[i] = a.must_change
                 /\ i = n + pwlen + 5 => line[i] = a.deleted
                 /\ i = n + pwlen + 6 => line[i] = NL
  <1> DEFINE n == Len(a.name)
             w == pwlen
             C == <<Colon>>
             P == Repeat("p", w)
             X == <<Colon, a.must_change, Colon, a.deleted, NL>>
             s1 == a.name \o C
             s2 == s1 \o P
             s3 == s2 \o X
  <1>1. n \in Nat \ {0} /\ w \in Nat /\ a.name \in Seq(Char)
    BY AccountFacts
  <1>2. /\ X \in Seq(Char) /\ Len(X) = 5
        /\ X[1] = Colon /\ X[2] = a.must_change /\ X[3] = Colon /\ X[4] = a.deleted /\ X[5] = NL
    <2>1. Colon \in Char /\ a.must_change \in Char /\ a.deleted \in Char /\ NL \in Char
      BY AccountFacts, CharAssumption
    <2> QED
      BY <2>1
  <1>3. P \in Seq(Char) /\ Len(P) = w /\ \A i \in 1 .. w : P[i] = "p"
    BY <1>1, RepeatFacts, CharAssumption
  <1>4. C \in Seq(Char) /\ Len(C) = 1 /\ C[1] = Colon
    BY CharAssumption
  <1>5. SeedLine(a) = s3
    BY DEF SeedLine
  <1> HIDE DEF n, X, P, C, w
  <1>6. /\ s1 \in Seq(Char) /\ Len(s1) = n + 1
        /\ \A i \in 1 .. n : s1[i] = a.name[i]
        /\ \A i \in 1 .. 1 : s1[n + i] = C[i]
    <2>1. s1 = a.name \o C
      OBVIOUS
    <2>2. Len(a.name) = n
      BY DEF n
    <2> HIDE DEF s1
    <2>3. a.name \in Seq(Char) /\ C \in Seq(Char)
      BY <1>1, <1>4
    <2>4. /\ s1 \in Seq(Char) /\ Len(s1) = Len(a.name) + Len(C)
          /\ \A i \in 1 .. Len(a.name) : s1[i] = a.name[i]
          /\ \A i \in 1 .. Len(C) : s1[Len(a.name) + i] = C[i]
      BY <2>1, <2>3, Joined
    <2> QED
      BY <1>1, <1>4, <2>2, <2>4
  <1> HIDE DEF s1
  <1>7. /\ s2 \in Seq(Char) /\ Len(s2) = n + 1 + w
        /\ \A i \in 1 .. n + 1 : s2[i] = s1[i]
        /\ \A i \in 1 .. w : s2[n + 1 + i] = P[i]
    <2>1. s2 = s1 \o P
      OBVIOUS
    <2> HIDE DEF s2
    <2>2. s1 \in Seq(Char) /\ P \in Seq(Char)
      BY <1>1, <1>3, <1>6
    <2>3. /\ s2 \in Seq(Char) /\ Len(s2) = Len(s1) + Len(P)
          /\ \A i \in 1 .. Len(s1) : s2[i] = s1[i]
          /\ \A i \in 1 .. Len(P) : s2[Len(s1) + i] = P[i]
      BY <2>1, <2>2, Joined
    <2> QED
      BY <1>1, <1>3, <1>6, <2>3
  <1> HIDE DEF s2
  <1>8. /\ s3 \in Seq(Char) /\ Len(s3) = n + 1 + w + 5
        /\ \A i \in 1 .. n + 1 + w : s3[i] = s2[i]
        /\ \A i \in 1 .. 5 : s3[n + 1 + w + i] = X[i]
    <2>1. s3 = s2 \o X
      OBVIOUS
    <2> HIDE DEF s3
    <2>2. s2 \in Seq(Char) /\ X \in Seq(Char)
      BY <1>1, <1>2, <1>7
    <2>3. /\ s3 \in Seq(Char) /\ Len(s3) = Len(s2) + Len(X)
          /\ \A i \in 1 .. Len(s2) : s3[i] = s2[i]
          /\ \A i \in 1 .. Len(X) : s3[Len(s2) + i] = X[i]
      BY <2>1, <2>2, Joined
    <2> QED
      BY <1>1, <1>2, <1>7, <2>3
  <1> HIDE DEF s3
  <1>9. /\ s3[n + 1 + w + 1] = Colon /\ s3[n + 1 + w + 2] = a.must_change
        /\ s3[n + 1 + w + 3] = Colon /\ s3[n + 1 + w + 4] = a.deleted
        /\ s3[n + 1 + w + 5] = NL
    BY <1>2, <1>8
  <1>10. s3[n + 1] = Colon
    <2>1. n + 1 \in 1 .. n + 1 + w /\ n + 1 \in 1 .. n + 1 /\ 1 \in 1 .. 1
      BY <1>1
    <2> QED
      BY <1>4, <1>6, <1>7, <1>8, <2>1
  <1> DEFINE L == n + w + 6
             z == s3
  <1>11. z \in Seq(Char) /\ Len(z) = L
    BY <1>1, <1>8
  <1> HIDE DEF z
  <1>12. ASSUME NEW i \in 1 .. Len(z)
         PROVE  /\ i <= n => z[i] = a.name[i]
                /\ i \in {n + 1, n + w + 2, n + w + 4} => z[i] = Colon
                /\ n + 2 <= i /\ i <= n + w + 1 => z[i] = "p"
                /\ i = n + w + 3 => z[i] = a.must_change
                /\ i = n + w + 5 => z[i] = a.deleted
                /\ i = n + w + 6 => z[i] = NL
    <2>1. i \in Nat /\ i >= 1 /\ i <= L
      BY <1>1, <1>11
    <2>2. i <= n => z[i] = a.name[i]
      <3>1. i <= n => i \in 1 .. n /\ i \in 1 .. n + 1 /\ i \in 1 .. n + 1 + w
        BY <1>1, <2>1
      <3> QED
        BY <1>6, <1>7, <1>8, <3>1 DEF z
    <2>3. ASSUME n + 2 <= i /\ i <= n + w + 1 PROVE z[i] = "p"
      <3>1. i - (n + 1) \in 1 .. w /\ n + 1 + (i - (n + 1)) = i /\ i \in 1 .. n + 1 + w
        BY <1>1, <2>1, <2>3
      <3> QED
        BY <1>3, <1>7, <1>8, <3>1 DEF z
    <2>4. /\ n + w + 2 = n + 1 + w + 1 /\ n + w + 3 = n + 1 + w + 2
          /\ n + w + 4 = n + 1 + w + 3 /\ n + w + 5 = n + 1 + w + 4
          /\ n + w + 6 = n + 1 + w + 5
      BY <1>1
    <2>5. /\ i \in {n + 1, n + w + 2, n + w + 4} => z[i] = Colon
          /\ i = n + w + 3 => z[i] = a.must_change
          /\ i = n + w + 5 => z[i] = a.deleted
          /\ i = n + w + 6 => z[i] = NL
      BY <1>9, <1>10, <2>4 DEF z
    <2> QED
      BY <2>2, <2>3, <2>5
  <1> QED
    BY <1>5, <1>11, <1>12 DEF n, w, z

-----------------------------------------------------------------------------
(* What a reader gets.                                                     *)

\* How far one fgets gets.
LEMMA FgetsFacts ==
  ASSUME NEW s \in Seq(Char), NEW p \in Nat, p < Len(s)
  PROVE  LET e == fgets(s, p)
         IN /\ e \in p + 1 .. Len(s) /\ e <= p + LineMax - 1
            /\ \A i \in p + 1 .. e - 1 : s[i] # NL
            /\ s[e] = NL \/ e = Len(s) \/ e = p + LineMax - 1
  <1> DEFINE e == fgets(s, p)
             E == {i \in p + 1 .. Len(s) : s[i] = NL} \cup {Len(s), p + LineMax - 1}
  <1>1. Len(s) \in Nat /\ LineMax \in Nat /\ LineMax > 1
    BY SizeAssumption
  <1>2. e \in E /\ \A y \in E : e <= y
    <2>1. E \in SUBSET Nat /\ E # {} /\ e = Min(E)
      BY <1>1 DEF fgets
    <2> HIDE DEF e, E
    <2> QED
      BY <2>1, LeastOf
  <1> HIDE DEF e
  <1>3. e <= Len(s) /\ e <= p + LineMax - 1 /\ e >= p + 1
    <2>1. Len(s) \in E /\ p + LineMax - 1 \in E
      OBVIOUS
    <2>2. \A y \in E : y \in Nat /\ y >= p + 1
      BY <1>1
    <2> HIDE DEF E
    <2> QED
      BY <1>2, <2>1, <2>2
  <1>4. ASSUME NEW i \in p + 1 .. e - 1 PROVE s[i] # NL
    BY <1>1, <1>2, <1>3
  <1> QED
    BY <1>1, <1>2, <1>3, <1>4 DEF e

\* Reading on from the q-th character of a line of the text: the reader gets no
\* further than the newline that ends it, and when the buffer is full before that,
\* or a newline is in front of it, no further than there.
LEMMA LineIn ==
  ASSUME NEW s \in Seq(Char), NEW l \in Seq(Char), NEW b \in Nat,
         b + Len(l) <= Len(s), \A i \in 1 .. Len(l) : s[b + i] = l[i],
         NEW q \in Nat, q < Len(l), l[Len(l)] = NL
  PROVE  LET p == b + q
             line == Line(s, p)
             m == Len(line)
         IN /\ line \in Seq(Char) /\ m \in Nat /\ q + m < Len(l) /\ m < LineMax
            /\ \A i \in 1 .. m : line[i] = l[q + i] /\ l[q + i] # NL
            /\ \/ l[q + m + 1] = NL /\ m + 1 < LineMax /\ fgets(s, p) = p + m + 1
               \/ m = LineMax - 1 /\ fgets(s, p) = p + m
  <1> DEFINE p == b + q
             e == fgets(s, p)
             k == IF s[e] = NL THEN e - 1 ELSE e
  <1>1. Len(s) \in Nat /\ Len(l) \in Nat /\ LineMax \in Nat /\ LineMax > 1 /\ p \in Nat /\ p < Len(s)
    BY SizeAssumption
  <1>2. /\ e \in p + 1 .. Len(s) /\ e <= p + LineMax - 1
        /\ \A i \in p + 1 .. e - 1 : s[i] # NL
        /\ s[e] = NL \/ e = Len(s) \/ e = p + LineMax - 1
    BY <1>1, FgetsFacts
  <1>3. Line(s, p) = SubSeq(s, p + 1, k)
    BY DEF Line
  <1> HIDE DEF e
  <1>4. e <= b + Len(l)
    <2>1. s[b + Len(l)] = NL /\ b + Len(l) \in p + 1 .. Len(s)
      BY <1>1
    <2> QED
      BY <1>1, <1>2, <2>1
  <1>5. k \in p .. Len(s) /\ k \in Int
    BY <1>1, <1>2
  <1> DEFINE m == k - p
  <1>6. m \in Nat /\ k = p + m
    BY <1>1, <1>5
  <1>7. /\ Line(s, p) \in Seq(Char) /\ Len(Line(s, p)) = m
        /\ \A i \in 1 .. m : Line(s, p)[i] = s[p + i]
    <2> HIDE DEF k, p
    <2>1. \A i \in p + 1 .. k : s[i] \in Char
      BY <1>1, <1>5
    <2>2. /\ SubSeq(s, p + 1, k) \in Seq(Char)
          /\ Len(SubSeq(s, p + 1, k)) = IF p + 1 <= k THEN k - (p + 1) + 1 ELSE 0
          /\ \A i \in 1 .. k - (p + 1) + 1 : SubSeq(s, p + 1, k)[i] = s[p + 1 + i - 1]
      BY <1>1, <1>5, <2>1, SubSeqProperties
    <2>3. (IF p + 1 <= k THEN k - (p + 1) + 1 ELSE 0) = m /\ k - (p + 1) + 1 = m
      BY <1>1, <1>5, <1>6
    <2>4. ASSUME NEW i \in 1 .. m PROVE SubSeq(s, p + 1, k)[i] = s[p + i]
      <3>1. p + 1 + i - 1 = p + i
        BY <1>1
      <3> QED
        BY <2>2, <2>3, <3>1
    <2> QED
      BY <1>3, <2>2, <2>3, <2>4
  <1>8. \A i \in 1 .. m : s[p + i] # NL
    BY <1>1, <1>2, <1>6
  <1>9. q + m < Len(l) /\ m < LineMax
    <2>1. s[b + Len(l)] = NL
      BY <1>1
    <2> QED
      BY <1>1, <1>2, <1>4, <1>6, <2>1
  <1>10. \/ e = p + m + 1 /\ s[e] = NL /\ m + 1 < LineMax
         \/ e = p + m /\ s[e] # NL /\ m = LineMax - 1
    <2>1. s[b + Len(l)] = NL
      BY <1>1
    <2>2. CASE s[e] = NL
      <3>1. k = e - 1
        BY <2>2
      <3> HIDE DEF k, m, p
      <3>2. e = p + m + 1
        BY <1>1, <1>2, <1>6, <3>1
      <3>3. e <= p + LineMax - 1
        BY <1>2
      <3>4. m + 1 < LineMax
        BY <1>1, <1>6, <3>2, <3>3
      <3> QED
        BY <2>2, <3>2, <3>4
    <2>3. CASE s[e] # NL
      <3>1. k = e
        BY <2>3
      <3>2. e # Len(s)
        BY <1>1, <1>2, <1>4, <2>1, <2>3
      <3>3. e = p + LineMax - 1
        BY <1>2, <2>3, <3>2
      <3> HIDE DEF k, m
      <3> QED
        BY <1>1, <1>2, <1>6, <2>3, <3>1, <3>3
    <2> QED
      BY <2>2, <2>3
  <1>11. \A i \in 1 .. m + 1 : s[p + i] = l[q + i]
    <2> SUFFICES ASSUME NEW i \in 1 .. m + 1 PROVE s[p + i] = l[q + i]
      OBVIOUS
    <2>1. q + i \in 1 .. Len(l) /\ b + (q + i) = p + i
      BY <1>1, <1>6, <1>9
    <2> QED
      BY <2>1
  <1> HIDE DEF m, k, p
  <1>12. m + 1 \in 1 .. m + 1 /\ p + m + 1 = p + (m + 1) /\ q + m + 1 = q + (m + 1)
    BY <1>1, <1>6
  <1>13. \/ l[q + m + 1] = NL /\ m + 1 < LineMax /\ e = p + m + 1
         \/ m = LineMax - 1 /\ e = p + m
    BY <1>10, <1>11, <1>12
  <1>14. ASSUME NEW i \in 1 .. m PROVE Line(s, p)[i] = l[q + i] /\ l[q + i] # NL
    <2>1. i \in 1 .. m + 1
      BY <1>6
    <2> QED
      BY <1>7, <1>8, <1>11, <2>1
  <1> QED
    BY <1>6, <1>7, <1>9, <1>13, <1>14 DEF e, p

-----------------------------------------------------------------------------
(* Texts of lines.                                                         *)

\* A line begins where the one before it ends.
LEMMA BeforeFacts ==
  ASSUME NEW ends \in Seq(Nat)
  PROVE  /\ \A k \in 1 .. Len(ends) + 1 : Before(ends, k) \in Nat
         /\ \A k \in 1 .. Len(ends) : Before(ends, k + 1) = ends[k]
         /\ Before(ends, 1) = 0
  <1>1. Len(ends) \in Nat /\ \A k \in 1 .. Len(ends) : ends[k] \in Nat
    OBVIOUS
  <1>2. ASSUME NEW k \in 1 .. Len(ends) + 1 PROVE Before(ends, k) \in Nat
    BY <1>1 DEF Before
  <1>3. ASSUME NEW k \in 1 .. Len(ends) PROVE Before(ends, k + 1) = ends[k]
    <2>1. k + 1 # 1 /\ (k + 1) - 1 = k
      BY <1>1
    <2> QED
      BY <2>1 DEF Before
  <1>4. Before(ends, 1) = 0
    BY DEF Before
  <1> QED
    BY <1>2, <1>3, <1>4

\* Where the k-th line of a text is.
LEMMA LaidAt ==
  ASSUME NEW s \in Seq(Char), NEW ends \in Seq(Nat), NEW lines, Laid(s, ends, lines),
         NEW k \in 1 .. Len(ends), lines[k] \in Seq(Char)
  PROVE  LET b == Before(ends, k)
             l == lines[k]
         IN /\ b \in Nat /\ ends[k] \in Nat /\ ends[k] = b + Len(l) /\ ends[k] <= Len(s)
            /\ Before(ends, k + 1) = ends[k]
            /\ \A i \in 1 .. Len(l) : s[b + i] = l[i]
  <1>1. Len(ends) \in Nat /\ k \in 1 .. Len(ends) + 1 /\ ends[k] \in Nat
    OBVIOUS
  <1>2. Before(ends, k) \in Nat /\ Before(ends, k + 1) = ends[k]
    BY <1>1, BeforeFacts
  <1>3. /\ ends[k] = Before(ends, k) + Len(lines[k])
        /\ \A i \in 1 .. Len(lines[k]) : s[Before(ends, k) + i] = lines[k][i]
        /\ ends[k] <= Len(s)
    BY DEF Laid
  <1> QED
    BY <1>1, <1>2, <1>3

\* An empty text has none of the lines.
LEMMA LaidNone ==
  ASSUME NEW lines, Len(lines) \in Nat
  PROVE  Laid(<<>>, <<>>, lines)
  <1>1. Len(<<>>) = 0 /\ Before(<<>>, 1) = 0
    BY DEF Before
  <1> QED
    BY <1>1 DEF Laid

\* The next line goes behind the others.
LEMMA LaidMore ==
  ASSUME NEW s \in Seq(Char), NEW ends \in Seq(Nat), NEW lines, Laid(s, ends, lines),
         NEW n, n = Len(ends), Len(lines) \in Nat, n < Len(lines),
         \A k \in 1 .. Len(lines) : lines[k] \in Seq(Char),
         NEW s2, s2 = s \o lines[n + 1], NEW e2, e2 = Append(ends, Len(s2))
  PROVE  s2 \in Seq(Char) /\ e2 \in Seq(Nat) /\ Len(e2) = n + 1 /\ Laid(s2, e2, lines)
  <1> DEFINE l == lines[n + 1]
  <1>1. n \in Nat /\ n + 1 \in 1 .. Len(lines) /\ l \in Seq(Char) /\ Len(l) \in Nat
        /\ Len(s) \in Nat
    OBVIOUS
  <1>2. /\ s2 \in Seq(Char) /\ Len(s2) = Len(s) + Len(l)
        /\ \A i \in 1 .. Len(s) : s2[i] = s[i]
        /\ \A i \in 1 .. Len(l) : s2[Len(s) + i] = l[i]
    <2>1. s2 = s \o l
      OBVIOUS
    <2> HIDE DEF l
    <2> QED
      BY <1>1, <2>1, Joined
  <1>3. /\ e2 \in Seq(Nat) /\ Len(e2) = n + 1
        /\ \A i \in 1 .. n : e2[i] = ends[i]
        /\ e2[n + 1] = Len(s2)
    <2>1. Len(s2) \in Nat
      BY <1>2
    <2> QED
      BY <2>1, AppendFacts
  <1>4. /\ Len(ends) <= Len(lines)
        /\ \A k \in 1 .. n :
             /\ ends[k] = Before(ends, k) + Len(lines[k])
             /\ \A i \in 1 .. Len(lines[k]) : s[Before(ends, k) + i] = lines[k][i]
             /\ ends[k] <= Len(s)
        /\ Len(s) = Before(ends, n + 1)
    BY DEF Laid
  <1>5. \A k \in 1 .. n + 1 : Before(e2, k) = Before(ends, k) /\ Before(ends, k) \in Nat
    <2> SUFFICES ASSUME NEW k \in 1 .. n + 1
                 PROVE  Before(e2, k) = Before(ends, k) /\ Before(ends, k) \in Nat
      OBVIOUS
    <2>1. Before(ends, k) \in Nat
      BY BeforeFacts
    <2>2. k # 1 => k - 1 \in 1 .. n
      BY <1>1
    <2>3. Before(e2, k) = Before(ends, k)
      BY <1>3, <2>2 DEF Before
    <2> QED
      BY <2>1, <2>3
  <1>6. ASSUME NEW k \in 1 .. n
        PROVE  /\ e2[k] = Before(e2, k) + Len(lines[k])
               /\ \A i \in 1 .. Len(lines[k]) : s2[Before(e2, k) + i] = lines[k][i]
               /\ e2[k] <= Len(s2)
    <2>1. e2[k] = ends[k] /\ ends[k] = Before(e2, k) + Len(lines[k]) /\ ends[k] <= Len(s)
          /\ Before(e2, k) = Before(ends, k) /\ Before(ends, k) \in Nat
      BY <1>1, <1>3, <1>4, <1>5
    <2>2. lines[k] \in Seq(Char) /\ Len(lines[k]) \in Nat
      BY <1>1
    <2>3. ASSUME NEW i \in 1 .. Len(lines[k])
          PROVE  s2[Before(e2, k) + i] = lines[k][i]
      <3>1. Before(ends, k) + i \in 1 .. Len(s)
        <4> DEFINE b == Before(ends, k)
                   m == Len(lines[k])
        <4>1. b \in Nat /\ m \in Nat /\ b + m <= Len(s) /\ i \in 1 .. m /\ Len(s) \in Nat
          BY <1>1, <2>1, <2>2
        <4> HIDE DEF b, m
        <4>2. b + i \in 1 .. Len(s)
          BY <4>1
        <4> QED
          BY <4>2 DEF b
      <3>2. s[Before(ends, k) + i] = lines[k][i]
        BY <1>4
      <3> QED
        BY <1>2, <2>1, <3>1, <3>2
    <2>4. e2[k] <= Len(s2)
      BY <1>1, <1>2, <2>1, <2>2
    <2> QED
      BY <2>1, <2>3, <2>4
  <1>7. /\ e2[n + 1] = Before(e2, n + 1) + Len(lines[n + 1])
        /\ \A i \in 1 .. Len(lines[n + 1]) : s2[Before(e2, n + 1) + i] = lines[n + 1][i]
        /\ e2[n + 1] <= Len(s2)
    <2>1. n + 1 \in 1 .. n + 1
      BY <1>1
    <2>2. Before(e2, n + 1) = Len(s)
      BY <1>4, <1>5, <2>1
    <2>3. e2[n + 1] <= Len(s2)
      BY <1>1, <1>2, <1>3
    <2> QED
      BY <1>2, <1>3, <2>2, <2>3
  <1>8. Len(s2) = Before(e2, (n + 1) + 1)
    <2>1. (n + 1) + 1 # 1 /\ ((n + 1) + 1) - 1 = n + 1
      BY <1>1
    <2> QED
      BY <1>3, <2>1 DEF Before
  <1>9. \A k \in 1 .. n + 1 :
          /\ e2[k] = Before(e2, k) + Len(lines[k])
          /\ \A i \in 1 .. Len(lines[k]) : s2[Before(e2, k) + i] = lines[k][i]
          /\ e2[k] <= Len(s2)
    <2>1. \A k \in 1 .. n + 1 : k \in 1 .. n \/ k = n + 1
      BY <1>1
    <2> QED
      BY <1>6, <1>7, <2>1
  <1>10. Len(e2) <= Len(lines)
    BY <1>1, <1>3
  <1>11. Laid(s2, e2, lines)
    BY <1>3, <1>8, <1>9, <1>10 DEF Laid
  <1> QED
    BY <1>2, <1>3, <1>11

-----------------------------------------------------------------------------
(* What comes back of a line.                                              *)

\* A newline in front of the reader makes an empty line.
LEMMA NewlineRead ==
  ASSUME NEW s \in Seq(Char), NEW l \in Seq(Char), NEW b \in Nat,
         b + Len(l) <= Len(s), \A i \in 1 .. Len(l) : s[b + i] = l[i],
         NEW q \in Nat, q < Len(l), l[Len(l)] = NL, l[q + 1] = NL
  PROVE  Line(s, b + q) = <<>> /\ fgets(s, b + q) = b + q + 1
  <1> DEFINE p == b + q
             line == Line(s, p)
             m == Len(line)
  <1>1. /\ line \in Seq(Char) /\ m \in Nat
        /\ \A i \in 1 .. m : l[q + i] # NL
        /\ \/ m + 1 < LineMax /\ fgets(s, p) = p + m + 1
           \/ m = LineMax - 1 /\ fgets(s, p) = p + m
    BY LineIn, SMTT(30)
  <1>2. p \in Nat /\ LineMax \in Nat /\ LineMax > 1
    BY SizeAssumption
  <1> HIDE DEF line, m, p
  <1>3. m = 0
    <2>1. ~(1 \in 1 .. m)
      BY <1>1
    <2> QED
      BY <1>1, <2>1
  <1>4. line = <<>>
    BY <1>1, <1>3 DEF m
  <1>5. fgets(s, p) = p + 1
    BY <1>1, <1>2, <1>3
  <1> QED
    BY <1>4, <1>5 DEF line, p

\* The newlines a name begins with, and what is left of it.
LEMMA NameFacts ==
  ASSUME NEW name \in Seq(Char), NEW r, r = Lead(name), NEW v, v = Unled(name)
  PROVE  /\ r \in 0 .. Len(name)
         /\ \A i \in 1 .. r : name[i] = NL
         /\ r < Len(name) => name[r + 1] # NL
         /\ v \in Seq(Char) /\ Len(v) = Len(name) - r
         /\ \A i \in 1 .. Len(v) : v[i] = name[r + i]
         /\ NL \notin ToSet(v) <=> \A i \in 1 .. Len(v) : name[r + i] # NL
         /\ NL \notin ToSet(name) => r = 0 /\ v = name
  <1> DEFINE S == {i \in 1 .. Len(name) : name[i] # NL} \cup {Len(name) + 1}
             x == Min(S)
  <1>1. Len(name) \in Nat
    OBVIOUS
  <1>2. x \in S /\ \A y \in S : x <= y
    <2>1. S \in SUBSET Nat /\ S # {}
      BY <1>1
    <2> HIDE DEF S
    <2> QED
      BY <2>1, LeastOf
  <1>3. r = x - 1
    BY DEF Lead
  <1> HIDE DEF x
  <1>4. r \in 0 .. Len(name) /\ x = r + 1
    BY <1>1, <1>2, <1>3
  <1>5. \A i \in 1 .. r : name[i] = NL
    BY <1>1, <1>2, <1>4
  <1>6. r < Len(name) => name[r + 1] # NL
    BY <1>1, <1>2, <1>4
  <1>7. /\ v \in Seq(Char) /\ Len(v) = Len(name) - r
        /\ \A i \in 1 .. Len(name) - r : v[i] = name[i + r]
    <2>1. v = SubSeq(name, r + 1, Len(name))
      BY DEF Unled
    <2> QED
      BY <1>4, <2>1, CutFacts, SMTT(30)
  <1>8. \A i \in 1 .. Len(v) : v[i] = name[r + i]
    <2> SUFFICES ASSUME NEW i \in 1 .. Len(v) PROVE v[i] = name[r + i]
      OBVIOUS
    <2>1. i + r = r + i
      BY <1>4
    <2> QED
      BY <1>7, <2>1
  <1>9. NL \notin ToSet(v) <=> \A i \in 1 .. Len(v) : name[r + i] # NL
    <2>1. ToSet(v) = {v[i] : i \in 1 .. Len(v)}
      BY <1>7 DEF ToSet
    <2> QED
      BY <1>8, <2>1
  <1>10. ASSUME NL \notin ToSet(name) PROVE r = 0 /\ v = name
    <2>1. \A i \in 1 .. Len(name) : name[i] # NL
      BY <1>10 DEF ToSet
    <2>2. r = 0
      BY <1>1, <1>4, <1>5, <2>1
    <2>3. Len(v) = Len(name) /\ \A i \in 1 .. Len(v) : v[i] = name[i]
      BY <1>1, <1>7, <2>2
    <2>4. v = name
      BY <1>7, <2>3, SeqEqual
    <2> QED
      BY <2>2, <2>4
  <1> QED
    BY <1>4, <1>5, <1>6, <1>7, <1>8, <1>9, <1>10

\* Of a line of users.db, behind the newlines that begin the name, the account comes
\* back if the name can, and nothing does otherwise.
LEMMA DbRead ==
  ASSUME NEW s \in Seq(Char), NEW a \in Account, NEW b \in Nat,
         b + Len(DbLine(a)) <= Len(s),
         \A i \in 1 .. Len(DbLine(a)) : s[b + i] = DbLine(a)[i]
  PROVE  LET p == b + Lead(a.name)
             line == Line(s, p)
         IN /\ line # <<>>
            /\ auth_parse_db_line(line) <=> Survives(a.name) /\ Flagged(a)
            /\ Survives(a.name) =>
                 /\ FromFields(Field(line, 1), Field(line, 2), Field(line, 3))
                      = [a EXCEPT !.name = Unled(@)]
                 /\ Field(line, 1) = Unled(a.name)
                 /\ fgets(s, p) \in {b + Len(DbLine(a)), b + Len(DbLine(a)) - 1}
  <1> DEFINE l == DbLine(a)
             n == Len(a.name)
             D == Digits
             q == Lead(a.name)
             v == Unled(a.name)
             u == Len(v)
             p == b + q
             line == Line(s, p)
             m == Len(line)
  <1>1. /\ l \in Seq(Char) /\ Len(l) = n + 7 + 2 * D
        /\ \A i \in 1 .. Len(l) :
             /\ i <= n => l[i] = a.name[i]
             /\ i \in {n + 1, n + 3, n + 5, n + 6 + D} => l[i] = Colon
             /\ i = n + 2 => l[i] = a.must_change
             /\ i = n + 4 => l[i] = a.deleted
             /\ n + 6 <= i /\ i <= n + 5 + D => l[i] = "a"
             /\ n + 7 + D <= i /\ i <= n + 6 + 2 * D => l[i] = "a"
             /\ i = n + 7 + 2 * D => l[i] = NL
    BY DbLineAt
  <1>2. /\ n \in Nat \ {0} /\ D \in Nat \ {0} /\ LineMax \in Nat /\ LineMax > 1
        /\ a.name \in Seq(Char) /\ \A i \in 1 .. n : a.name[i] # Colon
    BY SizeAssumption, AccountFacts
  <1>3. /\ q \in 0 .. n
        /\ q < n => a.name[q + 1] # NL
        /\ v \in Seq(Char) /\ u = n - q
        /\ \A i \in 1 .. u : v[i] = a.name[q + i]
        /\ NL \notin ToSet(v) <=> \A i \in 1 .. u : a.name[q + i] # NL
    BY <1>2, NameFacts, SMTT(30)
  <1> HIDE DEF n, D, q, v, l
  <1>4. u \in Nat /\ q \in Nat /\ u = n - q /\ n = q + u
    BY <1>2, <1>3
  <1> HIDE DEF u
  <1>5. q < Len(l) /\ l[Len(l)] = NL /\ Len(l) = q + u + 7 + 2 * D
    <2>1. Len(l) = n + 7 + 2 * D /\ Len(l) \in 1 .. Len(l)
      BY <1>1, <1>2
    <2>2. l[n + 7 + 2 * D] = NL
      BY <1>1, <2>1
    <2>3. q < Len(l) /\ Len(l) = q + u + 7 + 2 * D
      BY <1>2, <1>4, <2>1
    <2> QED
      BY <2>1, <2>2, <2>3
  <1>6. /\ line \in Seq(Char) /\ m \in Nat /\ q + m < Len(l) /\ m < LineMax
        /\ \A i \in 1 .. m : line[i] = l[q + i] /\ l[q + i] # NL
        /\ \/ l[q + m + 1] = NL /\ m + 1 < LineMax /\ fgets(s, p) = p + m + 1
           \/ m = LineMax - 1 /\ fgets(s, p) = p + m
    <2>1. b + Len(l) <= Len(s) /\ \A i \in 1 .. Len(l) : s[b + i] = l[i]
      BY DEF l
    <2>2. q \in Nat /\ q < Len(l) /\ l \in Seq(Char) /\ l[Len(l)] = NL
      BY <1>1, <1>4, <1>5
    <2> QED
      BY <2>1, <2>2, LineIn, ZenonT(60)
  <1> HIDE DEF line, m, p
  <1>7. /\ m \in Nat /\ u \in Nat /\ q \in Nat /\ D \in Nat /\ D > 0 /\ LineMax \in Nat /\ LineMax > 1
        /\ m <= u + 6 + 2 * D /\ m < LineMax /\ Len(l) - q = u + 7 + 2 * D
        /\ l[q + (m + 1)] = NL \/ m = LineMax - 1
    <2>1. Len(l) = q + u + 7 + 2 * D /\ Len(l) \in Nat /\ q + m < Len(l)
      BY <1>1, <1>5, <1>6
    <2>2. m \in Nat /\ u \in Nat /\ q \in Nat /\ D \in Nat /\ D > 0 /\ LineMax \in Nat
          /\ LineMax > 1
      BY <1>2, <1>4, <1>6
    <2>3. m <= u + 6 + 2 * D /\ Len(l) - q = u + 7 + 2 * D /\ q + (m + 1) = q + m + 1
      BY <2>1, <2>2
    <2> QED
      BY <1>6, <2>2, <2>3
  <1>8. \A i \in 1 .. Len(l) - q :
          /\ i <= u => l[q + i] = a.name[q + i] /\ l[q + i] # Colon
          /\ i \in {u + 1, u + 3, u + 5, u + 6 + D} => l[q + i] = Colon
          /\ i = u + 2 => l[q + i] = a.must_change
          /\ i = u + 4 => l[q + i] = a.deleted
          /\ u + 6 <= i /\ i <= u + 5 + D => l[q + i] = "a"
          /\ u + 7 + D <= i /\ i <= u + 6 + 2 * D => l[q + i] = "a"
          /\ i = u + 7 + 2 * D => l[q + i] = NL
    <2> SUFFICES ASSUME NEW i \in 1 .. Len(l) - q
                 PROVE  /\ i <= u => l[q + i] = a.name[q + i] /\ l[q + i] # Colon
                        /\ i \in {u + 1, u + 3, u + 5, u + 6 + D} => l[q + i] = Colon
                        /\ i = u + 2 => l[q + i] = a.must_change
                        /\ i = u + 4 => l[q + i] = a.deleted
                        /\ u + 6 <= i /\ i <= u + 5 + D => l[q + i] = "a"
                        /\ u + 7 + D <= i /\ i <= u + 6 + 2 * D => l[q + i] = "a"
                        /\ i = u + 7 + 2 * D => l[q + i] = NL
      OBVIOUS
    <2> DEFINE j == q + i
    <2>1. j \in 1 .. Len(l) /\ j = q + i /\ i \in Nat
      BY <1>1, <1>2, <1>4
    <2> HIDE DEF j
    <2>2. /\ j <= n => l[j] = a.name[j]
          /\ j \in {n + 1, n + 3, n + 5, n + 6 + D} => l[j] = Colon
          /\ j = n + 2 => l[j] = a.must_change
          /\ j = n + 4 => l[j] = a.deleted
          /\ n + 6 <= j /\ j <= n + 5 + D => l[j] = "a"
          /\ n + 7 + D <= j /\ j <= n + 6 + 2 * D => l[j] = "a"
          /\ j = n + 7 + 2 * D => l[j] = NL
      BY <1>1, <2>1
    <2>3. /\ i <= u <=> j <= n
          /\ i \in {u + 1, u + 3, u + 5, u + 6 + D} <=> j \in {n + 1, n + 3, n + 5, n + 6 + D}
          /\ i = u + 2 <=> j = n + 2
          /\ i = u + 4 <=> j = n + 4
          /\ u + 6 <= i <=> n + 6 <= j
          /\ i <= u + 5 + D <=> j <= n + 5 + D
          /\ u + 7 + D <= i <=> n + 7 + D <= j
          /\ i <= u + 6 + 2 * D <=> j <= n + 6 + 2 * D
          /\ i = u + 7 + 2 * D <=> j = n + 7 + 2 * D
      BY <1>2, <1>4, <2>1
    <2>4. j <= n => l[j] # Colon
      <3>1. j <= n => j \in 1 .. n
        BY <2>1, <1>2, <1>4
      <3> QED
        BY <1>2, <2>2, <3>1
    <2> QED
      BY <2>1, <2>2, <2>3, <2>4
  <1>9. DbStart(line, u, a)
    <2>1. m <= u + 6 + 2 * D
      BY <1>7
    <2>2. ASSUME NEW i \in 1 .. m
          PROVE  /\ i \in 1 .. Len(l) - q /\ line[i] = l[q + i]
                 /\ u + 7 + D <= i => i <= u + 6 + 2 * D
      <3>1. i \in 1 .. Len(l) - q /\ (u + 7 + D <= i => i <= u + 6 + 2 * D)
        BY <1>7
      <3> QED
        BY <1>6, <3>1
    <2> QED
      BY <1>8, <2>1, <2>2 DEF DbStart, D, m
  <1>10. line # <<>>
    <2>1. l[q + 1] # NL
      <3>1. 1 \in 1 .. Len(l) - q
        BY <1>2, <1>4, <1>5
      <3>2. CASE u = 0
        BY <1>8, <3>1, <3>2, Characters
      <3>3. CASE u # 0
        <4>1. q < n /\ 1 <= u
          BY <1>4, <3>3
        <4> QED
          BY <1>3, <1>8, <3>1, <4>1
      <3> QED
        BY <3>2, <3>3
    <2>2. m # 0
      <3>1. m = 0 => q + (m + 1) = q + 1
        BY <1>7
      <3> QED
        BY <1>7, <2>1, <3>1
    <2> QED
      BY <2>2, EmptyFacts DEF m
  <1>11. Survives(a.name) <=> u > 0 /\ m = u + 6 + 2 * D
    <2>1. Survives(a.name) <=>
            u > 0 /\ (\A i \in 1 .. u : a.name[q + i] # NL) /\ u + 6 + 2 * D <= LineMax - 1
      <3>1. v # <<>> <=> u > 0
        BY <1>3, <1>4, EmptySeq DEF u
      <3> QED
        BY <1>3, <3>1 DEF Survives, u, v, D
    <2>2. ASSUME m = u + 6 + 2 * D
          PROVE  (\A i \in 1 .. u : a.name[q + i] # NL) /\ u + 6 + 2 * D <= LineMax - 1
      <3>1. ASSUME NEW i \in 1 .. u PROVE a.name[q + i] # NL
        <4>1. i \in 1 .. m /\ i \in 1 .. Len(l) - q /\ i <= u
          BY <1>2, <1>4, <1>5, <2>2
        <4> QED
          BY <1>6, <1>8, <4>1
      <3> QED
        BY <1>2, <1>4, <1>6, <2>2, <3>1
    <2>3. ASSUME \A i \in 1 .. u : a.name[q + i] # NL, u + 6 + 2 * D <= LineMax - 1
          PROVE  m = u + 6 + 2 * D
      <3>1. \A i \in 1 .. u + 6 + 2 * D : l[q + i] # NL
        <4> SUFFICES ASSUME NEW i \in 1 .. u + 6 + 2 * D PROVE l[q + i] # NL
          OBVIOUS
        <4>1. i \in 1 .. Len(l) - q
          BY <1>7
        <4>2. \/ i \in 1 .. u \/ i \in {u + 1, u + 3, u + 5, u + 6 + D}
              \/ i = u + 2 \/ i = u + 4 \/ (u + 6 <= i /\ i <= u + 5 + D)
              \/ u + 7 + D <= i /\ i <= u + 6 + 2 * D
          <5>1. u \in Nat /\ D \in Nat \ {0}
            BY <1>7
          <5>2. i \in Nat /\ 1 <= i /\ i <= u + 6 + 2 * D
            BY <5>1
          <5>3. \/ i <= u \/ i = u + 1 \/ i = u + 2 \/ i = u + 3 \/ i = u + 4 \/ i = u + 5
                \/ (u + 6 <= i /\ i <= u + 5 + D) \/ i = u + 6 + D \/ u + 7 + D <= i
            BY <5>1, <5>2
          <5> QED
            BY <5>1, <5>2, <5>3
        <4>3. NL # Colon /\ "a" # NL /\ a.must_change # NL /\ a.deleted # NL
          BY Characters, AccountFacts
        <4>4. i \in 1 .. u => l[q + i] = a.name[q + i] /\ a.name[q + i] # NL
          BY <1>8, <2>3, <4>1
        <4> QED
          BY <1>8, <4>1, <4>2, <4>3, <4>4
      <3>2. ~(l[q + (m + 1)] = NL /\ m < u + 6 + 2 * D)
        <4>1. m < u + 6 + 2 * D => m + 1 \in 1 .. u + 6 + 2 * D
          BY <1>7
        <4> QED
          BY <3>1, <4>1
      <3> QED
        BY <1>7, <2>3, <3>2
    <2> QED
      BY <2>1, <2>2, <2>3
  <1>12. auth_parse_db_line(line) <=> Survives(a.name) /\ Flagged(a)
    <2>1. auth_parse_db_line(line) => u > 0 /\ m = u + 6 + 2 * D
      BY <1>4, <1>6, <1>9, DbNeeds DEF m, D
    <2>2. u > 0 /\ m = u + 6 + 2 * D => (auth_parse_db_line(line) <=> Flagged(a))
      BY <1>4, <1>6, <1>9, DbWhole DEF m, D
    <2> QED
      BY <1>11, <2>1, <2>2
  <1>13. ASSUME Survives(a.name)
         PROVE  /\ FromFields(Field(line, 1), Field(line, 2), Field(line, 3))
                     = [a EXCEPT !.name = v]
                /\ Field(line, 1) = v
                /\ fgets(s, p) \in {b + Len(l), b + Len(l) - 1}
    <2>1. u \in Nat \ {0} /\ m = u + 6 + 2 * D
      BY <1>4, <1>11, <1>13
    <2>2. /\ Field(line, 1) = SubSeq(line, 1, u)
          /\ Field(line, 2) = <<a.must_change>>
          /\ Field(line, 3) = <<a.deleted>>
      BY <1>6, <1>9, <2>1, DbWhole DEF m, D
    <2>3. SubSeq(line, 1, u) = v
      <3>1. Len(line) = m /\ u \in 0 .. Len(line)
        BY <1>2, <1>4, <2>1 DEF m
      <3>2. /\ SubSeq(line, 1, u) \in Seq(Char) /\ Len(SubSeq(line, 1, u)) = u
            /\ \A i \in 1 .. u : SubSeq(line, 1, u)[i] = line[i]
        BY <1>6, <3>1, CutFacts
      <3>3. \A i \in 1 .. u : line[i] = v[i]
        <4> SUFFICES ASSUME NEW i \in 1 .. u PROVE line[i] = v[i]
          OBVIOUS
        <4>1. i \in 1 .. m /\ i \in 1 .. Len(l) - q /\ i <= u
          BY <1>2, <1>4, <1>5, <2>1
        <4> QED
          BY <1>3, <1>6, <1>8, <4>1
      <3>4. v \in Seq(Char) /\ Len(v) = u
        BY <1>3 DEF u
      <3> QED
        BY <3>2, <3>3, <3>4, SeqEqual
    <2>4. FromFields(v, <<a.must_change>>, <<a.deleted>>) = [a EXCEPT !.name = v]
      <3>1. <<a.must_change>>[1] = a.must_change /\ <<a.deleted>>[1] = a.deleted
        OBVIOUS
      <3>2. a = [name |-> a.name, must_change |-> a.must_change, deleted |-> a.deleted]
        BY AccountFacts
      <3> QED
        BY <3>1, <3>2 DEF FromFields
    <2>5. fgets(s, p) \in {b + Len(l), b + Len(l) - 1}
      <3>1. p + m + 1 = b + Len(l) /\ p + m = b + Len(l) - 1
        BY <1>2, <1>4, <1>5, <2>1 DEF p
      <3> QED
        BY <1>6, <3>1
    <2> QED
      BY <2>2, <2>3, <2>4, <2>5
  <1> QED
    BY <1>10, <1>12, <1>13 DEF l, q, v, p, line

\* Of a line of a seed, the account comes back if the line can be copied, and
\* nothing does otherwise.
LEMMA SeedRead ==
  ASSUME NEW s \in Seq(Char), NEW a \in Account, NEW b \in Nat, pwlen \in Nat \ {0},
         NL \notin ToSet(a.name), b + Len(SeedLine(a)) <= Len(s),
         \A i \in 1 .. Len(SeedLine(a)) : s[b + i] = SeedLine(a)[i]
  PROVE  LET line == Line(s, b)
         IN /\ line # <<>>
            /\ ParseSeedLine(line) <=> Copied(a)
            /\ Copied(a) =>
                 /\ FromFields(Field(line, 1), Field(line, 3), Field(line, 4)) = a
                 /\ fgets(s, b) \in {b + Len(SeedLine(a)), b + Len(SeedLine(a)) - 1}
  <1> DEFINE l == SeedLine(a)
             n == Len(a.name)
             w == pwlen
             q == 0
             p == b + q
             line == Line(s, p)
             m == Len(line)
  <1>1. /\ l \in Seq(Char) /\ Len(l) = n + w + 6
        /\ \A i \in 1 .. Len(l) :
             /\ i <= n => l[i] = a.name[i]
             /\ i \in {n + 1, n + w + 2, n + w + 4} => l[i] = Colon
             /\ n + 2 <= i /\ i <= n + w + 1 => l[i] = "p"
             /\ i = n + w + 3 => l[i] = a.must_change
             /\ i = n + w + 5 => l[i] = a.deleted
             /\ i = n + w + 6 => l[i] = NL
    BY SeedLineAt
  <1>2. /\ n \in Nat /\ n > 0 /\ w \in Nat /\ w > 0 /\ LineMax \in Nat /\ LineMax > 1
        /\ a.name \in Seq(Char)
        /\ \A i \in 1 .. n : a.name[i] # Colon
    BY SizeAssumption, AccountFacts
  <1>3. \A i \in 1 .. n : a.name[i] # NL
    BY <1>2 DEF ToSet
  <1> HIDE DEF n, l, w
  <1>4. l[Len(l)] = NL /\ Len(l) \in Nat /\ 0 < Len(l)
    <2>1. Len(l) \in 1 .. Len(l) /\ Len(l) = n + w + 6
      BY <1>1, <1>2
    <2> QED
      BY <1>1, <2>1
  <1> HIDE DEF q
  <1>5. /\ line \in Seq(Char) /\ m \in Nat /\ q + m < Len(l) /\ m < LineMax
        /\ \A i \in 1 .. m : line[i] = l[q + i] /\ l[q + i] # NL
        /\ \/ l[q + m + 1] = NL /\ m + 1 < LineMax /\ fgets(s, p) = p + m + 1
           \/ m = LineMax - 1 /\ fgets(s, p) = p + m
    <2>1. b + Len(l) <= Len(s) /\ \A i \in 1 .. Len(l) : s[b + i] = l[i]
      BY DEF l
    <2>2. q \in Nat /\ q < Len(l) /\ l \in Seq(Char)
      BY <1>1, <1>4 DEF q
    <2> QED
      BY <1>4, <2>1, <2>2, LineIn, SMTT(30)
  <1>6. q = 0 /\ p = b
    BY DEF q
  <1> HIDE DEF line, m, p
  <1>7. /\ m \in Nat /\ m < LineMax /\ m <= n + w + 5 /\ Len(l) = n + w + 6
        /\ \A i \in 1 .. m : line[i] = l[i] /\ l[i] # NL
        /\ \/ l[m + 1] = NL /\ m + 1 < LineMax /\ fgets(s, b) = b + m + 1
           \/ m = LineMax - 1 /\ fgets(s, b) = b + m
    <2>1. m <= n + w + 5 /\ q + m + 1 = m + 1 /\ \A i \in 1 .. m : q + i = i
      BY <1>1, <1>2, <1>5, <1>6
    <2> QED
      BY <1>1, <1>5, <1>6, <2>1
  <1>8. SeedStart(line, n, w, a)
    <2>1. ASSUME NEW i \in 1 .. m
          PROVE  i \in 1 .. Len(l) /\ line[i] = l[i] /\ (i <= n => a.name[i] # Colon)
      <3>1. i \in 1 .. Len(l) /\ (i <= n => i \in 1 .. n)
        BY <1>2, <1>7
      <3> QED
        BY <1>2, <1>7, <3>1
    <2> QED
      BY <1>1, <1>7, <2>1 DEF SeedStart, m
  <1>9. line # <<>>
    <2>1. 1 \in 1 .. Len(l) /\ 1 \in 1 .. n
      BY <1>2, <1>7
    <2>2. l[1] # NL
      BY <1>1, <1>3, <2>1
    <2>3. m # 0
      <3>1. m = 0 => m + 1 = 1
        OBVIOUS
      <3> QED
        BY <1>2, <1>7, <2>2, <3>1
    <2> QED
      BY <2>3, EmptyFacts DEF m
  <1>10. m = n + w + 5 <=> n + w + 5 <= LineMax - 1
    <2>1. ASSUME n + w + 5 <= LineMax - 1 PROVE m = n + w + 5
      <3>1. \A i \in 1 .. n + w + 5 : l[i] # NL
        <4> SUFFICES ASSUME NEW i \in 1 .. n + w + 5 PROVE l[i] # NL
          OBVIOUS
        <4>1. /\ i \in 1 .. Len(l)
              /\ \/ i \in 1 .. n \/ i \in {n + 1, n + w + 2, n + w + 4}
                 \/ (n + 2 <= i /\ i <= n + w + 1) \/ i = n + w + 3 \/ i = n + w + 5
          <5>1. n \in Nat /\ w \in Nat /\ Len(l) = n + w + 6
            BY <1>2, <1>7
          <5>2. i \in Nat /\ 1 <= i /\ i <= n + w + 5
            BY <5>1
          <5>3. i \in 1 .. Len(l)
            BY <5>1, <5>2
          <5>4. \/ i <= n \/ i = n + 1 \/ (n + 2 <= i /\ i <= n + w + 1) \/ i = n + w + 2
                \/ i = n + w + 3 \/ i = n + w + 4 \/ i = n + w + 5
            BY <5>1, <5>2
          <5> QED
            BY <5>1, <5>2, <5>3, <5>4
        <4>2. NL # Colon /\ "p" # NL /\ a.must_change # NL /\ a.deleted # NL
          BY Characters, AccountFacts
        <4>3. i \in 1 .. n => l[i] = a.name[i] /\ a.name[i] # NL
          BY <1>1, <1>3, <4>1
        <4> QED
          BY <1>1, <4>1, <4>2, <4>3
      <3>2. ~(l[m + 1] = NL /\ m < n + w + 5)
        <4>1. m < n + w + 5 => m + 1 \in 1 .. n + w + 5
          BY <1>2, <1>7
        <4> QED
          BY <3>1, <4>1
      <3> QED
        BY <1>2, <1>7, <2>1, <3>2
    <2>2. m = n + w + 5 => n + w + 5 <= LineMax - 1
      BY <1>2, <1>7
    <2> QED
      BY <2>1, <2>2
  <1>11. Copied(a) <=> m = n + w + 5 /\ Flagged(a)
    BY <1>10 DEF Copied, n, w
  <1>12. ParseSeedLine(line) <=> Copied(a)
    <2>1. n \in Nat \ {0} /\ w \in Nat \ {0} /\ line \in Seq(Char)
      BY <1>2, <1>5
    <2>2. ParseSeedLine(line) => m = n + w + 5
      BY <1>8, <2>1, SeedNeeds DEF m
    <2>3. m = n + w + 5 => (ParseSeedLine(line) <=> Flagged(a))
      BY <1>8, <2>1, SeedWhole DEF m
    <2> QED
      BY <1>11, <2>2, <2>3
  <1>13. ASSUME Copied(a)
         PROVE  /\ FromFields(Field(line, 1), Field(line, 3), Field(line, 4)) = a
                /\ fgets(s, b) \in {b + Len(l), b + Len(l) - 1}
    <2>1. m = n + w + 5 /\ n \in Nat \ {0} /\ w \in Nat \ {0} /\ line \in Seq(Char)
      BY <1>2, <1>5, <1>11, <1>13
    <2>2. /\ Field(line, 1) = SubSeq(line, 1, n)
          /\ Field(line, 3) = <<a.must_change>>
          /\ Field(line, 4) = <<a.deleted>>
      BY <1>8, <2>1, SeedWhole DEF m
    <2>3. SubSeq(line, 1, n) = a.name
      <3>1. Len(line) = m /\ n \in 0 .. Len(line)
        BY <1>2, <2>1 DEF m
      <3>2. /\ SubSeq(line, 1, n) \in Seq(Char) /\ Len(SubSeq(line, 1, n)) = n
            /\ \A i \in 1 .. n : SubSeq(line, 1, n)[i] = line[i]
        BY <2>1, <3>1, CutFacts
      <3>3. \A i \in 1 .. n : line[i] = a.name[i]
        <4> SUFFICES ASSUME NEW i \in 1 .. n PROVE line[i] = a.name[i]
          OBVIOUS
        <4>1. i \in 1 .. m /\ i \in 1 .. Len(l) /\ i <= n
          <5> DEFINE k == Len(l)
          <5>1. k = n + w + 6 /\ m = n + w + 5 /\ n \in Nat /\ w \in Nat
            BY <1>2, <1>7, <2>1
          <5> HIDE DEF k
          <5>2. i \in 1 .. m /\ i \in 1 .. k /\ i <= n
            BY <5>1
          <5> QED
            BY <5>2 DEF k
        <4> QED
          BY <1>1, <1>7, <4>1
      <3>4. a.name \in Seq(Char) /\ Len(a.name) = n
        BY <1>2 DEF n
      <3> QED
        BY <3>2, <3>3, <3>4, SeqEqual
    <2>4. FromFields(a.name, <<a.must_change>>, <<a.deleted>>) = a
      <3>1. <<a.must_change>>[1] = a.must_change /\ <<a.deleted>>[1] = a.deleted
        OBVIOUS
      <3>2. a = [name |-> a.name, must_change |-> a.must_change, deleted |-> a.deleted]
        BY AccountFacts
      <3> QED
        BY <3>1, <3>2 DEF FromFields
    <2>5. fgets(s, b) \in {b + Len(l), b + Len(l) - 1}
      <3>1. b + m + 1 = b + Len(l) /\ b + m = b + Len(l) - 1
        BY <1>2, <1>7, <2>1
      <3> QED
        BY <1>7, <3>1
    <2> QED
      BY <2>2, <2>3, <2>4, <2>5
  <1>14. line = Line(s, b)
    BY <1>6 DEF line
  <1> QED
    BY <1>9, <1>12, <1>13, <1>14 DEF l

-----------------------------------------------------------------------------
(* The invariant.                                                          *)

\* What holds after every step, and is enough for the next one.
IInv == TypeOK /\ GivenInv /\ LaidInv /\ CopyInv /\ ReadInv /\ EndInv

\* The types of what was given.
LEMMA StateFacts ==
  ASSUME TypeOK
  PROVE  /\ pwlen \in Nat /\ Len(given) \in Nat
         /\ \A i \in 1 .. Len(given) : given[i] \in Account
  <1>1. pwlen \in Nat
    BY SizeAssumption DEF TypeOK
  <1>2. given \in Seq(Account)
    BY DEF TypeOK
  <1> QED
    BY <1>1, <1>2

\* The lines of both files, for any accounts.
LEMMA LinesFacts ==
  ASSUME TypeOK
  PROVE  /\ Len(DbLines) = Len(given) /\ Len(SeedLines) = Len(given)
         /\ \A k \in 1 .. Len(given) :
              /\ DbLines[k] = DbLine(given[k]) /\ DbLines[k] \in Seq(Char)
              /\ Len(DbLines[k]) \in Nat \ {0} /\ DbLines[k][Len(DbLines[k])] = NL
              /\ SeedLines[k] = SeedLine(given[k]) /\ SeedLines[k] \in Seq(Char)
              /\ Len(SeedLines[k]) \in Nat \ {0} /\ SeedLines[k][Len(SeedLines[k])] = NL
  <1>1. Len(DbLines) = Len(given) /\ Len(SeedLines) = Len(given)
    BY StateFacts DEF DbLines, SeedLines
  <1>2. ASSUME NEW k \in 1 .. Len(given)
        PROVE  /\ DbLines[k] = DbLine(given[k]) /\ DbLines[k] \in Seq(Char)
               /\ Len(DbLines[k]) \in Nat \ {0} /\ DbLines[k][Len(DbLines[k])] = NL
               /\ SeedLines[k] = SeedLine(given[k]) /\ SeedLines[k] \in Seq(Char)
               /\ Len(SeedLines[k]) \in Nat \ {0} /\ SeedLines[k][Len(SeedLines[k])] = NL
    <2> DEFINE d == DbLines[k]
               l == SeedLines[k]
               n == Len(given[k].name)
    <2>1. d = DbLine(given[k]) /\ l = SeedLine(given[k])
      BY DEF DbLines, SeedLines
    <2>2. given[k] \in Account /\ pwlen \in Nat /\ n \in Nat /\ Digits \in Nat
      BY StateFacts, AccountFacts, SizeAssumption
    <2> HIDE DEF d, l, n
    <2>3. /\ d \in Seq(Char) /\ Len(d) = n + 7 + 2 * Digits
          /\ \A i \in 1 .. Len(d) : i = n + 7 + 2 * Digits => d[i] = NL
      BY <2>1, <2>2, DbLineAt, ZenonT(30) DEF n
    <2>4. /\ l \in Seq(Char) /\ Len(l) = n + pwlen + 6
          /\ \A i \in 1 .. Len(l) : i = n + pwlen + 6 => l[i] = NL
      BY <2>1, <2>2, SeedLineAt, ZenonT(30) DEF n
    <2>5. Len(d) \in Nat \ {0} /\ Len(d) \in 1 .. Len(d) /\ d[Len(d)] = NL
      <3>1. Len(d) \in Nat \ {0} /\ Len(d) \in 1 .. Len(d)
        BY <2>2, <2>3
      <3> QED
        BY <2>3, <3>1
    <2>6. Len(l) \in Nat \ {0} /\ Len(l) \in 1 .. Len(l) /\ l[Len(l)] = NL
      <3>1. Len(l) \in Nat \ {0} /\ Len(l) \in 1 .. Len(l)
        BY <2>2, <2>4
      <3> QED
        BY <2>4, <3>1
    <2> QED
      BY <2>1, <2>3, <2>4, <2>5, <2>6 DEF d, l
  <1> QED
    BY <1>1, <1>2

\* A reader behind a line is at its end, or at its newline.
LEMMA BehindIs ==
  ASSUME NEW ends, NEW n \in Nat \ {0}
  PROVE  Behind(ends, n) = {Before(ends, n + 1), ends[n] - 1}
  <1>1. {n} \ {0} = {n}
    OBVIOUS
  <1> QED
    BY <1>1 DEF Behind

\* The newline that did not fit in the buffer is an empty line.
LEMMA NewlineLeft ==
  ASSUME NEW s \in Seq(Char), NEW ends \in Seq(Nat), NEW lines, Laid(s, ends, lines),
         NEW n \in 1 .. Len(ends), lines[n] \in Seq(Char), Len(lines[n]) \in Nat \ {0},
         lines[n][Len(lines[n])] = NL, NEW p, p = ends[n] - 1
  PROVE  Line(s, p) = <<>> /\ fgets(s, p) = Before(ends, n + 1)
  <1> DEFINE l == lines[n]
             b == Before(ends, n)
             q == Len(l) - 1
  <1>1. /\ b \in Nat /\ ends[n] = b + Len(l) /\ ends[n] <= Len(s)
        /\ Before(ends, n + 1) = ends[n]
        /\ \A i \in 1 .. Len(l) : s[b + i] = l[i]
    <2>1. /\ ends[n] = b + Len(lines[n])
          /\ \A i \in 1 .. Len(lines[n]) : s[b + i] = lines[n][i]
          /\ ends[n] <= Len(s)
      BY DEF Laid
    <2>2. n \in 1 .. Len(ends) + 1
      OBVIOUS
    <2>3. Before(ends, n + 1) = ends[n] /\ b \in Nat
      BY <2>2, BeforeFacts
    <2> QED
      BY <2>1, <2>3
  <1>2. l \in Seq(Char) /\ Len(l) \in Nat /\ Len(l) > 0 /\ l[Len(l)] = NL
    OBVIOUS
  <1> HIDE DEF l, b
  <1>3. /\ q \in Nat /\ q < Len(l) /\ q + 1 = Len(l) /\ p = b + q /\ b + q + 1 = ends[n]
        /\ b + Len(l) <= Len(s)
    BY <1>1, <1>2
  <1> HIDE DEF q
  <1>4. Line(s, b + q) = <<>> /\ fgets(s, b + q) = b + q + 1
    <2>1. /\ b + Len(l) <= Len(s) /\ b \in Nat
          /\ \A i \in 1 .. Len(l) : s[b + i] = l[i]
      BY <1>1, <1>3
    <2>2. l \in Seq(Char) /\ q \in Nat /\ q < Len(l) /\ l[Len(l)] = NL
      BY <1>2, <1>3
    <2>3. l[q + 1] = NL
      BY <1>2, <1>3
    <2> QED
      BY <2>1, <2>2, <2>3, NewlineRead, ZenonT(60)
  <1> QED
    BY <1>1, <1>3, <1>4

\* One line of the seed: the next account comes back of it if its line can be copied.
LEMMA CopyStep ==
  ASSUME TypeOK, GivenInv, LaidInv, CopyInv, at = "copy", pos < Len(seed)
  PROVE  LET n == Len(textEnds)
             e == fgets(seed, pos)
             line == Line(seed, pos)
         IN /\ e \in Nat /\ e <= Len(seed)
            /\ \/ line = <<>> /\ e \in Behind(seedEnds, n)
               \/ /\ n < Len(given) /\ line # <<>>
                  /\ ParseSeedLine(line) <=> Copied(given[n + 1])
                  /\ Copied(given[n + 1]) =>
                       /\ FromFields(Field(line, 1), Field(line, 3), Field(line, 4)) = given[n + 1]
                       /\ e \in Behind(seedEnds, n + 1)
  <1> DEFINE n == Len(textEnds)
             e == fgets(seed, pos)
             line == Line(seed, pos)
  <1>1. /\ seed \in Seq(Char) /\ seedEnds \in Seq(Nat) /\ pos \in Nat /\ Len(seed) \in Nat
        /\ Len(given) \in Nat /\ pwlen \in Nat /\ n \in Nat
    BY StateFacts DEF TypeOK
  <1>2. e \in Nat /\ e <= Len(seed)
    <2>1. e \in pos + 1 .. Len(seed)
      BY <1>1, FgetsFacts
    <2> HIDE DEF e
    <2> QED
      BY <1>1, <2>1
  <1>3. /\ Laid(seed, seedEnds, SeedLines) /\ Len(seedEnds) = Len(given) /\ n <= Len(given)
        /\ Len(seed) = Before(seedEnds, Len(seedEnds) + 1)
    <2>1. Laid(seed, seedEnds, SeedLines) /\ Laid(text, textEnds, DbLines)
          /\ Len(seedEnds) = Len(given)
      BY DEF LaidInv
    <2> QED
      BY <2>1, LinesFacts DEF Laid
  <1>4. pos = Before(seedEnds, n + 1) \/ (n # 0 /\ pos = seedEnds[n] - 1)
    BY DEF CopyInv, Behind
  <1> HIDE DEF n
  <1>5. CASE n # 0 /\ pos = seedEnds[n] - 1
    <2>1. n \in 1 .. Len(seedEnds) /\ n \in 1 .. Len(given)
      BY <1>1, <1>3, <1>5
    <2>2. /\ SeedLines[n] \in Seq(Char) /\ Len(SeedLines[n]) \in Nat \ {0}
          /\ SeedLines[n][Len(SeedLines[n])] = NL
      BY <2>1, LinesFacts
    <2>3. line = <<>> /\ e = Before(seedEnds, n + 1)
      BY <1>1, <1>3, <1>5, <2>1, <2>2, NewlineLeft
    <2>4. e \in Behind(seedEnds, n)
      BY <2>3 DEF Behind
    <2> QED
      BY <1>2, <2>3, <2>4 DEF n
  <1>6. CASE pos = Before(seedEnds, n + 1)
    <2> DEFINE a == given[n + 1]
               k == n + 1
    <2>1. n # Len(given)
      BY <1>1, <1>3, <1>6
    <2>2. n < Len(given) /\ k \in 1 .. Len(seedEnds) /\ k \in 1 .. Len(given)
      BY <1>1, <1>3, <2>1
    <2>3. SeedLines[k] = SeedLine(a) /\ SeedLines[k] \in Seq(Char) /\ a \in Account
      BY <2>2, LinesFacts, StateFacts
    <2> HIDE DEF k
    <2>4. /\ seedEnds[k] = pos + Len(SeedLine(a)) /\ seedEnds[k] <= Len(seed)
          /\ Before(seedEnds, k + 1) = seedEnds[k] /\ seedEnds[k] \in Nat
          /\ \A i \in 1 .. Len(SeedLine(a)) : seed[pos + i] = SeedLine(a)[i]
      <3>1. pos = Before(seedEnds, k)
        BY <1>6 DEF k
      <3>2. /\ seedEnds[k] = Before(seedEnds, k) + Len(SeedLines[k]) /\ seedEnds[k] <= Len(seed)
            /\ Before(seedEnds, k + 1) = seedEnds[k] /\ seedEnds[k] \in Nat
            /\ \A i \in 1 .. Len(SeedLines[k]) :
                 seed[Before(seedEnds, k) + i] = SeedLines[k][i]
        <4>1. /\ seed \in Seq(Char) /\ seedEnds \in Seq(Nat) /\ k \in 1 .. Len(seedEnds)
              /\ Laid(seed, seedEnds, SeedLines) /\ SeedLines[k] \in Seq(Char)
          BY <1>1, <1>3, <2>2, <2>3
        <4> QED
          BY <4>1, LaidAt
      <3> QED
        BY <2>3, <3>1, <3>2
    <2>5. pwlen \in Nat \ {0} /\ NL \notin ToSet(a.name)
      BY <1>1, <2>2 DEF GivenInv, k
    <2> HIDE DEF a
    <2>6. /\ line # <<>>
          /\ ParseSeedLine(line) <=> Copied(a)
          /\ Copied(a) =>
               /\ FromFields(Field(line, 1), Field(line, 3), Field(line, 4)) = a
               /\ e \in {pos + Len(SeedLine(a)), pos + Len(SeedLine(a)) - 1}
      BY <1>1, <2>3, <2>4, <2>5, SeedRead
    <2>7. Copied(a) => e \in Behind(seedEnds, k)
      <3>1. k \in Nat \ {0}
        BY <1>1 DEF k
      <3>2. Behind(seedEnds, k) = {seedEnds[k], seedEnds[k] - 1}
        BY <2>4, <3>1, BehindIs
      <3>3. seedEnds[k] = pos + Len(SeedLine(a)) /\ pos \in Nat /\ Len(SeedLine(a)) \in Nat
        BY <1>1, <2>3, <2>4
      <3> HIDE DEF e, line
      <3>4. Copied(a) => e \in {seedEnds[k], seedEnds[k] - 1}
        BY <2>6, <3>3
      <3> QED
        BY <3>2, <3>4
    <2> QED
      BY <1>2, <2>2, <2>6, <2>7 DEF a, k, n
  <1> QED
    BY <1>4, <1>5, <1>6

\* One line of users.db: the next account comes back of it if its name can.
LEMMA ReadStep ==
  ASSUME TypeOK, LaidInv, ReadInv, at = "read", pos < Len(text)
  PROVE  LET n == Len(users)
             e == fgets(text, pos)
             line == Line(text, pos)
         IN /\ e \in Nat /\ e <= Len(text)
            /\ \/ /\ line = <<>>
                  /\ \/ e \in Behind(textEnds, n)
                     \/ /\ n < Len(given)
                        /\ \E l \in 1 .. Lead(given[n + 1].name) :
                             e = Before(textEnds, n + 1) + l
               \/ /\ n < Len(given) /\ line # <<>>
                  /\ auth_parse_db_line(line) <=>
                       Survives(given[n + 1].name) /\ Flagged(given[n + 1])
                  /\ Survives(given[n + 1].name) =>
                       /\ FromFields(Field(line, 1), Field(line, 2), Field(line, 3))
                            = [given[n + 1] EXCEPT !.name = Unled(@)]
                       /\ Field(line, 1) = Unled(given[n + 1].name)
                       /\ e \in Behind(textEnds, n + 1)
  <1> DEFINE n == Len(users)
             e == fgets(text, pos)
             line == Line(text, pos)
             a == given[n + 1]
             k == n + 1
             b == Before(textEnds, k)
  <1>1. /\ text \in Seq(Char) /\ textEnds \in Seq(Nat) /\ pos \in Nat /\ Len(text) \in Nat
        /\ Len(given) \in Nat /\ pwlen \in Nat /\ n \in Nat
    BY StateFacts DEF TypeOK
  <1>2. e \in Nat /\ e <= Len(text)
    <2>1. e \in pos + 1 .. Len(text)
      BY <1>1, FgetsFacts
    <2> HIDE DEF e
    <2> QED
      BY <1>1, <2>1
  <1>3. /\ Laid(text, textEnds, DbLines) /\ Len(textEnds) = Len(given) /\ n <= Len(given)
        /\ Len(text) = Before(textEnds, Len(textEnds) + 1)
    <2>1. Laid(text, textEnds, DbLines) /\ Len(textEnds) = Len(given) /\ n <= Len(given)
      BY DEF LaidInv, ReadInv
    <2> QED
      BY <2>1 DEF Laid
  <1>4. \/ n # 0 /\ pos = textEnds[n] - 1
        \/ pos = b
        \/ n < Len(given) /\ \E l \in 1 .. Lead(a.name) : pos = b + l
    BY DEF ReadInv, Behind
  <1> HIDE DEF n
  <1>5. CASE n # 0 /\ pos = textEnds[n] - 1
    <2>1. n \in 1 .. Len(textEnds) /\ n \in 1 .. Len(given)
      BY <1>1, <1>3, <1>5
    <2>2. /\ DbLines[n] \in Seq(Char) /\ Len(DbLines[n]) \in Nat \ {0}
          /\ DbLines[n][Len(DbLines[n])] = NL
      BY <2>1, LinesFacts
    <2>3. line = <<>> /\ e = Before(textEnds, n + 1)
      BY <1>1, <1>3, <1>5, <2>1, <2>2, NewlineLeft
    <2>4. e \in Behind(textEnds, n)
      BY <2>3 DEF Behind
    <2> QED
      BY <1>2, <2>3, <2>4 DEF n
  <1>6. CASE pos = b \/ (n < Len(given) /\ \E l \in 1 .. Lead(a.name) : pos = b + l)
    <2>1. n # Len(given)
      BY <1>1, <1>3, <1>6
    <2>2. n < Len(given) /\ k \in 1 .. Len(textEnds) /\ k \in 1 .. Len(given)
      BY <1>1, <1>3, <2>1
    <2> HIDE DEF k
    <2>3. /\ DbLines[k] = DbLine(a) /\ DbLines[k] \in Seq(Char) /\ a \in Account
          /\ Len(DbLines[k]) \in Nat \ {0} /\ DbLines[k][Len(DbLines[k])] = NL
      BY <2>2, LinesFacts, StateFacts DEF k
    <2>4. /\ b \in Nat /\ textEnds[k] = b + Len(DbLine(a)) /\ textEnds[k] <= Len(text)
          /\ Before(textEnds, k + 1) = textEnds[k]
          /\ \A i \in 1 .. Len(DbLine(a)) : text[b + i] = DbLine(a)[i]
      <3>1. /\ b \in Nat /\ textEnds[k] = b + Len(DbLines[k]) /\ textEnds[k] <= Len(text)
            /\ Before(textEnds, k + 1) = textEnds[k]
            /\ \A i \in 1 .. Len(DbLines[k]) : text[b + i] = DbLines[k][i]
        <4>1. /\ text \in Seq(Char) /\ textEnds \in Seq(Nat) /\ k \in 1 .. Len(textEnds)
              /\ Laid(text, textEnds, DbLines) /\ DbLines[k] \in Seq(Char)
          BY <1>1, <1>3, <2>2, <2>3
        <4> QED
          BY <4>1, LaidAt
      <3> QED
        BY <2>3, <3>1
    <2> DEFINE r == Lead(a.name)
    <2>5. /\ a.name \in Seq(Char) /\ Len(a.name) \in Nat
          /\ r \in 0 .. Len(a.name) /\ \A i \in 1 .. r : a.name[i] = NL
      BY <2>3, AccountFacts, NameFacts
    <2> HIDE DEF a, b
    <2>6. PICK q \in 0 .. r : pos = b + q
      <3> HIDE DEF r
      <3>1. r \in Nat
        BY <2>5
      <3>2. 0 \in 0 .. r /\ \A l \in 1 .. r : l \in 0 .. r
        BY <3>1
      <3>3. CASE pos = b
        <4>1. pos = b + 0
          BY <2>4, <3>3
        <4> QED
          BY <3>2, <4>1
      <3>4. CASE \E l \in 1 .. Lead(a.name) : pos = b + l
        BY <3>2, <3>4 DEF r
      <3> QED
        BY <1>6, <3>3, <3>4
    <2>7. CASE q < r
      <3>1. /\ q \in Nat /\ q + 1 \in 1 .. r /\ q + 1 \in 1 .. Len(a.name)
            /\ b + q + 1 = b + (q + 1)
        BY <2>4, <2>5, <2>7
      <3>2. /\ DbLine(a) \in Seq(Char) /\ q < Len(DbLine(a)) /\ DbLine(a)[q + 1] = NL
            /\ DbLine(a)[Len(DbLine(a))] = NL /\ b + Len(DbLine(a)) <= Len(text)
        <4> DEFINE d == DbLine(a)
                   m == Len(a.name)
        <4>1. /\ d \in Seq(Char) /\ Len(d) = m + 7 + 2 * Digits
              /\ \A i \in 1 .. Len(d) : i <= m => d[i] = a.name[i]
          BY <2>3, DbLineAt
        <4>2. d[Len(d)] = NL /\ b + Len(d) <= Len(text)
          BY <2>3, <2>4
        <4> HIDE DEF d, m
        <4>3. m \in Nat /\ Digits \in Nat /\ q + 1 \in 1 .. m
          BY <2>5, <3>1, SizeAssumption DEF m
        <4>4. q + 1 \in 1 .. Len(d) /\ q + 1 <= m /\ q < Len(d)
          BY <3>1, <4>1, <4>3
        <4>5. d[q + 1] = NL
          BY <2>5, <3>1, <4>1, <4>4
        <4> QED
          BY <4>1, <4>2, <4>4, <4>5 DEF d
      <3>3. line = <<>> /\ e = b + q + 1
        <4> DEFINE d == DbLine(a)
        <4>1. /\ d \in Seq(Char) /\ q < Len(d) /\ d[q + 1] = NL /\ d[Len(d)] = NL
              /\ b + Len(d) <= Len(text) /\ \A i \in 1 .. Len(d) : text[b + i] = d[i]
          BY <2>4, <3>2
        <4>2. text \in Seq(Char) /\ b \in Nat /\ q \in Nat
          BY <1>1, <2>4, <3>1
        <4> HIDE DEF d
        <4>3. Line(text, b + q) = <<>> /\ fgets(text, b + q) = b + q + 1
          BY <4>1, <4>2, NewlineRead, ZenonT(30)
        <4> QED
          BY <2>6, <4>3
      <3>4. \E l \in 1 .. r : e = b + l
        BY <3>1, <3>3
      <3> QED
        BY <1>2, <2>2, <3>3, <3>4 DEF n, a, b, k
    <2>8. CASE q = r
      <3>1. pos = b + Lead(a.name)
        BY <2>6, <2>8
      <3>2. b + Len(DbLine(a)) <= Len(text)
        BY <2>4
      <3>3. /\ line # <<>>
            /\ auth_parse_db_line(line) <=> Survives(a.name) /\ Flagged(a)
            /\ Survives(a.name) =>
                 /\ FromFields(Field(line, 1), Field(line, 2), Field(line, 3))
                      = [a EXCEPT !.name = Unled(@)]
                 /\ Field(line, 1) = Unled(a.name)
                 /\ e \in {b + Len(DbLine(a)), b + Len(DbLine(a)) - 1}
        BY <1>1, <2>3, <2>4, <3>1, <3>2, DbRead, ZenonT(30)
      <3>4. Survives(a.name) => e \in Behind(textEnds, k)
        <4>1. k \in Nat \ {0}
          BY <1>1 DEF k
        <4>2. Behind(textEnds, k) = {textEnds[k], textEnds[k] - 1}
          BY <2>4, <4>1, BehindIs
        <4>3. textEnds[k] = b + Len(DbLine(a)) /\ b \in Nat /\ Len(DbLine(a)) \in Nat
          BY <2>3, <2>4
        <4> HIDE DEF e, line
        <4>4. Survives(a.name) => e \in {textEnds[k], textEnds[k] - 1}
          BY <3>3, <4>3
        <4> QED
          BY <4>2, <4>4
      <3> QED
        BY <1>2, <2>2, <3>3, <3>4 DEF n, a, k
    <2> QED
      <3> HIDE DEF r
      <3>1. r \in Nat
        BY <2>5
      <3>2. q < r \/ q = r
        BY <3>1
      <3> QED
        BY <2>7, <2>8, <3>2
  <1> QED
    BY <1>4, <1>5, <1>6

-----------------------------------------------------------------------------
(* Every step keeps it.                                                    *)

\* What is said of the accounts given stays true as long as they stay the same.
LEMMA GivenKept ==
  ASSUME given' = given, pwlen' = pwlen
  PROVE  /\ DbLines' = DbLines /\ SeedLines' = SeedLines
         /\ \A n : ReadableTo(n)' <=> ReadableTo(n)
         /\ \A n : ReadBack(n)' = ReadBack(n)
         /\ \A i : Copied(given[i])' <=> Copied(given[i])
         /\ Readable' <=> Readable
  <1>1. DbLines' = DbLines
    BY DEF DbLines
  <1>2. SeedLines' = SeedLines
    BY DEF SeedLines, SeedLine
  <1>3. \A n : ReadableTo(n)' <=> ReadableTo(n)
    BY DEF ReadableTo
  <1>4. \A n : ReadBack(n)' = ReadBack(n)
    BY DEF ReadBack
  <1>5. \A i : Copied(given[i])' <=> Copied(given[i])
    BY DEF Copied
  <1>6. Readable' <=> Readable
    BY DEF Readable, ReadableTo
  <1> QED
    BY <1>1, <1>2, <1>3, <1>4, <1>5, <1>6

\* Before the first line nothing is written, copied or read.
LEMMA InitInv == Init => IInv
  <1> SUFFICES ASSUME Init PROVE IInv
    OBVIOUS
  <1>1. /\ seed = <<>> /\ text = <<>> /\ seedEnds = <<>> /\ textEnds = <<>>
        /\ pos = 0 /\ users = <<>> /\ at \in {"write", "type"}
    BY DEF Init
  <1>2. given \in Seq(Account) /\ pwlen \in PasswordLen \cup {0}
    <2>1. CASE given \in Tables /\ pwlen = 0
      <3>1. given \in Seq({a \in Account : Flagged(a)})
        BY <2>1, TablesAssumption
      <3>2. {a \in Account : Flagged(a)} \subseteq Account
        OBVIOUS
      <3> QED
        BY <2>1, <3>1, <3>2, SeqMonotonic
    <2>2. CASE given \in Seeds /\ pwlen \in PasswordLen
      <3>1. given \in Seq({a \in Account : NL \notin ToSet(a.name)})
        BY <2>2, SeedsAssumption
      <3>2. {a \in Account : NL \notin ToSet(a.name)} \subseteq Account
        OBVIOUS
      <3> QED
        BY <2>2, <3>1, <3>2, SeqMonotonic
    <2> QED
      BY <2>1, <2>2 DEF Init
  <1>3. TypeOK
    <2>1. \A S : <<>> \in Seq(S) /\ Len(<<>>) = 0
      BY EmptyFacts
    <2> QED
      BY <1>1, <1>2, <2>1 DEF TypeOK
  <1>4. GivenInv
    <2>1. CASE given \in Tables /\ pwlen = 0 /\ at = "write"
      <3>1. given \in Seq({a \in Account : Flagged(a)})
        BY <2>1, TablesAssumption
      <3>2. \A i \in 1 .. Len(given) : Flagged(given[i])
        BY <3>1
      <3> QED
        BY <2>1, <3>2 DEF GivenInv
    <2>2. CASE given \in Seeds /\ pwlen \in PasswordLen /\ at = "type"
      <3>1. given \in Seq({a \in Account : NL \notin ToSet(a.name)})
        BY <2>2, SeedsAssumption
      <3>2. \A i \in 1 .. Len(given) : NL \notin ToSet(given[i].name)
        BY <3>1
      <3>3. pwlen # 0
        BY <2>2, SizeAssumption
      <3> QED
        BY <2>2, <3>2, <3>3 DEF GivenInv
    <2> QED
      BY <2>1, <2>2 DEF Init
  <1>5. LaidInv
    <2>1. Len(SeedLines) \in Nat /\ Len(DbLines) \in Nat
      BY <1>3, LinesFacts, StateFacts
    <2> QED
      BY <1>1, <2>1, LaidNone DEF LaidInv
  <1>6. CopyInv /\ ReadInv /\ EndInv
    BY <1>1 DEF CopyInv, ReadInv, EndInv
  <1> QED
    BY <1>3, <1>4, <1>5, <1>6 DEF IInv

\* The next line of a seed is typed where the last one ended.
LEMMA TypeLineInv == IInv /\ TypeLine => IInv'
  <1> SUFFICES ASSUME IInv, TypeLine PROVE IInv'
    OBVIOUS
  <1> DEFINE n == Len(seedEnds)
  <1>1. TypeOK /\ GivenInv /\ LaidInv
    BY DEF IInv
  <1>2. /\ at = "type" /\ n < Len(given)
        /\ seed' = seed \o SeedLine(given[n + 1]) /\ seedEnds' = Append(seedEnds, Len(seed'))
        /\ given' = given /\ pwlen' = pwlen /\ text' = text /\ textEnds' = textEnds
        /\ pos' = pos /\ users' = users /\ at' = at
    BY DEF TypeLine
  <1>3. DbLines' = DbLines /\ SeedLines' = SeedLines
    BY <1>2, GivenKept
  <1>4. /\ Len(SeedLines) \in Nat /\ n < Len(SeedLines) /\ Len(SeedLines) = Len(given)
        /\ \A k \in 1 .. Len(SeedLines) : SeedLines[k] \in Seq(Char)
    BY <1>1, <1>2, LinesFacts, StateFacts
  <1>5. /\ seed \in Seq(Char) /\ seedEnds \in Seq(Nat) /\ n \in Nat
        /\ Laid(seed, seedEnds, SeedLines)
    BY <1>1 DEF TypeOK, LaidInv
  <1>6. seed' = seed \o SeedLines[n + 1]
    <2>1. n + 1 \in 1 .. Len(given)
      BY <1>2, <1>4, <1>5
    <2> QED
      BY <1>1, <1>2, <2>1, LinesFacts, ZenonT(30)
  <1>7. /\ seed' \in Seq(Char) /\ seedEnds' \in Seq(Nat) /\ Len(seedEnds') = n + 1
        /\ Laid(seed', seedEnds', SeedLines)
    <2>1. n = Len(seedEnds) /\ seedEnds' = Append(seedEnds, Len(seed'))
      BY <1>2
    <2> HIDE DEF n
    <2>2. /\ Len(SeedLines) \in Nat /\ n < Len(SeedLines)
          /\ \A k \in 1 .. Len(SeedLines) : SeedLines[k] \in Seq(Char)
          /\ seed \in Seq(Char) /\ seedEnds \in Seq(Nat) /\ Laid(seed, seedEnds, SeedLines)
      BY <1>4, <1>5
    <2>3. seed' \in Seq(Char)
      BY <1>6, <2>1, <2>2, LaidMore
    <2>4. seedEnds' \in Seq(Nat)
      BY <1>6, <2>1, <2>2, LaidMore
    <2>5. Len(seedEnds') = n + 1
      BY <1>6, <2>1, <2>2, LaidMore
    <2>6. Laid(seed', seedEnds', SeedLines)
      BY <1>6, <2>1, <2>2, LaidMore, ZenonT(30)
    <2> QED
      BY <2>3, <2>4, <2>5, <2>6
  <1>8. TypeOK'
    BY <1>1, <1>2, <1>7 DEF TypeOK
  <1>9. GivenInv'
    BY <1>1, <1>2 DEF GivenInv
  <1>10. LaidInv'
    <2>1. /\ Laid(seed, seedEnds, SeedLines)'
          /\ Laid(text, textEnds, DbLines)'
      BY <1>1, <1>2, <1>3, <1>7 DEF LaidInv
    <2> QED
      BY <1>1, <1>2, <2>1 DEF LaidInv
  <1>11. CopyInv' /\ ReadInv' /\ EndInv'
    BY <1>2 DEF CopyInv, ReadInv, EndInv
  <1> QED
    BY <1>8, <1>9, <1>10, <1>11 DEF IInv

\* The same for users.db.
LEMMA WriteLineInv == IInv /\ WriteLine => IInv'
  <1> SUFFICES ASSUME IInv, WriteLine PROVE IInv'
    OBVIOUS
  <1> DEFINE n == Len(textEnds)
  <1>1. TypeOK /\ GivenInv /\ LaidInv
    BY DEF IInv
  <1>2. /\ at = "write" /\ n < Len(given)
        /\ text' = text \o DbLine(given[n + 1]) /\ textEnds' = Append(textEnds, Len(text'))
        /\ given' = given /\ pwlen' = pwlen /\ seed' = seed /\ seedEnds' = seedEnds
        /\ pos' = pos /\ users' = users /\ at' = at
    BY DEF WriteLine, PrintLine
  <1>3. DbLines' = DbLines /\ SeedLines' = SeedLines
    BY <1>2, GivenKept
  <1>4. /\ Len(DbLines) \in Nat /\ n < Len(DbLines) /\ Len(DbLines) = Len(given)
        /\ \A k \in 1 .. Len(DbLines) : DbLines[k] \in Seq(Char)
    BY <1>1, <1>2, LinesFacts, StateFacts
  <1>5. /\ text \in Seq(Char) /\ textEnds \in Seq(Nat) /\ n \in Nat
        /\ Laid(text, textEnds, DbLines)
    BY <1>1 DEF TypeOK, LaidInv
  <1>6. text' = text \o DbLines[n + 1]
    <2>1. n + 1 \in 1 .. Len(given)
      BY <1>2, <1>4, <1>5
    <2> QED
      BY <1>1, <1>2, <2>1, LinesFacts, ZenonT(30)
  <1>7. /\ text' \in Seq(Char) /\ textEnds' \in Seq(Nat) /\ Len(textEnds') = n + 1
        /\ Laid(text', textEnds', DbLines)
    <2>1. n = Len(textEnds) /\ textEnds' = Append(textEnds, Len(text'))
      BY <1>2
    <2> HIDE DEF n
    <2>2. /\ Len(DbLines) \in Nat /\ n < Len(DbLines)
          /\ \A k \in 1 .. Len(DbLines) : DbLines[k] \in Seq(Char)
          /\ text \in Seq(Char) /\ textEnds \in Seq(Nat) /\ Laid(text, textEnds, DbLines)
      BY <1>4, <1>5
    <2>3. text' \in Seq(Char)
      BY <1>6, <2>1, <2>2, LaidMore
    <2>4. textEnds' \in Seq(Nat)
      BY <1>6, <2>1, <2>2, LaidMore
    <2>5. Len(textEnds') = n + 1
      BY <1>6, <2>1, <2>2, LaidMore
    <2>6. Laid(text', textEnds', DbLines)
      BY <1>6, <2>1, <2>2, LaidMore, ZenonT(30)
    <2> QED
      BY <2>3, <2>4, <2>5, <2>6
  <1>8. TypeOK'
    <2>1. users' = <<>> /\ Len(users') <= Len(textEnds')
      <3>1. users' = <<>>
        BY <1>1, <1>2 DEF TypeOK
      <3>2. Len(<<>>) <= n + 1
        BY <1>5
      <3> QED
        BY <1>7, <3>1, <3>2
    <2> QED
      BY <1>1, <1>2, <1>7, <2>1 DEF TypeOK
  <1>9. GivenInv'
    BY <1>1, <1>2 DEF GivenInv
  <1>10. LaidInv'
    <2>1. /\ Laid(seed, seedEnds, SeedLines)'
          /\ Laid(text, textEnds, DbLines)'
      BY <1>1, <1>2, <1>3, <1>7 DEF LaidInv
    <2> QED
      BY <1>2, <2>1 DEF LaidInv
  <1>11. CopyInv' /\ ReadInv' /\ EndInv'
    BY <1>2 DEF CopyInv, ReadInv, EndInv
  <1> QED
    BY <1>8, <1>9, <1>10, <1>11 DEF IInv

\* The seed is typed: the copy begins at its start.
LEMMA SeedTypedInv == IInv /\ SeedTyped => IInv'
  <1> SUFFICES ASSUME IInv, SeedTyped PROVE IInv'
    OBVIOUS
  <1>1. TypeOK /\ GivenInv /\ LaidInv
    BY DEF IInv
  <1>2. /\ at = "type" /\ Len(seedEnds) = Len(given) /\ at' = "copy"
        /\ given' = given /\ pwlen' = pwlen /\ text' = text /\ textEnds' = textEnds
        /\ seed' = seed /\ seedEnds' = seedEnds /\ pos' = pos /\ users' = users
    BY DEF SeedTyped
  <1>3. DbLines' = DbLines /\ SeedLines' = SeedLines
    BY <1>2, GivenKept
  <1>4. textEnds = <<>> /\ pos = 0 /\ users = <<>>
    BY <1>1, <1>2 DEF TypeOK, LaidInv
  <1>5. TypeOK'
    BY <1>1, <1>2, <1>4 DEF TypeOK
  <1>6. GivenInv'
    BY <1>1, <1>2 DEF GivenInv
  <1>7. LaidInv'
    <2>1. /\ Laid(seed, seedEnds, SeedLines)'
          /\ Laid(text, textEnds, DbLines)'
      BY <1>1, <1>2, <1>3 DEF LaidInv
    <2> QED
      BY <1>2, <2>1 DEF LaidInv
  <1>8. CopyInv'
    <2>1. Len(textEnds) = 0 /\ Before(seedEnds, 0 + 1) = 0
      BY <1>4 DEF Before
    <2>2. pos \in Behind(seedEnds, Len(textEnds))
      BY <1>4, <2>1 DEF Behind
    <2>3. \A i \in 1 .. Len(textEnds) : FALSE
      BY <2>1
    <2> QED
      BY <1>2, <2>2, <2>3 DEF CopyInv
  <1>9. ReadInv' /\ EndInv'
    BY <1>2 DEF ReadInv, EndInv
  <1> QED
    BY <1>5, <1>6, <1>7, <1>8, <1>9 DEF IInv

\* A file that is about to be read: no account is loaded, the reader is at its start.
LEMMA AtStart ==
  ASSUME users' = <<>>, pos' = 0, Len(given') \in Nat
  PROVE  ReadInv'
  <1>1. Len(users') = 0 /\ Before(textEnds', 0 + 1) = 0
    BY DEF Before
  <1>2. ReadableTo(0)' /\ ReadBack(0)' = <<>>
    <2>1. 1 .. 0 = {}
      OBVIOUS
    <2>2. ReadableTo(0)'
      BY <2>1 DEF ReadableTo
    <2>3. ReadBack(0)' = <<>>
      BY <2>1 DEF ReadBack
    <2> QED
      BY <2>2, <2>3
  <1>3. ReadableTo(Len(users))' /\ (users = ReadBack(Len(users)))'
    <2>1. ReadableTo(Len(users))'
      BY <1>1 DEF ReadableTo
    <2>2. (users = ReadBack(Len(users)))'
      BY <1>1 DEF ReadBack
    <2> QED
      BY <2>1, <2>2
  <1>4. pos' \in Behind(textEnds', Len(users'))
    BY <1>1 DEF Behind
  <1> QED
    BY <1>1, <1>3, <1>4 DEF ReadInv

\* The table is written: the next start begins at its start.
LEMMA WrittenInv == IInv /\ Written => IInv'
  <1> SUFFICES ASSUME IInv, Written PROVE IInv'
    OBVIOUS
  <1>1. TypeOK /\ GivenInv /\ LaidInv
    BY DEF IInv
  <1>2. /\ at = "write" /\ Len(textEnds) = Len(given) /\ at' = "read"
        /\ given' = given /\ pwlen' = pwlen /\ text' = text /\ textEnds' = textEnds
        /\ seed' = seed /\ seedEnds' = seedEnds /\ pos' = pos /\ users' = users
    BY DEF Written
  <1>3. DbLines' = DbLines /\ SeedLines' = SeedLines
    BY <1>2, GivenKept
  <1>4. pos = 0 /\ users = <<>> /\ pwlen = 0 /\ Len(given) \in Nat
    BY <1>1, <1>2, StateFacts DEF TypeOK, GivenInv
  <1>5. TypeOK'
    <2>1. pos' <= Len(text')
      BY <1>1, <1>2, <1>4 DEF TypeOK
    <2> QED
      BY <1>1, <1>2, <2>1 DEF TypeOK
  <1>6. GivenInv'
    BY <1>1, <1>2 DEF GivenInv
  <1>7. LaidInv'
    <2>1. /\ Laid(seed, seedEnds, SeedLines)'
          /\ Laid(text, textEnds, DbLines)'
      BY <1>1, <1>2, <1>3 DEF LaidInv
    <2> QED
      BY <1>2, <2>1 DEF LaidInv
  <1>8. CopyInv'
    BY <1>2, <1>4 DEF CopyInv
  <1>9. ReadInv'
    <2>1. users' = <<>> /\ pos' = 0 /\ Len(given') \in Nat
      BY <1>2, <1>4
    <2> QED
      BY <2>1, AtStart
  <1>10. EndInv'
    BY <1>2 DEF EndInv
  <1> QED
    BY <1>5, <1>6, <1>7, <1>8, <1>9, <1>10 DEF IInv

\* A reader that is behind the n-th line and at the end of the text has read them all.
LEMMA ReadToEnd ==
  ASSUME NEW s \in Seq(Char), NEW ends \in Seq(Nat), NEW lines, Laid(s, ends, lines),
         \A k \in 1 .. Len(ends) : lines[k] \in Seq(Char) /\ Len(lines[k]) \in Nat \ {0},
         NEW n \in 0 .. Len(ends), Len(s) \in Behind(ends, n)
  PROVE  n = Len(ends)
  <1>1. Len(s) = Before(ends, n + 1) \/ (n # 0 /\ Len(s) = ends[n] - 1)
    BY DEF Behind
  <1>2. Len(ends) \in Nat /\ n \in Nat /\ n <= Len(ends) /\ Len(s) \in Nat
    OBVIOUS
  <1>3. ASSUME NEW k \in 1 .. Len(ends)
        PROVE  /\ ends[k] \in Nat /\ ends[k] <= Len(s)
               /\ Before(ends, k) \in Nat /\ Before(ends, k) < ends[k]
    <2>1. lines[k] \in Seq(Char) /\ Len(lines[k]) \in Nat \ {0}
      OBVIOUS
    <2>2. /\ Before(ends, k) \in Nat /\ ends[k] \in Nat
          /\ ends[k] = Before(ends, k) + Len(lines[k]) /\ ends[k] <= Len(s)
      BY <2>1, LaidAt
    <2> QED
      BY <2>1, <2>2
  <1>4. CASE n # 0 /\ Len(s) = ends[n] - 1
    <2>1. n \in 1 .. Len(ends)
      BY <1>2, <1>4
    <2>2. ends[n] \in Nat /\ ends[n] <= Len(s)
      BY <1>3, <2>1
    <2> QED
      BY <1>2, <1>4, <2>2
  <1>5. CASE Len(s) = Before(ends, n + 1)
    <2>1. ASSUME n # Len(ends) PROVE FALSE
      <3>1. n + 1 \in 1 .. Len(ends)
        BY <1>2, <2>1
      <3>2. /\ ends[n + 1] \in Nat /\ ends[n + 1] <= Len(s)
            /\ Before(ends, n + 1) < ends[n + 1]
        BY <1>3, <3>1
      <3> QED
        BY <1>2, <1>5, <3>2
    <2> QED
      BY <2>1
  <1> QED
    BY <1>1, <1>4, <1>5

\* A seed that is read to its end has all its lines copied.
LEMMA SeedDoneInv == IInv /\ SeedDone => IInv'
  <1> SUFFICES ASSUME IInv, SeedDone PROVE IInv'
    OBVIOUS
  <1>1. TypeOK /\ GivenInv /\ LaidInv /\ CopyInv
    BY DEF IInv
  <1>2. /\ at = "copy" /\ pos = Len(seed) /\ at' = "read" /\ pos' = 0
        /\ given' = given /\ pwlen' = pwlen /\ text' = text /\ textEnds' = textEnds
        /\ seed' = seed /\ seedEnds' = seedEnds /\ users' = users
    BY DEF SeedDone
  <1>3. DbLines' = DbLines /\ SeedLines' = SeedLines
    BY <1>2, GivenKept
  <1> DEFINE n == Len(textEnds)
  <1>4. /\ users = <<>> /\ Len(given) \in Nat /\ n \in Nat /\ Len(text) \in Nat
        /\ seed \in Seq(Char) /\ seedEnds \in Seq(Nat)
    BY <1>1, <1>2, StateFacts DEF TypeOK
  <1>5. /\ Len(seedEnds) = Len(given) /\ Laid(seed, seedEnds, SeedLines)
        /\ n <= Len(given)
    <2>1. Len(seedEnds) = Len(given) /\ Laid(seed, seedEnds, SeedLines)
          /\ Laid(text, textEnds, DbLines)
      BY <1>1, <1>2 DEF LaidInv
    <2> QED
      BY <1>1, <2>1, LinesFacts DEF Laid
  <1>6. n = Len(given)
    <2>1. \A k \in 1 .. Len(seedEnds) :
            SeedLines[k] \in Seq(Char) /\ Len(SeedLines[k]) \in Nat \ {0}
      BY <1>1, <1>5, LinesFacts
    <2>2. Len(seed) \in Behind(seedEnds, n)
      BY <1>1, <1>2 DEF CopyInv
    <2>3. n \in 0 .. Len(seedEnds)
      BY <1>4, <1>5
    <2> HIDE DEF n
    <2>4. n = Len(seedEnds)
      BY <1>4, <1>5, <2>1, <2>2, <2>3, ReadToEnd
    <2> QED
      BY <1>5, <2>4
  <1>7. TypeOK'
    <2>1. pos' <= Len(text')
      BY <1>2, <1>4
    <2> QED
      BY <1>1, <1>2, <2>1 DEF TypeOK
  <1>8. GivenInv'
    BY <1>1, <1>2 DEF GivenInv
  <1>9. LaidInv'
    <2>1. /\ Laid(seed, seedEnds, SeedLines)'
          /\ Laid(text, textEnds, DbLines)'
      BY <1>1, <1>2, <1>3 DEF LaidInv
    <2> QED
      BY <1>2, <1>6, <2>1 DEF LaidInv
  <1>10. CopyInv'
    <2>1. \A i \in 1 .. n : Copied(given[i]) \/ pwlen = 0
      BY <1>1, <1>2 DEF CopyInv
    <2>2. \A i : Copied(given[i])' <=> Copied(given[i])
      BY <1>2, GivenKept
    <2> QED
      BY <1>2, <2>1, <2>2 DEF CopyInv
  <1>11. ReadInv'
    <2>1. users' = <<>> /\ pos' = 0 /\ Len(given') \in Nat
      BY <1>2, <1>4
    <2> QED
      BY <2>1, AtStart
  <1>12. EndInv'
    BY <1>2 DEF EndInv
  <1> QED
    BY <1>7, <1>8, <1>9, <1>10, <1>11, <1>12 DEF IInv

\* A line of the seed is copied as it was typed, or it is one that cannot be.
LEMMA CopyLineInv == IInv /\ CopyLine => IInv'
  <1> SUFFICES ASSUME IInv, CopyLine PROVE IInv'
    OBVIOUS
  <1> DEFINE n == Len(textEnds)
             e == fgets(seed, pos)
             line == Line(seed, pos)
             back == FromFields(Field(line, 1), Field(line, 3), Field(line, 4))
  <1>1. TypeOK /\ GivenInv /\ LaidInv /\ CopyInv
    BY DEF IInv
  <1>2. /\ at = "copy" /\ pos < Len(seed) /\ pos' = e
        /\ given' = given /\ pwlen' = pwlen /\ seed' = seed /\ seedEnds' = seedEnds
        /\ users' = users
        /\ \/ line = <<>> /\ text' = text /\ textEnds' = textEnds /\ at' = at
           \/ /\ line # <<>> /\ ParseSeedLine(line)
              /\ text' = text \o DbLine(back) /\ textEnds' = Append(textEnds, Len(text'))
              /\ at' = at
           \/ /\ line # <<>> /\ ~ParseSeedLine(line)
              /\ at' = "refused" /\ text' = <<>> /\ textEnds' = <<>>
    BY DEF CopyLine, PrintLine
  <1>3. /\ e \in Nat /\ e <= Len(seed)
        /\ \/ line = <<>> /\ e \in Behind(seedEnds, n)
           \/ /\ n < Len(given) /\ line # <<>>
              /\ ParseSeedLine(line) <=> Copied(given[n + 1])
              /\ Copied(given[n + 1]) => back = given[n + 1] /\ e \in Behind(seedEnds, n + 1)
    BY <1>1, <1>2, CopyStep
  <1>4. /\ DbLines' = DbLines /\ SeedLines' = SeedLines
        /\ \A i : Copied(given[i])' <=> Copied(given[i])
    BY <1>2, GivenKept
  <1>5. /\ users = <<>> /\ Len(given) \in Nat /\ n \in Nat /\ pwlen # 0
        /\ text \in Seq(Char) /\ textEnds \in Seq(Nat) /\ Laid(text, textEnds, DbLines)
        /\ Len(seedEnds) = Len(given)
        /\ \A i \in 1 .. n : Copied(given[i]) \/ pwlen = 0
    BY <1>1, <1>2, StateFacts DEF TypeOK, GivenInv, LaidInv, CopyInv
  <1> HIDE DEF e, line, back
  <1>6. GivenInv'
    BY <1>1, <1>2 DEF GivenInv
  <1>7. CASE line = <<>>
    <2>1. /\ text' = text /\ textEnds' = textEnds /\ at' = "copy" /\ e \in Behind(seedEnds, n)
      BY <1>2, <1>3, <1>7
    <2>2. TypeOK'
      BY <1>1, <1>2, <1>3, <2>1 DEF TypeOK
    <2>3. LaidInv'
      <3>1. /\ Laid(seed, seedEnds, SeedLines)'
            /\ Laid(text, textEnds, DbLines)'
        BY <1>1, <1>2, <1>4, <2>1 DEF LaidInv
      <3> QED
        BY <1>2, <1>5, <2>1, <3>1 DEF LaidInv
    <2>4. CopyInv'
      BY <1>2, <1>4, <1>5, <2>1 DEF CopyInv
    <2>5. ReadInv' /\ EndInv'
      BY <2>1 DEF ReadInv, EndInv
    <2> QED
      BY <1>6, <2>2, <2>3, <2>4, <2>5 DEF IInv
  <1>8. CASE line # <<>> /\ ParseSeedLine(line)
    <2>1. /\ n < Len(given) /\ Copied(given[n + 1]) /\ back = given[n + 1]
          /\ e \in Behind(seedEnds, n + 1) /\ at' = "copy"
          /\ text' = text \o DbLine(back) /\ textEnds' = Append(textEnds, Len(text'))
      BY <1>2, <1>3, <1>8
    <2>2. text' = text \o DbLines[n + 1]
      <3>1. n + 1 \in 1 .. Len(given)
        BY <1>5, <2>1
      <3> QED
        BY <1>1, <2>1, <3>1, LinesFacts, ZenonT(30)
    <2>3. /\ text' \in Seq(Char) /\ textEnds' \in Seq(Nat) /\ Len(textEnds') = n + 1
          /\ Laid(text', textEnds', DbLines)
      <3>1. n = Len(textEnds) /\ textEnds' = Append(textEnds, Len(text'))
        BY <2>1
      <3>2. /\ Len(DbLines) \in Nat /\ n < Len(DbLines)
            /\ \A k \in 1 .. Len(DbLines) : DbLines[k] \in Seq(Char)
            /\ text \in Seq(Char) /\ textEnds \in Seq(Nat) /\ Laid(text, textEnds, DbLines)
        BY <1>1, <1>5, <2>1, LinesFacts
      <3> HIDE DEF n
      <3>3. text' \in Seq(Char)
        BY <2>2, <3>1, <3>2, LaidMore
      <3>4. textEnds' \in Seq(Nat)
        BY <2>2, <3>1, <3>2, LaidMore
      <3>5. Len(textEnds') = n + 1
        BY <2>2, <3>1, <3>2, LaidMore
      <3>6. Laid(text', textEnds', DbLines)
        BY <2>2, <3>1, <3>2, LaidMore, ZenonT(30)
      <3> QED
        BY <3>3, <3>4, <3>5, <3>6
    <2>4. TypeOK'
      <3>1. users' = <<>> /\ Len(users') <= Len(textEnds')
        <4>1. users' = <<>> /\ Len(<<>>) <= n + 1
          BY <1>2, <1>5
        <4> QED
          BY <2>3, <4>1
      <3> QED
        BY <1>1, <1>2, <1>3, <2>1, <2>3, <3>1 DEF TypeOK
    <2>5. LaidInv'
      <3>1. /\ Laid(seed, seedEnds, SeedLines)'
            /\ Laid(text, textEnds, DbLines)'
        BY <1>1, <1>2, <1>4, <2>3 DEF LaidInv
      <3> QED
        BY <1>2, <1>5, <2>1, <3>1 DEF LaidInv
    <2>6. CopyInv'
      <3>1. \A i \in 1 .. n + 1 : Copied(given[i]) \/ pwlen = 0
        <4>1. \A i \in 1 .. n + 1 : i \in 1 .. n \/ i = n + 1
          BY <1>5
        <4> QED
          BY <1>5, <2>1, <4>1
      <3>2. \A i \in 1 .. Len(textEnds') : Copied(given[i])' \/ pwlen' = 0
        BY <1>2, <1>4, <2>3, <3>1
      <3>3. pos' \in Behind(seedEnds', Len(textEnds'))
        BY <1>2, <2>1, <2>3
      <3> QED
        BY <3>2, <3>3 DEF CopyInv
    <2>7. ReadInv' /\ EndInv'
      BY <2>1 DEF ReadInv, EndInv
    <2> QED
      BY <1>6, <2>4, <2>5, <2>6, <2>7 DEF IInv
  <1>9. CASE line # <<>> /\ ~ParseSeedLine(line)
    <2>1. /\ n < Len(given) /\ ~Copied(given[n + 1]) /\ at' = "refused"
          /\ text' = <<>> /\ textEnds' = <<>>
      BY <1>2, <1>3, <1>9
    <2>2. TypeOK'
      <3>1. users' = <<>> /\ Len(users') <= Len(textEnds')
        BY <1>2, <1>5, <2>1
      <3> QED
        BY <1>1, <1>2, <1>3, <2>1, <3>1 DEF TypeOK
    <2>3. LaidInv'
      <3>1. Laid(seed, seedEnds, SeedLines)'
        BY <1>1, <1>2, <1>4 DEF LaidInv
      <3>2. Laid(text, textEnds, DbLines)'
        <4>1. Len(DbLines) \in Nat
          BY <1>1, <1>5, LinesFacts
        <4>2. Laid(<<>>, <<>>, DbLines)
          BY <4>1, LaidNone
        <4> QED
          BY <1>4, <2>1, <4>2
      <3> QED
        BY <2>1, <3>1, <3>2 DEF LaidInv
    <2>4. EndInv'
      <3>1. n + 1 \in 1 .. Len(given')
        BY <1>2, <1>5, <2>1
      <3>2. \E i \in 1 .. Len(given') : ~Copied(given[i])'
        BY <1>4, <2>1, <3>1
      <3>3. pwlen' # 0
        BY <1>2, <1>5
      <3> QED
        BY <2>1, <3>2, <3>3 DEF EndInv
    <2>5. CopyInv' /\ ReadInv'
      BY <2>1 DEF CopyInv, ReadInv
    <2> QED
      BY <1>6, <2>2, <2>3, <2>4, <2>5 DEF IInv
  <1> QED
    BY <1>7, <1>8, <1>9

\* What comes back of the first n accounts, when they can.
LEMMA BackFacts ==
  ASSUME TypeOK, NEW n \in 0 .. Len(given), ReadableTo(n)
  PROVE  /\ ReadBack(n) \in Seq([name : Seq(Char) \ {<<>>}, must_change : FlagText, deleted : FlagText])
         /\ Len(ReadBack(n)) = n
         /\ \A i \in 1 .. n : /\ ReadBack(n)[i] = [given[i] EXCEPT !.name = Unled(@)]
                              /\ ReadBack(n)[i].name = Unled(given[i].name)
  <1> DEFINE R == [name : Seq(Char) \ {<<>>}, must_change : FlagText, deleted : FlagText]
             back(i) == [given[i] EXCEPT !.name = Unled(@)]
  <1>1. n \in Nat /\ \A i \in 1 .. n : given[i] \in Account /\ Survives(given[i].name)
    BY StateFacts DEF ReadableTo
  <1>2. \A i \in 1 .. n : back(i) \in R /\ back(i).name = Unled(given[i].name)
    <2> SUFFICES ASSUME NEW i \in 1 .. n PROVE back(i) \in R /\ back(i).name = Unled(given[i].name)
      OBVIOUS
    <2> DEFINE a == given[i]
               v == Unled(a.name)
    <2>1. /\ a.name \in Seq(Char) /\ a.must_change \in FlagText /\ a.deleted \in FlagText
          /\ a = [name |-> a.name, must_change |-> a.must_change, deleted |-> a.deleted]
          /\ Survives(a.name)
      BY <1>1, AccountFacts
    <2>2. v \in Seq(Char) \ {<<>>}
      BY <2>1, NameFacts DEF Survives
    <2> HIDE DEF a, v
    <2>3. [a EXCEPT !.name = v] = [name |-> v, must_change |-> a.must_change, deleted |-> a.deleted]
      BY <2>1
    <2>4. back(i) = [a EXCEPT !.name = v]
      BY DEF a, v
    <2> HIDE DEF back
    <2>5. back(i) \in R /\ back(i).name = v
      BY <2>1, <2>2, <2>3, <2>4
    <2> QED
      BY <2>5 DEF a, v
  <1>3. ReadBack(n) = [i \in 1 .. n |-> back(i)]
    BY DEF ReadBack
  <1> HIDE DEF back, R
  <1>4. /\ ReadBack(n) \in Seq(R) /\ Len(ReadBack(n)) = n
        /\ \A i \in 1 .. n : ReadBack(n)[i] = back(i)
    BY <1>1, <1>2, <1>3
  <1>5. \A i \in 1 .. n : ReadBack(n)[i].name = Unled(given[i].name)
    BY <1>2, <1>4
  <1> QED
    BY <1>4, <1>5 DEF R, back

\* One more account comes back, and as a different one.
LEMMA BackMore ==
  ASSUME TypeOK, NEW n \in Nat, n < Len(given), ReadableTo(n), Survives(given[n + 1].name),
         \A i \in 1 .. n : Unled(given[i].name) # Unled(given[n + 1].name)
  PROVE  /\ ReadableTo(n + 1)
         /\ Append(ReadBack(n), [given[n + 1] EXCEPT !.name = Unled(@)]) = ReadBack(n + 1)
  <1> DEFINE R == [name : Seq(Char) \ {<<>>}, must_change : FlagText, deleted : FlagText]
             k == n + 1
             x == [given[k] EXCEPT !.name = Unled(@)]
             s == ReadBack(n)
             t == ReadBack(k)
  <1>1. /\ Len(given) \in Nat /\ n \in 0 .. Len(given) /\ k \in 0 .. Len(given) /\ k \in 1 .. k
        /\ \A i \in 1 .. k : i \in 1 .. n \/ i = k
    BY StateFacts
  <1> HIDE DEF k
  <1>2. ReadableTo(k)
    <2>1. \A i \in 1 .. k : Survives(given[i].name)
      BY <1>1 DEF ReadableTo, k
    <2>2. \A i, j \in 1 .. k : i # j => Unled(given[i].name) # Unled(given[j].name)
      <3> SUFFICES ASSUME NEW i \in 1 .. k, NEW j \in 1 .. k, i # j
                   PROVE  Unled(given[i].name) # Unled(given[j].name)
        OBVIOUS
      <3>1. CASE i \in 1 .. n /\ j \in 1 .. n
        BY <3>1 DEF ReadableTo
      <3>2. CASE i \in 1 .. n /\ j = k
        BY <3>2 DEF k
      <3>3. CASE i = k /\ j \in 1 .. n
        BY <3>3 DEF k
      <3> QED
        BY <1>1, <3>1, <3>2, <3>3
    <2> QED
      BY <2>1, <2>2 DEF ReadableTo
  <1>3. /\ s \in Seq(R) /\ Len(s) = n
        /\ \A i \in 1 .. n : s[i] = [given[i] EXCEPT !.name = Unled(@)]
    BY <1>1, BackFacts
  <1>4. /\ t \in Seq(R) /\ Len(t) = k
        /\ \A i \in 1 .. k : t[i] = [given[i] EXCEPT !.name = Unled(@)]
    BY <1>1, <1>2, BackFacts
  <1>5. x = t[k] /\ x \in R
    <2>1. x = t[k]
      BY <1>1, <1>4
    <2> HIDE DEF x, t, R
    <2> QED
      BY <1>1, <1>4, <2>1
  <1>6. \A i \in 1 .. n : s[i] = t[i]
    <2>1. \A i \in 1 .. n : i \in 1 .. k
      BY <1>1 DEF k
    <2> HIDE DEF R
    <2> QED
      BY <1>3, <1>4, <2>1
  <1> HIDE DEF x, s, t, R
  <1>7. /\ Append(s, x) \in Seq(R) /\ Len(Append(s, x)) = n + 1
        /\ \A i \in 1 .. n : Append(s, x)[i] = s[i]
        /\ Append(s, x)[n + 1] = x
    BY <1>3, <1>5, AppendFacts
  <1>8. Append(s, x) = t
    <2>1. Len(Append(s, x)) = Len(t)
      BY <1>4, <1>7 DEF k
    <2>2. \A i \in 1 .. Len(t) : Append(s, x)[i] = t[i]
      BY <1>1, <1>4, <1>5, <1>6, <1>7 DEF k
    <2> QED
      BY <1>4, <1>7, <2>1, <2>2, SeqEqual
  <1> QED
    BY <1>2, <1>8 DEF x, s, t, k

\* A line of users.db is taken as it was written, or the file is not readable.
LEMMA ReadLineInv == IInv /\ ReadLine => IInv'
  <1> SUFFICES ASSUME IInv, ReadLine PROVE IInv'
    OBVIOUS
  <1> DEFINE n == Len(users)
             e == fgets(text, pos)
             line == Line(text, pos)
             f == Field(line, 1)
             back == FromFields(Field(line, 1), Field(line, 2), Field(line, 3))
             a == given[n + 1]
             R == [name : Seq(Char) \ {<<>>}, must_change : FlagText, deleted : FlagText]
  <1>1. TypeOK /\ GivenInv /\ LaidInv /\ CopyInv /\ ReadInv
    BY DEF IInv
  <1>2. /\ at = "read" /\ pos < Len(text) /\ pos' = e
        /\ given' = given /\ pwlen' = pwlen /\ seed' = seed /\ seedEnds' = seedEnds
        /\ text' = text /\ textEnds' = textEnds
        /\ \/ line = <<>> /\ users' = users /\ at' = at
           \/ /\ line # <<>> /\ auth_parse_db_line(line) /\ ~Found(f)
              /\ users' = Append(users, back) /\ at' = at
           \/ /\ line # <<>> /\ ~(auth_parse_db_line(line) /\ ~Found(f))
              /\ at' = "refused" /\ users' = <<>>
    BY DEF ReadLine
  <1>3. /\ e \in Nat /\ e <= Len(text)
        /\ \/ /\ line = <<>>
              /\ \/ e \in Behind(textEnds, n)
                 \/ /\ n < Len(given)
                    /\ \E l \in 1 .. Lead(a.name) : e = Before(textEnds, n + 1) + l
           \/ /\ n < Len(given) /\ line # <<>>
              /\ auth_parse_db_line(line) <=> Survives(a.name) /\ Flagged(a)
              /\ Survives(a.name) =>
                   /\ back = [a EXCEPT !.name = Unled(@)]
                   /\ f = Unled(a.name)
                   /\ e \in Behind(textEnds, n + 1)
    BY <1>1, <1>2, ReadStep
  <1>4. /\ DbLines' = DbLines /\ SeedLines' = SeedLines
        /\ \A i : Copied(given[i])' <=> Copied(given[i])
        /\ \A i : ReadableTo(i)' <=> ReadableTo(i)
        /\ \A i : ReadBack(i)' = ReadBack(i)
        /\ Readable' <=> Readable
    BY <1>2, GivenKept
  <1>5. /\ Len(given) \in Nat /\ n \in Nat /\ n <= Len(given)
        /\ users \in Seq(R) /\ Len(textEnds) = Len(given)
        /\ ReadableTo(n) /\ users = ReadBack(n)
    BY <1>1, <1>2, StateFacts DEF TypeOK, LaidInv, ReadInv
  <1> HIDE DEF e, line, back, f
  <1>6. GivenInv'
    BY <1>1, <1>2 DEF GivenInv
  <1>7. LaidInv'
    <2>1. /\ Laid(seed, seedEnds, SeedLines)'
          /\ Laid(text, textEnds, DbLines)'
      BY <1>1, <1>2, <1>4 DEF LaidInv
    <2>2. at' \in {"read", "refused"}
      BY <1>2
    <2> QED
      BY <1>2, <1>5, <2>1, <2>2 DEF LaidInv
  <1>8. CopyInv'
    <2>1. at' \in {"read", "refused"}
      BY <1>2
    <2> QED
      BY <1>1, <1>2, <1>4, <2>1 DEF CopyInv
  <1>9. CASE line = <<>>
    <2>1. /\ users' = users /\ at' = "read"
          /\ \/ e \in Behind(textEnds, n)
             \/ /\ n < Len(given)
                /\ \E l \in 1 .. Lead(a.name) : e = Before(textEnds, n + 1) + l
      BY <1>2, <1>3, <1>9
    <2>2. TypeOK'
      BY <1>1, <1>2, <1>3, <2>1 DEF TypeOK
    <2>3. ReadInv'
      BY <1>2, <1>4, <1>5, <2>1 DEF ReadInv
    <2>4. EndInv'
      BY <2>1 DEF EndInv
    <2> QED
      BY <1>6, <1>7, <1>8, <2>2, <2>3, <2>4 DEF IInv
  <1>10. CASE line # <<>> /\ auth_parse_db_line(line) /\ ~Found(f)
    <2>1. /\ n < Len(given) /\ Survives(a.name) /\ f = Unled(a.name) /\ at' = "read"
          /\ back = [a EXCEPT !.name = Unled(@)] /\ e \in Behind(textEnds, n + 1)
          /\ users' = Append(users, back)
      BY <1>2, <1>3, <1>10
    <2>2. \A i \in 1 .. n : Unled(given[i].name) # Unled(a.name)
      <3> SUFFICES ASSUME NEW i \in 1 .. n PROVE Unled(given[i].name) # Unled(a.name)
        OBVIOUS
      <3>1. users[i].name # f
        BY <1>10 DEF Found
      <3>2. n \in 0 .. Len(given)
        BY <1>5
      <3>3. users[i].name = Unled(given[i].name)
        BY <1>1, <1>5, <3>2, BackFacts
      <3> QED
        BY <2>1, <3>1, <3>3
    <2>3. ReadableTo(n + 1) /\ users' = ReadBack(n + 1)
      <3> HIDE DEF n
      <3>1. TypeOK /\ n \in Nat /\ n < Len(given) /\ ReadableTo(n) /\ users = ReadBack(n)
        BY <1>1, <1>5, <2>1
      <3> QED
        BY <2>1, <2>2, <3>1, BackMore
    <2>4. users' \in Seq(R) /\ Len(users') = n + 1 /\ n + 1 <= Len(given)
      <3> HIDE DEF n
      <3> DEFINE k == n + 1
      <3>1. k \in 0 .. Len(given) /\ k <= Len(given)
        BY <1>5, <2>1
      <3>2. ReadableTo(k) /\ users' = ReadBack(k)
        BY <2>3
      <3> HIDE DEF k
      <3>3. ReadBack(k) \in Seq(R) /\ Len(ReadBack(k)) = k
        BY <1>1, <3>1, <3>2, BackFacts
      <3>4. users' \in Seq(R) /\ Len(users') = k
        BY <3>2, <3>3
      <3> QED
        BY <3>1, <3>4 DEF k
    <2>5. TypeOK'
      <3>1. Len(users') <= Len(textEnds')
        BY <1>2, <1>5, <2>4
      <3> QED
        BY <1>1, <1>2, <1>3, <2>1, <2>4, <3>1 DEF TypeOK
    <2>6. ReadInv'
      <3>1. Len(users') <= Len(given')
        BY <1>2, <2>4
      <3>2. pos' \in Behind(textEnds', Len(users'))
        BY <1>2, <2>1, <2>4
      <3>3. ReadableTo(Len(users))' /\ (users = ReadBack(Len(users)))'
        BY <1>4, <2>3, <2>4
      <3> QED
        BY <3>1, <3>2, <3>3 DEF ReadInv
    <2>7. EndInv'
      BY <2>1 DEF EndInv
    <2> QED
      BY <1>6, <1>7, <1>8, <2>5, <2>6, <2>7 DEF IInv
  <1>11. CASE line # <<>> /\ ~(auth_parse_db_line(line) /\ ~Found(f))
    <2>1. /\ n < Len(given) /\ at' = "refused" /\ users' = <<>>
          /\ auth_parse_db_line(line) <=> Survives(a.name) /\ Flagged(a)
          /\ Survives(a.name) => f = Unled(a.name)
      BY <1>2, <1>3, <1>11
    <2>2. n + 1 \in 1 .. Len(given)
      BY <1>5, <2>1
    <2>3. Flagged(a)
      BY <1>1, <1>2, <1>5, <2>2 DEF GivenInv, CopyInv, Copied
    <2>4. ~Readable
      <3>1. CASE ~Survives(a.name)
        BY <2>2, <3>1 DEF Readable, ReadableTo
      <3>2. CASE Survives(a.name)
        <4>1. Found(Unled(a.name))
          BY <1>11, <2>1, <2>3, <3>2
        <4>2. PICK i \in 1 .. n : users[i].name = Unled(a.name)
          BY <4>1 DEF Found
        <4>3. n \in 0 .. Len(given)
          BY <1>5
        <4>4. users[i].name = Unled(given[i].name)
          BY <1>1, <1>5, <4>3, BackFacts
        <4>5. i \in 1 .. Len(given) /\ i # n + 1
          BY <1>5
        <4>6. Unled(given[i].name) = Unled(given[n + 1].name)
          BY <4>2, <4>4
        <4> QED
          BY <2>2, <4>5, <4>6 DEF Readable, ReadableTo
      <3> QED
        BY <3>1, <3>2
    <2>5. TypeOK'
      <3>1. users' \in Seq(R) /\ Len(users') <= Len(textEnds')
        <4>1. <<>> \in Seq(R) /\ Len(<<>>) = 0
          BY EmptyFacts
        <4> QED
          BY <1>2, <1>5, <2>1, <4>1
      <3> QED
        BY <1>1, <1>2, <1>3, <2>1, <3>1 DEF TypeOK
    <2>6. ReadInv'
      BY <2>1 DEF ReadInv
    <2>7. EndInv'
      BY <1>4, <2>1, <2>4 DEF EndInv
    <2> QED
      BY <1>6, <1>7, <1>8, <2>5, <2>6, <2>7 DEF IInv
  <1> QED
    BY <1>2, <1>9, <1>10, <1>11

\* A file of accounts that is read to its end has all of them loaded.
LEMMA LoadDoneInv == IInv /\ LoadDone => IInv'
  <1> SUFFICES ASSUME IInv, LoadDone PROVE IInv'
    OBVIOUS
  <1> DEFINE n == Len(users)
  <1>1. TypeOK /\ GivenInv /\ LaidInv /\ CopyInv /\ ReadInv
    BY DEF IInv
  <1>2. /\ at = "read" /\ pos = Len(text) /\ at' = "loaded" /\ pos' = pos
        /\ given' = given /\ pwlen' = pwlen /\ text' = text /\ textEnds' = textEnds
        /\ seed' = seed /\ seedEnds' = seedEnds /\ users' = users
    BY DEF LoadDone
  <1>3. /\ DbLines' = DbLines /\ SeedLines' = SeedLines
        /\ \A i : Copied(given[i])' <=> Copied(given[i])
        /\ \A i : ReadableTo(i)' <=> ReadableTo(i)
        /\ \A i : ReadBack(i)' = ReadBack(i)
    BY <1>2, GivenKept
  <1>4. /\ text \in Seq(Char) /\ textEnds \in Seq(Nat) /\ Len(text) \in Nat
        /\ Len(given) \in Nat /\ n \in Nat /\ n <= Len(given)
        /\ Laid(text, textEnds, DbLines) /\ Len(textEnds) = Len(given)
        /\ ReadableTo(n) /\ users = ReadBack(n)
    BY <1>1, <1>2, StateFacts DEF TypeOK, LaidInv, ReadInv
  <1>5. n = Len(given)
    <2>1. \/ Len(text) \in Behind(textEnds, n)
          \/ n < Len(given)
             /\ \E l \in 1 .. Lead(given[n + 1].name) : Len(text) = Before(textEnds, n + 1) + l
      BY <1>1, <1>2 DEF ReadInv
    <2> HIDE DEF n
    <2>2. CASE Len(text) \in Behind(textEnds, n)
      <3>1. \A k \in 1 .. Len(textEnds) :
              DbLines[k] \in Seq(Char) /\ Len(DbLines[k]) \in Nat \ {0}
        BY <1>1, <1>4, LinesFacts
      <3>2. n \in 0 .. Len(textEnds)
        BY <1>4
      <3>3. n = Len(textEnds)
        BY <1>4, <2>2, <3>1, <3>2, ReadToEnd
      <3> QED
        BY <1>4, <3>3
    <2>3. ASSUME n < Len(given), NEW l \in 1 .. Lead(given[n + 1].name),
                 Len(text) = Before(textEnds, n + 1) + l
          PROVE  FALSE
      <3> DEFINE k == n + 1
                 a == given[k]
                 b == Before(textEnds, k)
                 d == DbLines[k]
      <3>1. k \in 1 .. Len(textEnds) /\ k \in 1 .. Len(given)
        BY <1>4, <2>3
      <3>2. Len(text) = b + l /\ l \in 1 .. Lead(a.name)
        BY <2>3
      <3> HIDE DEF k
      <3>3. a \in Account /\ d = DbLine(a) /\ d \in Seq(Char)
        BY <1>1, <3>1, StateFacts, LinesFacts
      <3>4. b \in Nat /\ textEnds[k] = b + Len(d) /\ textEnds[k] <= Len(text)
        <4>1. DbLines[k] \in Seq(Char)
          BY <3>3
        <4>2. /\ Before(textEnds, k) \in Nat /\ textEnds[k] <= Len(text)
              /\ textEnds[k] = Before(textEnds, k) + Len(DbLines[k])
          BY <1>4, <3>1, <4>1, LaidAt
        <4> QED
          BY <4>2
      <3> HIDE DEF a, b, d
      <3>5. Len(d) = Len(a.name) + 7 + 2 * Digits
        BY <3>3, DbLineAt
      <3>6. a.name \in Seq(Char) /\ Len(a.name) \in Nat /\ Digits \in Nat
        BY <3>3, AccountFacts, SizeAssumption
      <3>7. Lead(a.name) \in 0 .. Len(a.name)
        BY <3>6, NameFacts
      <3>8. b + Len(d) <= Len(text)
        BY <3>4
      <3>9. l \in Nat /\ l <= Len(a.name)
        <4> DEFINE r == Lead(a.name)
                   m == Len(a.name)
        <4>1. l \in 1 .. r /\ r \in 0 .. m /\ m \in Nat
          BY <3>2, <3>6, <3>7
        <4> HIDE DEF r, m
        <4>2. l \in Nat /\ l <= m
          BY <4>1
        <4> QED
          BY <4>2 DEF m
      <3>10. Len(d) \in Nat /\ Len(d) > Len(a.name)
        <4> DEFINE m == Len(a.name)
                   c == Len(d)
        <4>1. c = m + 7 + 2 * Digits /\ m \in Nat /\ Digits \in Nat
          BY <3>5, <3>6
        <4> HIDE DEF m, c
        <4>2. c \in Nat /\ c > m
          BY <4>1
        <4> QED
          BY <4>2 DEF m, c
      <3> QED
        BY <3>2, <3>4, <3>6, <3>8, <3>9, <3>10
    <2> QED
      BY <2>1, <2>2, <2>3
  <1>6. TypeOK'
    BY <1>1, <1>2 DEF TypeOK
  <1>7. GivenInv'
    BY <1>1, <1>2 DEF GivenInv
  <1>8. LaidInv'
    <2>1. /\ Laid(seed, seedEnds, SeedLines)'
          /\ Laid(text, textEnds, DbLines)'
      BY <1>1, <1>2, <1>3 DEF LaidInv
    <2> QED
      BY <1>2, <1>4, <2>1 DEF LaidInv
  <1>9. CopyInv'
    BY <1>1, <1>2, <1>3 DEF CopyInv
  <1>10. ReadInv'
    BY <1>1, <1>2, <1>3 DEF ReadInv
  <1>11. EndInv'
    BY <1>2, <1>5 DEF EndInv
  <1> QED
    BY <1>6, <1>7, <1>8, <1>9, <1>10, <1>11 DEF IInv

\* No step gets out of it.
LEMMA NextInv == IInv /\ [Next]_vars => IInv'
  <1> SUFFICES ASSUME IInv, [Next]_vars PROVE IInv'
    OBVIOUS
  <1>1. CASE TypeLine
    BY <1>1, TypeLineInv
  <1>2. CASE SeedTyped
    BY <1>2, SeedTypedInv
  <1>3. CASE WriteLine
    BY <1>3, WriteLineInv
  <1>4. CASE Written
    BY <1>4, WrittenInv
  <1>5. CASE CopyLine
    BY <1>5, CopyLineInv
  <1>6. CASE SeedDone
    BY <1>6, SeedDoneInv
  <1>7. CASE ReadLine
    BY <1>7, ReadLineInv
  <1>8. CASE LoadDone
    BY <1>8, LoadDoneInv
  <1>9. CASE UNCHANGED vars
    <2>1. /\ given' = given /\ pwlen' = pwlen /\ text' = text /\ textEnds' = textEnds
          /\ seed' = seed /\ seedEnds' = seedEnds /\ pos' = pos /\ users' = users /\ at' = at
      BY <1>9 DEF vars
    <2>2. /\ DbLines' = DbLines /\ SeedLines' = SeedLines
          /\ \A i : Copied(given[i])' <=> Copied(given[i])
          /\ \A i : ReadableTo(i)' <=> ReadableTo(i)
          /\ \A i : ReadBack(i)' = ReadBack(i)
          /\ Readable' <=> Readable
      BY <2>1, GivenKept
    <2>3. TypeOK' /\ GivenInv'
      BY <2>1 DEF IInv, TypeOK, GivenInv
    <2>4. LaidInv'
      <3>1. /\ Laid(seed, seedEnds, SeedLines)'
            /\ Laid(text, textEnds, DbLines)'
        BY <2>1, <2>2 DEF IInv, LaidInv
      <3> QED
        BY <2>1, <3>1 DEF IInv, LaidInv
    <2>5. CopyInv'
      BY <2>1, <2>2 DEF IInv, CopyInv
    <2>6. ReadInv'
      BY <2>1, <2>2 DEF IInv, ReadInv
    <2>7. EndInv'
      BY <2>1, <2>2 DEF IInv, EndInv
    <2> QED
      BY <2>3, <2>4, <2>5, <2>6, <2>7 DEF IInv
  <1> QED
    BY <1>1, <1>2, <1>3, <1>4, <1>5, <1>6, <1>7, <1>8, <1>9 DEF Next

-----------------------------------------------------------------------------
(* What follows.                                                           *)

\* Every state the files and the reader get into satisfies the invariant.
LEMMA Invariant == Spec => []IInv
  <1>1. Init => IInv
    BY InitInv
  <1>2. IInv /\ [Next]_vars => IInv'
    BY NextInv
  <1> QED
    BY <1>1, <1>2, PTL DEF Spec

\* The types of the texts, of the position and of the table; before and without a
\* file that is read whole there is no table.
THEOREM LinesTyped == Spec => []TypeOK
  <1>1. IInv => TypeOK
    BY DEF IInv
  <1> QED
    BY <1>1, Invariant, PTL

\* What auth_write_db writes of any table, auth_load_db reads back, name by name, if
\* and only if each name survives the file and no two of them are the same there;
\* otherwise no account of the file is loaded.
THEOREM WrittenSafety == Spec => []WrittenIsRead
  <1>1. IInv => WrittenIsRead
    BY DEF IInv, ReadInv, EndInv, WrittenIsRead, Readable
  <1> QED
    BY <1>1, Invariant, PTL

\* A seed of any length is the table of the first start, account for account, if and
\* only if every line of it can be copied and every line it becomes can be read.
THEOREM SeedSafety == Spec => []SeedIsRead
  <1>1. IInv => SeedIsRead
    <2> SUFFICES ASSUME IInv, pwlen # 0
                 PROVE  /\ at = "loaded" =>
                             /\ \A i \in 1 .. Len(given) : Copied(given[i])
                             /\ Readable /\ users = given
                        /\ at = "refused" =>
                             ~((\A i \in 1 .. Len(given) : Copied(given[i])) /\ Readable)
      BY DEF SeedIsRead
    <2>1. TypeOK /\ GivenInv /\ LaidInv /\ CopyInv /\ ReadInv /\ EndInv
      BY DEF IInv
    <2>2. ASSUME at = "loaded"
          PROVE  /\ \A i \in 1 .. Len(given) : Copied(given[i])
                 /\ Readable /\ users = given
      <3>1. Len(textEnds) = Len(given) /\ Len(users) = Len(given) /\ Readable
            /\ users = ReadBack(Len(given))
        BY <2>1, <2>2 DEF LaidInv, ReadInv, EndInv, Readable
      <3>2. \A i \in 1 .. Len(given) : Copied(given[i])
        BY <2>1, <2>2, <3>1 DEF CopyInv
      <3>3. \A i \in 1 .. Len(given) : [given[i] EXCEPT !.name = Unled(@)] = given[i]
        <4> SUFFICES ASSUME NEW i \in 1 .. Len(given)
                     PROVE  [given[i] EXCEPT !.name = Unled(@)] = given[i]
          OBVIOUS
        <4> DEFINE a == given[i]
                   v == Unled(a.name)
        <4>1. a \in Account /\ NL \notin ToSet(a.name)
          BY <2>1, StateFacts DEF GivenInv
        <4>2. /\ a.name \in Seq(Char)
              /\ a = [name |-> a.name, must_change |-> a.must_change, deleted |-> a.deleted]
          BY <4>1, AccountFacts
        <4>3. v = a.name
          BY <4>1, <4>2, NameFacts
        <4> HIDE DEF a, v
        <4>4. [a EXCEPT !.name = v] = a
          BY <4>2, <4>3
        <4> QED
          BY <4>4 DEF a, v
      <3>4. users = given
        <4>1. ReadBack(Len(given)) = [i \in 1 .. Len(given) |-> given[i]]
          BY <3>3 DEF ReadBack
        <4>2. given = [i \in 1 .. Len(given) |-> given[i]]
          <5>1. given \in Seq(Account)
            BY <2>1 DEF TypeOK
          <5> QED
            BY <5>1
        <4> QED
          BY <3>1, <4>1, <4>2
      <3> QED
        BY <3>1, <3>2, <3>4
    <2>3. ASSUME at = "refused"
          PROVE  ~((\A i \in 1 .. Len(given) : Copied(given[i])) /\ Readable)
      BY <2>1, <2>3 DEF EndInv
    <2> QED
      BY <2>2, <2>3
  <1> QED
    BY <1>1, Invariant, PTL

=============================================================================
