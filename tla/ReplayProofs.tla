---------------------------- MODULE ReplayProofs ----------------------------
(***************************************************************************)
(* Proofs about Replay, for every set of nonces and every capacity: the    *)
(* ring's invariants, and that the ring implements the sliding window.     *)
(***************************************************************************)
EXTENDS Replay, SeqFacts, SequenceTheorems, TLAPS

RingInv == TypeOK /\ NoDuplicateSlots /\ HeadFollowsCount

LEMMA InitRing == Init => RingInv
  BY CapacityAssumption
  DEF Init, RingInv, TypeOK, NoDuplicateSlots, HeadFollowsCount, NoEntries

LEMMA NextRing == RingInv /\ [Next]_vars => RingInv'
  <1> SUFFICES ASSUME RingInv, [Next]_vars PROVE RingInv'
    OBVIOUS
  <1> USE CapacityAssumption, NonceAssumption
  <1>1. CASE replay_init
    BY <1>1 DEF replay_init, RingInv, TypeOK, NoDuplicateSlots, HeadFollowsCount, Slots
  <1>2. CASE replay_free
    BY <1>2 DEF replay_free, RingInv, TypeOK, NoDuplicateSlots, HeadFollowsCount, NoEntries
  <1>3. ASSUME NEW n \in Nonce, replay_check_and_add(n)
        PROVE  RingInv'
    <2>1. CASE UNCHANGED cacheVars /\ result' \in {-1, 0}
      BY <2>1 DEF RingInv, TypeOK, NoDuplicateSlots, HeadFollowsCount, cacheVars
    <2>2. CASE capacity # 0 /\ ~Seen(n) /\ Store(n) /\ result' = 1
      <3> USE <2>2 DEF RingInv, Store
      <3>1. capacity = Capacity /\ capacity' = Capacity /\ next_index \in Slots
        BY DEF TypeOK, Slots
      <3>2. next_index' = IF next_index + 1 < Capacity THEN next_index + 1 ELSE 0
        <4>1. capacity \in Nat \ {0} /\ next_index \in 0 .. capacity - 1
          BY <3>1 DEF Slots
        <4> QED
          BY <4>1, <3>1, HeadMoves
      <3>3. TypeOK'
        BY <3>1, <3>2 DEF TypeOK
      <3>4. HeadFollowsCount'
        BY <3>1, <3>2 DEF TypeOK, HeadFollowsCount
      <3>5. NoDuplicateSlots'
        BY <3>1, <3>2 DEF TypeOK, NoDuplicateSlots, HeadFollowsCount, Seen
      <3> QED
        BY <3>3, <3>4, <3>5
    <2> QED
      BY <1>3, <2>1, <2>2 DEF replay_check_and_add
  <1>4. CASE UNCHANGED vars
    BY <1>4 DEF RingInv, TypeOK, NoDuplicateSlots, HeadFollowsCount, vars
  <1> QED
    BY <1>1, <1>2, <1>3, <1>4 DEF Next

\* No nonce is ever in two slots, and the slots that are scanned are the slots
\* that were written.
THEOREM RingCorrect == Spec => [](NoDuplicateSlots /\ HeadFollowsCount)
  <1>1. RingInv => NoDuplicateSlots /\ HeadFollowsCount
    BY DEF RingInv
  <1> QED
    BY InitRing, NextRing, <1>1, PTL DEF Spec

\* The ring keeps its types: its slots are allocated together or not at all, and
\* count and head stay inside them.
THEOREM RingTypes == Spec => []TypeOK
  <1>1. RingInv => TypeOK
    BY DEF RingInv
  <1> QED
    BY InitRing, NextRing, <1>1, PTL DEF Spec

-----------------------------------------------------------------------------
(* The ring is the sliding window.                                         *)

\* The slot of the k-th oldest nonce, with the remainder worked out.
LEMMA SlotOf ==
  ASSUME NEW c \in Nat \ {0}, NEW h \in 0 .. c - 1, NEW k \in 1 .. c
  PROVE  (h + k - 1) % c = IF h + k - 1 < c THEN h + k - 1 ELSE h + k - 1 - c
  <1> DEFINE x == h + k - 1
  <1>1. x \in 0 .. 2 * c - 1
    OBVIOUS
  <1>2. x % c = IF x < c THEN x ELSE x - c
    <2> HIDE DEF x
    <2> QED
      BY <1>1, ModWraps
  <1> QED
    BY <1>2

Slot(k) ==
  IF count < capacity THEN k - 1
  ELSE IF next_index + k - 1 < capacity THEN next_index + k - 1
  ELSE next_index + k - 1 - capacity

\* The remembered nonces are a sequence, and each is in a slot in use.
WindowInSlots ==
  /\ Remembered \in Seq(Nonce \cup {NoNonce})
  /\ Len(Remembered) = count /\ DOMAIN Remembered = 1 .. count
  /\ \A k \in 1 .. count : Slot(k) \in 0 .. count - 1 /\ Remembered[k] = entries[Slot(k)]

LEMMA RememberedSeq == RingInv => WindowInSlots
  <1> SUFFICES ASSUME RingInv PROVE WindowInSlots
    OBVIOUS
  <1> USE CapacityAssumption
  <1>1. /\ capacity \in Nat /\ count \in 0 .. capacity
        /\ entries \in [0 .. capacity - 1 -> Nonce \cup {NoNonce}]
        /\ capacity # 0 => next_index \in 0 .. capacity - 1
    BY DEF RingInv, TypeOK
  <1>2. ASSUME NEW k \in 1 .. count
        PROVE  /\ Slot(k) \in 0 .. count - 1
               /\ Slot(k) = IF count < capacity THEN k - 1 ELSE (next_index + k - 1) % capacity
    <2>1. CASE count < capacity
      BY <1>1, <2>1 DEF Slot
    <2>2. CASE count = capacity
      <3>1. capacity \in Nat \ {0} /\ next_index \in 0 .. capacity - 1 /\ k \in 1 .. capacity
        BY <1>1, <2>2
      <3>2. (next_index + k - 1) % capacity
              = IF next_index + k - 1 < capacity THEN next_index + k - 1
                ELSE next_index + k - 1 - capacity
        BY <3>1, SlotOf
      <3>3. Slot(k) = (next_index + k - 1) % capacity
        BY <2>2, <3>1, <3>2 DEF Slot
      <3>4. Slot(k) \in 0 .. capacity - 1
        BY <2>2, <3>1 DEF Slot
      <3> QED
        BY <2>2, <3>1, <3>3, <3>4
    <2> QED
      BY <1>1, <2>1, <2>2
  <1>3. Remembered = [k \in 1 .. count |-> entries[Slot(k)]]
    BY <1>2 DEF Remembered
  <1>4. \A k \in 1 .. count : entries[Slot(k)] \in Nonce \cup {NoNonce}
    BY <1>1, <1>2
  <1> QED
    BY <1>1, <1>2, <1>3, <1>4 DEF WindowInSlots

LEMMA RememberedSeqNext == RingInv' => WindowInSlots'
  BY RememberedSeq, PTL

\* The scan of the slots finds what the window remembers.
LEMMA SeenRemembered == RingInv => \A n : Window!Remembered(n) <=> Seen(n)
  <1> SUFFICES ASSUME RingInv, NEW n PROVE Window!Remembered(n) <=> Seen(n)
    OBVIOUS
  <1>1. /\ DOMAIN Remembered = 1 .. count
        /\ \A k \in 1 .. count : Slot(k) \in 0 .. count - 1 /\ Remembered[k] = entries[Slot(k)]
    BY RememberedSeq DEF WindowInSlots
  <1>2. \A i \in 0 .. count - 1 : \E k \in 1 .. count : Slot(k) = i
    <2> SUFFICES ASSUME NEW i \in 0 .. count - 1 PROVE \E k \in 1 .. count : Slot(k) = i
      OBVIOUS
    <2>1. /\ capacity \in Nat /\ count \in 0 .. capacity
          /\ capacity # 0 => next_index \in 0 .. capacity - 1
      BY CapacityAssumption DEF RingInv, TypeOK
    <2>2. CASE count < capacity
      <3>1. i + 1 \in 1 .. count /\ Slot(i + 1) = i
        BY <2>1, <2>2 DEF Slot
      <3> QED
        BY <3>1
    <2>3. CASE count = capacity /\ i >= next_index
      <3>1. i - next_index + 1 \in 1 .. count /\ Slot(i - next_index + 1) = i
        BY <2>1, <2>3 DEF Slot
      <3> QED
        BY <3>1
    <2>4. CASE count = capacity /\ i < next_index
      <3>1. /\ i - next_index + 1 + capacity \in 1 .. count
            /\ Slot(i - next_index + 1 + capacity) = i
        BY <2>1, <2>4 DEF Slot
      <3> QED
        BY <3>1
    <2> QED
      BY <2>1, <2>2, <2>3, <2>4
  <1> QED
    BY <1>1, <1>2 DEF Window!Remembered, Seen

\* Storing a fresh nonce slides the window.
LEMMA StoreSlides ==
  ASSUME RingInv, RingInv', capacity # 0, NEW n \in Nonce, Store(n)
  PROVE  Remembered' = Window!Slide(n)
  <1> DEFINE V == Nonce \cup {NoNonce}
             R == Remembered
  <1>1. /\ R \in Seq(V) /\ Len(R) = count
        /\ \A k \in 1 .. count : R[k] = entries[Slot(k)]
    BY RememberedSeq DEF WindowInSlots
  <1>2. /\ R' \in Seq(V) /\ Len(R') = count'
        /\ \A k \in 1 .. count' : R'[k] = entries'[Slot(k)']
    BY RememberedSeqNext DEF WindowInSlots
  <1>3. /\ capacity = Capacity /\ capacity' = Capacity /\ Capacity \in Nat \ {0}
        /\ count \in 0 .. Capacity /\ next_index \in 0 .. Capacity - 1
        /\ entries \in [0 .. Capacity - 1 -> V] /\ n \in V
    BY CapacityAssumption DEF RingInv, TypeOK, Store
  <1>4. next_index' = IF next_index + 1 < Capacity THEN next_index + 1 ELSE 0
    BY <1>3, HeadMoves DEF Store
  <1>5. /\ entries'[next_index] = n
        /\ \A i \in 0 .. Capacity - 1 : i # next_index => entries'[i] = entries[i]
    BY <1>3 DEF Store
  <1>6. CASE count < capacity
    <2>1. next_index = count /\ count' = count + 1
      BY <1>3, <1>6 DEF RingInv, HeadFollowsCount, Store
    <2>2. Append(R, n) \in Seq(V) /\ Len(Append(R, n)) = count + 1
      BY <1>1, <1>3
    <2>3. ASSUME NEW k \in 1 .. count + 1 PROVE R'[k] = Append(R, n)[k]
      <3>1. Slot(k)' = k - 1
        BY <1>3, <1>4, <2>1 DEF Slot
      <3>2. CASE k <= count
        <4>1. Slot(k) = k - 1 /\ k - 1 # next_index /\ k - 1 \in 0 .. Capacity - 1
          BY <1>3, <1>6, <2>1, <3>2 DEF Slot
        <4>2. Append(R, n)[k] = R[k]
          BY <1>1, <1>3, <3>2
        <4> QED
          BY <1>1, <1>2, <1>3, <1>5, <2>1, <3>1, <3>2, <4>1, <4>2
      <3>3. CASE k = count + 1
        <4>1. Append(R, n)[k] = n
          BY <1>1, <1>3, <3>3
        <4> QED
          BY <1>2, <1>3, <1>5, <2>1, <3>1, <3>3, <4>1
      <3>4. k <= count \/ k = count + 1
        BY <1>3
      <3> QED
        BY <3>2, <3>3, <3>4
    <2>4. R' = Append(R, n)
      <3> HIDE DEF R
      <3> QED
        BY <1>2, <2>1, <2>2, <2>3, SeqEqual
    <2> QED
      BY <1>1, <1>3, <1>6, <2>4 DEF Window!Slide
  <1>7. CASE count = capacity
    <2>1. count' = count /\ count = Capacity
      BY <1>3, <1>7 DEF Store
    <2>2. /\ Tail(R) \in Seq(V) /\ Len(Tail(R)) = count - 1
          /\ \A k \in 1 .. count - 1 : Tail(R)[k] = R[k + 1]
      BY <1>1, <1>3, <2>1
    <2>3. Append(Tail(R), n) \in Seq(V) /\ Len(Append(Tail(R), n)) = count
      BY <1>3, <2>1, <2>2
    <2>4. ASSUME NEW k \in 1 .. count PROVE R'[k] = Append(Tail(R), n)[k]
      <3>1. CASE k < count
        <4>1. /\ Slot(k)' = Slot(k + 1) /\ Slot(k)' # next_index
              /\ Slot(k)' \in 0 .. Capacity - 1
          BY <1>3, <1>4, <2>1, <3>1 DEF Slot
        <4>2. Append(Tail(R), n)[k] = R[k + 1] /\ k + 1 \in 1 .. count
          BY <1>3, <2>1, <2>2, <3>1
        <4> QED
          BY <1>1, <1>2, <1>5, <2>1, <4>1, <4>2
      <3>2. CASE k = count
        <4>1. Slot(k)' = next_index
          BY <1>3, <1>4, <2>1, <3>2 DEF Slot
        <4>2. Append(Tail(R), n)[k] = n
          BY <1>3, <2>1, <2>2, <3>2
        <4> QED
          BY <1>2, <1>5, <2>1, <4>1, <4>2
      <3>3. k < count \/ k = count
        BY <1>3
      <3> QED
        BY <3>1, <3>2, <3>3
    <2>5. R' = Append(Tail(R), n)
      <3> HIDE DEF R
      <3> QED
        BY <1>2, <2>1, <2>3, <2>4, SeqEqual
    <2> QED
      BY <1>1, <1>3, <1>7, <2>5 DEF Window!Slide
  <1> QED
    BY <1>3, <1>6, <1>7

\* The ring of replay.c implements the window replay.h describes.
THEOREM RingIsWindow == Spec => ImplementsWindow
  <1>1. Init => Window!Init
    <2> SUFFICES ASSUME Init PROVE Window!Init
      OBVIOUS
    <2>1. Remembered \in Seq(Nonce \cup {NoNonce}) /\ Len(Remembered) = 0
      BY InitRing, RememberedSeq DEF Init, WindowInSlots
    <2> QED
      BY <2>1, EmptySeq DEF Init, Window!Init
  <1>2. RingInv /\ RingInv' /\ [Next]_vars
          => [Window!Next]_<<capacity # 0, Remembered, result>>
    <2> SUFFICES ASSUME RingInv, RingInv', [Next]_vars
                 PROVE  [Window!Next]_<<capacity # 0, Remembered, result>>
      OBVIOUS
    <2>1. /\ count = 0 => Remembered = <<>>
          /\ count' = 0 => Remembered' = <<>>
      BY RememberedSeq, RememberedSeqNext, EmptySeq DEF WindowInSlots
    <2>2. CASE replay_init
      BY <2>1, <2>2, CapacityAssumption DEF replay_init, RingInv, TypeOK, Window!Next, Window!Open
    <2>3. CASE replay_free
      BY <2>1, <2>3 DEF replay_free, Window!Next, Window!Close
    <2>4. ASSUME NEW n \in Nonce, replay_check_and_add(n)
          PROVE  [Window!Next]_<<capacity # 0, Remembered, result>>
      <3>1. UNCHANGED cacheVars => UNCHANGED Remembered
        BY DEF cacheVars, Remembered
      <3>2. Window!Remembered(n) <=> Seen(n)
        BY SeenRemembered
      <3>3. capacity # 0 /\ Store(n) => Remembered' = Window!Slide(n) /\ capacity' = capacity
        BY StoreSlides DEF Store
      <3>4. Window!Check(n)
        BY <2>4, <3>1, <3>2, <3>3 DEF replay_check_and_add, Window!Check, cacheVars
      <3> QED
        BY <3>4 DEF Window!Next
    <2>5. CASE UNCHANGED vars
      BY <2>5 DEF vars, Remembered
    <2> QED
      BY <2>2, <2>3, <2>4, <2>5 DEF Next
  <1> QED
    BY InitRing, NextRing, <1>1, <1>2, PTL DEF Spec, ImplementsWindow, Window!Spec

=============================================================================
