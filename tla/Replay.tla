------------------------------- MODULE Replay -------------------------------
(***************************************************************************)
(* The replay cache of common/replay.c: a ring of Capacity request nonces, *)
(* the number of slots in use and the slot the next fresh nonce goes to.   *)
(* replay_init, replay_check_and_add and replay_free are the actions; the  *)
(* value replay_check_and_add returned last is kept in result.             *)
(***************************************************************************)
EXTENDS Integers, Sequences

CONSTANTS
  Nonce,     \* the request nonces that can arrive
  Capacity,  \* REPLAY_DEFAULT_CAPACITY: slots of the ring
  NoNonce    \* the content of a slot no nonce was stored in (calloc's zeroes)

ASSUME CapacityAssumption == Capacity \in Nat \ {0}
ASSUME NonceAssumption == NoNonce \notin Nonce

VARIABLES
  entries,     \* the slots, indexed from 0; NoEntries when not allocated
  capacity,    \* number of slots allocated, 0 when not allocated
  count,       \* number of slots in use
  next_index,  \* the slot the next fresh nonce goes to
  result       \* what the last replay_check_and_add returned

cacheVars == <<entries, capacity, count, next_index>>
vars == <<entries, capacity, count, next_index, result>>

Slots == 0 .. Capacity - 1

NoEntries == [i \in {} |-> NoNonce]

\* The cache main clears before replay_init.
Init ==
  /\ entries = NoEntries
  /\ capacity = 0
  /\ count = 0
  /\ next_index = 0
  /\ result = 0

replay_init ==
  /\ capacity = 0
  /\ entries' = [i \in Slots |-> NoNonce]
  /\ capacity' = Capacity
  /\ count' = 0
  /\ next_index' = 0
  /\ UNCHANGED result

\* Mutant: the scan stops one slot short of the slots in use.
SeenShort(n) == \E i \in 0 .. count - 2 : entries[i] = n

\* The scan looks only at the slots in use.
Seen(n) == \E i \in 0 .. count - 1 : entries[i] = n

\* Mutants: the count passes the capacity; the head stops at the last slot instead
\* of wrapping.
StoreOvercounts(n) ==
  /\ entries' = [entries EXCEPT ![next_index] = n]
  /\ next_index' = (next_index + 1) % capacity
  /\ count' = count + 1
  /\ UNCHANGED capacity

StoreNoWrap(n) ==
  /\ entries' = [entries EXCEPT ![next_index] = n]
  /\ next_index' = IF next_index + 1 < capacity THEN next_index + 1 ELSE next_index
  /\ count' = IF count < capacity THEN count + 1 ELSE count
  /\ UNCHANGED capacity

\* Insert at the ring head: overwrites the oldest nonce once the ring is full.
Store(n) ==
  /\ entries' = [entries EXCEPT ![next_index] = n]
  /\ next_index' = (next_index + 1) % capacity
  /\ count' = IF count < capacity THEN count + 1 ELSE count
  /\ UNCHANGED capacity

replay_check_and_add(n) ==
  \/ /\ capacity = 0
     /\ result' = -1
     /\ UNCHANGED cacheVars
  \/ /\ capacity # 0
     /\ Seen(n)
     /\ result' = 0
     /\ UNCHANGED cacheVars
  \/ /\ capacity # 0
     /\ ~Seen(n)
     /\ Store(n)
     /\ result' = 1

replay_free ==
  /\ capacity # 0
  /\ entries' = NoEntries
  /\ capacity' = 0
  /\ count' = 0
  /\ next_index' = 0
  /\ UNCHANGED result

Next ==
  \/ replay_init
  \/ \E n \in Nonce : replay_check_and_add(n)
  \/ replay_free

Spec == Init /\ [][Next]_vars

-----------------------------------------------------------------------------

\* Types of the cache: allocated with Capacity slots, or not allocated at all.
TypeOK ==
  /\ capacity \in {0, Capacity}
  /\ entries \in [0 .. capacity - 1 -> Nonce \cup {NoNonce}]
  /\ count \in 0 .. capacity
  /\ next_index \in 0 .. Capacity - 1
  /\ result \in {-1, 0, 1}

\* No nonce occupies two slots: a nonce is stored only when the scan of the
\* slots in use missed it, so an eviction can never leave a second copy behind
\* that would keep refusing a nonce the window has already forgotten.
NoDuplicateSlots ==
  \A i, j \in 0 .. count - 1 : entries[i] = entries[j] => i = j

\* While the ring fills up, the head is the first unused slot, so the slots the
\* scan reads (0 .. count - 1) are exactly the slots written: a check never
\* misses a stored nonce, nor compares with calloc's zeroes.
HeadFollowsCount ==
  /\ count < capacity => next_index = count
  /\ \A i \in 0 .. count - 1 : entries[i] # NoNonce

\* The slots of the ring from the oldest to the newest.
Remembered ==
  [k \in 1 .. count |->
     entries[IF count < capacity THEN k - 1 ELSE (next_index + k - 1) % capacity]]

Window == INSTANCE ReplayWindow WITH
  open <- capacity # 0,
  window <- Remembered

\* The ring implements the sliding window replay.h describes: a nonce is refused
\* exactly while it is one of the last Capacity fresh ones, oldest out first.
ImplementsWindow == Window!Spec

=============================================================================
