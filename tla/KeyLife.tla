------------------------------ MODULE KeyLife ------------------------------
(***************************************************************************)
(* What the server promises about accounts and signing keys, with nothing  *)
(* of requests, sessions and files: an account is active or tombstoned, a  *)
(* key is published once, for one user, and is withdrawn only from a       *)
(* tombstoned account.  An operation that is cut short may leave a user    *)
(* without a published key until a deletion completes.                     *)
(***************************************************************************)
EXTENDS Integers

CONSTANTS User, Key, NoKey

VARIABLES
  life,    \* "absent", "active" or "tombstone"
  key,     \* the published key of a user, NoKey if there is none
  used,    \* keys that cannot be published any more
  broken   \* users an operation on whom was cut short

vars == <<life, key, used, broken>>

Init ==
  /\ life \in [User -> {"absent", "active", "tombstone"}]
  /\ key \in [User -> used \cup {NoKey}]
  /\ used \subseteq Key
  /\ broken \subseteq User

Register(u) ==
  /\ life[u] # "active"
  /\ life' = [life EXCEPT ![u] = "active"]
  /\ UNCHANGED <<key, used, broken>>

Publish(u, k) ==
  /\ life[u] = "active" /\ key[u] = NoKey /\ u \notin broken
  /\ k \notin used
  /\ key' = [key EXCEPT ![u] = k]
  /\ used' = used \cup {k}
  /\ UNCHANGED <<life, broken>>

\* A key that was made and never published.
Discard(k) ==
  /\ used' = used \cup {k}
  /\ UNCHANGED <<life, key, broken>>

Delete(u) ==
  /\ life[u] = "active"
  /\ life' = [life EXCEPT ![u] = "tombstone"]
  /\ UNCHANGED <<key, used, broken>>

Withdraw(u) ==
  /\ life[u] = "tombstone"
  /\ key' = [key EXCEPT ![u] = NoKey]
  /\ broken' = broken \ {u}
  /\ UNCHANGED <<life, used>>

\* An operation on u is cut short, having made a key or not.
Interrupt(u) ==
  /\ key' = [key EXCEPT ![u] = NoKey]
  /\ broken' = broken \cup {u}
  /\ used' \in {used} \cup {used \cup {k} : k \in Key}
  /\ UNCHANGED life

Next ==
  \/ \E u \in User : Register(u) \/ Delete(u) \/ Withdraw(u) \/ Interrupt(u)
  \/ \E u \in User, k \in Key : Publish(u, k)
  \/ \E k \in Key : Discard(k)

Spec == Init /\ [][Next]_vars

=============================================================================
