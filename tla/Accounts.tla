------------------------------ MODULE Accounts ------------------------------
(***************************************************************************)
(* The account store of server/auth.c: the table g_users the server works  *)
(* on and the file server/res/users.db behind it.  A table reaches the     *)
(* file whole or not at all (a temporary file, then rename), so a write is *)
(* one step; what differs is what a failed write leaves in memory.         *)
(***************************************************************************)
EXTENDS DssData

VARIABLES
  db,   \* server/res/users.db
  mem   \* g_users; empty while no server runs

accountVars == <<db, mem>>

EmptyTable == [u \in User |-> NoAccount]

\* A temporary file, filled and synced, is renamed over users.db.
auth_write_db(table) == db' = table

auth_load_db == mem' = db /\ UNCHANGED db

\* The process ends and its table with it.
TableGone == mem' = EmptyTable /\ UNCHANGED db

auth_verify_password(u, p) == mem[u] # NoAccount /\ mem[u].pw = p

auth_get_deleted(u) == mem[u].deleted

\* The record after a password change; a tombstone stays.
auth_apply_new_password(a, p) == [pw |-> p, must_change |-> 0, deleted |-> a.deleted]

Changed(u, p) == [mem EXCEPT ![u] = auth_apply_new_password(mem[u], p)]

\* Mutant: the new password is never written to the account file.
ChangeInMemory(u, p) == mem' = Changed(u, p) /\ UNCHANGED db

auth_change_password_authenticated(u, p) ==
  /\ mem' = Changed(u, p)
  /\ auth_write_db(Changed(u, p))

\* auth_write_db failed: the table in memory keeps the new password.
ChangeUnwritten(u, p) ==
  /\ mem' = Changed(u, p)
  /\ UNCHANGED db

\* Mutant: the tombstone is set in memory only.
SetDeletedInMemory(u) ==
  /\ mem' = [mem EXCEPT ![u] = [mem[u] EXCEPT !.deleted = 1]]
  /\ UNCHANGED db

\* A failed write restores the old flag, so failure changes nothing.
auth_set_deleted(u) ==
  /\ mem' = [mem EXCEPT ![u] = [mem[u] EXCEPT !.deleted = 1]]
  /\ auth_write_db(mem')

\* Mutant: the tool overwrites whatever record there is.
RegistrableAlways(table, u) == u \in DOMAIN table

\* tools/account_provision register: ap_update_record on a deleted account,
\* ap_append_user on an unknown name; an active account is left alone.
Registrable(table, u) ==
  \/ table[u] = NoAccount
  \/ table[u] # NoAccount /\ table[u].deleted = 1

Registered(table, u, p) ==
  [table EXCEPT ![u] = [pw |-> p, must_change |-> 1, deleted |-> 0]]

\* The tool writes the way the server does, under a temporary name of its own.
ap_write_db_atomic(table) == db' = table

=============================================================================
