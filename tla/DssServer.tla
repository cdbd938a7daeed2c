----------------------------- MODULE DssServer -----------------------------
(***************************************************************************)
(* The signature server: the request dispatcher of server/main.c on top of *)
(* the account store and the key files, and the provisioning tool that     *)
(* shares the account file with it.  A server process serves one           *)
(* connection; its session is the client's login.  A request that touches  *)
(* the disk is a sequence of steps, one for each change another process or *)
(* a restart can observe, and the process can die between any two.         *)
(***************************************************************************)
EXTENDS Accounts, KeyStore

CONSTANTS
  Unkeyable,   \* usernames no session key is derived for: longer than 243
               \* bytes (the salt buffer) or with a '/' (ks_build_user_paths)
  Shape,       \* what a user may start as, a subset of Shapes
  ToolOnline,  \* may the provisioning tool run while a server runs?
  MaxCrashes,  \* bound: processes that die within a request
  MaxFaults,   \* bound: failing system or library calls
  NoUser,      \* the username of a cleared session
  NoKey,       \* the key of a session without one
  NoTable      \* the tool's copy of the table before it reads one

Shapes == {"absent", "fresh", "keyed", "legacy", "tombstoned", "leftover"}

ASSUME UnkeyableAssumption == Unkeyable \subseteq User
ASSUME ShapeAssumption == Shape \subseteq Shapes
ASSUME ToolOnlineAssumption == ToolOnline \in BOOLEAN
ASSUME BoundsAssumption == MaxCrashes \in Nat /\ MaxFaults \in Nat
ASSUME NoneAssumption == NoUser \notin User /\ NoKey \notin WrapKey /\ NoTable \notin Table

VARIABLES
  pc,       \* "down", "idle" (waiting for a frame), or the step a request is at
  sess,     \* session_state_t
  job,      \* locals of the request: new password, key pair, wrapping key
  reply,    \* the response just sent
  nkeys,    \* key pairs generated
  tool,     \* a run of account_provision: its arguments and copy of the table
  crashes,  \* processes that died within a request
  faults,   \* calls that failed
  cut,      \* history: users an operation on whom was cut short
  acked     \* history: users whose DELETE_KEYS was answered OK

serverVars == <<pc, sess, job, reply>>
historyVars == <<cut, acked>>
vars == <<db, mem, pub, enc, pc, sess, job, reply, nkeys, tool, crashes, faults,
          cut, acked>>

Op == {"AUTH", "CHANGE_PASSWORD", "CREATE_KEYS", "SIGN_DOC", "GET_PUBLIC_KEY",
       "DELETE_KEYS", "LOGOUT", "UNKNOWN"}

Status == {"OK", "ERR_AUTH", "ERR_BAD_REQ", "ERR_INTERNAL", "ERR_NOT_FOUND",
           "ERR_DELETED"}

Step == {"chg_enc", "chg_db", "crt_pub", "crt_open", "crt_enc", "del_pub", "del_enc"}

ClearedSession ==
  [is_authenticated |-> 0, username |-> NoUser, must_change |-> 0,
   deleted |-> 0, key |-> NoKey, has_key |-> 0]

NoJob == [pw |-> NoKey, key |-> 0, wrap |-> NoKey]
NoReply == [op |-> "NONE", st |-> "NONE"]
ToolIdle == [user |-> NoUser, pw |-> NoKey, table |-> NoTable]

Down == pc = "down"
MidRequest == pc \in Step
me == sess.username

-----------------------------------------------------------------------------

StartAccount(s, p) ==
  CASE s = "absent" -> NoAccount
    [] s = "fresh" -> [pw |-> p, must_change |-> 1, deleted |-> 0]
    [] s \in {"keyed", "legacy"} -> [pw |-> p, must_change |-> 0, deleted |-> 0]
    [] s \in {"tombstoned", "leftover"} -> [pw |-> p, must_change |-> 0, deleted |-> 1]

StartEnc(u, s, p) ==
  CASE s \in {"keyed", "leftover"} -> Wrapped(0, LoginKey(u, p))
    [] s = "legacy" -> [ver |-> 1, key |-> 0, wrap |-> BlobKey(u, p)]
    [] OTHER -> NoFile

StartPub(s) == IF s \in {"keyed", "legacy", "leftover"} THEN 0 ELSE NoFile

\* No request gives a user without a session key any key file.
Possible(u, s) == u \in Unkeyable => s \in {"absent", "fresh", "tombstoned"}

Init ==
  /\ \E s \in [User -> Shape], p \in [User -> Password] :
       /\ \A u \in User : Possible(u, s[u])
       /\ db = [u \in User |-> StartAccount(s[u], p[u])]
       /\ enc = [u \in User |-> StartEnc(u, s[u], p[u])]
       /\ pub = [u \in User |-> StartPub(s[u])]
       /\ cut = {u \in User : s[u] = "leftover"}
  /\ mem = EmptyTable
  /\ pc = "down"
  /\ sess = ClearedSession
  /\ job = NoJob
  /\ reply = NoReply
  /\ nkeys = 0
  /\ tool = ToolIdle
  /\ crashes = 0
  /\ faults = 0
  /\ acked = {}

-----------------------------------------------------------------------------
(* What the request handlers are made of.                                  *)

Fault == faults < MaxFaults /\ faults' = faults + 1
NoFault == UNCHANGED faults

Answer(op, st) ==
  /\ pc' = "idle"
  /\ job' = NoJob
  /\ reply' = [op |-> op, st |-> st]

Goto(step, j) ==
  /\ pc' = step
  /\ job' = j
  /\ reply' = NoReply

CutShort(u) == cut' = cut \cup {u} /\ UNCHANGED acked

\* The dispatcher's checks, in its order; a request passes the ones before.
NeedsLogin(op) ==
  op \notin {"AUTH", "GET_PUBLIC_KEY"} /\ sess.is_authenticated = 0

SessionDeleted(op) ==
  /\ sess.is_authenticated = 1
  /\ sess.deleted = 1
  /\ op \notin {"AUTH", "GET_PUBLIC_KEY", "LOGOUT"}

MustChangeFirst(op) ==
  sess.must_change = 1 /\ op \notin {"CHANGE_PASSWORD", "AUTH", "LOGOUT"}

LacksKey(op) ==
  /\ sess.has_key # 1
  /\ op \in {"CHANGE_PASSWORD", "CREATE_KEYS", "SIGN_DOC", "DELETE_KEYS"}

Admitted(op) ==
  /\ pc = "idle"
  /\ ~NeedsLogin(op)
  /\ ~SessionDeleted(op)
  /\ ~MustChangeFirst(op)
  /\ ~LacksKey(op)

Refuse(op) ==
  /\ pc = "idle"
  /\ \/ NeedsLogin(op) /\ Answer(op, "ERR_AUTH")
     \/ ~NeedsLogin(op) /\ SessionDeleted(op) /\ Answer(op, "ERR_DELETED")
     \/ /\ ~NeedsLogin(op) /\ ~SessionDeleted(op)
        /\ MustChangeFirst(op) \/ LacksKey(op)
        /\ Answer(op, "ERR_AUTH")
     \/ \* GET_PUBLIC_KEY without a target needs a login of its own
        /\ op = "GET_PUBLIC_KEY" /\ sess.is_authenticated = 0
        /\ Answer(op, "ERR_AUTH")
  /\ UNCHANGED <<accountVars, fileVars, sess, nkeys, tool, crashes, faults, historyVars>>

\* A payload whose lengths do not add up, a document over 65535 bytes, or an
\* opcode the switch has no case for.
BadRequest(op) ==
  /\ op \in {"AUTH", "CHANGE_PASSWORD", "SIGN_DOC", "GET_PUBLIC_KEY", "UNKNOWN"}
  /\ Admitted(op)
  /\ Answer(op, "ERR_BAD_REQ")
  /\ UNCHANGED <<accountVars, fileVars, sess, nkeys, tool, crashes, faults, historyVars>>

-----------------------------------------------------------------------------
(* Start, end and death of the server process.                             *)

\* Read the account file, accept a client, agree on keys.
Boot ==
  /\ Down
  /\ ToolOnline \/ tool = ToolIdle
  /\ auth_load_db
  /\ pc' = "idle"
  /\ reply' = NoReply
  /\ UNCHANGED <<fileVars, sess, job, nkeys, tool, crashes, faults, historyVars>>

GoDown ==
  /\ TableGone
  /\ pc' = "down"
  /\ sess' = ClearedSession
  /\ job' = NoJob
  /\ reply' = NoReply

\* The client left, or its frame or the response to it was lost: the process
\* leaves the loop and exits.
Exit ==
  /\ pc = "idle"
  /\ GoDown
  /\ UNCHANGED <<fileVars, nkeys, tool, crashes, faults, historyVars>>

\* The process dies in the middle of a request.
Crash ==
  /\ MidRequest
  /\ crashes < MaxCrashes
  /\ crashes' = crashes + 1
  /\ GoDown
  /\ CutShort(me)
  /\ UNCHANGED <<fileVars, nkeys, tool, faults>>

-----------------------------------------------------------------------------
(* OP_AUTH                                                                 *)

\* Mutants: a failed derivation still counts as a key; the pending password
\* change is not copied into the session.
SessionAlwaysKeyed(u, key, has) ==
  [is_authenticated |-> 1, username |-> u, must_change |-> mem[u].must_change,
   deleted |-> mem[u].deleted, key |-> key, has_key |-> 1]

SessionIgnoresChange(u, key, has) ==
  [is_authenticated |-> 1, username |-> u, must_change |-> 0,
   deleted |-> mem[u].deleted, key |-> key, has_key |-> has]

SessionOf(u, key, has) ==
  [is_authenticated |-> 1, username |-> u, must_change |-> mem[u].must_change,
   deleted |-> mem[u].deleted, key |-> key, has_key |-> has]

LoggedIn(u, p) ==
  IF u \in Unkeyable
  THEN SessionOf(u, NoKey, 0)
  ELSE SessionOf(u, ks_derive_session_key(u, p), 1)

AuthOk(u, p) ==
  /\ pc = "idle"
  /\ auth_verify_password(u, p)
  /\ \/ sess' = LoggedIn(u, p) /\ NoFault
     \/ \* the key derivation failed: a login without a key
        sess' = SessionOf(u, NoKey, 0) /\ Fault
     \/ \* private.enc could not be read: the username's salt is used
        /\ u \notin Unkeyable
        /\ ks_derive_session_key(u, p) # LoginKey(u, p)
        /\ sess' = SessionOf(u, LoginKey(u, p), 1)
        /\ Fault
  /\ Answer("AUTH", "OK")
  /\ UNCHANGED <<accountVars, fileVars, nkeys, tool, crashes, historyVars>>

\* No memory for the response: the client reads an error, the session is set.
AuthUnanswered(u, p) ==
  /\ pc = "idle"
  /\ auth_verify_password(u, p)
  /\ sess' = LoggedIn(u, p)
  /\ Answer("AUTH", "ERR_INTERNAL")
  /\ Fault
  /\ UNCHANGED <<accountVars, fileVars, nkeys, tool, crashes, historyVars>>

\* A wrong name or password leaves the session there was.
AuthBad(u, p) ==
  /\ pc = "idle"
  /\ \/ ~auth_verify_password(u, p) /\ NoFault
     \/ auth_verify_password(u, p) /\ Fault
  /\ Answer("AUTH", "ERR_AUTH")
  /\ UNCHANGED <<accountVars, fileVars, sess, nkeys, tool, crashes, historyVars>>

Logout ==
  /\ Admitted("LOGOUT")
  /\ sess' = ClearedSession
  /\ Answer("LOGOUT", "OK")
  /\ UNCHANGED <<accountVars, fileVars, nkeys, tool, crashes, faults, historyVars>>

-----------------------------------------------------------------------------
(* OP_CHANGE_PASSWORD: re-encrypt the private key, then change the record.  *)

\* Mutant: the private key is encrypted again under the old key.
ChangeJobOldKey(p, key, k) == [pw |-> p, key |-> key, wrap |-> sess.key]

ChangeJob(p, key, k) == [pw |-> p, key |-> key, wrap |-> k]
NewKey(p) == ks_derive_session_key(me, p)

\* There is no private.enc, or it could not be read (taken for the same), or
\* the old key opens it and it is truncated for the new blob.
ChangeBegin(p) ==
  /\ Admitted("CHANGE_PASSWORD")
  /\ \/ /\ ~Exists(enc[me])
        /\ Goto("chg_db", ChangeJob(p, 0, NewKey(p)))
        /\ NoFault
        /\ UNCHANGED <<enc, historyVars>>
     \/ /\ Exists(enc[me])
        /\ Goto("chg_db", ChangeJob(p, 0, NewKey(p)))
        /\ Fault
        /\ CutShort(me)
        /\ UNCHANGED enc
     \/ /\ Opens(enc[me], sess.key)
        /\ \/ Goto("chg_enc", ChangeJob(p, enc[me].key, NewKey(p))) /\ NoFault
           \/ \* only the derivation of the new key could not read the salt
              /\ NewKey(p) # LoginKey(me, p)
              /\ Goto("chg_enc", ChangeJob(p, enc[me].key, LoginKey(me, p)))
              /\ Fault
        /\ SetEnc(me, Torn)
        /\ UNCHANGED historyVars
  /\ UNCHANGED <<accountVars, pub, sess, nkeys, tool, crashes>>

\* private.enc does not open with the session's key, or a call failed before
\* the file was touched.
ChangeRefused ==
  /\ Admitted("CHANGE_PASSWORD")
  /\ \/ Exists(enc[me]) /\ ~Opens(enc[me], sess.key) /\ NoFault
     \/ Fault
  /\ Answer("CHANGE_PASSWORD", "ERR_INTERNAL")
  /\ UNCHANGED <<accountVars, fileVars, sess, nkeys, tool, crashes, historyVars>>

ChangeReencrypt ==
  /\ pc = "chg_enc"
  /\ SetEnc(me, Wrapped(job.key, job.wrap))
  /\ Goto("chg_db", job)
  /\ UNCHANGED <<accountVars, pub, sess, nkeys, tool, crashes, faults, historyVars>>

\* Mutant: the session keeps the key of the old password.
ChangeRecordKeepsKey ==
  /\ pc = "chg_db"
  /\ auth_change_password_authenticated(me, job.pw)
  /\ sess' = [sess EXCEPT !.must_change = 0]
  /\ Answer("CHANGE_PASSWORD", "OK")
  /\ UNCHANGED <<fileVars, nkeys, tool, crashes, faults, historyVars>>

ChangeRecord ==
  /\ pc = "chg_db"
  /\ auth_change_password_authenticated(me, job.pw)
  /\ sess' = [sess EXCEPT !.key = job.wrap, !.must_change = 0]
  /\ Answer("CHANGE_PASSWORD", "OK")
  /\ UNCHANGED <<fileVars, nkeys, tool, crashes, faults, historyVars>>

\* The blob was written in part, the record was not changed, or the table in
\* memory was changed and the account file not written.
ChangeFailed ==
  /\ \/ pc = "chg_enc" /\ UNCHANGED accountVars
     \/ pc = "chg_db" /\ UNCHANGED accountVars
     \/ pc = "chg_db" /\ ChangeUnwritten(me, job.pw)
  /\ Fault
  /\ CutShort(me)
  /\ Answer("CHANGE_PASSWORD", "ERR_INTERNAL")
  /\ UNCHANGED <<fileVars, sess, nkeys, tool, crashes>>

-----------------------------------------------------------------------------
(* OP_CREATE_KEYS: public.pem, then private.enc, each truncated and filled. *)

\* The table knows of a tombstone the session does not.
CreateRefused ==
  /\ Admitted("CREATE_KEYS")
  /\ auth_get_deleted(me) = 1
  /\ sess' = [sess EXCEPT !.deleted = 1]
  /\ Answer("CREATE_KEYS", "ERR_DELETED")
  /\ UNCHANGED <<accountVars, fileVars, nkeys, tool, crashes, faults, historyVars>>

\* Mutant: only the session's copy of the tombstone is looked at.
CreateAdmittedBlind == Admitted("CREATE_KEYS")

CreateAdmitted ==
  /\ Admitted("CREATE_KEYS")
  /\ auth_get_deleted(me) = 0

\* Both files exist, whatever they hold.
CreateKeep ==
  /\ CreateAdmitted
  /\ HasBothFiles(me)
  /\ Answer("CREATE_KEYS", "OK")
  /\ UNCHANGED <<accountVars, fileVars, sess, nkeys, tool, crashes, faults, historyVars>>

CreateBegin ==
  /\ CreateAdmitted
  /\ ~HasBothFiles(me)
  /\ nkeys < MaxKeys
  /\ nkeys' = nkeys + 1
  /\ SetPub(me, Torn)
  /\ Goto("crt_pub", [pw |-> NoKey, key |-> nkeys + 1, wrap |-> sess.key])
  /\ UNCHANGED <<accountVars, enc, sess, tool, crashes, faults, historyVars>>

CreatePub ==
  /\ pc = "crt_pub"
  /\ SetPub(me, job.key)
  /\ Goto("crt_open", job)
  /\ UNCHANGED <<accountVars, enc, sess, nkeys, tool, crashes, faults, historyVars>>

CreateOpen ==
  /\ pc = "crt_open"
  /\ SetEnc(me, Torn)
  /\ Goto("crt_enc", job)
  /\ UNCHANGED <<accountVars, pub, sess, nkeys, tool, crashes, faults, historyVars>>

CreateEnc ==
  /\ pc = "crt_enc"
  /\ SetEnc(me, Wrapped(job.key, job.wrap))
  /\ Answer("CREATE_KEYS", "OK")
  /\ UNCHANGED <<accountVars, pub, sess, nkeys, tool, crashes, faults, historyVars>>

\* Mutant: the cleanup forgets private.enc.
CleanupPublicOnly ==
  /\ SetPub(me, NoFile)
  /\ Fault
  /\ UNCHANGED <<enc, historyVars>>

\* The cleanup label unlinks both files and looks at neither result.
Cleanup ==
  \/ /\ SetPub(me, NoFile) /\ SetEnc(me, NoFile)
     /\ Fault
     /\ UNCHANGED historyVars
  \/ /\ \/ SetPub(me, NoFile) /\ UNCHANGED enc
        \/ SetEnc(me, NoFile) /\ UNCHANGED pub
        \/ UNCHANGED fileVars
     /\ faults + 1 < MaxFaults
     /\ faults' = faults + 2
     /\ CutShort(me)

\* A call failed: making a directory (nothing is removed), generating the key
\* pair, opening or filling a file (cleanup).
CreateFailed ==
  /\ \/ /\ CreateAdmitted /\ ~HasBothFiles(me)
        /\ Fault
        /\ UNCHANGED <<fileVars, historyVars>>
     \/ CreateAdmitted /\ ~HasBothFiles(me) /\ Cleanup
     \/ pc \in {"crt_pub", "crt_open", "crt_enc"} /\ Cleanup
  /\ Answer("CREATE_KEYS", "ERR_INTERNAL")
  /\ UNCHANGED <<accountVars, sess, nkeys, tool, crashes>>

-----------------------------------------------------------------------------
(* OP_DELETE_KEYS: tombstone the account, then remove the files.            *)

\* Mutant: the files go first, the tombstone would come after them.
DeleteUnmarked ==
  /\ Admitted("DELETE_KEYS")
  /\ Goto("del_pub", NoJob)
  /\ UNCHANGED <<accountVars, fileVars, sess, nkeys, tool, crashes, faults, historyVars>>

DeleteTombstone ==
  /\ Admitted("DELETE_KEYS")
  /\ auth_set_deleted(me)
  /\ Goto("del_pub", NoJob)
  /\ UNCHANGED <<fileVars, sess, nkeys, tool, crashes, faults, historyVars>>

DeletePub ==
  /\ pc = "del_pub"
  /\ SetPub(me, NoFile)
  /\ Goto("del_enc", NoJob)
  /\ UNCHANGED <<accountVars, enc, sess, nkeys, tool, crashes, faults, historyVars>>

\* Mutant: the session does not learn of its own deletion.
DeleteEncSilent ==
  /\ pc = "del_enc"
  /\ SetEnc(me, NoFile)
  /\ cut' = cut \ {me}
  /\ acked' = acked \cup {me}
  /\ Answer("DELETE_KEYS", "OK")
  /\ UNCHANGED <<accountVars, pub, sess, nkeys, tool, crashes, faults>>

DeleteEnc ==
  /\ pc = "del_enc"
  /\ SetEnc(me, NoFile)
  /\ sess' = [sess EXCEPT !.deleted = 1]
  /\ cut' = cut \ {me}
  /\ acked' = acked \cup {me}
  /\ Answer("DELETE_KEYS", "OK")
  /\ UNCHANGED <<accountVars, pub, nkeys, tool, crashes, faults>>

\* The account file was not written (nothing changed), a file was not
\* unlinked, or the directory was not removed; the session is not deleted.
DeleteFailed ==
  /\ \/ Admitted("DELETE_KEYS") /\ UNCHANGED <<enc, historyVars>>
     \/ pc = "del_pub" /\ Exists(pub[me]) /\ UNCHANGED enc /\ CutShort(me)
     \/ pc = "del_enc" /\ Exists(enc[me]) /\ UNCHANGED enc /\ CutShort(me)
     \/ pc = "del_enc" /\ SetEnc(me, NoFile) /\ CutShort(me)
  /\ Fault
  /\ Answer("DELETE_KEYS", "ERR_INTERNAL")
  /\ UNCHANGED <<accountVars, pub, sess, nkeys, tool, crashes>>

-----------------------------------------------------------------------------
(* OP_SIGN_DOC and OP_GET_PUBLIC_KEY read only.                             *)

SignOk ==
  /\ Admitted("SIGN_DOC")
  /\ CanSign(me, auth_get_deleted(me), sess.key)
  /\ Answer("SIGN_DOC", "OK")
  /\ UNCHANGED <<accountVars, fileVars, sess, nkeys, tool, crashes, faults, historyVars>>

SignFailed ==
  /\ Admitted("SIGN_DOC")
  /\ \/ ~CanSign(me, auth_get_deleted(me), sess.key) /\ NoFault
     \/ CanSign(me, auth_get_deleted(me), sess.key) /\ Fault
  /\ Answer("SIGN_DOC", "ERR_INTERNAL")
  /\ UNCHANGED <<accountVars, fileVars, sess, nkeys, tool, crashes, historyVars>>

\* The target is any user; with none given it is the session's own.
GetPublicKey(target) ==
  /\ Admitted("GET_PUBLIC_KEY")
  /\ \/ Exists(pub[target]) /\ NoFault /\ Answer("GET_PUBLIC_KEY", "OK")
     \/ ~Exists(pub[target]) /\ NoFault /\ Answer("GET_PUBLIC_KEY", "ERR_NOT_FOUND")
     \/ Exists(pub[target]) /\ Fault /\ Answer("GET_PUBLIC_KEY", "ERR_NOT_FOUND")
  /\ UNCHANGED <<accountVars, fileVars, sess, nkeys, tool, crashes, historyVars>>

-----------------------------------------------------------------------------
(* tools/account_provision register <username> <new_password>               *)

\* Read the table; an active account is refused and the file left alone.
ToolLoad(u, p) ==
  /\ tool = ToolIdle
  /\ ToolOnline \/ Down
  /\ Registrable(db, u)
  /\ tool' = [user |-> u, pw |-> p, table |-> db]
  /\ reply' = NoReply
  /\ UNCHANGED <<accountVars, fileVars, pc, sess, job, nkeys, crashes, faults, historyVars>>

\* Write back the copy of the table with the account registered.
ToolWrite ==
  /\ tool # ToolIdle
  /\ ap_write_db_atomic(Registered(tool.table, tool.user, tool.pw))
  /\ acked' = acked \ {tool.user}
  /\ tool' = ToolIdle
  /\ reply' = NoReply
  /\ UNCHANGED <<mem, fileVars, pc, sess, job, nkeys, crashes, faults, cut>>

\* A failed call or a killed tool: the file keeps its content.
ToolAbort ==
  /\ tool # ToolIdle
  /\ tool' = ToolIdle
  /\ reply' = NoReply
  /\ UNCHANGED <<accountVars, fileVars, pc, sess, job, nkeys, crashes, faults, historyVars>>

-----------------------------------------------------------------------------

Authenticate ==
  \E u \in User, p \in Password : AuthOk(u, p) \/ AuthUnanswered(u, p) \/ AuthBad(u, p)

ChangePassword ==
  \/ \E p \in Password : ChangeBegin(p)
  \/ ChangeRefused \/ ChangeReencrypt \/ ChangeRecord \/ ChangeFailed

CreateKeys ==
  \/ CreateRefused \/ CreateKeep \/ CreateBegin \/ CreatePub \/ CreateOpen
  \/ CreateEnc \/ CreateFailed

DeleteKeys == DeleteTombstone \/ DeletePub \/ DeleteEnc \/ DeleteFailed

Server ==
  \/ Boot \/ Exit \/ Crash
  \/ \E op \in Op : Refuse(op) \/ BadRequest(op)
  \/ Authenticate \/ Logout
  \/ ChangePassword \/ CreateKeys \/ DeleteKeys
  \/ SignOk \/ SignFailed
  \/ \E u \in User : GetPublicKey(u)

Tool ==
  \/ \E u \in User, p \in Password : ToolLoad(u, p)
  \/ ToolWrite \/ ToolAbort

Next == Server \/ Tool

Spec == Init /\ [][Next]_vars

-----------------------------------------------------------------------------
(* What must hold.                                                         *)

Session ==
  [is_authenticated : Flag, username : User \cup {NoUser}, must_change : Flag,
   deleted : Flag, key : WrapKey \cup {NoKey}, has_key : Flag]

Job == [pw : Password \cup {NoKey}, key : KeyId, wrap : WrapKey \cup {NoKey}]

\* The types of every variable.
TypeOK ==
  /\ db \in Table /\ mem \in Table
  /\ pub \in [User -> PubFile] /\ enc \in [User -> EncFile]
  /\ pc \in {"down", "idle"} \cup Step
  /\ sess \in Session
  /\ job \in Job
  /\ reply \in [op : Op \cup {"NONE"}, st : Status \cup {"NONE"}]
  /\ nkeys \in 0 .. MaxKeys
  /\ tool = ToolIdle \/ tool \in [user : User, pw : Password, table : Table]
  /\ crashes \in 0 .. MaxCrashes
  /\ faults \in 0 .. MaxFaults
  /\ cut \subseteq User
  /\ acked \subseteq User

Settled(u) == ~(MidRequest /\ me = u)

Creating == pc \in {"crt_pub", "crt_open", "crt_enc"}
Deleting == pc \in {"del_pub", "del_enc"}

\* A version-1 blob that a password change rewrote: the new blob has a salt of
\* its own and a version that makes a login ignore it, so no login derives the
\* key it is wrapped with.
Converted(u) == Whole(enc[u]) /\ enc[u].ver = 2 /\ enc[u].wrap.kdf = "blob"

Readable(u) == Whole(enc[u]) /\ ~Converted(u)

\* A user whose DELETE_KEYS was answered OK is tombstoned in users.db and has no
\* key file, whatever is asked for afterwards, by anyone, over any number of
\* restarts, until the provisioning tool registers the name again.
TombstoneHolds ==
  \A u \in acked :
    /\ db[u] # NoAccount
    /\ db[u].deleted = 1
    /\ pub[u] = NoFile
    /\ enc[u] = NoFile

\* private.enc opens with the key that a login with the password of users.db
\* derives, for every user no request on whom was cut short: changing the
\* password keeps the file and the record together across logins and restarts.
PasswordOpensKey ==
  \A u \in User \ cut :
    Settled(u) /\ Readable(u) => Opens(enc[u], ks_derive_session_key(u, db[u].pw))

PairMatches(public, private) ==
  \/ public = NoFile /\ private = NoFile
  \/ Whole(private) /\ public = private.key

FilesMatch(u) == PairMatches(pub[u], enc[u])

\* The two key files hold the same key pair or neither exists, for every user
\* no request on whom was cut short.
KeyFilesMatch == \A u \in User \ cut : Settled(u) => FilesMatch(u)

\* The key a session holds opens the user's private.enc, also after the session
\* created the file or re-encrypted it under a new password.
SessionOpensKey ==
  sess.has_key = 1 /\ me \notin cut /\ ~MidRequest =>
    (Readable(me) /\ enc[me].ver = 2 => Opens(enc[me], sess.key))

\* The flags cached at login never allow what the table forbids: a pending
\* password change is never missed, and a tombstone the session does not know
\* of is one whose deletion was cut short or is still going on.
SessionFollowsTable ==
  sess.is_authenticated = 1 =>
    /\ mem[me].must_change <= sess.must_change
    /\ sess.deleted <= mem[me].deleted
    /\ sess.deleted < mem[me].deleted => me \in cut \/ MidRequest

\* The table in memory differs from users.db only in the record of a user a
\* request on whom failed.
TableIsSaved ==
  ~Down => \A u \in User \ cut : mem[u] = db[u]

\* A signature is given for a live account only, and getpub hands out the key
\* that verifies it unless a request on the user was cut short.
SignatureVerifies ==
  reply = [op |-> "SIGN_DOC", st |-> "OK"] =>
    /\ db[me].deleted = 0
    /\ sess.must_change = 0
    /\ me \notin cut => db[me].must_change = 0 /\ pub[me] = enc[me].key

\* No key file comes into being while users.db says its owner is deleted.
NoKeyUnderTombstone ==
  [][\A u \in User :
       db[u] # NoAccount /\ db[u].deleted = 1 =>
         /\ pub[u] = NoFile => pub'[u] = NoFile
         /\ enc[u] = NoFile => enc'[u] = NoFile]_vars

\* The tool leaves the record of every active account as it is.
ActiveAccountsKept ==
  [][tool # ToolIdle /\ tool' = ToolIdle =>
       \A u \in User : db[u] # NoAccount /\ db[u].deleted = 0 => db'[u] = db[u]]_vars

\* The strengthening that makes the types inductive: who the session belongs to,
\* and what the locals of a request under way hold.
SessionOK ==
  /\ Down => sess = ClearedSession
  /\ MidRequest => sess.is_authenticated = 1
  /\ sess.is_authenticated = 1 => me \in User /\ mem[me] # NoAccount
  /\ sess.has_key = 1 => sess.key \in WrapKey

JobOK ==
  /\ pc \in {"chg_enc", "chg_db"} => job.pw \in Password /\ job.wrap \in WrapKey
  /\ pc \in {"crt_pub", "crt_open", "crt_enc"} => job.wrap \in WrapKey

TypeInv == TypeOK /\ SessionOK /\ JobOK

\* The strengthening that makes the tombstone inductive, for a tool that runs
\* while the server is down: the table in memory has the tombstones of the file,
\* a session of a user who is gone knows it, so no request on that user can be
\* under way, and the tool writes back the table it read.
TombstoneInv ==
  /\ ~Down => \A u \in User :
       /\ mem[u] = NoAccount <=> db[u] = NoAccount
       /\ mem[u] # NoAccount => mem[u].deleted = db[u].deleted
  /\ sess.is_authenticated = 1 /\ me \in acked => sess.deleted = 1
  /\ MidRequest => me \notin acked
  /\ pc \in {"del_pub", "del_enc"} => mem[me].deleted = 1
  /\ pc = "del_enc" => pub[me] = NoFile
  /\ tool # ToolIdle => Down /\ tool.table = db
  /\ TombstoneHolds

\* The strengthening that makes SessionFollowsTable inductive, for any tool: only
\* a session with a key and no tombstone works on a request, and a deletion
\* under way has marked the record.
SessionInv ==
  /\ sess.is_authenticated = 0 => sess = ClearedSession
  /\ sess.has_key = 1 => sess.is_authenticated = 1
  /\ MidRequest => sess.has_key = 1 /\ sess.deleted = 0
  /\ Deleting => mem[me].deleted = 1
  /\ sess.is_authenticated = 1 =>
       /\ mem[me].must_change <= sess.must_change
       /\ sess.deleted <= mem[me].deleted
       /\ sess.deleted < mem[me].deleted => me \in cut \/ Deleting

\* The strengthening that makes KeyFilesMatch inductive, for any tool: what the
\* files hold at each step of the request that is writing them.
FilesInv ==
  /\ KeyFilesMatch
  /\ pc = "chg_enc" => enc[me] = Torn
  /\ pc = "del_enc" => pub[me] = NoFile
  /\ me \notin cut =>
       /\ pc \in {"chg_db", "del_pub"} => FilesMatch(me)
       /\ pc \in {"chg_enc", "crt_open", "crt_enc"} => pub[me] = job.key
       /\ pc \in {"crt_pub", "crt_open"} => enc[me] = NoFile

\* Key pairs are numbered in the order they are generated: the pair of a
\* creation under way is the last one, and no other user's file holds it.
UsedInv ==
  /\ \A u \in User :
       pub[u] \in KeyId => pub[u] <= nkeys /\ (Creating /\ me # u => pub[u] < nkeys)
  /\ Creating => job.key = nkeys

\* The strengthening that makes TableIsSaved inductive, for a tool that runs while
\* the server is down: a deletion has saved the whole table, and the tool holds
\* the table of the file until it writes.
SavedInv ==
  /\ TableIsSaved
  /\ Deleting => mem = db
  /\ Creating => mem[me].deleted = 0
  /\ tool # ToolIdle => Down /\ tool.table = db /\ Registrable(db, tool.user)

KeyOf(u, p) == {LoginKey(u, p), BlobKey(u, p)}

Gone(a) == a = NoAccount \/ a.deleted = 1

\* The strengthening that makes PasswordOpensKey and SessionOpensKey inductive, for
\* a tool that runs while the server is down: every key in use is derived from
\* the password of the record, or from the one the record is about to get, and
\* an account that is gone has no private key left to open.
OpenInv ==
  /\ PasswordOpensKey
  /\ SessionOpensKey
  /\ \A u \in User \ cut : Gone(db[u]) => enc[u] = NoFile \/ (me = u /\ Deleting)
  /\ pc \in {"chg_enc", "chg_db"} => job.wrap \in KeyOf(me, job.pw)
  /\ Creating => job.wrap = sess.key
  /\ me \notin cut =>
       /\ pc = "chg_db" /\ Whole(enc[me]) => enc[me].ver = 2 /\ enc[me].wrap = job.wrap
       /\ sess.has_key = 1 /\ sess.deleted = 0 => sess.key \in KeyOf(me, mem[me].pw)

\* Registering a tombstoned name again makes a usable account: with nothing
\* failing, the password change it must begin with is not answered with an
\* internal error.  README.md:90 presents the tool as the way to re-register a
\* user after deletion, and client/main.c:49 sends the user there.
ReRegistrationWorks ==
  faults = 0 /\ crashes = 0 /\ sess.must_change = 1
    => reply # [op |-> "CHANGE_PASSWORD", st |-> "ERR_INTERNAL"]

-----------------------------------------------------------------------------
(* The server implements KeyLife: what a client and the account file show  *)
(* of the files while one pair is generated, re-encrypted or removed.      *)

Life(a) ==
  IF a = NoAccount THEN "absent" ELSE IF a.deleted = 1 THEN "tombstone" ELSE "active"

Published(u) ==
  IF u \in cut \/ (Creating /\ me = u) \/ ~Whole(pub[u]) THEN NoKey ELSE pub[u]

KeyLife == INSTANCE KeyLife
  WITH life <- [u \in User |-> Life(db[u])],
       key <- [u \in User |-> Published(u)],
       used <- 0 .. (IF Creating THEN nkeys - 1 ELSE nkeys),
       broken <- cut,
       Key <- KeyId

\* Every behaviour of the server and the tool is one of KeyLife: a key appears on
\* an active account that has none, is never given to a second user, and goes
\* away only under a tombstone or with an operation that was cut short.
ImplementsKeyLife == KeyLife!Spec

=============================================================================
