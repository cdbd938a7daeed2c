-------------------------- MODULE DssServerProofs --------------------------
(***************************************************************************)
(* Proofs about DssServer and the Client in front of it, for every set of  *)
(* users and passwords and every bound.  First the types, with whom the    *)
(* session belongs to and what the locals of a request hold; then one      *)
(* section for each part of the server's invariant, ending in the theorem  *)
(* it is for, and the refinement of KeyLife.  What needs the tool to run   *)
(* only while the server is down says so: ToolOnline = FALSE.  Then the    *)
(* client, for any tool: what a server step does for the request under     *)
(* way, which makes both together a behaviour of DssServer; what the       *)
(* responses say of the session; and what the client keeps.                *)
(***************************************************************************)
EXTENDS Client, TLAPS

-----------------------------------------------------------------------------
(* What the pieces of the actions return.                                  *)

Reply == [op : Op \cup {"NONE"}, st : Status \cup {"NONE"}]

LEMMA NoReplyType == NoReply \in Reply
  BY DEF NoReply, Reply

LEMMA NoJobType == NoJob \in Job
  BY MaxKeysAssumption DEF NoJob, Job, KeyId

LEMMA AnswerType ==
  ASSUME NEW op \in Op, NEW st \in Status, Answer(op, st)
  PROVE  pc' = "idle" /\ job' \in Job /\ reply' \in Reply
  BY NoJobType DEF Answer, Reply

LEMMA ClearedSessionType ==
  /\ ClearedSession \in Session
  /\ ClearedSession.is_authenticated = 0
  /\ ClearedSession.has_key = 0
  BY DEF ClearedSession, Session, Flag

LEMMA FaultType ==
  ASSUME faults \in 0 .. MaxFaults, Fault \/ NoFault
  PROVE  faults' \in 0 .. MaxFaults
  BY BoundsAssumption DEF Fault, NoFault

LEMMA DerivedKeyType ==
  ASSUME NEW u \in User, NEW p \in Password
  PROVE  ks_derive_session_key(u, p) \in WrapKey /\ LoginKey(u, p) \in WrapKey
  BY DEF ks_derive_session_key, LoginKey, BlobKey, WrapKey

LEMMA WrappedType ==
  ASSUME NEW key \in KeyId, NEW k \in WrapKey
  PROVE  Wrapped(key, k) \in EncFile
  BY DEF Wrapped, EncFile, Blob

\* The session of a login.
LEMMA SessionOfType ==
  ASSUME mem \in Table, NEW u \in User, mem[u] # NoAccount,
         NEW k \in WrapKey \cup {NoKey}, NEW has \in Flag
  PROVE  /\ SessionOf(u, k, has) \in Session
         /\ SessionOf(u, k, has).is_authenticated = 1
         /\ SessionOf(u, k, has).username = u
         /\ SessionOf(u, k, has).deleted = mem[u].deleted
         /\ SessionOf(u, k, has).key = k
         /\ SessionOf(u, k, has).has_key = has
  <1>1. mem[u].must_change \in Flag /\ mem[u].deleted \in Flag
    BY DEF Table, Account
  <1> QED
    BY <1>1 DEF SessionOf, Session, Flag

\* The session after a password change.
LEMMA SessionChangedType ==
  ASSUME NEW s \in Session, NEW k \in WrapKey
  PROVE  LET t == [s EXCEPT !.key = k, !.must_change = 0] IN
         /\ t \in Session
         /\ t.is_authenticated = s.is_authenticated
         /\ t.username = s.username
         /\ t.deleted = s.deleted
         /\ t.key = k
  <1>1. \A r \in Session :
          /\ [r EXCEPT !.key = k] \in Session
          /\ [r EXCEPT !.key = k].is_authenticated = r.is_authenticated
          /\ [r EXCEPT !.key = k].username = r.username
          /\ [r EXCEPT !.key = k].deleted = r.deleted
          /\ [r EXCEPT !.key = k].key = k
    BY DEF Session
  <1>2. \A r \in Session :
          /\ [r EXCEPT !.must_change = 0] \in Session
          /\ [r EXCEPT !.must_change = 0].is_authenticated = r.is_authenticated
          /\ [r EXCEPT !.must_change = 0].username = r.username
          /\ [r EXCEPT !.must_change = 0].deleted = r.deleted
          /\ [r EXCEPT !.must_change = 0].key = r.key
    BY DEF Session, Flag
  <1> QED
    BY <1>1, <1>2

\* The session once it knows of the tombstone.
LEMMA SessionDeletedType ==
  ASSUME NEW s \in Session
  PROVE  LET t == [s EXCEPT !.deleted = 1] IN
         /\ t \in Session
         /\ t.is_authenticated = s.is_authenticated
         /\ t.username = s.username
         /\ t.deleted = 1
         /\ t.has_key = s.has_key
         /\ t.key = s.key
  BY DEF Session, Flag

\* The table after a password change: the same users, the same tombstones.
LEMMA ChangedType ==
  ASSUME mem \in Table, NEW u \in User, mem[u] # NoAccount, NEW p \in Password
  PROVE  /\ Changed(u, p) \in Table
         /\ \A v \in User : Changed(u, p)[v] = NoAccount <=> mem[v] = NoAccount
         /\ \A v \in User :
              mem[v] # NoAccount => Changed(u, p)[v].deleted = mem[v].deleted
  <1>1. mem[u] \in Account
    BY DEF Table
  <1>2. auth_apply_new_password(mem[u], p) \in Account
    BY <1>1 DEF auth_apply_new_password, Account, Flag
  <1>3. auth_apply_new_password(mem[u], p).deleted = mem[u].deleted
    BY <1>1 DEF auth_apply_new_password, Account
  <1> QED
    BY <1>1, <1>2, <1>3, NoAccountAssumption DEF Changed, Table

\* The table after a deletion: the same users, one more tombstone.
LEMMA DeletedType ==
  ASSUME mem \in Table, NEW u \in User, mem[u] # NoAccount, auth_set_deleted(u)
  PROVE  /\ mem' \in Table /\ db' = mem'
         /\ \A v \in User : mem'[v] = NoAccount <=> mem[v] = NoAccount
         /\ \A v \in User \ {u} : mem'[v] = mem[v]
         /\ mem'[u].deleted = 1
  <1>1. mem[u] \in Account
    BY DEF Table
  <1>2. [mem[u] EXCEPT !.deleted = 1] \in Account /\ [mem[u] EXCEPT !.deleted = 1].deleted = 1
    BY <1>1 DEF Account, Flag
  <1> QED
    BY <1>1, <1>2, NoAccountAssumption DEF auth_set_deleted, auth_write_db, Table

\* The table the provisioning tool writes.
LEMMA RegisteredType ==
  ASSUME NEW t \in Table, NEW u \in User, NEW p \in Password
  PROVE  /\ Registered(t, u, p) \in Table
         /\ \A v \in User \ {u} : Registered(t, u, p)[v] = t[v]
  BY DEF Registered, Table, Account, Flag

\* A request that passes the checks belongs to a session with a key.
LEMMA AdmittedSession ==
  ASSUME TypeInv,
         NEW op \in {"CHANGE_PASSWORD", "CREATE_KEYS", "SIGN_DOC", "DELETE_KEYS"},
         Admitted(op)
  PROVE  /\ pc = "idle"
         /\ sess.is_authenticated = 1 /\ sess.deleted = 0
         /\ me \in User /\ mem[me] # NoAccount
         /\ sess.key \in WrapKey
  <1>1. sess.is_authenticated \in Flag /\ sess.deleted \in Flag /\ sess.has_key \in Flag
    BY DEF TypeInv, TypeOK, Session
  <1> QED
    BY <1>1 DEF Admitted, NeedsLogin, SessionDeleted, LacksKey, TypeInv, SessionOK, Flag

\* A request under way belongs to a session.
LEMMA MidRequestSession ==
  ASSUME TypeInv, pc \in Step
  PROVE  sess.is_authenticated = 1 /\ me \in User /\ mem[me] # NoAccount
  BY DEF TypeInv, SessionOK, MidRequest

-----------------------------------------------------------------------------
(* The types are inductive: one lemma per operation.                       *)

StoredVars == <<db, mem, pub, enc, nkeys, tool, crashes, cut, acked>>

\* A request that only reads is answered, and that is all.
LEMMA AnswerTyped ==
  ASSUME TypeInv, NEW op \in Op, NEW st \in Status, Answer(op, st),
         Fault \/ NoFault, UNCHANGED <<sess, StoredVars>>
  PROVE  TypeInv'
  <1>1. pc' = "idle" /\ job' \in Job /\ reply' \in Reply /\ faults' \in 0 .. MaxFaults
    BY AnswerType, FaultType DEF TypeInv, TypeOK
  <1>2. TypeOK'
    BY <1>1 DEF TypeInv, TypeOK, StoredVars, Reply
  <1>3. SessionOK' /\ JobOK'
    BY <1>1 DEF TypeInv, SessionOK, JobOK, Down, MidRequest, Step, me, StoredVars
  <1> QED
    BY <1>2, <1>3 DEF TypeInv

\* A login, or a session that learns of its tombstone.
LEMMA SessionTyped ==
  ASSUME TypeInv, NEW op \in Op, NEW st \in Status, Answer(op, st),
         Fault \/ NoFault, UNCHANGED StoredVars,
         sess' \in Session,
         sess'.is_authenticated = 1 => sess'.username \in User /\ mem[sess'.username] # NoAccount,
         sess'.has_key = 1 => sess'.key \in WrapKey
  PROVE  TypeInv'
  <1>1. pc' = "idle" /\ job' \in Job /\ reply' \in Reply /\ faults' \in 0 .. MaxFaults
    BY AnswerType, FaultType DEF TypeInv, TypeOK
  <1>2. TypeOK'
    BY <1>1 DEF TypeInv, TypeOK, StoredVars, Reply
  <1>3. SessionOK' /\ JobOK'
    BY <1>1 DEF SessionOK, JobOK, Down, MidRequest, Step, me, StoredVars
  <1> QED
    BY <1>2, <1>3 DEF TypeInv

\* A step of a request that goes on writes key files and nothing else.
LEMMA StepTyped ==
  ASSUME TypeInv, NEW step \in Step, NEW j \in Job, Goto(step, j),
         sess.is_authenticated = 1,
         Fault \/ NoFault, UNCHANGED <<sess, mem, tool, crashes>>,
         db' \in Table, pub' \in [User -> PubFile], enc' \in [User -> EncFile],
         nkeys' \in 0 .. MaxKeys, cut' \subseteq User, acked' \subseteq User,
         step \in {"chg_enc", "chg_db"} => j.pw \in Password /\ j.wrap \in WrapKey,
         step \in {"crt_pub", "crt_open", "crt_enc"} => j.wrap \in WrapKey
  PROVE  TypeInv'
  <1>1. pc' = step /\ job' = j /\ reply' \in Reply /\ faults' \in 0 .. MaxFaults
    BY NoReplyType, FaultType DEF Goto, TypeInv, TypeOK
  <1>2. TypeOK'
    BY <1>1 DEF TypeInv, TypeOK, Reply
  <1>3. SessionOK'
    BY <1>1 DEF TypeInv, SessionOK, Down, MidRequest, Step, me
  <1>4. JobOK'
    BY <1>1 DEF JobOK
  <1> QED
    BY <1>2, <1>3, <1>4 DEF TypeInv

\* The answer that ends a request whose steps wrote to the disk.
LEMMA EndTyped ==
  ASSUME TypeInv, NEW op \in Op, NEW st \in Status, Answer(op, st),
         sess.is_authenticated = 1,
         faults' \in 0 .. MaxFaults, UNCHANGED <<nkeys, tool, crashes>>,
         db' \in Table, mem' \in Table, mem'[me] # NoAccount,
         pub' \in [User -> PubFile], enc' \in [User -> EncFile],
         cut' \subseteq User, acked' \subseteq User,
         sess' \in Session, sess'.is_authenticated = 1, sess'.username = me,
         sess'.has_key = 1 => sess'.key \in WrapKey
  PROVE  TypeInv'
  <1>1. pc' = "idle" /\ job' \in Job /\ reply' \in Reply
    BY AnswerType
  <1>2. TypeOK'
    BY <1>1 DEF TypeInv, TypeOK, Reply
  <1>3. SessionOK' /\ JobOK'
    BY <1>1 DEF TypeInv, SessionOK, JobOK, Down, MidRequest, Step, me
  <1> QED
    BY <1>2, <1>3 DEF TypeInv

LEMMA InitTyped == Init => TypeInv
  <1> SUFFICES ASSUME Init PROVE TypeInv
    OBVIOUS
  <1>1. PICK s \in [User -> Shape], p \in [User -> Password] :
          /\ db = [u \in User |-> StartAccount(s[u], p[u])]
          /\ enc = [u \in User |-> StartEnc(u, s[u], p[u])]
          /\ pub = [u \in User |-> StartPub(s[u])]
          /\ cut = {u \in User : s[u] = "leftover"}
    BY DEF Init
  <1>2. ASSUME NEW u \in User
        PROVE  /\ StartAccount(s[u], p[u]) \in Account \cup {NoAccount}
               /\ StartEnc(u, s[u], p[u]) \in EncFile
               /\ StartPub(s[u]) \in PubFile
    <2>1. s[u] \in Shapes /\ p[u] \in Password
      BY ShapeAssumption
    <2>2. StartAccount(s[u], p[u]) \in Account \cup {NoAccount}
      BY <2>1 DEF StartAccount, Shapes, Account, Flag
    <2>3. 0 \in KeyId
      BY MaxKeysAssumption DEF KeyId
    <2>4. StartEnc(u, s[u], p[u]) \in EncFile
      <3>1. Wrapped(0, LoginKey(u, p[u])) \in EncFile
        BY <2>1, <2>3, WrappedType, DerivedKeyType
      <3>2. BlobKey(u, p[u]) \in WrapKey
        BY <2>1 DEF BlobKey, WrapKey
      <3>3. [ver |-> 1, key |-> 0, wrap |-> BlobKey(u, p[u])] \in EncFile
        BY <2>3, <3>2 DEF EncFile, Blob
      <3> QED
        BY <2>1, <3>1, <3>3 DEF StartEnc, Shapes, EncFile
    <2>5. StartPub(s[u]) \in PubFile
      BY <2>3 DEF StartPub, PubFile
    <2> QED
      BY <2>2, <2>4, <2>5
  <1>3. db \in Table /\ enc \in [User -> EncFile] /\ pub \in [User -> PubFile] /\ cut \subseteq User
    BY <1>1, <1>2 DEF Table
  <1>4. mem \in Table
    BY DEF Init, EmptyTable, Table
  <1>5. TypeOK
    BY <1>3, <1>4, NoJobType, NoReplyType, ClearedSessionType, MaxKeysAssumption, BoundsAssumption
    DEF Init, TypeOK, Reply
  <1>6. SessionOK /\ JobOK
    BY ClearedSessionType DEF Init, SessionOK, JobOK, Down, MidRequest, Step
  <1> QED
    BY <1>5, <1>6 DEF TypeInv

LEMMA ProcessTyped == TypeInv /\ (Boot \/ Exit \/ Crash) => TypeInv'
  <1> SUFFICES ASSUME TypeInv, Boot \/ Exit \/ Crash PROVE TypeInv'
    OBVIOUS
  <1>1. CASE Boot
    BY <1>1, ClearedSessionType, NoReplyType
    DEF Boot, auth_load_db, TypeInv, TypeOK, SessionOK, JobOK, Down, MidRequest, Step,
        me, fileVars, historyVars, Reply
  <1>2. CASE Exit \/ Crash
    <2>1. GoDown /\ UNCHANGED <<fileVars, nkeys, tool>>
      BY <1>2 DEF Exit, Crash
    <2>2. crashes' \in 0 .. MaxCrashes /\ faults' = faults /\ cut' \subseteq User /\ acked' = acked
      <3>1. CASE Exit
        BY <3>1 DEF Exit, TypeInv, TypeOK, historyVars
      <3>2. CASE Crash
        BY <3>2, MidRequestSession, BoundsAssumption
        DEF Crash, CutShort, MidRequest, TypeInv, TypeOK
      <3> QED
        BY <1>2, <3>1, <3>2
    <2>3. mem' \in Table /\ db' = db /\ sess' = ClearedSession /\ pc' = "down"
      BY <2>1 DEF GoDown, TableGone, EmptyTable, Table
    <2>4. TypeOK'
      BY <2>1, <2>2, <2>3, ClearedSessionType, NoJobType, NoReplyType
      DEF GoDown, TypeInv, TypeOK, Reply, fileVars
    <2>5. SessionOK' /\ JobOK'
      BY <2>3, ClearedSessionType DEF SessionOK, JobOK, Down, MidRequest, Step
    <2> QED
      BY <2>4, <2>5 DEF TypeInv
  <1> QED
    BY <1>1, <1>2

LEMMA ReadOnlyTyped ==
  ASSUME TypeInv,
         \/ \E op \in Op : Refuse(op) \/ BadRequest(op)
         \/ \E u \in User, p \in Password : AuthBad(u, p)
         \/ ChangeRefused \/ CreateKeep \/ SignOk \/ SignFailed
         \/ \E u \in User : GetPublicKey(u)
  PROVE  TypeInv'
  <1>1. CASE \E op \in Op : Refuse(op) \/ BadRequest(op)
    BY <1>1, AnswerTyped
    DEF Refuse, BadRequest, Status, NoFault, StoredVars, accountVars, fileVars, historyVars
  <1>2. CASE \E u \in User, p \in Password : AuthBad(u, p)
    BY <1>2, AnswerTyped
    DEF AuthBad, Op, Status, StoredVars, accountVars, fileVars, historyVars
  <1>3. CASE ChangeRefused
    BY <1>3, AnswerTyped
    DEF ChangeRefused, Op, Status, StoredVars, accountVars, fileVars, historyVars
  <1>4. CASE CreateKeep
    BY <1>4, AnswerTyped
    DEF CreateKeep, Op, Status, NoFault, StoredVars, accountVars, fileVars, historyVars
  <1>5. CASE SignOk \/ SignFailed
    BY <1>5, AnswerTyped
    DEF SignOk, SignFailed, Op, Status, NoFault, StoredVars, accountVars, fileVars, historyVars
  <1>6. CASE \E u \in User : GetPublicKey(u)
    BY <1>6, AnswerTyped
    DEF GetPublicKey, Op, Status, StoredVars, accountVars, fileVars, historyVars
  <1> QED
    BY <1>1, <1>2, <1>3, <1>4, <1>5, <1>6

\* Every session a login leaves is the session of that user.
LEMMA LoginSession ==
  ASSUME TypeInv, NEW u \in User, NEW p \in Password, auth_verify_password(u, p)
  PROVE  /\ mem[u] # NoAccount
         /\ \A s \in {LoggedIn(u, p), SessionOf(u, NoKey, 0), SessionOf(u, LoginKey(u, p), 1)} :
              /\ s \in Session
              /\ s.is_authenticated = 1 /\ s.username = u
              /\ s.deleted = mem[u].deleted
              /\ s.has_key = 1 => s.key \in WrapKey
  <1>1. mem[u] # NoAccount /\ mem \in Table
    BY DEF auth_verify_password, TypeInv, TypeOK
  <1>2. 0 \in Flag /\ 1 \in Flag
    BY DEF Flag
  <1> QED
    BY <1>1, <1>2, SessionOfType, DerivedKeyType DEF LoggedIn

LEMMA LoginTyped ==
  ASSUME TypeInv,
         \/ \E u \in User, p \in Password : AuthOk(u, p) \/ AuthUnanswered(u, p)
         \/ Logout \/ CreateRefused
  PROVE  TypeInv'
  <1>1. CASE \E u \in User, p \in Password : AuthOk(u, p) \/ AuthUnanswered(u, p)
    <2>1. PICK u \in User, p \in Password : AuthOk(u, p) \/ AuthUnanswered(u, p)
      BY <1>1
    <2>2. /\ auth_verify_password(u, p)
          /\ sess' \in {LoggedIn(u, p), SessionOf(u, NoKey, 0), SessionOf(u, LoginKey(u, p), 1)}
          /\ Fault \/ NoFault
          /\ Answer("AUTH", "OK") \/ Answer("AUTH", "ERR_INTERNAL")
          /\ UNCHANGED StoredVars
      BY <2>1 DEF AuthOk, AuthUnanswered, StoredVars, accountVars, fileVars, historyVars
    <2>3. /\ sess' \in Session
          /\ sess'.username = u /\ mem[u] # NoAccount
          /\ sess'.has_key = 1 => sess'.key \in WrapKey
      BY <2>2, LoginSession
    <2> QED
      BY <2>2, <2>3, SessionTyped DEF Op, Status
  <1>2. CASE Logout
    BY <1>2, ClearedSessionType, SessionTyped
    DEF Logout, Op, Status, NoFault, StoredVars, accountVars, fileVars, historyVars
  <1>3. CASE CreateRefused
    <2>1. sess \in Session /\ (sess.has_key = 1 => sess.key \in WrapKey)
      BY DEF TypeInv, TypeOK, SessionOK
    <2>2. me \in User /\ mem[me] # NoAccount
      BY <1>3, AdmittedSession DEF CreateRefused
    <2>3. /\ sess' \in Session
          /\ sess'.username = me
          /\ sess'.has_key = 1 => sess'.key \in WrapKey
      BY <1>3, <2>1, SessionDeletedType DEF CreateRefused, me
    <2> QED
      BY <1>3, <2>2, <2>3, SessionTyped
      DEF CreateRefused, Op, Status, NoFault, StoredVars, accountVars, fileVars, historyVars
  <1> QED
    BY <1>1, <1>2, <1>3

LEMMA KeyFileTypes ==
  ASSUME TypeInv, NEW u \in User
  PROVE  /\ \A f \in PubFile : SetPub(u, f) => pub' \in [User -> PubFile]
         /\ \A f \in EncFile : SetEnc(u, f) => enc' \in [User -> EncFile]
         /\ NoFile \in PubFile /\ Torn \in PubFile /\ KeyId \subseteq PubFile
         /\ NoFile \in EncFile /\ Torn \in EncFile
  BY DEF TypeInv, TypeOK, SetPub, SetEnc, PubFile, EncFile

LEMMA ChangeTyped == TypeInv /\ ChangePassword => TypeInv'
  <1> SUFFICES ASSUME TypeInv, ChangePassword PROVE TypeInv'
    OBVIOUS
  <1>1. CASE \E p \in Password : ChangeBegin(p)
    <2>1. PICK p \in Password : ChangeBegin(p)
      BY <1>1
    <2>2. me \in User /\ mem[me] # NoAccount /\ sess.is_authenticated = 1
      BY <2>1, AdmittedSession DEF ChangeBegin
    <2>3. \A k \in {NewKey(p), LoginKey(me, p)}, key \in KeyId :
            /\ ChangeJob(p, key, k) \in Job
            /\ ChangeJob(p, key, k).pw \in Password
            /\ ChangeJob(p, key, k).wrap \in WrapKey
      BY <2>2, DerivedKeyType DEF ChangeJob, NewKey, Job
    <2>4. 0 \in KeyId
      BY MaxKeysAssumption DEF KeyId
    <2>5. PICK step \in {"chg_enc", "chg_db"}, k \in {NewKey(p), LoginKey(me, p)}, key \in KeyId :
            Goto(step, ChangeJob(p, key, k))
      <3>1. CASE Goto("chg_db", ChangeJob(p, 0, NewKey(p)))
        BY <3>1, <2>4
      <3>2. CASE Opens(enc[me], sess.key)
        <4>1. enc[me] \in Blob
          BY <3>2, <2>2 DEF Opens, Whole, TypeInv, TypeOK, EncFile
        <4>2. enc[me].key \in KeyId
          BY <4>1 DEF Blob
        <4> QED
          BY <2>1, <2>4, <4>2 DEF ChangeBegin
      <3> QED
        BY <2>1, <3>1, <3>2 DEF ChangeBegin
    <2>6. enc' \in [User -> EncFile] /\ cut' \subseteq User /\ acked' \subseteq User
      BY <2>1, <2>2, KeyFileTypes DEF ChangeBegin, CutShort, historyVars, TypeInv, TypeOK
    <2>7. Fault \/ NoFault
      BY <2>1 DEF ChangeBegin
    <2> QED
      BY <2>1, <2>2, <2>3, <2>5, <2>6, <2>7, StepTyped
      DEF ChangeBegin, accountVars, TypeInv, TypeOK, Step
  <1>2. CASE ChangeRefused
    BY <1>2, ReadOnlyTyped
  <1>3. CASE ChangeReencrypt
    <2>1. /\ sess.is_authenticated = 1 /\ me \in User /\ job \in Job
          /\ job.key \in KeyId /\ job.pw \in Password /\ job.wrap \in WrapKey
      BY <1>3, MidRequestSession DEF ChangeReencrypt, Step, TypeInv, TypeOK, JobOK, Job
    <2>2. enc' \in [User -> EncFile]
      BY <1>3, <2>1, KeyFileTypes, WrappedType DEF ChangeReencrypt
    <2> QED
      BY <1>3, <2>1, <2>2, StepTyped
      DEF ChangeReencrypt, NoFault, accountVars, historyVars, TypeInv, TypeOK, Step
  <1>4. CASE ChangeRecord
    <2>1. /\ sess.is_authenticated = 1 /\ me \in User /\ mem[me] # NoAccount
          /\ job.pw \in Password /\ job.wrap \in WrapKey
      BY <1>4, MidRequestSession DEF ChangeRecord, Step, TypeInv, JobOK
    <2>2. db' \in Table /\ mem' \in Table /\ mem'[me] # NoAccount
      BY <1>4, <2>1, ChangedType
      DEF ChangeRecord, auth_change_password_authenticated, auth_write_db, TypeInv, TypeOK
    <2>3. /\ sess' \in Session /\ sess'.is_authenticated = 1
          /\ sess'.username = me /\ sess'.key \in WrapKey
      BY <1>4, <2>1, SessionChangedType DEF ChangeRecord, TypeInv, TypeOK, me
    <2> QED
      BY <1>4, <2>1, <2>2, <2>3, EndTyped
      DEF ChangeRecord, Op, Status, fileVars, historyVars, TypeInv, TypeOK
  <1>5. CASE ChangeFailed
    <2>1. sess.is_authenticated = 1 /\ me \in User /\ mem[me] # NoAccount
      BY <1>5, MidRequestSession DEF ChangeFailed, Step
    <2>2. db' \in Table /\ mem' \in Table /\ mem'[me] # NoAccount
      <3>1. CASE UNCHANGED accountVars
        BY <3>1, <2>1 DEF accountVars, TypeInv, TypeOK
      <3>2. CASE pc = "chg_db" /\ ChangeUnwritten(me, job.pw)
        BY <3>2, <2>1, ChangedType DEF ChangeUnwritten, TypeInv, TypeOK, JobOK
      <3> QED
        BY <1>5, <3>1, <3>2 DEF ChangeFailed
    <2>3. faults' \in 0 .. MaxFaults /\ cut' \subseteq User /\ acked' \subseteq User
      BY <1>5, <2>1, FaultType DEF ChangeFailed, CutShort, TypeInv, TypeOK
    <2>4. sess' \in Session /\ sess'.username = me /\ (sess'.has_key = 1 => sess'.key \in WrapKey)
      BY <1>5 DEF ChangeFailed, TypeInv, TypeOK, SessionOK, me
    <2> QED
      BY <1>5, <2>1, <2>2, <2>3, <2>4, EndTyped
      DEF ChangeFailed, Op, Status, fileVars, TypeInv, TypeOK
  <1> QED
    BY <1>1, <1>2, <1>3, <1>4, <1>5 DEF ChangePassword

LEMMA CleanupTyped ==
  ASSUME TypeInv, me \in User, Cleanup
  PROVE  /\ pub' \in [User -> PubFile] /\ enc' \in [User -> EncFile]
         /\ faults' \in 0 .. MaxFaults
         /\ cut' \subseteq User /\ acked' \subseteq User
  <1>1. pub' \in [User -> PubFile] /\ enc' \in [User -> EncFile]
    BY KeyFileTypes DEF Cleanup, fileVars, TypeInv, TypeOK
  <1>2. faults' \in 0 .. MaxFaults
    <2>1. faults \in 0 .. MaxFaults
      BY DEF TypeInv, TypeOK
    <2> QED
      BY <2>1, FaultType, BoundsAssumption DEF Cleanup
  <1>3. cut' \subseteq User /\ acked' \subseteq User
    BY DEF Cleanup, CutShort, historyVars, TypeInv, TypeOK
  <1> QED
    BY <1>1, <1>2, <1>3

LEMMA CreateTyped == TypeInv /\ CreateKeys => TypeInv'
  <1> SUFFICES ASSUME TypeInv, CreateKeys PROVE TypeInv'
    OBVIOUS
  <1>1. CASE CreateRefused \/ CreateKeep
    BY <1>1, LoginTyped, ReadOnlyTyped
  <1>2. CASE CreateBegin
    <2>1. me \in User /\ sess.is_authenticated = 1 /\ sess.key \in WrapKey
      BY <1>2, AdmittedSession DEF CreateBegin, CreateAdmitted
    <2>2. nkeys + 1 \in KeyId /\ nkeys' \in 0 .. MaxKeys
      BY <1>2, MaxKeysAssumption DEF CreateBegin, KeyId, TypeInv, TypeOK
    <2>3. [pw |-> NoKey, key |-> nkeys + 1, wrap |-> sess.key] \in Job
      BY <2>1, <2>2 DEF Job
    <2>4. pub' \in [User -> PubFile]
      BY <1>2, <2>1, KeyFileTypes DEF CreateBegin
    <2> QED
      BY <1>2, <2>1, <2>2, <2>3, <2>4, StepTyped
      DEF CreateBegin, NoFault, accountVars, historyVars, TypeInv, TypeOK, Step
  <1>3. CASE CreatePub \/ CreateOpen \/ CreateEnc
    <2>1. /\ sess.is_authenticated = 1 /\ me \in User /\ mem[me] # NoAccount
          /\ job \in Job /\ job.key \in KeyId /\ job.wrap \in WrapKey
      BY <1>3, MidRequestSession
      DEF CreatePub, CreateOpen, CreateEnc, Step, TypeInv, TypeOK, JobOK, Job
    <2>2. pub' \in [User -> PubFile] /\ enc' \in [User -> EncFile]
      BY <1>3, <2>1, KeyFileTypes, WrappedType
      DEF CreatePub, CreateOpen, CreateEnc, TypeInv, TypeOK
    <2>3. CASE CreatePub
      BY <2>3, <2>1, <2>2, StepTyped
      DEF CreatePub, NoFault, accountVars, historyVars, TypeInv, TypeOK, Step
    <2>4. CASE CreateOpen
      BY <2>4, <2>1, <2>2, StepTyped
      DEF CreateOpen, NoFault, accountVars, historyVars, TypeInv, TypeOK, Step
    <2>5. CASE CreateEnc
      <3>1. sess' \in Session /\ sess'.username = me /\ (sess'.has_key = 1 => sess'.key \in WrapKey)
        BY <2>5 DEF CreateEnc, TypeInv, TypeOK, SessionOK, me
      <3> QED
        BY <2>5, <2>1, <2>2, <3>1, EndTyped
        DEF CreateEnc, Op, Status, accountVars, historyVars, TypeInv, TypeOK
    <2> QED
      BY <1>3, <2>3, <2>4, <2>5
  <1>4. CASE CreateFailed
    <2>1. sess.is_authenticated = 1 /\ me \in User /\ mem[me] # NoAccount
      BY <1>4, MidRequestSession, AdmittedSession DEF CreateFailed, CreateAdmitted, Step
    <2>2. /\ pub' \in [User -> PubFile] /\ enc' \in [User -> EncFile]
          /\ faults' \in 0 .. MaxFaults /\ cut' \subseteq User /\ acked' \subseteq User
      BY <1>4, <2>1, CleanupTyped, FaultType
      DEF CreateFailed, fileVars, historyVars, TypeInv, TypeOK
    <2>3. sess' \in Session /\ sess'.username = me /\ (sess'.has_key = 1 => sess'.key \in WrapKey)
      BY <1>4 DEF CreateFailed, TypeInv, TypeOK, SessionOK, me
    <2> QED
      BY <1>4, <2>1, <2>2, <2>3, EndTyped
      DEF CreateFailed, Op, Status, accountVars, TypeInv, TypeOK
  <1> QED
    BY <1>1, <1>2, <1>3, <1>4 DEF CreateKeys

LEMMA DeleteTyped == TypeInv /\ DeleteKeys => TypeInv'
  <1> SUFFICES ASSUME TypeInv, DeleteKeys PROVE TypeInv'
    OBVIOUS
  <1>1. CASE DeleteTombstone
    <2>1. me \in User /\ mem[me] # NoAccount /\ sess.is_authenticated = 1
      BY <1>1, AdmittedSession DEF DeleteTombstone
    <2>2. mem' \in Table /\ db' \in Table /\ mem'[me] # NoAccount
      BY <1>1, <2>1, DeletedType DEF DeleteTombstone, TypeInv, TypeOK
    <2>3. pc' = "del_pub" /\ job' \in Job /\ reply' \in Reply
      BY <1>1, NoJobType, NoReplyType DEF DeleteTombstone, Goto
    <2>4. TypeOK'
      BY <1>1, <2>2, <2>3
      DEF DeleteTombstone, fileVars, historyVars, TypeInv, TypeOK, Step, Reply
    <2>5. SessionOK' /\ JobOK'
      BY <1>1, <2>1, <2>2, <2>3
      DEF DeleteTombstone, TypeInv, SessionOK, JobOK, Down, MidRequest, Step, me
    <2> QED
      BY <2>4, <2>5 DEF TypeInv
  <1>2. CASE DeletePub
    <2>1. me \in User /\ sess.is_authenticated = 1
      BY <1>2, MidRequestSession DEF DeletePub, Step
    <2>2. pub' \in [User -> PubFile]
      BY <1>2, <2>1, KeyFileTypes DEF DeletePub
    <2> QED
      BY <1>2, <2>1, <2>2, StepTyped, NoJobType
      DEF DeletePub, NoFault, accountVars, historyVars, TypeInv, TypeOK, Step
  <1>3. CASE DeleteEnc
    <2>1. sess.is_authenticated = 1 /\ me \in User /\ mem[me] # NoAccount
      BY <1>3, MidRequestSession DEF DeleteEnc, Step
    <2>2. enc' \in [User -> EncFile] /\ cut' \subseteq User /\ acked' \subseteq User
      BY <1>3, <2>1, KeyFileTypes DEF DeleteEnc, TypeInv, TypeOK
    <2>3. /\ sess' \in Session /\ sess'.is_authenticated = 1 /\ sess'.username = me
          /\ sess'.has_key = 1 => sess'.key \in WrapKey
      BY <1>3, <2>1, SessionDeletedType DEF DeleteEnc, TypeInv, TypeOK, SessionOK, me
    <2> QED
      BY <1>3, <2>1, <2>2, <2>3, EndTyped
      DEF DeleteEnc, Op, Status, accountVars, TypeInv, TypeOK
  <1>4. CASE DeleteFailed
    <2>1. sess.is_authenticated = 1 /\ me \in User /\ mem[me] # NoAccount
      BY <1>4, MidRequestSession, AdmittedSession DEF DeleteFailed, Step
    <2>2. enc' \in [User -> EncFile] /\ cut' \subseteq User /\ acked' \subseteq User
      BY <1>4, <2>1, KeyFileTypes DEF DeleteFailed, CutShort, historyVars, TypeInv, TypeOK
    <2>3. faults' \in 0 .. MaxFaults
      BY <1>4, FaultType DEF DeleteFailed, TypeInv, TypeOK
    <2>4. sess' \in Session /\ sess'.username = me /\ (sess'.has_key = 1 => sess'.key \in WrapKey)
      BY <1>4 DEF DeleteFailed, TypeInv, TypeOK, SessionOK, me
    <2> QED
      BY <1>4, <2>1, <2>2, <2>3, <2>4, EndTyped
      DEF DeleteFailed, Op, Status, accountVars, TypeInv, TypeOK
  <1> QED
    BY <1>1, <1>2, <1>3, <1>4 DEF DeleteKeys

LEMMA ToolTyped == TypeInv /\ Tool => TypeInv'
  <1> SUFFICES ASSUME TypeInv, Tool PROVE TypeInv'
    OBVIOUS
  <1>1. /\ db' \in Table
        /\ tool' = ToolIdle \/ tool' \in [user : User, pw : Password, table : Table]
        /\ acked' \subseteq User
    <2>1. CASE \E u \in User, p \in Password : ToolLoad(u, p)
      BY <2>1 DEF ToolLoad, accountVars, historyVars, TypeInv, TypeOK
    <2>2. CASE ToolWrite
      <3>1. tool.table \in Table /\ tool.user \in User /\ tool.pw \in Password
        BY <2>2 DEF ToolWrite, ap_write_db_atomic, TypeInv, TypeOK
      <3> QED
        BY <2>2, <3>1, RegisteredType DEF ToolWrite, ap_write_db_atomic, TypeInv, TypeOK
    <2>3. CASE ToolAbort
      BY <2>3 DEF ToolAbort, accountVars, historyVars, TypeInv, TypeOK
    <2> QED
      BY <2>1, <2>2, <2>3 DEF Tool
  <1>2. /\ UNCHANGED <<mem, pub, enc, pc, sess, job, nkeys, crashes, faults, cut>>
        /\ reply' \in Reply
    BY NoReplyType
    DEF Tool, ToolLoad, ToolWrite, ToolAbort, accountVars, fileVars, historyVars
  <1>3. TypeOK'
    BY <1>1, <1>2 DEF TypeInv, TypeOK, Reply
  <1>4. SessionOK' /\ JobOK'
    BY <1>2 DEF TypeInv, SessionOK, JobOK, Down, MidRequest, me
  <1> QED
    BY <1>3, <1>4 DEF TypeInv

LEMMA StutterTyped == TypeInv /\ UNCHANGED vars => TypeInv'
  BY DEF TypeInv, TypeOK, SessionOK, JobOK, Down, MidRequest, me, vars

LEMMA NextTyped == TypeInv /\ [Next]_vars => TypeInv'
  BY ProcessTyped, ReadOnlyTyped, LoginTyped, ChangeTyped, CreateTyped, DeleteTyped,
     ToolTyped, StutterTyped
  DEF Next, Server, Authenticate

\* The types hold in every behaviour, and with them: a session belongs to a user
\* of the table, a request under way to a session, and its locals are set.
THEOREM TypeCorrect == Spec => []TypeInv
  BY InitTyped, NextTyped, PTL DEF Spec

-----------------------------------------------------------------------------
(* An acknowledged deletion stays in force.                                *)

\* The table in memory knows the users and the tombstones of the file.
SameTombstones(table, file) ==
  \A u \in User :
    /\ table[u] = NoAccount <=> file[u] = NoAccount
    /\ table[u] # NoAccount => table[u].deleted = file[u].deleted

\* A request that is working belongs to a user whose deletion was not answered.
LEMMA WorkingUser ==
  ASSUME TypeInv, TombstoneInv,
         pc \in Step \/ \E op \in {"CHANGE_PASSWORD", "CREATE_KEYS", "SIGN_DOC", "DELETE_KEYS"} :
                          Admitted(op)
  PROVE  /\ pc # "down" /\ tool = ToolIdle
         /\ me \in User /\ mem[me] # NoAccount /\ me \notin acked
         /\ sess.is_authenticated = 1
         /\ SameTombstones(mem, db)
  <1>1. CASE pc \in Step
    BY <1>1, MidRequestSession
    DEF TombstoneInv, MidRequest, SameTombstones, Down, Step
  <1>2. CASE \E op \in {"CHANGE_PASSWORD", "CREATE_KEYS", "SIGN_DOC", "DELETE_KEYS"} : Admitted(op)
    BY <1>2, AdmittedSession DEF TombstoneInv, SameTombstones, Down
  <1> QED
    BY <1>1, <1>2

\* A request is answered and at most the session changes.
LEMMA AnswerKeeps ==
  ASSUME TombstoneInv, pc # "down", pc' = "idle",
         UNCHANGED <<db, mem, pub, enc, acked, tool>>,
         sess'.is_authenticated = 1 /\ sess'.username \in acked => sess'.deleted = 1
  PROVE  TombstoneInv'
  BY DEF TombstoneInv, TombstoneHolds, Down, MidRequest, Step, me

\* A request on a user whose deletion was not answered works on that user.
LEMMA WorkKeeps ==
  ASSUME TypeInv, TombstoneInv, me \in User, me \notin acked,
         pc # "down", pc' # "down",
         UNCHANGED <<sess, acked, tool>>,
         SameTombstones(mem, db) => SameTombstones(mem', db'),
         \A u \in User \ {me} :
           /\ pub'[u] = pub[u] /\ enc'[u] = enc[u]
           /\ db[u] # NoAccount => db'[u] # NoAccount /\ db'[u].deleted = db[u].deleted,
         pc' \in {"del_pub", "del_enc"} => mem'[me].deleted = 1,
         pc' = "del_enc" => pub'[me] = NoFile
  PROVE  TombstoneInv'
  <1>1. SameTombstones(mem', db')
    BY DEF TombstoneInv, SameTombstones, Down
  <1>2. acked \subseteq User \ {me}
    BY DEF TypeInv, TypeOK
  <1>3. TombstoneHolds'
    BY <1>2 DEF TombstoneInv, TombstoneHolds
  <1> QED
    BY <1>1, <1>3 DEF TombstoneInv, SameTombstones, Down, MidRequest, me

LEMMA InitKeeps == Init => TombstoneInv
  BY ClearedSessionType DEF Init, TombstoneInv, TombstoneHolds, Down, MidRequest, Step

LEMMA ProcessKeeps ==
  ASSUME TypeInv, TombstoneInv, ToolOnline = FALSE, Boot \/ Exit \/ Crash
  PROVE  TombstoneInv'
  <1>1. CASE Boot
    BY <1>1, ClearedSessionType
    DEF Boot, auth_load_db, TypeInv, SessionOK, TombstoneInv, TombstoneHolds, Down,
        MidRequest, Step, me, fileVars, historyVars
  <1>2. CASE Exit \/ Crash
    <2>1. GoDown /\ UNCHANGED <<pub, enc, tool, acked>>
      BY <1>2 DEF Exit, Crash, CutShort, fileVars, historyVars
    <2> QED
      BY <2>1, ClearedSessionType
      DEF GoDown, TableGone, TombstoneInv, TombstoneHolds, Down, MidRequest, Step, me
  <1> QED
    BY <1>1, <1>2

LEMMA ReadOnlyKeeps ==
  ASSUME TypeInv, TombstoneInv,
         \/ \E op \in Op : Refuse(op) \/ BadRequest(op)
         \/ \E u \in User, p \in Password : AuthBad(u, p)
         \/ ChangeRefused \/ CreateKeep \/ SignOk \/ SignFailed
         \/ \E u \in User : GetPublicKey(u)
  PROVE  TombstoneInv'
  <1>1. /\ pc = "idle" /\ pc' = "idle"
        /\ UNCHANGED <<db, mem, pub, enc, sess, acked, tool>>
    BY DEF Refuse, BadRequest, AuthBad, ChangeRefused, CreateKeep, CreateAdmitted, SignOk,
           SignFailed, GetPublicKey, Admitted, Answer, accountVars, fileVars, historyVars
  <1> QED
    BY <1>1, AnswerKeeps DEF TombstoneInv, me

LEMMA LoginKeeps ==
  ASSUME TypeInv, TombstoneInv,
         \/ \E u \in User, p \in Password : AuthOk(u, p) \/ AuthUnanswered(u, p)
         \/ Logout \/ CreateRefused
  PROVE  TombstoneInv'
  <1>1. /\ pc = "idle" /\ pc' = "idle"
        /\ UNCHANGED <<db, mem, pub, enc, acked, tool>>
    BY DEF AuthOk, AuthUnanswered, Logout, CreateRefused, Admitted, Answer, accountVars,
           fileVars, historyVars
  <1>2. CASE \E u \in User, p \in Password : AuthOk(u, p) \/ AuthUnanswered(u, p)
    <2>1. PICK u \in User, p \in Password : AuthOk(u, p) \/ AuthUnanswered(u, p)
      BY <1>2
    <2>2. /\ auth_verify_password(u, p)
          /\ sess' \in {LoggedIn(u, p), SessionOf(u, NoKey, 0), SessionOf(u, LoginKey(u, p), 1)}
      BY <2>1 DEF AuthOk, AuthUnanswered
    <2>3. sess'.username = u /\ mem[u] # NoAccount /\ sess'.deleted = mem[u].deleted
      BY <2>2, LoginSession
    <2>4. u \in acked => mem[u].deleted = 1
      BY <1>1, <2>3 DEF TombstoneInv, TombstoneHolds, Down
    <2> QED
      BY <1>1, <2>3, <2>4, AnswerKeeps
  <1>3. CASE Logout
    BY <1>1, <1>3, ClearedSessionType, AnswerKeeps DEF Logout
  <1>4. CASE CreateRefused
    <2>1. sess'.deleted = 1
      BY <1>4, SessionDeletedType DEF CreateRefused, TypeInv, TypeOK
    <2> QED
      BY <1>1, <2>1, AnswerKeeps
  <1> QED
    BY <1>2, <1>3, <1>4

LEMMA SetFileKeeps ==
  ASSUME TypeInv, NEW u \in User, NEW f
  PROVE  /\ SetPub(u, f) => pub'[u] = f /\ \A v \in User \ {u} : pub'[v] = pub[v]
         /\ SetEnc(u, f) => enc'[u] = f /\ \A v \in User \ {u} : enc'[v] = enc[v]
  BY DEF SetPub, SetEnc, TypeInv, TypeOK

LEMMA ChangeKeeps == TypeInv /\ TombstoneInv /\ ChangePassword => TombstoneInv'
  <1> SUFFICES ASSUME TypeInv, TombstoneInv, ChangePassword PROVE TombstoneInv'
    OBVIOUS
  <1>1. CASE ChangeRefused
    BY <1>1, ReadOnlyKeeps
  <1>2. CASE (\E p \in Password : ChangeBegin(p)) \/ ChangeReencrypt
    <2>1. /\ me \in User /\ me \notin acked /\ pc # "down"
      BY <1>2, WorkingUser DEF ChangeBegin, ChangeReencrypt, Step
    <2>2. /\ UNCHANGED <<sess, acked, tool, db, mem, pub>>
          /\ pc' \in {"chg_enc", "chg_db"}
          /\ UNCHANGED enc \/ \E f : SetEnc(me, f)
      BY <1>2 DEF ChangeBegin, ChangeReencrypt, Goto, CutShort, accountVars, historyVars
    <2>3. \A u \in User \ {me} : enc'[u] = enc[u]
      BY <2>1, <2>2, SetFileKeeps
    <2> QED
      BY <2>1, <2>2, <2>3, WorkKeeps
  <1>3. CASE ChangeRecord
    <2>1. /\ me \in User /\ me \notin acked /\ pc # "down" /\ mem[me] # NoAccount
          /\ job.pw \in Password /\ mem \in Table /\ SameTombstones(mem, db)
      BY <1>3, WorkingUser DEF ChangeRecord, Step, TypeInv, TypeOK, JobOK
    <2>2. /\ db' = mem'
          /\ \A u \in User : mem'[u] = NoAccount <=> mem[u] = NoAccount
          /\ \A u \in User : mem[u] # NoAccount => mem'[u].deleted = mem[u].deleted
      BY <1>3, <2>1, ChangedType DEF ChangeRecord, auth_change_password_authenticated, auth_write_db
    <2>3. sess'.is_authenticated = 1 /\ sess'.username = me /\ sess'.deleted = sess.deleted
      BY <1>3, <2>1, WorkingUser, SessionChangedType
      DEF ChangeRecord, Step, TypeInv, TypeOK, JobOK, me
    <2>4. SameTombstones(mem', db') /\ \A u \in acked : db'[u] # NoAccount /\ db'[u].deleted = 1
      BY <2>1, <2>2 DEF SameTombstones, TombstoneInv, TombstoneHolds, TypeInv, TypeOK
    <2>5. pc' = "idle" /\ UNCHANGED <<pub, enc, acked, tool>>
      BY <1>3 DEF ChangeRecord, Answer, fileVars, historyVars
    <2> QED
      BY <2>1, <2>3, <2>4, <2>5
      DEF SameTombstones, TombstoneInv, TombstoneHolds, Down, MidRequest, Step, me
  <1>4. CASE ChangeFailed
    <2>1. /\ me \in User /\ me \notin acked /\ pc # "down" /\ mem[me] # NoAccount
          /\ mem \in Table /\ SameTombstones(mem, db)
      BY <1>4, WorkingUser DEF ChangeFailed, Step, TypeInv, TypeOK
    <2>2. /\ UNCHANGED <<sess, acked, tool, db, pub, enc>> /\ pc' = "idle"
      BY <1>4
      DEF ChangeFailed, ChangeUnwritten, CutShort, Answer, accountVars, fileVars
    <2>3. SameTombstones(mem', db')
      <3>1. CASE UNCHANGED accountVars
        BY <3>1, <2>1 DEF accountVars, SameTombstones
      <3>2. CASE pc = "chg_db" /\ ChangeUnwritten(me, job.pw)
        <4>1. job.pw \in Password
          BY <3>2 DEF TypeInv, JobOK
        <4> QED
          BY <3>2, <4>1, <2>1, ChangedType DEF ChangeUnwritten, SameTombstones
      <3> QED
        BY <1>4, <3>1, <3>2 DEF ChangeFailed
    <2> QED
      BY <2>1, <2>2, <2>3, WorkKeeps
  <1> QED
    BY <1>1, <1>2, <1>3, <1>4 DEF ChangePassword

LEMMA CreateKeeps == TypeInv /\ TombstoneInv /\ CreateKeys => TombstoneInv'
  <1> SUFFICES ASSUME TypeInv, TombstoneInv, CreateKeys PROVE TombstoneInv'
    OBVIOUS
  <1>1. CASE CreateRefused \/ CreateKeep
    BY <1>1, LoginKeeps, ReadOnlyKeeps
  <1>2. CASE CreateBegin \/ CreatePub \/ CreateOpen \/ CreateEnc \/ CreateFailed
    <2>1. me \in User /\ me \notin acked /\ pc # "down"
      BY <1>2, WorkingUser
      DEF CreateBegin, CreatePub, CreateOpen, CreateEnc, CreateFailed, CreateAdmitted, Step
    <2>2. /\ UNCHANGED <<sess, acked, tool, db, mem>>
          /\ pc' \in {"idle", "crt_pub", "crt_open", "crt_enc"}
      BY <1>2
      DEF CreateBegin, CreatePub, CreateOpen, CreateEnc, CreateFailed, Cleanup, CutShort,
          Goto, Answer, accountVars, historyVars
    <2>3. /\ UNCHANGED pub \/ \E f : SetPub(me, f)
          /\ UNCHANGED enc \/ \E f : SetEnc(me, f)
      BY <1>2
      DEF CreateBegin, CreatePub, CreateOpen, CreateEnc, CreateFailed, Cleanup, fileVars
    <2>4. \A u \in User \ {me} : pub'[u] = pub[u] /\ enc'[u] = enc[u]
      BY <2>1, <2>3, SetFileKeeps
    <2> QED
      BY <2>1, <2>2, <2>4, WorkKeeps
  <1> QED
    BY <1>1, <1>2 DEF CreateKeys

LEMMA DeleteKeeps == TypeInv /\ TombstoneInv /\ DeleteKeys => TombstoneInv'
  <1> SUFFICES ASSUME TypeInv, TombstoneInv, DeleteKeys PROVE TombstoneInv'
    OBVIOUS
  <1>0. /\ me \in User /\ me \notin acked /\ pc # "down" /\ mem[me] # NoAccount
        /\ mem \in Table /\ SameTombstones(mem, db) /\ sess.is_authenticated = 1
        /\ tool = ToolIdle
    BY WorkingUser
    DEF DeleteKeys, DeleteTombstone, DeletePub, DeleteEnc, DeleteFailed, Step, TypeInv, TypeOK
  <1>1. CASE DeleteTombstone
    <2>1. /\ db' = mem' /\ mem'[me].deleted = 1
          /\ \A u \in User : mem'[u] = NoAccount <=> mem[u] = NoAccount
          /\ \A u \in User \ {me} : mem'[u] = mem[u]
      BY <1>0, <1>1, DeletedType DEF DeleteTombstone
    <2>2. UNCHANGED <<sess, acked, tool, pub, enc>> /\ pc' = "del_pub"
      BY <1>1 DEF DeleteTombstone, Goto, fileVars, historyVars
    <2>3. \A u \in User \ {me} :
            db[u] # NoAccount => db'[u] # NoAccount /\ db'[u].deleted = db[u].deleted
      BY <1>0, <2>1 DEF SameTombstones
    <2> QED
      BY <1>0, <2>1, <2>2, <2>3, WorkKeeps DEF SameTombstones
  <1>2. CASE DeletePub
    <2>1. /\ UNCHANGED <<sess, acked, tool, db, mem, enc>>
          /\ pc' = "del_enc" /\ SetPub(me, NoFile)
      BY <1>2 DEF DeletePub, Goto, accountVars, historyVars
    <2>2. mem[me].deleted = 1
      BY <1>2 DEF DeletePub, TombstoneInv
    <2>3. pub'[me] = NoFile /\ \A u \in User \ {me} : pub'[u] = pub[u]
      BY <1>0, <2>1, SetFileKeeps
    <2> QED
      BY <1>0, <2>1, <2>2, <2>3, WorkKeeps
  <1>3. CASE DeleteEnc
    <2>1. /\ UNCHANGED <<tool, db, mem, pub>>
          /\ pc' = "idle" /\ SetEnc(me, NoFile) /\ acked' = acked \cup {me}
      BY <1>3 DEF DeleteEnc, Answer, accountVars
    <2>2. db[me] # NoAccount /\ db[me].deleted = 1 /\ pub[me] = NoFile
      BY <1>0, <1>3 DEF DeleteEnc, TombstoneInv, SameTombstones
    <2>3. enc'[me] = NoFile /\ \A u \in User \ {me} : enc'[u] = enc[u]
      BY <1>0, <2>1, SetFileKeeps
    <2>4. sess'.deleted = 1
      BY <1>3, SessionDeletedType DEF DeleteEnc, TypeInv, TypeOK
    <2>5. TombstoneHolds'
      BY <2>1, <2>2, <2>3 DEF TombstoneInv, TombstoneHolds, TypeInv, TypeOK
    <2> QED
      BY <1>0, <2>1, <2>4, <2>5 DEF TombstoneInv, Down, MidRequest, Step, me, SameTombstones
  <1>4. CASE DeleteFailed
    <2>1. /\ UNCHANGED <<sess, acked, tool, db, mem, pub>> /\ pc' = "idle"
          /\ UNCHANGED enc \/ SetEnc(me, NoFile)
      BY <1>4 DEF DeleteFailed, Answer, CutShort, accountVars, historyVars
    <2>2. \A u \in User \ {me} : enc'[u] = enc[u]
      BY <1>0, <2>1, SetFileKeeps
    <2> QED
      BY <1>0, <2>1, <2>2, WorkKeeps
  <1> QED
    BY <1>1, <1>2, <1>3, <1>4 DEF DeleteKeys

LEMMA ToolKeeps ==
  ASSUME TypeInv, TombstoneInv, ToolOnline = FALSE, Tool
  PROVE  TombstoneInv'
  <1>1. CASE \E u \in User, p \in Password : ToolLoad(u, p)
    <2>1. /\ pc = "down" /\ tool'.table = db
          /\ UNCHANGED <<db, mem, pub, enc, pc, sess, acked>>
      BY <1>1 DEF ToolLoad, Down, accountVars, fileVars, historyVars
    <2> QED
      BY <2>1 DEF TombstoneInv, TombstoneHolds, Down, MidRequest, Step, me
  <1>2. CASE ToolWrite
    <2>1. /\ pc = "down" /\ tool.table = db
          /\ tool.user \in User /\ tool.pw \in Password /\ db \in Table
      BY <1>2 DEF ToolWrite, ap_write_db_atomic, TombstoneInv, Down, TypeInv, TypeOK
    <2>2. \A u \in User \ {tool.user} : db'[u] = db[u]
      BY <1>2, <2>1, RegisteredType DEF ToolWrite, ap_write_db_atomic
    <2>3. /\ acked' = acked \ {tool.user} /\ tool' = ToolIdle
          /\ UNCHANGED <<mem, pub, enc, pc, sess>>
      BY <1>2 DEF ToolWrite, ap_write_db_atomic, fileVars
    <2>4. sess.is_authenticated = 0
      BY <2>1, ClearedSessionType DEF TypeInv, SessionOK, Down
    <2>5. TombstoneHolds'
      BY <2>2, <2>3 DEF TombstoneInv, TombstoneHolds, TypeInv, TypeOK
    <2> QED
      BY <2>1, <2>3, <2>4, <2>5 DEF TombstoneInv, Down, MidRequest, Step, me
  <1>3. CASE ToolAbort
    <2>1. tool' = ToolIdle /\ UNCHANGED <<db, mem, pub, enc, pc, sess, acked>>
      BY <1>3 DEF ToolAbort, accountVars, fileVars, historyVars
    <2> QED
      BY <2>1 DEF TombstoneInv, TombstoneHolds, Down, MidRequest, Step, me
  <1> QED
    BY <1>1, <1>2, <1>3 DEF Tool

LEMMA StutterKeeps == TombstoneInv /\ UNCHANGED vars => TombstoneInv'
  BY DEF TombstoneInv, TombstoneHolds, Down, MidRequest, me, vars

LEMMA NextTombstone ==
  ASSUME TypeInv, TombstoneInv, ToolOnline = FALSE, [Next]_vars
  PROVE  TombstoneInv'
  BY ProcessKeeps, ReadOnlyKeeps, LoginKeeps, ChangeKeeps, CreateKeeps, DeleteKeeps,
     ToolKeeps, StutterKeeps
  DEF Next, Server, Authenticate

\* Once DELETE_KEYS is answered OK the user is tombstoned in users.db and without
\* key files until registered again, for a tool that runs while the server is down.
THEOREM TombstoneSafety == ToolOnline = FALSE => (Spec => []TombstoneHolds)
  <1> SUFFICES ASSUME ToolOnline = FALSE PROVE Spec => []TombstoneHolds
    OBVIOUS
  <1>1. TypeInv /\ TombstoneInv /\ [Next]_vars => TombstoneInv'
    BY NextTombstone
  <1>2. TombstoneInv => TombstoneHolds
    BY DEF TombstoneInv
  <1> QED
    BY InitKeeps, <1>1, <1>2, TypeCorrect, PTL DEF Spec

-----------------------------------------------------------------------------
(* The session follows the table.  First what each kind of step leaves as   *)
(* it is, for the invariants of this section and the next ones.            *)

LEMMA ReadOnlyEffect ==
  ASSUME \/ \E op \in Op : Refuse(op) \/ BadRequest(op)
         \/ \E u \in User, p \in Password : AuthBad(u, p)
         \/ ChangeRefused \/ CreateKeep \/ SignOk \/ SignFailed
         \/ \E u \in User : GetPublicKey(u)
  PROVE  /\ pc = "idle" /\ pc' = "idle"
         /\ UNCHANGED <<db, mem, pub, enc, sess, nkeys, tool, cut, acked>>
  BY DEF Refuse, BadRequest, AuthBad, ChangeRefused, CreateKeep, CreateAdmitted, SignOk,
         SignFailed, GetPublicKey, Admitted, Answer, accountVars, fileVars, historyVars

LEMMA BootEffect ==
  ASSUME Boot
  PROVE  /\ pc = "down" /\ pc' = "idle" /\ mem' = db
         /\ ToolOnline \/ tool = ToolIdle
         /\ UNCHANGED <<db, pub, enc, sess, job, nkeys, tool, cut, acked>>
  BY DEF Boot, auth_load_db, Down, fileVars, historyVars

LEMMA EndEffect ==
  ASSUME Exit \/ Crash
  PROVE  /\ pc' = "down" /\ mem' = EmptyTable /\ sess' = ClearedSession
         /\ UNCHANGED <<db, pub, enc, nkeys, tool, acked>>
         /\ \/ pc = "idle" /\ cut' = cut
            \/ pc \in Step /\ cut' = cut \cup {me}
  BY DEF Exit, Crash, GoDown, TableGone, CutShort, MidRequest, fileVars, historyVars

LEMMA ToolEffect ==
  ASSUME Tool
  PROVE  UNCHANGED <<mem, pub, enc, pc, sess, job, nkeys, cut>>
  BY DEF Tool, ToolLoad, ToolWrite, ToolAbort, accountVars, fileVars, historyVars

\* The session a login leaves, a logout, and a session that learns of its tombstone.
LEMMA LoginEffect ==
  ASSUME TypeInv,
         \/ \E u \in User, p \in Password : AuthOk(u, p) \/ AuthUnanswered(u, p)
         \/ Logout \/ CreateRefused
  PROVE  /\ pc = "idle" /\ pc' = "idle"
         /\ UNCHANGED <<db, mem, pub, enc, nkeys, tool, cut, acked>>
         /\ \/ sess' = ClearedSession
            \/ \E u \in User, key \in WrapKey \cup {NoKey}, has \in Flag :
                 /\ mem[u] # NoAccount
                 /\ sess' = SessionOf(u, key, has)
                 /\ has = 1 => key \in KeyOf(u, mem[u].pw)
                 /\ has = 1 /\ ~(Whole(enc[u]) /\ enc[u].ver = 1) => key = LoginKey(u, mem[u].pw)
            \/ /\ sess.is_authenticated = 1 /\ mem[me].deleted = 1
               /\ sess' = [sess EXCEPT !.deleted = 1]
  <1>1. /\ pc = "idle" /\ pc' = "idle"
        /\ UNCHANGED <<db, mem, pub, enc, nkeys, tool, cut, acked>>
    BY DEF AuthOk, AuthUnanswered, Logout, CreateRefused, Admitted, Answer, accountVars,
           fileVars, historyVars
  <1>2. CASE \E u \in User, p \in Password : AuthOk(u, p) \/ AuthUnanswered(u, p)
    <2>1. PICK u \in User, p \in Password : AuthOk(u, p) \/ AuthUnanswered(u, p)
      BY <1>2
    <2>2. mem[u] # NoAccount /\ mem[u].pw = p
      BY <2>1 DEF AuthOk, AuthUnanswered, auth_verify_password
    <2>3. sess' \in {LoggedIn(u, p), SessionOf(u, NoKey, 0), SessionOf(u, LoginKey(u, p), 1)}
      BY <2>1 DEF AuthOk, AuthUnanswered
    <2>4. PICK key \in {NoKey, ks_derive_session_key(u, p), LoginKey(u, p)}, has \in Flag :
            sess' = SessionOf(u, key, has) /\ (has = 1 => key # NoKey)
      <3>1. ks_derive_session_key(u, p) # NoKey /\ LoginKey(u, p) # NoKey
        BY DerivedKeyType, NoneAssumption
      <3> QED
        BY <2>3, <3>1 DEF LoggedIn, Flag
    <2>5. key \in WrapKey \cup {NoKey}
      BY DerivedKeyType
    <2>6. has = 1 => key \in KeyOf(u, p)
      BY <2>4 DEF ks_derive_session_key, KeyOf
    <2>7. has = 1 /\ ~(Whole(enc[u]) /\ enc[u].ver = 1) => key = LoginKey(u, p)
      BY <2>4 DEF ks_derive_session_key
    <2> QED
      BY <1>1, <2>2, <2>4, <2>5, <2>6, <2>7
  <1>3. CASE Logout
    BY <1>1, <1>3 DEF Logout
  <1>4. CASE CreateRefused
    BY <1>1, <1>4, AdmittedSession DEF CreateRefused, auth_get_deleted
  <1> QED
    BY <1>2, <1>3, <1>4

\* A request passes the checks, or is under way.
Working ==
  \/ MidRequest
  \/ \E op \in {"CHANGE_PASSWORD", "CREATE_KEYS", "SIGN_DOC", "DELETE_KEYS"} : Admitted(op)

LEMMA WorkSession ==
  ASSUME TypeInv, SessionInv, Working
  PROVE  /\ pc # "down"
         /\ sess.is_authenticated = 1 /\ sess.deleted = 0 /\ sess.has_key = 1
         /\ me \in User /\ mem[me] \in Account
         /\ sess.key \in WrapKey
  <1>1. CASE MidRequest
    BY <1>1, MidRequestSession
    DEF MidRequest, Step, SessionInv, TypeInv, TypeOK, SessionOK, Table
  <1>2. CASE \E op \in {"CHANGE_PASSWORD", "CREATE_KEYS", "SIGN_DOC", "DELETE_KEYS"} : Admitted(op)
    <2>1. sess.has_key = 1 /\ pc # "down"
      BY <1>2 DEF Admitted, LacksKey
    <2> QED
      BY <1>2, <2>1, AdmittedSession DEF TypeInv, TypeOK, Table
  <1> QED
    BY <1>1, <1>2 DEF Working

\* The flags of a record and of a session are 0 or 1.
LEMMA FlagTypes ==
  ASSUME TypeInv
  PROVE  /\ sess.is_authenticated \in {0, 1} /\ sess.must_change \in {0, 1}
         /\ sess.deleted \in {0, 1} /\ sess.has_key \in {0, 1}
         /\ \A u \in User : mem[u] # NoAccount =>
              mem[u].pw \in Password /\ mem[u].must_change \in {0, 1} /\ mem[u].deleted \in {0, 1}
         /\ \A u \in User : db[u] # NoAccount =>
              db[u].pw \in Password /\ db[u].must_change \in {0, 1} /\ db[u].deleted \in {0, 1}
  BY DEF TypeInv, TypeOK, Session, Table, Account, Flag

\* The other fields of a session after its last step.
LEMMA SessionFields ==
  ASSUME NEW s \in Session, NEW k
  PROVE  /\ [s EXCEPT !.key = k, !.must_change = 0].has_key = s.has_key
         /\ [s EXCEPT !.key = k, !.must_change = 0].must_change = 0
         /\ [s EXCEPT !.deleted = 1].must_change = s.must_change
  BY DEF Session

\* The record after a password change and after a deletion.
LEMMA RecordChanged ==
  ASSUME TypeInv, NEW u \in User, mem[u] \in Account, NEW p \in Password
  PROVE  /\ Changed(u, p) \in Table
         /\ Changed(u, p)[u] \in Account
         /\ Changed(u, p)[u].pw = p
         /\ Changed(u, p)[u].must_change = 0
         /\ Changed(u, p)[u].deleted = mem[u].deleted
         /\ \A v \in User \ {u} : Changed(u, p)[v] = mem[v]
  <1>1. mem \in Table
    BY DEF TypeInv, TypeOK
  <1>2. /\ auth_apply_new_password(mem[u], p) \in Account
        /\ auth_apply_new_password(mem[u], p).pw = p
        /\ auth_apply_new_password(mem[u], p).must_change = 0
        /\ auth_apply_new_password(mem[u], p).deleted = mem[u].deleted
    BY DEF auth_apply_new_password, Account, Flag
  <1> QED
    BY <1>1, <1>2 DEF Changed, Table

LEMMA RecordDeleted ==
  ASSUME TypeInv, NEW u \in User, mem[u] \in Account, auth_set_deleted(u)
  PROVE  /\ db' = mem'
         /\ mem'[u] \in Account
         /\ mem'[u].pw = mem[u].pw
         /\ mem'[u].must_change = mem[u].must_change
         /\ mem'[u].deleted = 1
         /\ \A v \in User \ {u} : mem'[v] = mem[v]
  <1>1. mem \in [User -> Account \cup {NoAccount}]
    BY DEF TypeInv, TypeOK, Table
  <1>2. /\ [mem[u] EXCEPT !.deleted = 1] \in Account
        /\ [mem[u] EXCEPT !.deleted = 1].pw = mem[u].pw
        /\ [mem[u] EXCEPT !.deleted = 1].must_change = mem[u].must_change
        /\ [mem[u] EXCEPT !.deleted = 1].deleted = 1
    BY DEF Account, Flag
  <1> QED
    BY <1>1, <1>2 DEF auth_set_deleted, auth_write_db

LEMMA InitSession == Init => SessionInv
  BY ClearedSessionType DEF Init, SessionInv, MidRequest, Deleting, Step

LEMMA ProcessSession ==
  ASSUME TypeInv, SessionInv, Boot \/ Exit \/ Crash
  PROVE  SessionInv'
  <1>1. CASE Boot
    BY <1>1, BootEffect, ClearedSessionType
    DEF TypeInv, SessionOK, SessionInv, Down, MidRequest, Deleting, Step, me
  <1>2. CASE Exit \/ Crash
    BY <1>2, EndEffect, ClearedSessionType DEF SessionInv, MidRequest, Deleting, Step, me
  <1> QED
    BY <1>1, <1>2

\* A request that only reads, the tool, and a step that does nothing.
LEMMA SameSession ==
  ASSUME SessionInv, UNCHANGED <<mem, sess, cut>>,
         UNCHANGED pc \/ (pc = "idle" /\ pc' = "idle")
  PROVE  SessionInv'
  BY DEF SessionInv, MidRequest, Deleting, Step, me

LEMMA LoginSessionInv ==
  ASSUME TypeInv, SessionInv,
         \/ \E u \in User, p \in Password : AuthOk(u, p) \/ AuthUnanswered(u, p)
         \/ Logout \/ CreateRefused
  PROVE  SessionInv'
  <1>1. /\ pc = "idle" /\ pc' = "idle" /\ UNCHANGED <<mem, cut>>
    BY LoginEffect
  <1>2. CASE sess' = ClearedSession
    BY <1>1, <1>2, ClearedSessionType DEF SessionInv, MidRequest, Deleting, Step, me
  <1>3. ASSUME NEW u \in User, NEW key \in WrapKey \cup {NoKey}, NEW has \in Flag,
               mem[u] # NoAccount, sess' = SessionOf(u, key, has)
        PROVE  SessionInv'
    <2>1. mem[u].must_change \in {0, 1} /\ mem[u].deleted \in {0, 1}
      BY <1>3, FlagTypes
    <2>2. /\ sess'.is_authenticated = 1 /\ sess'.username = u
          /\ sess'.must_change = mem[u].must_change /\ sess'.deleted = mem[u].deleted
      BY <1>3 DEF SessionOf
    <2> QED
      BY <1>1, <2>1, <2>2 DEF SessionInv, MidRequest, Deleting, Step, me
  <1>4. CASE /\ sess.is_authenticated = 1 /\ mem[me].deleted = 1
             /\ sess' = [sess EXCEPT !.deleted = 1]
    <2>1. /\ sess'.is_authenticated = 1 /\ sess'.username = me /\ sess'.deleted = 1
          /\ sess'.must_change = sess.must_change
      BY <1>4, SessionDeletedType, SessionFields DEF TypeInv, TypeOK, me
    <2> QED
      BY <1>1, <1>4, <2>1 DEF SessionInv, MidRequest, Deleting, Step, me
  <1> QED
    BY LoginEffect, <1>2, <1>3, <1>4

\* A step of a request that goes on or fails, after which the session is the same.
LEMMA WorkSessionInv ==
  ASSUME TypeInv, SessionInv, Working,
         UNCHANGED sess, cut \subseteq cut',
         mem'[me].must_change <= sess.must_change,
         mem'[me].deleted = mem[me].deleted,
         pc' \in {"del_pub", "del_enc"} => pc \in {"del_pub", "del_enc"},
         pc \in {"del_pub", "del_enc"} => pc' \in {"del_pub", "del_enc"} \/ me \in cut'
  PROVE  SessionInv'
  BY WorkSession DEF SessionInv, MidRequest, Deleting, me

LEMMA ChangeSession == TypeInv /\ SessionInv /\ ChangePassword => SessionInv'
  <1> SUFFICES ASSUME TypeInv, SessionInv, ChangePassword PROVE SessionInv'
    OBVIOUS
  <1>1. CASE ChangeRefused
    BY <1>1, ReadOnlyEffect, SameSession
  <1>2. CASE (\E p \in Password : ChangeBegin(p)) \/ ChangeReencrypt
    <2>1. /\ Working /\ UNCHANGED <<mem, sess>> /\ cut \subseteq cut'
          /\ pc \notin {"del_pub", "del_enc"} /\ pc' \notin {"del_pub", "del_enc"}
      BY <1>2
      DEF ChangeBegin, ChangeReencrypt, Working, MidRequest, Step, Goto, CutShort, Admitted,
          accountVars, historyVars
    <2> QED
      BY <2>1, WorkSession, WorkSessionInv DEF SessionInv
  <1>3. CASE ChangeRecord
    <2>1. Working /\ pc' = "idle" /\ UNCHANGED cut /\ mem' = Changed(me, job.pw)
      BY <1>3
      DEF ChangeRecord, Working, MidRequest, Step, Answer, historyVars,
          auth_change_password_authenticated
    <2>2. job.pw \in Password /\ job.wrap \in WrapKey /\ pc = "chg_db"
      BY <1>3 DEF ChangeRecord, TypeInv, JobOK
    <2>3. me \in User /\ mem[me] \in Account /\ sess.is_authenticated = 1 /\ sess.deleted = 0
      BY <2>1, WorkSession
    <2>4. /\ sess'.is_authenticated = 1 /\ sess'.username = me
          /\ sess'.deleted = sess.deleted /\ sess'.must_change = 0
      BY <1>3, <2>2, <2>3, SessionChangedType, SessionFields DEF ChangeRecord, TypeInv, TypeOK, me
    <2>5. mem'[me].must_change = 0 /\ mem'[me].deleted = mem[me].deleted
      BY <2>1, <2>2, <2>3, RecordChanged
    <2> QED
      BY <2>1, <2>2, <2>3, <2>4, <2>5 DEF SessionInv, MidRequest, Deleting, Step, me
  <1>4. CASE ChangeFailed
    <2>1. Working /\ pc' = "idle" /\ UNCHANGED sess /\ cut \subseteq cut' /\ me \in cut'
      BY <1>4 DEF ChangeFailed, Working, MidRequest, Step, Answer, CutShort
    <2>2. me \in User /\ mem[me] \in Account /\ mem[me].must_change <= sess.must_change
      BY <2>1, WorkSession DEF SessionInv
    <2>3. mem'[me].must_change <= sess.must_change /\ mem'[me].deleted = mem[me].deleted
      <3>1. CASE UNCHANGED accountVars
        BY <3>1, <2>2 DEF accountVars
      <3>2. CASE pc = "chg_db" /\ ChangeUnwritten(me, job.pw)
        <4>1. job.pw \in Password /\ mem' = Changed(me, job.pw)
          BY <3>2 DEF TypeInv, JobOK, ChangeUnwritten
        <4>2. mem'[me].must_change = 0 /\ mem'[me].deleted = mem[me].deleted
          BY <2>2, <4>1, RecordChanged
        <4> QED
          BY <4>2, FlagTypes
      <3> QED
        BY <1>4, <3>1, <3>2 DEF ChangeFailed
    <2> QED
      BY <2>1, <2>3, WorkSessionInv
  <1> QED
    BY <1>1, <1>2, <1>3, <1>4 DEF ChangePassword

LEMMA CreateSession == TypeInv /\ SessionInv /\ CreateKeys => SessionInv'
  <1> SUFFICES ASSUME TypeInv, SessionInv, CreateKeys PROVE SessionInv'
    OBVIOUS
  <1>1. CASE CreateRefused \/ CreateKeep
    BY <1>1, LoginSessionInv, ReadOnlyEffect, SameSession
  <1>2. CASE CreateBegin \/ CreatePub \/ CreateOpen \/ CreateEnc \/ CreateFailed
    <2>1. /\ Working /\ UNCHANGED <<mem, sess>> /\ cut \subseteq cut'
          /\ pc \notin {"del_pub", "del_enc"} /\ pc' \notin {"del_pub", "del_enc"}
      BY <1>2
      DEF CreateBegin, CreatePub, CreateOpen, CreateEnc, CreateFailed, CreateAdmitted, Cleanup,
          Working, MidRequest, Step, Goto, Answer, CutShort, Admitted, accountVars, historyVars
    <2> QED
      BY <2>1, WorkSession, WorkSessionInv DEF SessionInv
  <1> QED
    BY <1>1, <1>2 DEF CreateKeys

LEMMA DeleteSession == TypeInv /\ SessionInv /\ DeleteKeys => SessionInv'
  <1> SUFFICES ASSUME TypeInv, SessionInv, DeleteKeys PROVE SessionInv'
    OBVIOUS
  <1>1. CASE DeleteTombstone
    <2>1. Working /\ pc' = "del_pub" /\ UNCHANGED <<sess, cut>>
      BY <1>1 DEF DeleteTombstone, Working, Goto, historyVars
    <2>2. /\ sess.is_authenticated = 1 /\ sess.has_key = 1 /\ sess.deleted = 0
          /\ me \in User /\ mem[me] \in Account
      BY <2>1, WorkSession
    <2>3. mem'[me].must_change = mem[me].must_change /\ mem'[me].deleted = 1
      BY <1>1, <2>2, RecordDeleted DEF DeleteTombstone
    <2> QED
      BY <2>1, <2>2, <2>3 DEF SessionInv, MidRequest, Deleting, me
  <1>2. CASE DeletePub
    <2>1. Working /\ UNCHANGED <<mem, sess, cut>> /\ pc = "del_pub" /\ pc' = "del_enc"
      BY <1>2 DEF DeletePub, Working, MidRequest, Step, Goto, accountVars, historyVars
    <2>2. /\ sess.has_key = 1 /\ sess.deleted = 0
      BY <2>1, WorkSession
    <2> QED
      BY <2>1, <2>2 DEF SessionInv, MidRequest, Deleting, me
  <1>3. CASE DeleteEnc
    <2>1. Working /\ UNCHANGED mem /\ pc = "del_enc" /\ pc' = "idle"
      BY <1>3 DEF DeleteEnc, Working, MidRequest, Step, Answer, accountVars
    <2>2. sess.is_authenticated = 1 /\ mem[me].deleted = 1
      BY <2>1, WorkSession DEF SessionInv, Deleting
    <2>3. /\ sess'.is_authenticated = 1 /\ sess'.username = me /\ sess'.deleted = 1
          /\ sess'.must_change = sess.must_change
      BY <1>3, <2>2, SessionDeletedType, SessionFields DEF DeleteEnc, TypeInv, TypeOK, me
    <2> QED
      BY <2>1, <2>2, <2>3 DEF SessionInv, MidRequest, Deleting, Step, me
  <1>4. CASE DeleteFailed
    <2>1. /\ Working /\ UNCHANGED <<mem, sess>> /\ cut \subseteq cut' /\ pc' = "idle"
          /\ pc = "idle" \/ me \in cut'
      BY <1>4
      DEF DeleteFailed, Working, MidRequest, Step, Answer, CutShort, Admitted, accountVars,
          historyVars
    <2> QED
      BY <2>1, WorkSession, WorkSessionInv DEF SessionInv
  <1> QED
    BY <1>1, <1>2, <1>3, <1>4 DEF DeleteKeys

LEMMA NextSession == TypeInv /\ SessionInv /\ [Next]_vars => SessionInv'
  <1> SUFFICES ASSUME TypeInv, SessionInv, [Next]_vars PROVE SessionInv'
    OBVIOUS
  <1>1. CASE UNCHANGED vars
    BY <1>1, SameSession DEF vars
  <1>2. CASE Tool
    BY <1>2, ToolEffect, SameSession
  <1>3. CASE Server
    BY <1>3, ProcessSession, ReadOnlyEffect, SameSession, LoginSessionInv, ChangeSession,
       CreateSession, DeleteSession
    DEF Server, Authenticate
  <1> QED
    BY <1>1, <1>2, <1>3 DEF Next

\* The flags cached at login never allow what the table forbids, whatever fails
\* or dies, and whenever the tool runs.
THEOREM SessionSafety == Spec => []SessionFollowsTable
  <1>1. SessionInv => SessionFollowsTable
    BY DEF SessionInv, SessionFollowsTable, MidRequest, Deleting, Step
  <1> QED
    BY InitSession, NextSession, TypeCorrect, <1>1, PTL DEF Spec

-----------------------------------------------------------------------------
(* The two key files hold the same pair.                                   *)

LEMMA WholeTypes ==
  ASSUME TypeInv, NEW u \in User
  PROVE  /\ ~Whole(NoFile) /\ ~Whole(Torn) /\ NoFile # Torn
         /\ Whole(enc[u]) => enc[u] \in Blob /\ enc[u].key \in KeyId /\ enc[u].wrap \in WrapKey
         /\ \A k \in KeyId : Whole(k)
         /\ \A key \in KeyId, k \in WrapKey :
              Whole(Wrapped(key, k)) /\ Wrapped(key, k).ver = 2
                /\ Wrapped(key, k).key = key /\ Wrapped(key, k).wrap = k
  <1>1. enc[u] \in EncFile
    BY DEF TypeInv, TypeOK
  <1>2. Whole(enc[u]) => enc[u] \in Blob
    BY <1>1 DEF Whole, EncFile
  <1>3. \A key \in KeyId, k \in WrapKey : Wrapped(key, k) \in Blob
    BY DEF Wrapped, Blob
  <1>4. \A key \in KeyId, k \in WrapKey : Whole(Wrapped(key, k))
    BY <1>3, FileAssumption DEF Whole
  <1>5. enc[u] \in Blob => enc[u].key \in KeyId /\ enc[u].wrap \in WrapKey
    BY DEF Blob
  <1> QED
    BY <1>2, <1>4, <1>5, FileAssumption DEF Whole, Wrapped

\* Files that match exist both or not at all.
LEMMA MatchingFiles ==
  ASSUME TypeInv, NEW u \in User, FilesMatch(u)
  PROVE  /\ ~HasBothFiles(u) => pub[u] = NoFile /\ enc[u] = NoFile
         /\ Whole(enc[u]) => pub[u] = enc[u].key
         /\ enc[u] # NoFile => Whole(enc[u])
  <1>1. CASE pub[u] = NoFile /\ enc[u] = NoFile
    BY <1>1, WholeTypes
  <1>2. CASE Whole(enc[u]) /\ pub[u] = enc[u].key
    <2>1. Whole(pub[u])
      BY <1>2, WholeTypes
    <2> QED
      BY <1>2, <2>1 DEF HasBothFiles, Exists, Whole
  <1> QED
    BY <1>1, <1>2 DEF FilesMatch, PairMatches

LEMMA InitFiles == Init => FilesInv
  <1> SUFFICES ASSUME Init PROVE FilesInv
    OBVIOUS
  <1>1. PICK s \in [User -> Shape], p \in [User -> Password] :
          /\ enc = [u \in User |-> StartEnc(u, s[u], p[u])]
          /\ pub = [u \in User |-> StartPub(s[u])]
    BY DEF Init
  <1>2. ASSUME NEW u \in User PROVE FilesMatch(u)
    <2>1. s[u] \in Shapes
      BY ShapeAssumption
    <2>2. enc[u] = StartEnc(u, s[u], p[u]) /\ pub[u] = StartPub(s[u])
      BY <1>1
    <2>3. CASE s[u] \in {"absent", "fresh", "tombstoned"}
      BY <2>2, <2>3 DEF StartEnc, StartPub, FilesMatch, PairMatches
    <2>4. CASE s[u] \in {"keyed", "legacy", "leftover"}
      <3>1. LoginKey(u, p[u]) \in WrapKey /\ BlobKey(u, p[u]) \in WrapKey
        BY DEF LoginKey, BlobKey, WrapKey
      <3>2. 0 \in KeyId
        BY MaxKeysAssumption DEF KeyId
      <3>3. enc[u] \in Blob /\ enc[u].key = 0 /\ pub[u] = 0
        BY <2>2, <2>4, <3>1, <3>2 DEF StartEnc, StartPub, Wrapped, Blob
      <3> QED
        BY <3>3, FileAssumption DEF FilesMatch, PairMatches, Whole
    <2> QED
      BY <2>1, <2>3, <2>4 DEF Shapes
  <1> QED
    BY <1>2 DEF Init, FilesInv, KeyFilesMatch

\* A step that writes no key file, from a state in which the server waits or is
\* down to another one.
LEMMA RestingFiles ==
  ASSUME FilesInv, UNCHANGED <<pub, enc>>,
         pc \in {"down", "idle"}, pc' \in {"down", "idle"}, cut \subseteq cut'
  PROVE  FilesInv'
  BY DEF FilesInv, KeyFilesMatch, FilesMatch, PairMatches, Settled, MidRequest, Step, me

LEMMA ProcessFiles ==
  ASSUME FilesInv, Boot \/ Exit \/ Crash
  PROVE  FilesInv'
  <1>1. CASE Boot
    BY <1>1, BootEffect, RestingFiles
  <1>2. CASE (Exit \/ Crash) /\ pc = "idle"
    BY <1>2, EndEffect, RestingFiles DEF Step
  <1>3. CASE (Exit \/ Crash) /\ pc \in Step
    <2>1. /\ pc' = "down" /\ UNCHANGED <<pub, enc>> /\ cut' = cut \cup {me}
      BY <1>3, EndEffect DEF Step
    <2> QED
      BY <2>1 DEF FilesInv, KeyFilesMatch, FilesMatch, PairMatches, Settled, MidRequest, Step
  <1> QED
    BY <1>1, <1>2, <1>3, EndEffect

LEMMA ToolFiles ==
  ASSUME FilesInv, Tool
  PROVE  FilesInv'
  <1>1. UNCHANGED <<pub, enc, pc, sess, job, cut>>
    BY ToolEffect
  <1> QED
    BY <1>1 DEF FilesInv, KeyFilesMatch, FilesMatch, PairMatches, Settled, MidRequest, me

\* A step of a request leaves the files of other users alone: what it must
\* establish is about its own user.
LEMMA WorkFiles ==
  ASSUME FilesInv, sess'.username = me, cut \ {me} \subseteq cut',
         \A u \in User \ {me} : pub'[u] = pub[u] /\ enc'[u] = enc[u],
         pc' = "idle" /\ me \notin cut' => PairMatches(pub'[me], enc'[me]),
         pc' = "chg_enc" => enc'[me] = Torn,
         pc' = "del_enc" => pub'[me] = NoFile,
         pc' \in {"chg_db", "del_pub"} /\ me \notin cut' => PairMatches(pub'[me], enc'[me]),
         pc' \in {"chg_enc", "crt_open", "crt_enc"} /\ me \notin cut' => pub'[me] = job'.key,
         pc' \in {"crt_pub", "crt_open"} /\ me \notin cut' => enc'[me] = NoFile,
         pc' \in Step \cup {"idle"}
  PROVE  FilesInv'
  <1>1. me' = me
    BY DEF me
  <1>2. ASSUME NEW u \in User \ cut', Settled(u)' PROVE FilesMatch(u)'
    <2>1. CASE u = me
      BY <1>1, <1>2, <2>1 DEF Settled, MidRequest, FilesMatch, PairMatches
    <2>2. CASE u # me
      <3>1. u \notin cut /\ Settled(u)
        BY <2>2 DEF Settled
      <3> QED
        BY <2>2, <3>1 DEF FilesInv, KeyFilesMatch, FilesMatch, PairMatches
    <2> QED
      BY <2>1, <2>2
  <1> QED
    BY <1>1, <1>2 DEF FilesInv, KeyFilesMatch, FilesMatch, PairMatches

\* The files of the user a request is about to work on.
LEMMA RestingMatch ==
  ASSUME FilesInv, pc = "idle", me \in User, me \notin cut
  PROVE  FilesMatch(me)
  BY DEF FilesInv, KeyFilesMatch, Settled, MidRequest, Step

LEMMA ChangeBeginFiles ==
  ASSUME TypeInv, SessionInv, FilesInv, NEW p \in Password, ChangeBegin(p)
  PROVE  FilesInv'
  <1>1. pc = "idle" /\ me \in User /\ UNCHANGED <<pub, sess>> /\ cut \subseteq cut'
    BY WorkSession DEF ChangeBegin, Working, Admitted, CutShort, historyVars
  <1>2. me \notin cut => FilesMatch(me)
    BY <1>1, RestingMatch
  <1>3. CASE UNCHANGED enc /\ pc' = "chg_db"
    <2>1. me \notin cut' => PairMatches(pub'[me], enc'[me])
      BY <1>1, <1>2, <1>3 DEF FilesMatch, PairMatches
    <2> QED
      BY <1>1, <1>3, <2>1, WorkFiles DEF me, Step
  <1>4. CASE Opens(enc[me], sess.key) /\ SetEnc(me, Torn) /\ pc' = "chg_enc" /\ job'.key = enc[me].key
    <2>1. enc'[me] = Torn /\ \A u \in User \ {me} : enc'[u] = enc[u]
      BY <1>1, <1>4, SetFileKeeps
    <2>2. me \notin cut => pub[me] = enc[me].key
      BY <1>1, <1>2, <1>4, MatchingFiles DEF Opens
    <2> QED
      BY <1>1, <1>4, <2>1, <2>2, WorkFiles DEF me, Step
  <1>5. \/ UNCHANGED enc /\ pc' = "chg_db"
        \/ /\ Opens(enc[me], sess.key) /\ SetEnc(me, Torn)
           /\ pc' = "chg_enc" /\ job'.key = enc[me].key
    BY DEF ChangeBegin, Goto, ChangeJob
  <1> QED
    BY <1>3, <1>4, <1>5

LEMMA ChangeFiles == TypeInv /\ SessionInv /\ FilesInv /\ ChangePassword => FilesInv'
  <1> SUFFICES ASSUME TypeInv, SessionInv, FilesInv, ChangePassword PROVE FilesInv'
    OBVIOUS
  <1>1. CASE \E p \in Password : ChangeBegin(p)
    BY <1>1, ChangeBeginFiles
  <1>2. CASE ChangeRefused
    BY <1>2, ReadOnlyEffect, RestingFiles
  <1>3. CASE ChangeReencrypt
    <2>1. /\ me \in User /\ pc = "chg_enc" /\ pc' = "chg_db" /\ job.key \in KeyId
          /\ job.wrap \in WrapKey /\ UNCHANGED <<pub, sess, cut>>
      BY <1>3, WorkSession
      DEF ChangeReencrypt, Working, MidRequest, Step, Goto, historyVars, TypeInv, TypeOK, JobOK, Job
    <2>2. /\ enc'[me] = Wrapped(job.key, job.wrap)
          /\ \A u \in User \ {me} : enc'[u] = enc[u]
      BY <1>3, <2>1, SetFileKeeps DEF ChangeReencrypt
    <2>3. Whole(enc'[me]) /\ enc'[me].key = job.key
      BY <2>1, <2>2, WholeTypes
    <2>4. me \notin cut' => PairMatches(pub'[me], enc'[me])
      BY <2>1, <2>3 DEF FilesInv, FilesMatch, PairMatches
    <2> QED
      BY <2>1, <2>2, <2>4, WorkFiles DEF me, Step
  <1>4. CASE ChangeRecord
    <2>1. /\ me \in User /\ pc = "chg_db" /\ pc' = "idle" /\ UNCHANGED <<pub, enc, cut>>
          /\ sess.is_authenticated = 1 /\ job.wrap \in WrapKey
      BY <1>4, WorkSession
      DEF ChangeRecord, Working, MidRequest, Step, Answer, fileVars, historyVars, TypeInv, JobOK
    <2>2. sess'.username = me
      BY <1>4, <2>1, SessionChangedType DEF ChangeRecord, TypeInv, TypeOK, me
    <2>3. me \notin cut' => PairMatches(pub'[me], enc'[me])
      BY <2>1 DEF FilesInv, FilesMatch, PairMatches
    <2> QED
      BY <2>1, <2>2, <2>3, WorkFiles DEF Step
  <1>5. CASE ChangeFailed
    <2>1. pc' = "idle" /\ UNCHANGED <<pub, enc, sess>> /\ cut' = cut \cup {me}
      BY <1>5 DEF ChangeFailed, Answer, CutShort, fileVars
    <2> QED
      BY <2>1, WorkFiles DEF me, Step
  <1> QED
    BY <1>1, <1>2, <1>3, <1>4, <1>5 DEF ChangePassword

LEMMA CreateBeginFiles ==
  ASSUME TypeInv, SessionInv, FilesInv, CreateBegin
  PROVE  FilesInv'
  <1>1. /\ pc = "idle" /\ me \in User /\ ~HasBothFiles(me)
        /\ pc' = "crt_pub" /\ UNCHANGED <<enc, sess, cut>>
    BY WorkSession DEF CreateBegin, CreateAdmitted, Working, Admitted, Goto, historyVars
  <1>2. me \notin cut => enc[me] = NoFile
    BY <1>1, RestingMatch, MatchingFiles
  <1>3. \A u \in User \ {me} : pub'[u] = pub[u]
    BY <1>1, SetFileKeeps DEF CreateBegin
  <1> QED
    BY <1>1, <1>2, <1>3, WorkFiles DEF me, Step

LEMMA CreateWriteFiles ==
  ASSUME TypeInv, SessionInv, FilesInv, CreatePub \/ CreateOpen \/ CreateEnc
  PROVE  FilesInv'
  <1>1. /\ me \in User /\ job.key \in KeyId /\ job.wrap \in WrapKey /\ UNCHANGED <<sess, cut>>
    BY WorkSession
    DEF CreatePub, CreateOpen, CreateEnc, Working, MidRequest, Step, historyVars,
        TypeInv, TypeOK, JobOK, Job
  <1>2. CASE CreatePub
    <2>1. /\ pc = "crt_pub" /\ pc' = "crt_open" /\ UNCHANGED <<enc, job>>
          /\ pub'[me] = job.key /\ \A u \in User \ {me} : pub'[u] = pub[u]
      BY <1>1, <1>2, SetFileKeeps DEF CreatePub, Goto
    <2>2. me \notin cut => enc[me] = NoFile
      BY <2>1 DEF FilesInv
    <2> QED
      BY <1>1, <2>1, <2>2, WorkFiles DEF me, Step
  <1>3. CASE CreateOpen
    <2>1. /\ pc = "crt_open" /\ pc' = "crt_enc" /\ UNCHANGED <<pub, job>>
          /\ \A u \in User \ {me} : enc'[u] = enc[u]
      BY <1>1, <1>3, SetFileKeeps DEF CreateOpen, Goto
    <2>2. me \notin cut => pub[me] = job.key
      BY <2>1 DEF FilesInv
    <2> QED
      BY <1>1, <2>1, <2>2, WorkFiles DEF me, Step
  <1>4. CASE CreateEnc
    <2>1. /\ pc = "crt_enc" /\ pc' = "idle" /\ UNCHANGED pub
          /\ enc'[me] = Wrapped(job.key, job.wrap)
          /\ \A u \in User \ {me} : enc'[u] = enc[u]
      BY <1>1, <1>4, SetFileKeeps DEF CreateEnc, Answer
    <2>2. Whole(enc'[me]) /\ enc'[me].key = job.key
      BY <1>1, <2>1, WholeTypes
    <2>3. me \notin cut' => PairMatches(pub'[me], enc'[me])
      BY <1>1, <2>1, <2>2 DEF FilesInv, FilesMatch, PairMatches
    <2> QED
      BY <1>1, <2>1, <2>3, WorkFiles DEF me, Step
  <1> QED
    BY <1>2, <1>3, <1>4

\* The cleanup removes both files, or the request was cut short.
LEMMA CleanupFiles ==
  ASSUME TypeInv, me \in User, Cleanup
  PROVE  /\ \A u \in User \ {me} : pub'[u] = pub[u] /\ enc'[u] = enc[u]
         /\ pub'[me] \in {pub[me], NoFile} /\ enc'[me] \in {enc[me], NoFile}
         /\ acked' = acked
         /\ \/ pub'[me] = NoFile /\ enc'[me] = NoFile /\ cut' = cut
            \/ cut' = cut \cup {me}
  <1>1. CASE SetPub(me, NoFile) /\ SetEnc(me, NoFile) /\ UNCHANGED historyVars
    BY <1>1, SetFileKeeps DEF historyVars
  <1>2. CASE /\ \/ SetPub(me, NoFile) /\ UNCHANGED enc
                \/ SetEnc(me, NoFile) /\ UNCHANGED pub
                \/ UNCHANGED fileVars
             /\ CutShort(me)
    BY <1>2, SetFileKeeps DEF CutShort, fileVars
  <1> QED
    BY <1>1, <1>2 DEF Cleanup

LEMMA CreateFailedFiles ==
  ASSUME TypeInv, SessionInv, FilesInv, CreateFailed
  PROVE  FilesInv'
  <1>1. me \in User /\ pc' = "idle" /\ UNCHANGED sess
    BY WorkSession
    DEF CreateFailed, CreateAdmitted, Working, MidRequest, Step, Answer
  <1>2. CASE CreateAdmitted /\ UNCHANGED <<fileVars, historyVars>>
    BY <1>1, <1>2, RestingFiles DEF CreateAdmitted, Admitted, fileVars, historyVars
  <1>3. CASE Cleanup
    <2>1. me \notin cut' => PairMatches(pub'[me], enc'[me])
      BY <1>1, <1>3, CleanupFiles DEF FilesMatch, PairMatches
    <2> QED
      BY <1>1, <1>3, <2>1, CleanupFiles, WorkFiles DEF me, Step
  <1> QED
    BY <1>2, <1>3 DEF CreateFailed

LEMMA CreateFiles == TypeInv /\ SessionInv /\ FilesInv /\ CreateKeys => FilesInv'
  <1>1. CASE CreateRefused
    BY <1>1, LoginEffect, RestingFiles
  <1>2. CASE CreateKeep
    BY <1>2, ReadOnlyEffect, RestingFiles
  <1> QED
    BY <1>1, <1>2, CreateBeginFiles, CreateWriteFiles, CreateFailedFiles DEF CreateKeys

LEMMA DeleteFiles == TypeInv /\ SessionInv /\ FilesInv /\ DeleteKeys => FilesInv'
  <1> SUFFICES ASSUME TypeInv, SessionInv, FilesInv, DeleteKeys PROVE FilesInv'
    OBVIOUS
  <1>1. me \in User /\ sess.is_authenticated = 1
    BY WorkSession
    DEF DeleteKeys, DeleteTombstone, DeletePub, DeleteEnc, DeleteFailed, Working, MidRequest, Step
  <1>2. CASE DeleteTombstone
    <2>1. pc = "idle" /\ pc' = "del_pub" /\ UNCHANGED <<pub, enc, sess, cut>>
      BY <1>2 DEF DeleteTombstone, Admitted, Goto, fileVars, historyVars
    <2>2. me \notin cut' => PairMatches(pub'[me], enc'[me])
      BY <1>1, <2>1, RestingMatch DEF FilesMatch, PairMatches
    <2> QED
      BY <2>1, <2>2, WorkFiles DEF me, Step
  <1>3. CASE DeletePub
    <2>1. /\ pc' = "del_enc" /\ UNCHANGED <<enc, sess, cut>>
          /\ pub'[me] = NoFile /\ \A u \in User \ {me} : pub'[u] = pub[u]
      BY <1>1, <1>3, SetFileKeeps DEF DeletePub, Goto, historyVars
    <2> QED
      BY <2>1, WorkFiles DEF me, Step
  <1>4. CASE DeleteEnc
    <2>1. /\ pc = "del_enc" /\ pc' = "idle" /\ UNCHANGED pub /\ cut' = cut \ {me}
          /\ enc'[me] = NoFile /\ \A u \in User \ {me} : enc'[u] = enc[u]
      BY <1>1, <1>4, SetFileKeeps DEF DeleteEnc, Answer
    <2>2. PairMatches(pub'[me], enc'[me])
      BY <2>1 DEF FilesInv, FilesMatch, PairMatches
    <2>3. sess'.username = me
      BY <1>4, SessionDeletedType DEF DeleteEnc, TypeInv, TypeOK, me
    <2> QED
      BY <2>1, <2>2, <2>3, WorkFiles DEF Step
  <1>5. CASE DeleteFailed
    <2>1. CASE Admitted("DELETE_KEYS") /\ UNCHANGED <<enc, historyVars>>
      BY <1>5, <2>1, RestingFiles DEF DeleteFailed, Admitted, Answer, historyVars
    <2>2. CASE CutShort(me)
      <3>1. /\ pc' = "idle" /\ UNCHANGED <<pub, sess>> /\ cut' = cut \cup {me}
            /\ \A u \in User \ {me} : enc'[u] = enc[u]
        BY <1>1, <1>5, <2>2, SetFileKeeps DEF DeleteFailed, Answer, CutShort, historyVars
      <3> QED
        BY <3>1, WorkFiles DEF me, Step
    <2> QED
      BY <1>5, <2>1, <2>2 DEF DeleteFailed
  <1> QED
    BY <1>2, <1>3, <1>4, <1>5 DEF DeleteKeys

LEMMA NextFiles == TypeInv /\ SessionInv /\ FilesInv /\ [Next]_vars => FilesInv'
  <1> SUFFICES ASSUME TypeInv, SessionInv, FilesInv, [Next]_vars PROVE FilesInv'
    OBVIOUS
  <1>1. CASE UNCHANGED vars
    BY <1>1 DEF vars, FilesInv, KeyFilesMatch, FilesMatch, PairMatches, Settled, MidRequest, me
  <1>2. CASE Tool
    BY <1>2, ToolFiles
  <1>3. CASE ChangePassword \/ CreateKeys \/ DeleteKeys
    BY <1>3, ChangeFiles, CreateFiles, DeleteFiles
  <1>4. CASE Server
    BY <1>3, <1>4, ProcessFiles, ReadOnlyEffect, LoginEffect, RestingFiles
    DEF Server, Authenticate
  <1> QED
    BY <1>1, <1>2, <1>4 DEF Next

\* The two key files hold the same pair or neither exists, for every user no
\* request on whom was cut short, whatever fails or dies and whenever the tool runs.
THEOREM KeyFilesSafety == Spec => []KeyFilesMatch
  <1>1. FilesInv => KeyFilesMatch
    BY DEF FilesInv
  <1> QED
    BY InitFiles, NextFiles, InitSession, NextSession, TypeCorrect, <1>1, PTL DEF Spec

-----------------------------------------------------------------------------
(* The pair a creation is about to write is new.                           *)

LEMMA InitUsed == Init => UsedInv
  <1> SUFFICES ASSUME Init PROVE UsedInv
    OBVIOUS
  <1>1. \A u \in User : pub[u] \in {0, NoFile}
    BY DEF Init, StartPub
  <1>2. NoFile \notin KeyId
    BY FileAssumption
  <1> QED
    BY <1>1, <1>2 DEF Init, UsedInv, Creating

\* A step that generates no key pair and writes none to public.pem.
LEMMA UsedKept ==
  ASSUME TypeInv, UsedInv, UNCHANGED nkeys,
         \A u \in User : pub'[u] = pub[u] \/ pub'[u] \notin KeyId,
         Creating' => Creating /\ UNCHANGED <<sess, job>>
  PROVE  UsedInv'
  <1>1. nkeys \in Nat
    BY MaxKeysAssumption DEF TypeInv, TypeOK
  <1> QED
    BY <1>1 DEF UsedInv, me

LEMMA CreateUsed == TypeInv /\ SessionInv /\ UsedInv /\ CreateKeys => UsedInv'
  <1> SUFFICES ASSUME TypeInv, SessionInv, UsedInv, CreateKeys PROVE UsedInv'
    OBVIOUS
  <1>1. CASE CreateRefused \/ CreateKeep
    BY <1>1, LoginEffect, ReadOnlyEffect, UsedKept DEF Creating
  <1>2. nkeys \in Nat /\ NoFile \notin KeyId /\ Torn \notin KeyId /\ KeyId \subseteq Nat
    BY MaxKeysAssumption, FileAssumption DEF TypeInv, TypeOK, KeyId
  <1>3. CASE CreateBegin
    <2>1. /\ me \in User /\ ~Creating /\ UNCHANGED sess
          /\ nkeys' = nkeys + 1 /\ job'.key = nkeys + 1
      BY <1>3, WorkSession
      DEF CreateBegin, CreateAdmitted, Working, Admitted, Goto, Creating
    <2>2. pub'[me] = Torn /\ \A u \in User \ {me} : pub'[u] = pub[u]
      BY <1>3, <2>1, SetFileKeeps DEF CreateBegin
    <2>3. ASSUME NEW u \in User, pub'[u] \in KeyId
          PROVE  pub'[u] < nkeys' /\ pub'[u] <= nkeys'
      <3>1. u # me
        BY <1>2, <2>2, <2>3
      <3>2. pub'[u] = pub[u]
        BY <2>2, <3>1
      <3>3. pub[u] \in Nat /\ pub[u] <= nkeys
        BY <1>2, <2>3, <3>2 DEF UsedInv
      <3> QED
        BY <1>2, <2>1, <3>2, <3>3
    <2> QED
      BY <2>1, <2>3 DEF UsedInv
  <1>4. CASE CreatePub
    <2>1. /\ me \in User /\ Creating /\ UNCHANGED <<sess, nkeys, job>>
      BY <1>4, WorkSession DEF CreatePub, Working, MidRequest, Step, Goto, Creating
    <2>2. pub'[me] = nkeys /\ \A u \in User \ {me} : pub'[u] = pub[u]
      BY <1>4, <2>1, SetFileKeeps DEF CreatePub, UsedInv
    <2>3. me' = me /\ job'.key = nkeys'
      BY <2>1 DEF me, UsedInv
    <2>4. ASSUME NEW u \in User, pub'[u] \in KeyId
          PROVE  pub'[u] <= nkeys' /\ (me # u => pub'[u] < nkeys')
      <3>1. CASE u = me
        BY <1>2, <2>1, <2>2, <3>1
      <3>2. CASE u # me
        BY <2>1, <2>2, <2>4, <3>2 DEF UsedInv
      <3> QED
        BY <3>1, <3>2
    <2> QED
      BY <2>3, <2>4 DEF UsedInv
  <1>5. CASE CreateOpen \/ CreateEnc
    BY <1>5, UsedKept DEF CreateOpen, CreateEnc, Creating, Goto, Answer
  <1>6. CASE CreateFailed
    <2>1. me \in User /\ UNCHANGED nkeys /\ pc' = "idle"
      BY <1>6, WorkSession
      DEF CreateFailed, CreateAdmitted, Working, MidRequest, Step, Answer
    <2>2. \A u \in User : pub'[u] = pub[u] \/ pub'[u] \notin KeyId
      BY <1>2, <1>6, <2>1, CleanupFiles DEF CreateFailed, fileVars
    <2> QED
      BY <2>1, <2>2, UsedKept DEF Creating
  <1> QED
    BY <1>1, <1>3, <1>4, <1>5, <1>6 DEF CreateKeys

LEMMA ChangeDeleteUsed ==
  ASSUME TypeInv, SessionInv, UsedInv, ChangePassword \/ DeleteKeys
  PROVE  UsedInv'
  <1>1. UNCHANGED nkeys /\ ~Creating'
    BY DEF ChangePassword, ChangeBegin, ChangeRefused, ChangeReencrypt, ChangeRecord,
           ChangeFailed, DeleteKeys, DeleteTombstone, DeletePub, DeleteEnc, DeleteFailed,
           Goto, Answer, Creating
  <1>2. UNCHANGED pub \/ (me \in User /\ SetPub(me, NoFile))
    BY WorkSession
    DEF ChangePassword, ChangeBegin, ChangeRefused, ChangeReencrypt, ChangeRecord,
        ChangeFailed, DeleteKeys, DeleteTombstone, DeletePub, DeleteEnc, DeleteFailed,
        fileVars, Working, MidRequest, Step
  <1>3. \A u \in User : pub'[u] = pub[u] \/ pub'[u] \notin KeyId
    BY <1>2, SetFileKeeps, FileAssumption
  <1> QED
    BY <1>1, <1>3, UsedKept

LEMMA NextUsed == TypeInv /\ SessionInv /\ UsedInv /\ [Next]_vars => UsedInv'
  <1> SUFFICES ASSUME TypeInv, SessionInv, UsedInv, [Next]_vars PROVE UsedInv'
    OBVIOUS
  <1>1. CASE UNCHANGED vars
    BY <1>1, UsedKept DEF vars, Creating
  <1>2. CASE Tool
    BY <1>2, ToolEffect, UsedKept DEF Creating
  <1>3. CASE Boot \/ Exit \/ Crash
    BY <1>3, BootEffect, EndEffect, UsedKept DEF Creating
  <1>4. CASE ChangePassword \/ CreateKeys \/ DeleteKeys
    BY <1>4, CreateUsed, ChangeDeleteUsed
  <1>5. CASE Server
    BY <1>3, <1>4, <1>5, ReadOnlyEffect, LoginEffect, UsedKept
    DEF Server, Authenticate, Creating
  <1> QED
    BY <1>1, <1>2, <1>5 DEF Next

\* The pair a creation is about to write is in no other user's public.pem,
\* whatever fails or dies and whenever the tool runs.
THEOREM PairsAreNew ==
  Spec => [](Creating => \A u \in User \ {me} : pub[u] # job.key)
  <1>1. TypeInv /\ UsedInv => (Creating => \A u \in User \ {me} : pub[u] # job.key)
    <2> SUFFICES ASSUME TypeInv, UsedInv, Creating, NEW u \in User \ {me}, pub[u] = job.key
                 PROVE  FALSE
      OBVIOUS
    <2>1. pub[u] = nkeys /\ nkeys \in KeyId /\ nkeys \in Nat
      BY MaxKeysAssumption DEF UsedInv, TypeInv, TypeOK, KeyId
    <2>2. pub[u] < nkeys
      BY <2>1 DEF UsedInv
    <2> QED
      BY <2>1, <2>2
  <1> QED
    BY InitUsed, NextUsed, InitSession, NextSession, TypeCorrect, <1>1, PTL DEF Spec

-----------------------------------------------------------------------------
(* The table is saved, for a tool that runs while the server is down.      *)

LEMMA InitSaved == Init => SavedInv
  BY DEF Init, SavedInv, TableIsSaved, Down, Deleting, Creating

\* Steps that change neither table.
LEMMA SameTables ==
  ASSUME SavedInv, UNCHANGED <<db, mem, tool>>, pc # "down", cut \subseteq cut',
         Deleting' => Deleting, Creating' => mem[me'].deleted = 0
  PROVE  SavedInv'
  BY DEF SavedInv, TableIsSaved, Down

LEMMA ProcessSaved ==
  ASSUME SavedInv, ToolOnline = FALSE, Boot \/ Exit \/ Crash
  PROVE  SavedInv'
  <1>1. CASE Boot
    BY <1>1, BootEffect DEF SavedInv, TableIsSaved, Down, Deleting, Creating
  <1>2. CASE Exit \/ Crash
    BY <1>2, EndEffect DEF SavedInv, TableIsSaved, Down, Deleting, Creating
  <1> QED
    BY <1>1, <1>2

LEMMA ChangeSaved ==
  ASSUME TypeInv, SavedInv, ChangePassword
  PROVE  SavedInv'
  <1>1. CASE (\E p \in Password : ChangeBegin(p)) \/ ChangeRefused \/ ChangeReencrypt
    BY <1>1, SameTables
    DEF ChangeBegin, ChangeRefused, ChangeReencrypt, Admitted, Goto, Answer, CutShort,
        Deleting, Creating, accountVars, historyVars
  <1>2. CASE ChangeRecord
    <2>1. pc = "chg_db" /\ pc' = "idle" /\ db' = mem' /\ tool' = tool
      BY <1>2
      DEF ChangeRecord, Answer, auth_change_password_authenticated, auth_write_db
    <2> QED
      BY <2>1 DEF SavedInv, TableIsSaved, Down, Deleting, Creating
  <1>3. CASE ChangeFailed
    <2>1. /\ pc # "down" /\ pc' = "idle" /\ UNCHANGED <<db, tool>> /\ cut' = cut \cup {me}
      BY <1>3 DEF ChangeFailed, Answer, CutShort, ChangeUnwritten, accountVars
    <2>2. \A u \in User \ {me} : mem'[u] = mem[u]
      BY <1>3 DEF ChangeFailed, ChangeUnwritten, Changed, accountVars, TypeInv, TypeOK, Table
    <2>3. \A u \in User \ cut' : mem'[u] = db'[u]
      BY <2>1, <2>2 DEF SavedInv, TableIsSaved, Down
    <2> QED
      BY <2>1, <2>3 DEF SavedInv, TableIsSaved, Down, Deleting, Creating
  <1> QED
    BY <1>1, <1>2, <1>3 DEF ChangePassword

LEMMA CreateSaved ==
  ASSUME TypeInv, SavedInv, CreateKeys
  PROVE  SavedInv'
  <1>1. CASE CreateRefused \/ CreateKeep
    BY <1>1, LoginEffect, ReadOnlyEffect, SameTables DEF Deleting, Creating
  <1>2. CASE CreateBegin
    BY <1>2, SameTables
    DEF CreateBegin, CreateAdmitted, auth_get_deleted, Admitted, Goto, Deleting, me,
        accountVars, historyVars
  <1>3. CASE CreatePub \/ CreateOpen \/ CreateEnc
    <2>1. /\ Creating /\ pc # "down" /\ ~Deleting' /\ UNCHANGED <<db, mem, tool, cut, sess>>
      BY <1>3
      DEF CreatePub, CreateOpen, CreateEnc, Goto, Answer, Creating, Deleting, accountVars,
          historyVars
    <2> QED
      BY <2>1, SameTables DEF SavedInv, me
  <1>4. CASE CreateFailed
    BY <1>4, SameTables
    DEF CreateFailed, CreateAdmitted, Cleanup, CutShort, Admitted, Answer, Deleting, Creating,
        accountVars, historyVars
  <1> QED
    BY <1>1, <1>2, <1>3, <1>4 DEF CreateKeys

LEMMA DeleteSaved ==
  ASSUME TypeInv, SavedInv, DeleteKeys
  PROVE  SavedInv'
  <1>1. CASE DeleteTombstone
    <2>1. pc = "idle" /\ pc' = "del_pub" /\ db' = mem' /\ tool' = tool
      BY <1>1 DEF DeleteTombstone, Admitted, Goto, auth_set_deleted, auth_write_db
    <2> QED
      BY <2>1 DEF SavedInv, TableIsSaved, Down, Deleting, Creating
  <1>2. CASE DeletePub
    BY <1>2, SameTables
    DEF DeletePub, Goto, Deleting, Creating, accountVars, historyVars
  <1>3. CASE DeleteEnc
    <2>1. pc = "del_enc" /\ pc' = "idle" /\ UNCHANGED <<db, mem, tool>> /\ mem = db
      BY <1>3 DEF DeleteEnc, Answer, accountVars, SavedInv, Deleting
    <2> QED
      BY <2>1 DEF SavedInv, TableIsSaved, Down, Deleting, Creating
  <1>4. CASE DeleteFailed
    BY <1>4, SameTables
    DEF DeleteFailed, Admitted, Answer, CutShort, Deleting, Creating, accountVars, historyVars
  <1> QED
    BY <1>1, <1>2, <1>3, <1>4 DEF DeleteKeys

LEMMA ToolSaved ==
  ASSUME SavedInv, ToolOnline = FALSE, Tool
  PROVE  SavedInv'
  <1>1. UNCHANGED <<mem, pc, sess, cut>>
    BY ToolEffect
  <1>2. pc = "down"
    BY DEF Tool, ToolLoad, ToolWrite, ToolAbort, SavedInv, Down
  <1>3. CASE \E u \in User, p \in Password : ToolLoad(u, p)
    <2>1. tool'.table = db /\ Registrable(db, tool'.user) /\ UNCHANGED db
      BY <1>3 DEF ToolLoad, accountVars
    <2>2. tool' # ToolIdle => Registrable(db', tool'.user)
      BY <2>1 DEF Registrable
    <2> QED
      BY <1>1, <1>2, <2>1, <2>2 DEF SavedInv, TableIsSaved, Down, Deleting, Creating
  <1>4. CASE ToolWrite \/ ToolAbort
    BY <1>1, <1>2, <1>4
    DEF ToolWrite, ToolAbort, SavedInv, TableIsSaved, Down, Deleting, Creating
  <1> QED
    BY <1>3, <1>4 DEF Tool

\* No step of the server touches a run of the tool.
LEMMA ServerTool == Server => UNCHANGED tool
  <1>1. Boot \/ Exit \/ Crash => UNCHANGED tool
    BY DEF Boot, Exit, Crash
  <1>2. (\E op \in Op : Refuse(op) \/ BadRequest(op)) => UNCHANGED tool
    BY DEF Refuse, BadRequest
  <1>3. Authenticate \/ Logout => UNCHANGED tool
    BY DEF Authenticate, AuthOk, AuthUnanswered, AuthBad, Logout
  <1>4. ChangePassword => UNCHANGED tool
    BY DEF ChangePassword, ChangeBegin, ChangeRefused, ChangeReencrypt, ChangeRecord, ChangeFailed
  <1>5. CreateKeys => UNCHANGED tool
    BY DEF CreateKeys, CreateRefused, CreateKeep, CreateBegin, CreatePub, CreateOpen, CreateEnc,
           CreateFailed
  <1>6. DeleteKeys => UNCHANGED tool
    BY DEF DeleteKeys, DeleteTombstone, DeletePub, DeleteEnc, DeleteFailed
  <1>7. SignOk \/ SignFailed \/ (\E u \in User : GetPublicKey(u)) => UNCHANGED tool
    BY DEF SignOk, SignFailed, GetPublicKey
  <1> QED
    BY <1>1, <1>2, <1>3, <1>4, <1>5, <1>6, <1>7 DEF Server

LEMMA NextSaved ==
  ASSUME TypeInv, SavedInv, ToolOnline = FALSE, [Next]_vars
  PROVE  SavedInv'
  <1>1. CASE UNCHANGED vars
    BY <1>1 DEF vars, SavedInv, TableIsSaved, Down, Deleting, Creating, Registrable, me
  <1>2. CASE Tool
    BY <1>2, ToolSaved
  <1>3. CASE ChangePassword \/ CreateKeys \/ DeleteKeys
    BY <1>3, ChangeSaved, CreateSaved, DeleteSaved
  <1>4. CASE Server
    BY <1>3, <1>4, ProcessSaved, ReadOnlyEffect, LoginEffect, SameTables
    DEF Server, Authenticate, Deleting, Creating
  <1> QED
    BY <1>1, <1>2, <1>4 DEF Next

\* The table in memory differs from users.db only in the record of a user a
\* request on whom failed, for a tool that runs while the server is down.
THEOREM TableSafety == ToolOnline = FALSE => (Spec => []TableIsSaved)
  <1> SUFFICES ASSUME ToolOnline = FALSE PROVE Spec => []TableIsSaved
    OBVIOUS
  <1>1. TypeInv /\ SavedInv /\ [Next]_vars => SavedInv'
    BY NextSaved
  <1>2. SavedInv => TableIsSaved
    BY DEF SavedInv
  <1> QED
    BY InitSaved, <1>1, <1>2, TypeCorrect, PTL DEF Spec

\* The tool leaves the record of every active account as it is, for a tool that
\* runs while the server is down.
THEOREM ToolKeepsActive == ToolOnline = FALSE => (Spec => ActiveAccountsKept)
  <1> SUFFICES ASSUME ToolOnline = FALSE PROVE Spec => ActiveAccountsKept
    OBVIOUS
  <1>1. TypeInv /\ SavedInv /\ [Next]_vars =>
          [tool # ToolIdle /\ tool' = ToolIdle =>
             \A u \in User : db[u] # NoAccount /\ db[u].deleted = 0 => db'[u] = db[u]]_vars
    <2> SUFFICES ASSUME TypeInv, SavedInv, Next, tool # ToolIdle, tool' = ToolIdle,
                        NEW u \in User, db[u] # NoAccount, db[u].deleted = 0
                 PROVE  db'[u] = db[u]
      OBVIOUS
    <2>1. pc = "down" /\ tool.table = db /\ Registrable(db, tool.user) /\ ~Boot
      BY DEF SavedInv, Down, Boot
    <2>2. CASE ToolWrite
      <3>1. tool.user \in User /\ tool.pw \in Password /\ db \in Table
        BY DEF TypeInv, TypeOK
      <3>2. u # tool.user
        BY <2>1 DEF Registrable
      <3> QED
        BY <2>1, <2>2, <3>1, <3>2, RegisteredType DEF ToolWrite, ap_write_db_atomic
    <2>3. CASE ToolAbort \/ \E v \in User, p \in Password : ToolLoad(v, p)
      BY <2>3 DEF ToolAbort, ToolLoad, accountVars
    <2>4. ~Server
      BY ServerTool
    <2> QED
      BY <2>2, <2>3, <2>4 DEF Next, Tool
  <1>2. TypeInv /\ SavedInv /\ [Next]_vars => SavedInv'
    BY NextSaved
  <1> QED
    BY InitSaved, <1>1, <1>2, TypeCorrect, PTL DEF Spec, ActiveAccountsKept

-----------------------------------------------------------------------------
(* No key file comes into being under a tombstone.                         *)

\* Only the creation of keys makes a file that was not there, and only for the
\* user of the session.
LEMMA OnlyCreationMakesFiles ==
  ASSUME TypeInv, SessionInv, FilesInv, Next, NEW u \in User,
         u # me \/ ~(Creating \/ CreateAdmitted)
  PROVE  /\ pub[u] = NoFile => pub'[u] = NoFile
         /\ enc[u] = NoFile => enc'[u] = NoFile
  <1>1. CASE UNCHANGED <<pub, enc>>
    BY <1>1
  <1>2. CASE ChangePassword
    <2>1. CASE \E p \in Password : ChangeBegin(p)
      <3>1. UNCHANGED pub /\ (UNCHANGED enc \/ (Opens(enc[me], sess.key) /\ SetEnc(me, Torn)))
        BY <2>1 DEF ChangeBegin
      <3>2. me \in User
        BY <2>1, WorkSession DEF ChangeBegin, Working
      <3> QED
        BY <3>1, <3>2, SetFileKeeps DEF Opens, Whole
    <2>2. CASE ChangeReencrypt
      <3>1. me \in User /\ UNCHANGED pub /\ enc[me] = Torn
        BY <2>2, WorkSession DEF ChangeReencrypt, Working, MidRequest, Step, FilesInv
      <3> QED
        BY <2>2, <3>1, SetFileKeeps, FileAssumption DEF ChangeReencrypt
    <2>3. CASE ChangeRefused \/ ChangeRecord \/ ChangeFailed
      BY <2>3 DEF ChangeRefused, ChangeRecord, ChangeFailed, fileVars
    <2> QED
      BY <1>2, <2>1, <2>2, <2>3 DEF ChangePassword
  <1>3. CASE CreateKeys
    <2>1. CASE CreateRefused \/ CreateKeep
      BY <2>1, LoginEffect, ReadOnlyEffect
    <2>2. CASE CreateBegin \/ CreatePub \/ CreateOpen \/ CreateEnc \/ CreateFailed
      <3>1. me \in User /\ (Creating \/ CreateAdmitted)
        BY <2>2, WorkSession
        DEF CreateBegin, CreatePub, CreateOpen, CreateEnc, CreateFailed, CreateAdmitted,
            Creating, Working, MidRequest, Step
      <3>2. /\ UNCHANGED pub \/ \E f : SetPub(me, f)
            /\ UNCHANGED enc \/ \E f : SetEnc(me, f)
        BY <2>2
        DEF CreateBegin, CreatePub, CreateOpen, CreateEnc, CreateFailed, Cleanup, fileVars
      <3> QED
        BY <3>1, <3>2, SetFileKeeps
    <2> QED
      BY <1>3, <2>1, <2>2 DEF CreateKeys
  <1>4. CASE DeleteKeys
    <2>1. me \in User
      BY <1>4, WorkSession
      DEF DeleteKeys, DeleteTombstone, DeletePub, DeleteEnc, DeleteFailed, Working, MidRequest,
          Step
    <2>2. /\ UNCHANGED pub \/ SetPub(me, NoFile)
          /\ UNCHANGED enc \/ SetEnc(me, NoFile)
      BY <1>4
      DEF DeleteKeys, DeleteTombstone, DeletePub, DeleteEnc, DeleteFailed, fileVars
    <2> QED
      BY <2>1, <2>2, SetFileKeeps
  <1>5. CASE Tool
    BY <1>5, ToolEffect
  <1>6. CASE Server
    BY <1>2, <1>3, <1>4, <1>6, BootEffect, EndEffect, ReadOnlyEffect, LoginEffect
    DEF Server, Authenticate
  <1> QED
    BY <1>5, <1>6 DEF Next

\* A creation is under way, or begins, for an account that is not deleted.
LEMMA CreationOnLiveAccount ==
  ASSUME TypeInv, TombstoneInv, SavedInv, Creating \/ CreateAdmitted
  PROVE  me \in User /\ db[me] # NoAccount /\ db[me].deleted = 0
  <1>1. me \in User /\ mem[me] # NoAccount /\ SameTombstones(mem, db)
    BY WorkingUser DEF Creating, CreateAdmitted, Step
  <1>2. mem[me].deleted = 0
    BY DEF SavedInv, CreateAdmitted, auth_get_deleted
  <1> QED
    BY <1>1, <1>2 DEF SameTombstones

\* No key file comes into being while users.db says its owner is deleted, for a
\* tool that runs while the server is down.
THEOREM TombstoneBlocksKeys == ToolOnline = FALSE => (Spec => NoKeyUnderTombstone)
  <1> SUFFICES ASSUME ToolOnline = FALSE PROVE Spec => NoKeyUnderTombstone
    OBVIOUS
  <1> DEFINE Blocked ==
        \A u \in User :
          db[u] # NoAccount /\ db[u].deleted = 1 =>
            /\ pub[u] = NoFile => pub'[u] = NoFile
            /\ enc[u] = NoFile => enc'[u] = NoFile
  <1>1. TypeInv /\ SessionInv /\ FilesInv /\ TombstoneInv /\ SavedInv /\ [Next]_vars
          => [Blocked]_vars
    BY OnlyCreationMakesFiles, CreationOnLiveAccount
  <1>2. TypeInv /\ TombstoneInv /\ [Next]_vars => TombstoneInv'
    BY NextTombstone
  <1>3. TypeInv /\ SavedInv /\ [Next]_vars => SavedInv'
    BY NextSaved
  <1> QED
    BY InitFiles, NextFiles, InitSession, NextSession, InitKeeps, InitSaved, TypeCorrect,
       <1>1, <1>2, <1>3, PTL
    DEF Spec, NoKeyUnderTombstone

-----------------------------------------------------------------------------
(* A signature is given for a live account only, and getpub verifies it.   *)

LEMMA InitSigned == Init => SignatureVerifies
  BY DEF Init, NoReply, SignatureVerifies

\* The response to SIGN_DOC does not outlive the next step.
LEMMA OnlySigningSigns ==
  ASSUME Next, reply' = [op |-> "SIGN_DOC", st |-> "OK"]
  PROVE  SignOk
  <1>1. ~Tool
    BY DEF Tool, ToolLoad, ToolWrite, ToolAbort, NoReply
  <1>2. ~(Boot \/ Exit \/ Crash)
    BY DEF Boot, Exit, Crash, GoDown, NoReply
  <1>3. ~(\E op \in Op : Refuse(op) \/ BadRequest(op)) /\ ~SignFailed
    BY DEF Refuse, BadRequest, SignFailed, Answer
  <1>4. ~Authenticate /\ ~Logout /\ ~(\E u \in User : GetPublicKey(u))
    BY DEF Authenticate, AuthOk, AuthUnanswered, AuthBad, Logout, GetPublicKey, Answer
  <1>5. ~ChangePassword
    BY DEF ChangePassword, ChangeBegin, ChangeRefused, ChangeReencrypt, ChangeRecord,
           ChangeFailed, Answer, Goto, NoReply
  <1>6. ~CreateKeys
    BY DEF CreateKeys, CreateRefused, CreateKeep, CreateBegin, CreatePub, CreateOpen, CreateEnc,
           CreateFailed, Answer, Goto, NoReply
  <1>7. ~DeleteKeys
    BY DEF DeleteKeys, DeleteTombstone, DeletePub, DeleteEnc, DeleteFailed, Answer, Goto, NoReply
  <1> QED
    BY <1>1, <1>2, <1>3, <1>4, <1>5, <1>6, <1>7 DEF Next, Server

LEMMA NextSigned ==
  ASSUME TypeInv, SessionInv, FilesInv, TombstoneInv, SavedInv, SignatureVerifies, [Next]_vars
  PROVE  SignatureVerifies'
  <1>1. CASE UNCHANGED vars
    BY <1>1 DEF vars, SignatureVerifies, me
  <1>2. CASE SignOk
    <2>1. /\ me \in User /\ mem[me] # NoAccount /\ SameTombstones(mem, db) /\ pc = "idle"
      BY <1>2, WorkingUser DEF SignOk, Admitted
    <2>2. mem[me].deleted = 0 /\ Opens(enc[me], sess.key)
      BY <1>2 DEF SignOk, CanSign, auth_get_deleted
    <2>3. db[me].deleted = 0
      BY <2>1, <2>2 DEF SameTombstones
    <2>4. sess.must_change = 0
      BY <1>2, FlagTypes DEF SignOk, Admitted, MustChangeFirst
    <2>5. me \notin cut => db[me].must_change = 0
      <3>1. sess.is_authenticated = 1 /\ mem[me].must_change \in {0, 1}
        BY <1>2, <2>1, AdmittedSession, FlagTypes DEF SignOk
      <3>2. mem[me].must_change = 0
        BY <2>4, <3>1 DEF SessionInv
      <3> QED
        BY <2>1, <3>2 DEF SavedInv, TableIsSaved, Down
    <2>6. me \notin cut => pub[me] = enc[me].key
      BY <2>1, <2>2, RestingMatch, MatchingFiles DEF Opens
    <2>7. UNCHANGED <<db, pub, enc, sess, cut>>
      BY <1>2 DEF SignOk, accountVars, fileVars, historyVars
    <2> QED
      BY <2>3, <2>4, <2>5, <2>6, <2>7 DEF SignatureVerifies, me
  <1>3. CASE reply' # [op |-> "SIGN_DOC", st |-> "OK"]
    BY <1>3 DEF SignatureVerifies
  <1> QED
    BY <1>1, <1>2, <1>3, OnlySigningSigns

\* A signature is given for a live account with no password change pending, and
\* getpub hands out the key that verifies it unless a request on the user was
\* cut short, for a tool that runs while the server is down.
THEOREM SignatureSafety == ToolOnline = FALSE => (Spec => []SignatureVerifies)
  <1> SUFFICES ASSUME ToolOnline = FALSE PROVE Spec => []SignatureVerifies
    OBVIOUS
  <1>1. TypeInv /\ TombstoneInv /\ [Next]_vars => TombstoneInv'
    BY NextTombstone
  <1>2. TypeInv /\ SavedInv /\ [Next]_vars => SavedInv'
    BY NextSaved
  <1>3. TypeInv /\ SessionInv /\ FilesInv /\ TombstoneInv /\ SavedInv /\ SignatureVerifies
          /\ [Next]_vars => SignatureVerifies'
    BY NextSigned
  <1> QED
    BY InitFiles, NextFiles, InitSession, NextSession, InitKeeps, InitSaved, InitSigned,
       TypeCorrect, <1>1, <1>2, <1>3, PTL
    DEF Spec

-----------------------------------------------------------------------------
(* The keys in use open the private key.                                   *)

LEMMA DerivedKey ==
  ASSUME NEW u \in User, NEW p
  PROVE  /\ ks_derive_session_key(u, p) \in KeyOf(u, p)
         /\ LoginKey(u, p) \in KeyOf(u, p)
         /\ \A k \in KeyOf(u, p) : k.kdf # "blob" => k = LoginKey(u, p)
         /\ ~(Whole(enc[u]) /\ enc[u].ver = 1) => ks_derive_session_key(u, p) = LoginKey(u, p)
  BY DEF ks_derive_session_key, KeyOf, LoginKey, BlobKey

LEMMA InitOpen == Init => OpenInv
  <1> SUFFICES ASSUME Init PROVE OpenInv
    OBVIOUS
  <1>1. PICK s \in [User -> Shape], p \in [User -> Password] :
          /\ db = [u \in User |-> StartAccount(s[u], p[u])]
          /\ enc = [u \in User |-> StartEnc(u, s[u], p[u])]
          /\ cut = {u \in User : s[u] = "leftover"}
    BY DEF Init
  <1>2. ASSUME NEW u \in User \ cut
        PROVE  /\ Readable(u) => Opens(enc[u], ks_derive_session_key(u, db[u].pw))
               /\ Gone(db[u]) => enc[u] = NoFile
    <2>1. /\ s[u] \in {"absent", "fresh", "keyed", "legacy", "tombstoned"}
          /\ enc[u] = StartEnc(u, s[u], p[u]) /\ db[u] = StartAccount(s[u], p[u])
          /\ p[u] \in Password
      BY <1>1, ShapeAssumption DEF Shapes
    <2>2. CASE s[u] \in {"absent", "fresh", "tombstoned"}
      BY <2>1, <2>2 DEF StartEnc, Readable, Whole
    <2>3. CASE s[u] \in {"keyed", "legacy"}
      <3>1. db[u] = [pw |-> p[u], must_change |-> 0, deleted |-> 0]
        BY <2>1, <2>3 DEF StartAccount
      <3>2. db[u] \in Account
        BY <2>1, <3>1 DEF Account, Flag
      <3>3. ~Gone(db[u]) /\ db[u].pw = p[u]
        BY <3>1, <3>2, NoAccountAssumption DEF Gone
      <3>4. CASE s[u] = "keyed"
        <4>1. enc[u].ver = 2 /\ enc[u].wrap = LoginKey(u, p[u])
          BY <2>1, <3>4 DEF StartEnc, Wrapped
        <4> QED
          BY <3>3, <4>1 DEF Readable, Opens, ks_derive_session_key
      <3>5. CASE s[u] = "legacy"
        <4>1. enc[u].ver = 1 /\ enc[u].wrap = BlobKey(u, p[u])
          BY <2>1, <3>5 DEF StartEnc
        <4> QED
          BY <3>3, <4>1 DEF Readable, Opens, ks_derive_session_key
      <3> QED
        BY <2>3, <3>4, <3>5
    <2> QED
      BY <2>1, <2>2, <2>3
  <1>3. sess.has_key = 0 /\ pc = "down"
    BY ClearedSessionType DEF Init
  <1> QED
    BY <1>2, <1>3 DEF OpenInv, PasswordOpensKey, SessionOpensKey, Creating

\* A step that leaves the files and the account file alone, from a state in which
\* the server waits or is down to another one.
LEMMA RestingOpen ==
  ASSUME OpenInv, UNCHANGED <<db, enc>>,
         pc \in {"down", "idle"}, pc' \in {"down", "idle"}, cut \subseteq cut',
         sess'.has_key = 1 =>
           \E u \in User :
             /\ sess'.username = u
             /\ u \notin cut' /\ Readable(u) /\ enc[u].ver = 2 => Opens(enc[u], sess'.key)
             /\ u \notin cut' /\ sess'.deleted = 0 => sess'.key \in KeyOf(u, mem'[u].pw)
  PROVE  OpenInv'
  <1>1. PasswordOpensKey'
    BY DEF OpenInv, PasswordOpensKey, Settled, MidRequest, Step, Readable, Whole, Converted,
           Opens, ks_derive_session_key
  <1>2. SessionOpensKey'
    BY DEF SessionOpensKey, me, Readable, Converted, Whole, Opens
  <1>3. \A u \in User \ cut' : Gone(db'[u]) => enc'[u] = NoFile
    BY DEF OpenInv, Deleting
  <1>4. me' \notin cut' /\ sess'.has_key = 1 /\ sess'.deleted = 0
           => sess'.key \in KeyOf(me', mem'[me'].pw)
    BY DEF me
  <1> QED
    BY <1>1, <1>2, <1>3, <1>4 DEF OpenInv, Creating, KeyOf, LoginKey, BlobKey, Gone

LEMMA ProcessOpen ==
  ASSUME TypeInv, OpenInv, Boot \/ Exit \/ Crash
  PROVE  OpenInv'
  <1>1. CASE Boot
    <2>1. sess'.has_key = 0
      BY <1>1, BootEffect, ClearedSessionType DEF TypeInv, SessionOK, Down
    <2> QED
      BY <1>1, <2>1, BootEffect, RestingOpen
  <1>2. CASE (Exit \/ Crash) /\ pc = "idle"
    BY <1>2, EndEffect, ClearedSessionType, RestingOpen DEF Step
  <1>3. CASE (Exit \/ Crash) /\ pc \in Step
    <2>1. /\ pc' = "down" /\ sess' = ClearedSession /\ UNCHANGED <<db, enc>>
          /\ cut' = cut \cup {me}
      BY <1>3, EndEffect DEF Step
    <2>2. PasswordOpensKey'
      BY <2>1
      DEF OpenInv, PasswordOpensKey, Settled, MidRequest, Step, Readable, Whole, Converted,
          Opens, ks_derive_session_key
    <2> QED
      BY <2>1, <2>2, ClearedSessionType DEF OpenInv, SessionOpensKey, Creating, Deleting, Gone
  <1> QED
    BY <1>1, <1>2, <1>3, EndEffect

\* A request that only reads keeps the session, and with it its key.
LEMMA ReadOnlyOpen ==
  ASSUME TypeInv, SessionInv, OpenInv, pc = "idle", pc' = "idle",
         UNCHANGED <<db, mem, enc, sess, cut>>
  PROVE  OpenInv'
  <1>1. sess.has_key = 1 => me \in User
    BY DEF SessionInv, TypeInv, SessionOK
  <1> QED
    BY <1>1, RestingOpen DEF OpenInv, SessionOpensKey, MidRequest, Step, me

LEMMA LoginOpen ==
  ASSUME TypeInv, SessionInv, SavedInv, OpenInv,
         \/ \E u \in User, p \in Password : AuthOk(u, p) \/ AuthUnanswered(u, p)
         \/ Logout \/ CreateRefused
  PROVE  OpenInv'
  <1>1. /\ pc = "idle" /\ pc' = "idle" /\ UNCHANGED <<db, mem, enc, cut>>
    BY LoginEffect
  <1>2. CASE sess' = ClearedSession
    BY <1>1, <1>2, ClearedSessionType, RestingOpen
  <1>3. ASSUME NEW u \in User, NEW key \in WrapKey \cup {NoKey}, NEW has \in Flag,
               mem[u] # NoAccount, sess' = SessionOf(u, key, has),
               has = 1 => key \in KeyOf(u, mem[u].pw),
               has = 1 /\ ~(Whole(enc[u]) /\ enc[u].ver = 1) => key = LoginKey(u, mem[u].pw)
        PROVE  OpenInv'
    <2>1. sess'.username = u /\ sess'.key = key /\ sess'.has_key = has
      BY <1>3 DEF SessionOf
    <2>2. ASSUME has = 1, u \notin cut, Readable(u), enc[u].ver = 2
          PROVE  Opens(enc[u], key)
      <3>1. mem[u] = db[u]
        BY <1>1, <2>2 DEF SavedInv, TableIsSaved, Down
      <3>2. Opens(enc[u], ks_derive_session_key(u, db[u].pw))
        BY <1>1, <2>2 DEF OpenInv, PasswordOpensKey, Settled, MidRequest, Step
      <3> QED
        BY <1>3, <2>2, <3>1, <3>2, DerivedKey
    <2> QED
      BY <1>1, <1>3, <2>1, <2>2, RestingOpen
  <1>4. CASE sess.is_authenticated = 1 /\ sess' = [sess EXCEPT !.deleted = 1]
    <2>1. /\ sess'.username = me /\ sess'.deleted = 1 /\ sess'.key = sess.key
          /\ sess'.has_key = sess.has_key
      BY <1>4, SessionDeletedType DEF TypeInv, TypeOK, me
    <2>2. me \in User
      BY <1>4 DEF TypeInv, SessionOK
    <2> QED
      BY <1>1, <2>1, <2>2, RestingOpen DEF OpenInv, SessionOpensKey, MidRequest, Step
  <1> QED
    BY LoginEffect, <1>2, <1>3, <1>4

LEMMA ToolOpen ==
  ASSUME TypeInv, SavedInv, OpenInv, ToolOnline = FALSE, Tool
  PROVE  OpenInv'
  <1>1. /\ pc = "down" /\ UNCHANGED <<mem, pub, enc, pc, sess, cut>>
    BY ToolEffect DEF Tool, ToolLoad, ToolWrite, ToolAbort, SavedInv, Down
  <1>2. sess.has_key = 0
    BY <1>1, ClearedSessionType DEF TypeInv, SessionOK, Down
  <1>3. CASE UNCHANGED db
    BY <1>1, <1>2, <1>3, RestingOpen
  <1>4. CASE ToolWrite
    <2>1. /\ tool.table = db /\ Registrable(db, tool.user)
          /\ tool.user \in User /\ tool.pw \in Password /\ db \in Table
      BY <1>4 DEF ToolWrite, SavedInv, TypeInv, TypeOK
    <2>2. \A u \in User \ {tool.user} : db'[u] = db[u]
      BY <1>4, <2>1, RegisteredType DEF ToolWrite, ap_write_db_atomic
    <2>3. tool.user \notin cut => enc[tool.user] = NoFile
      BY <1>1, <2>1 DEF Registrable, OpenInv, Gone, Deleting
    <2>4. ASSUME NEW u \in User \ cut', Settled(u)', Readable(u)'
          PROVE  Opens(enc[u], ks_derive_session_key(u, db[u].pw))'
      <3>1. u \notin cut /\ Settled(u) /\ Readable(u)
        BY <1>1, <2>4 DEF Settled, MidRequest, me, Readable, Whole, Converted
      <3>2. u # tool.user
        BY <2>3, <3>1 DEF Readable, Whole
      <3>3. Opens(enc[u], ks_derive_session_key(u, db[u].pw))
        BY <3>1 DEF OpenInv, PasswordOpensKey
      <3> QED
        BY <1>1, <2>2, <3>2, <3>3 DEF Opens, Whole, ks_derive_session_key
    <2>5. \A u \in User \ cut' : Gone(db'[u]) => enc'[u] = NoFile
      BY <1>1, <2>2, <2>3 DEF OpenInv, Deleting
    <2> QED
      BY <1>1, <1>2, <2>4, <2>5 DEF OpenInv, PasswordOpensKey, SessionOpensKey, Creating, Gone
  <1>5. CASE ToolAbort \/ \E u \in User, p \in Password : ToolLoad(u, p)
    BY <1>3, <1>5 DEF ToolAbort, ToolLoad, accountVars
  <1> QED
    BY <1>4, <1>5 DEF Tool

\* What a step of a request must establish, about its own user u.
OpenFor(u) ==
  /\ pc = "idle" /\ Readable(u) => Opens(enc[u], ks_derive_session_key(u, db[u].pw))
  /\ pc = "idle" /\ sess.has_key = 1 /\ Readable(u) /\ enc[u].ver = 2 => Opens(enc[u], sess.key)
  /\ Gone(db[u]) => enc[u] = NoFile \/ Deleting
  /\ pc = "chg_db" /\ Whole(enc[u]) => enc[u].ver = 2 /\ enc[u].wrap = job.wrap
  /\ sess.has_key = 1 /\ sess.deleted = 0 => sess.key \in KeyOf(u, mem[u].pw)

LEMMA WorkOpen ==
  ASSUME OpenInv, NEW u \in User, me = u, sess'.username = u,
         pc' \in Step \cup {"idle"}, cut \ {u} \subseteq cut',
         \A v \in User \ {u} : enc'[v] = enc[v] /\ (v \notin cut => db'[v] = db[v]),
         u \notin cut' => OpenFor(u)',
         pc' \in {"chg_enc", "chg_db"} => job'.wrap \in KeyOf(u, job'.pw),
         Creating' => job'.wrap = sess'.key
  PROVE  OpenInv'
  <1>1. me' = u
    BY DEF me
  <1>2. ASSUME NEW v \in User \ cut', Settled(v)', Readable(v)'
        PROVE  Opens(enc[v], ks_derive_session_key(v, db[v].pw))'
    <2>1. CASE v = u
      BY <1>1, <1>2, <2>1 DEF Settled, MidRequest, OpenFor
    <2>2. CASE v # u
      <3>1. /\ v \notin cut /\ Settled(v) /\ Readable(v)
            /\ enc'[v] = enc[v] /\ db'[v] = db[v]
        BY <1>2, <2>2 DEF Settled, Readable, Whole, Converted
      <3>2. Opens(enc[v], ks_derive_session_key(v, db[v].pw))
        BY <3>1 DEF OpenInv, PasswordOpensKey
      <3> QED
        BY <3>1, <3>2 DEF Opens, Whole, ks_derive_session_key
    <2> QED
      BY <2>1, <2>2
  <1>3. PasswordOpensKey'
    BY <1>2 DEF PasswordOpensKey
  <1>4. SessionOpensKey'
    BY <1>1 DEF SessionOpensKey, MidRequest, OpenFor, Readable, Converted
  <1>5. ASSUME NEW v \in User \ cut', Gone(db[v])'
        PROVE  enc'[v] = NoFile \/ (me' = v /\ Deleting')
    <2>1. CASE v = u
      BY <1>1, <1>5, <2>1 DEF OpenFor
    <2>2. CASE v # u
      BY <1>5, <2>2 DEF OpenInv, Gone
    <2> QED
      BY <2>1, <2>2
  <1>6. me' \notin cut' =>
          /\ pc' = "chg_db" /\ Whole(enc[me])' => enc'[me'].ver = 2 /\ enc'[me'].wrap = job'.wrap
          /\ sess'.has_key = 1 /\ sess'.deleted = 0 => sess'.key \in KeyOf(me', mem'[me'].pw)
    BY <1>1 DEF OpenFor, KeyOf, LoginKey, BlobKey, Whole
  <1> QED
    BY <1>1, <1>3, <1>4, <1>5, <1>6 DEF OpenInv, KeyOf, LoginKey, BlobKey, Gone

\* What is known of the user a request is about to work on, or is working on.
LEMMA OpenOfWorker ==
  ASSUME TypeInv, SessionInv, OpenInv, NEW u \in User, me = u, u \notin cut, Working
  PROVE  /\ Gone(db[u]) => enc[u] = NoFile \/ Deleting
         /\ sess.key \in KeyOf(u, mem[u].pw)
         /\ pc = "idle" /\ Readable(u) => Opens(enc[u], ks_derive_session_key(u, db[u].pw))
         /\ pc = "idle" /\ Readable(u) /\ enc[u].ver = 2 => Opens(enc[u], sess.key)
         /\ pc = "chg_db" /\ Whole(enc[u]) => enc[u].ver = 2 /\ enc[u].wrap = job.wrap
  <1>1. sess.has_key = 1 /\ sess.deleted = 0
    BY WorkSession
  <1>2. pc = "idle" => Settled(u) /\ ~MidRequest
    BY DEF Settled, MidRequest, Step
  <1> QED
    BY <1>1, <1>2 DEF OpenInv, PasswordOpensKey, SessionOpensKey

LEMMA ChangeBeginOpen ==
  ASSUME TypeInv, SessionInv, OpenInv, NEW p \in Password, ChangeBegin(p)
  PROVE  OpenInv'
  <1>1. /\ Working /\ pc = "idle" /\ me \in User
        /\ UNCHANGED <<db, mem, sess>> /\ cut \subseteq cut'
    BY WorkSession DEF ChangeBegin, Working, Admitted, CutShort, accountVars, historyVars
  <1>2. PICK u \in User : me = u
    BY <1>1
  <1>3. sess'.username = u /\ ~Creating'
    BY <1>1, <1>2 DEF ChangeBegin, Goto, Creating, me
  <1>4. pc' \in {"chg_enc", "chg_db"} /\ job'.wrap \in KeyOf(u, job'.pw)
    <2>1. NewKey(p) \in KeyOf(u, p) /\ LoginKey(me, p) \in KeyOf(u, p)
      BY <1>2, DerivedKey DEF NewKey
    <2> QED
      BY <2>1 DEF ChangeBegin, Goto, ChangeJob
  <1>5. CASE UNCHANGED enc /\ pc' = "chg_db"
    <2>1. u \notin cut' => enc[u] = NoFile
      BY <1>1, <1>2, <1>5 DEF ChangeBegin, Exists, CutShort, Goto
    <2>2. u \notin cut' => OpenFor(u)'
      BY <1>1, <1>2, <1>5, <2>1, OpenOfWorker DEF OpenFor, Whole, KeyOf, LoginKey, BlobKey
    <2> QED
      BY <1>1, <1>2, <1>3, <1>4, <1>5, <2>2, WorkOpen DEF Step
  <1>6. CASE Opens(enc[u], sess.key) /\ SetEnc(u, Torn) /\ pc' = "chg_enc"
    <2>1. \A v \in User \ {u} : enc'[v] = enc[v]
      BY <1>6, SetFileKeeps
    <2>2. u \notin cut' => ~Gone(db'[u])
      BY <1>1, <1>2, <1>6, OpenOfWorker DEF Opens, Whole, Deleting, Gone
    <2>3. u \notin cut' => OpenFor(u)'
      BY <1>1, <1>2, <1>6, <2>2, OpenOfWorker DEF OpenFor, Gone, KeyOf, LoginKey, BlobKey
    <2> QED
      BY <1>1, <1>2, <1>3, <1>4, <2>1, <2>3, WorkOpen DEF Step
  <1> QED
    BY <1>2, <1>5, <1>6 DEF ChangeBegin, Goto

\* The record gets the password the file is wrapped with.
LEMMA ChangeRecordOpen ==
  ASSUME TypeInv, SessionInv, TombstoneInv, SavedInv, OpenInv, ChangeRecord
  PROVE  OpenInv'
  <1>1. /\ Working /\ pc = "chg_db" /\ pc' = "idle" /\ UNCHANGED <<enc, cut>>
        /\ mem' = Changed(me, job.pw) /\ db' = mem'
    BY DEF ChangeRecord, Working, MidRequest, Step, Answer, fileVars, historyVars,
           auth_change_password_authenticated, auth_write_db
  <1>2. PICK u \in User : me = u
    BY <1>1, WorkSession
  <1>3. mem[u] \in Account /\ job.pw \in Password /\ job.wrap \in WrapKey /\ sess \in Session
    BY <1>1, <1>2, WorkSession DEF TypeInv, TypeOK, JobOK
  <1>4. sess'.username = u /\ sess'.key = job.wrap
    BY <1>2, <1>3, SessionChangedType DEF ChangeRecord, me
  <1>5. /\ mem'[u] \in Account /\ mem'[u].pw = job.pw /\ mem'[u].deleted = mem[u].deleted
        /\ \A v \in User \ {u} : mem'[v] = mem[v]
    BY <1>1, <1>2, <1>3, RecordChanged
  <1>6. \A v \in User \ cut : mem[v] = db[v]
    BY <1>1 DEF SavedInv, TableIsSaved, Down
  <1>7. job.wrap \in KeyOf(u, job.pw)
    BY <1>1, <1>2 DEF OpenInv
  <1>8. ASSUME u \notin cut PROVE OpenFor(u)'
    <2>1. Whole(enc[u]) => enc[u].ver = 2 /\ enc[u].wrap = job.wrap
      BY <1>1, <1>2, <1>8, OpenOfWorker
    <2>2. Readable(u)' => enc'[u].wrap = LoginKey(u, job.pw)
      BY <1>1, <1>7, <2>1, DerivedKey DEF Readable, Whole, Converted
    <2>3. Readable(u)' => Opens(enc[u], ks_derive_session_key(u, db[u].pw))'
      BY <1>1, <1>5, <2>1, <2>2 DEF Readable, Whole, Opens, ks_derive_session_key, LoginKey
    <2>4. Readable(u)' => Opens(enc[u], sess.key)'
      BY <1>1, <1>4, <2>1 DEF Readable, Whole, Opens
    <2>5. Gone(db[u])' => enc'[u] = NoFile
      <3>1. Gone(db[u])' => Gone(db[u])
        BY <1>1, <1>3, <1>5, <1>6, <1>8, NoAccountAssumption DEF Gone
      <3> QED
        BY <1>1, <1>2, <1>8, <3>1, OpenOfWorker DEF Deleting
    <2>6. sess'.key \in KeyOf(u, mem'[u].pw)
      BY <1>4, <1>5, <1>7
    <2> QED
      BY <1>1, <2>3, <2>4, <2>5, <2>6 DEF OpenFor, KeyOf, LoginKey, BlobKey
  <1>9. \A v \in User \ {u} : enc'[v] = enc[v] /\ (v \notin cut => db'[v] = db[v])
    BY <1>1, <1>5, <1>6
  <1> QED
    BY <1>1, <1>2, <1>4, <1>8, <1>9, WorkOpen DEF Creating

LEMMA ChangeOpen ==
  TypeInv /\ SessionInv /\ FilesInv /\ TombstoneInv /\ SavedInv /\ OpenInv /\ ChangePassword
    => OpenInv'
  <1> SUFFICES ASSUME TypeInv, SessionInv, FilesInv, TombstoneInv, SavedInv, OpenInv,
                      ChangePassword
               PROVE  OpenInv'
    OBVIOUS
  <1>1. CASE \E p \in Password : ChangeBegin(p)
    BY <1>1, ChangeBeginOpen
  <1>2. CASE ChangeRefused
    BY <1>2, ReadOnlyEffect, ReadOnlyOpen
  <1>3. CASE ChangeReencrypt
    <2>1. /\ Working /\ pc = "chg_enc" /\ pc' = "chg_db" /\ UNCHANGED <<db, mem, sess, job, cut>>
      BY <1>3
      DEF ChangeReencrypt, Working, MidRequest, Step, Goto, accountVars, historyVars
    <2>2. PICK u \in User : me = u
      BY <2>1, WorkSession
    <2>3. job.key \in KeyId /\ job.wrap \in WrapKey
      BY <2>1 DEF TypeInv, TypeOK, JobOK, Job
    <2>4. /\ enc'[u] = Wrapped(job.key, job.wrap)
          /\ \A v \in User \ {u} : enc'[v] = enc[v]
      BY <1>3, <2>2, SetFileKeeps DEF ChangeReencrypt
    <2>5. enc'[u].ver = 2 /\ enc'[u].wrap = job.wrap
      BY <2>2, <2>3, <2>4, WholeTypes
    <2>6. u \notin cut => ~Gone(db[u])
      <3>1. enc[u] # NoFile
        BY <2>1, <2>2, FileAssumption DEF FilesInv
      <3> QED
        BY <2>1, <2>2, <3>1, OpenOfWorker DEF Deleting
    <2>7. u \notin cut => OpenFor(u)'
      BY <2>1, <2>2, <2>5, <2>6, OpenOfWorker DEF OpenFor, Gone, KeyOf, LoginKey, BlobKey
    <2>8. job'.wrap \in KeyOf(u, job'.pw)
      BY <2>1, <2>2 DEF OpenInv
    <2> QED
      BY <2>1, <2>2, <2>4, <2>7, <2>8, WorkOpen DEF Step, Creating, me
  <1>4. CASE ChangeRecord
    BY <1>4, ChangeRecordOpen
  <1>5. CASE ChangeFailed
    <2>1. Working /\ pc' = "idle" /\ UNCHANGED <<db, enc, sess>> /\ cut' = cut \cup {me}
      BY <1>5
      DEF ChangeFailed, Working, MidRequest, Step, Answer, CutShort, ChangeUnwritten,
          accountVars, fileVars
    <2>2. PICK u \in User : me = u
      BY <2>1, WorkSession
    <2> QED
      BY <2>1, <2>2, WorkOpen DEF Creating, me
  <1> QED
    BY <1>1, <1>2, <1>3, <1>4, <1>5 DEF ChangePassword

LEMMA CreateOpenKeys ==
  TypeInv /\ SessionInv /\ FilesInv /\ TombstoneInv /\ SavedInv /\ OpenInv /\ CreateKeys
    => OpenInv'
  <1> SUFFICES ASSUME TypeInv, SessionInv, FilesInv, TombstoneInv, SavedInv, OpenInv, CreateKeys
               PROVE  OpenInv'
    OBVIOUS
  <1>1. CASE CreateRefused
    BY <1>1, LoginOpen
  <1>2. CASE CreateKeep
    BY <1>2, ReadOnlyEffect, ReadOnlyOpen
  <1>3. CASE CreateBegin \/ CreatePub \/ CreateOpen \/ CreateEnc \/ CreateFailed
    <2>1. Working /\ UNCHANGED <<db, mem, sess>> /\ cut \subseteq cut'
      BY <1>3
      DEF CreateBegin, CreatePub, CreateOpen, CreateEnc, CreateFailed, CreateAdmitted, Cleanup,
          Working, MidRequest, Step, CutShort, accountVars, historyVars
    <2>2. PICK u \in User : me = u
      BY <2>1, WorkSession
    <2>3. sess'.username = u
      BY <2>1, <2>2 DEF me
    <2>4. ~Gone(db[u])
      <3>1. Creating \/ CreateAdmitted
        BY <1>3
        DEF CreateBegin, CreatePub, CreateOpen, CreateEnc, CreateFailed, Creating
      <3> QED
        BY <2>2, <3>1, CreationOnLiveAccount DEF Gone
    <2>5. u \notin cut => sess'.key \in KeyOf(u, mem'[u].pw)
      BY <2>1, <2>2, OpenOfWorker
    <2>6. CASE CreateBegin \/ CreatePub \/ CreateOpen
      <3>1. /\ pc' \in {"crt_pub", "crt_open", "crt_enc"} /\ job'.wrap = sess'.key
        BY <2>1, <2>6 DEF CreateBegin, CreatePub, CreateOpen, Goto, OpenInv, Creating
      <3>2. UNCHANGED enc \/ SetEnc(u, Torn)
        BY <2>2, <2>6 DEF CreateBegin, CreatePub, CreateOpen
      <3>3. \A v \in User \ {u} : enc'[v] = enc[v]
        BY <3>2, SetFileKeeps
      <3>4. u \notin cut' => OpenFor(u)'
        BY <2>1, <2>4, <2>5, <3>1 DEF OpenFor, Gone, KeyOf, LoginKey, BlobKey
      <3> QED
        BY <2>1, <2>2, <2>3, <3>1, <3>3, <3>4, WorkOpen DEF Step
    <2>7. CASE CreateEnc
      <3>1. /\ pc = "crt_enc" /\ pc' = "idle" /\ job.wrap = sess.key
            /\ job.key \in KeyId /\ job.wrap \in WrapKey /\ UNCHANGED cut
        BY <2>7
        DEF CreateEnc, Answer, OpenInv, Creating, TypeInv, TypeOK, JobOK, Job, historyVars
      <3>2. /\ enc'[u] = Wrapped(job.key, job.wrap)
            /\ \A v \in User \ {u} : enc'[v] = enc[v]
        BY <2>2, <2>7, SetFileKeeps DEF CreateEnc
      <3>3. Whole(enc'[u]) /\ enc'[u].ver = 2 /\ enc'[u].wrap = sess.key
        BY <3>1, <3>2, <2>2, WholeTypes
      <3>4. ASSUME u \notin cut PROVE OpenFor(u)'
        <4>1. mem[u] = db[u]
          BY <3>1, <3>4 DEF SavedInv, TableIsSaved, Down
        <4>2. Readable(u)' => sess.key = LoginKey(u, db[u].pw)
          BY <2>1, <2>5, <3>3, <3>4, <4>1, DerivedKey DEF Readable, Converted
        <4>3. Readable(u)' => Opens(enc[u], ks_derive_session_key(u, db[u].pw))'
          BY <2>1, <3>3, <4>2 DEF Opens, Whole, ks_derive_session_key, LoginKey
        <4>4. Opens(enc[u], sess.key)'
          BY <2>1, <3>3 DEF Opens, Whole
        <4> QED
          BY <2>1, <2>4, <2>5, <3>1, <3>4, <4>3, <4>4
          DEF OpenFor, Gone, KeyOf, LoginKey, BlobKey
      <3> QED
        BY <2>1, <2>2, <2>3, <3>1, <3>2, <3>4, WorkOpen DEF Creating
    <2>8. CASE CreateFailed
      <3>1. CASE CreateAdmitted /\ UNCHANGED <<fileVars, historyVars>>
        <4>1. pc = "idle" /\ pc' = "idle" /\ UNCHANGED <<enc, cut>>
          BY <2>8, <3>1
          DEF CreateFailed, CreateAdmitted, Admitted, Answer, fileVars, historyVars
        <4> QED
          BY <2>1, <4>1, ReadOnlyOpen
      <3>2. CASE Cleanup
        <4>1. pc' = "idle" /\ \A v \in User \ {u} : enc'[v] = enc[v]
          BY <2>2, <2>8, <3>2, CleanupFiles DEF CreateFailed, Answer
        <4>2. u \notin cut' => enc'[u] = NoFile
          BY <2>2, <3>2, CleanupFiles
        <4>3. u \notin cut' => OpenFor(u)'
          BY <2>1, <2>4, <2>5, <4>1, <4>2
          DEF OpenFor, Readable, Whole, Gone, KeyOf, LoginKey, BlobKey
        <4> QED
          BY <2>1, <2>2, <2>3, <4>1, <4>3, WorkOpen DEF Creating
      <3> QED
        BY <2>8, <3>1, <3>2 DEF CreateFailed
    <2> QED
      BY <1>3, <2>6, <2>7, <2>8
  <1> QED
    BY <1>1, <1>2, <1>3 DEF CreateKeys

LEMMA DeleteOpen ==
  TypeInv /\ SessionInv /\ SavedInv /\ OpenInv /\ DeleteKeys => OpenInv'
  <1> SUFFICES ASSUME TypeInv, SessionInv, SavedInv, OpenInv, DeleteKeys PROVE OpenInv'
    OBVIOUS
  <1>1. Working
    BY DEF DeleteKeys, DeleteTombstone, DeletePub, DeleteEnc, DeleteFailed, Working, MidRequest,
           Step
  <1>2. PICK u \in User : me = u
    BY <1>1, WorkSession
  <1>3. CASE DeleteTombstone
    <2>1. /\ pc = "idle" /\ pc' = "del_pub" /\ UNCHANGED <<enc, sess, cut>>
      BY <1>3 DEF DeleteTombstone, Admitted, Goto, fileVars, historyVars
    <2>2. db' = mem' /\ mem'[u].pw = mem[u].pw /\ \A v \in User \ {u} : mem'[v] = mem[v]
      BY <1>1, <1>2, <1>3, WorkSession, RecordDeleted DEF DeleteTombstone
    <2>3. \A v \in User \ cut : mem[v] = db[v]
      BY <2>1 DEF SavedInv, TableIsSaved, Down
    <2>4. u \notin cut' => OpenFor(u)'
      BY <1>1, <1>2, <2>1, <2>2, OpenOfWorker DEF OpenFor, Deleting, KeyOf, LoginKey, BlobKey
    <2> QED
      BY <1>2, <2>1, <2>2, <2>3, <2>4, WorkOpen DEF Step, Creating, me
  <1>4. CASE DeletePub
    <2>1. pc' = "del_enc" /\ UNCHANGED <<db, mem, enc, sess, cut>>
      BY <1>4 DEF DeletePub, Goto, accountVars, historyVars
    <2>2. u \notin cut' => OpenFor(u)'
      BY <1>1, <1>2, <2>1, OpenOfWorker DEF OpenFor, Deleting, KeyOf, LoginKey, BlobKey
    <2> QED
      BY <1>2, <2>1, <2>2, WorkOpen DEF Step, Creating, me
  <1>5. CASE DeleteEnc
    <2>1. /\ pc' = "idle" /\ UNCHANGED db /\ cut' = cut \ {u}
          /\ enc'[u] = NoFile /\ \A v \in User \ {u} : enc'[v] = enc[v]
      BY <1>2, <1>5, SetFileKeeps DEF DeleteEnc, Answer, accountVars
    <2>2. sess'.username = u /\ sess'.deleted = 1
      BY <1>2, <1>5, SessionDeletedType DEF DeleteEnc, TypeInv, TypeOK, me
    <2>3. OpenFor(u)'
      BY <2>1, <2>2 DEF OpenFor, Readable, Whole
    <2> QED
      BY <1>2, <2>1, <2>2, <2>3, WorkOpen DEF Creating
  <1>6. CASE DeleteFailed
    <2>1. pc' = "idle" /\ UNCHANGED <<db, mem, sess>>
      BY <1>6 DEF DeleteFailed, Answer, accountVars
    <2>2. CASE Admitted("DELETE_KEYS") /\ UNCHANGED <<enc, historyVars>>
      BY <2>1, <2>2, ReadOnlyOpen DEF Admitted, historyVars
    <2>3. CASE CutShort(me) /\ (UNCHANGED enc \/ SetEnc(me, NoFile))
      <3>1. cut' = cut \cup {u} /\ \A v \in User \ {u} : enc'[v] = enc[v]
        BY <1>2, <2>3, SetFileKeeps DEF CutShort
      <3> QED
        BY <1>2, <2>1, <3>1, WorkOpen DEF Creating, me
    <2> QED
      BY <1>6, <2>2, <2>3 DEF DeleteFailed
  <1> QED
    BY <1>3, <1>4, <1>5, <1>6 DEF DeleteKeys

LEMMA NextOpen ==
  ASSUME TypeInv, SessionInv, FilesInv, TombstoneInv, SavedInv, OpenInv,
         ToolOnline = FALSE, [Next]_vars
  PROVE  OpenInv'
  <1>1. CASE UNCHANGED vars
    BY <1>1
    DEF vars, OpenInv, PasswordOpensKey, SessionOpensKey, Settled, MidRequest, Creating, Deleting,
        Readable, Converted, Whole, Opens, ks_derive_session_key, KeyOf, LoginKey, BlobKey, Gone,
        me
  <1>2. CASE Tool
    BY <1>2, ToolOpen
  <1>3. CASE ChangePassword \/ CreateKeys \/ DeleteKeys
    BY <1>3, ChangeOpen, CreateOpenKeys, DeleteOpen
  <1>4. CASE Server
    BY <1>3, <1>4, ProcessOpen, ReadOnlyEffect, ReadOnlyOpen, LoginOpen
    DEF Server, Authenticate
  <1> QED
    BY <1>1, <1>2, <1>4 DEF Next

\* The invariant the theorems below share.
OfflineInv ==
  TypeInv /\ SessionInv /\ FilesInv /\ UsedInv /\ TombstoneInv /\ SavedInv /\ OpenInv

LEMMA OfflineCorrect == ToolOnline = FALSE => (Spec => []OfflineInv)
  <1> SUFFICES ASSUME ToolOnline = FALSE PROVE Spec => []OfflineInv
    OBVIOUS
  <1>1. Init => OfflineInv
    BY InitTyped, InitSession, InitFiles, InitUsed, InitKeeps, InitSaved, InitOpen
    DEF OfflineInv
  <1>2. OfflineInv /\ [Next]_vars => OfflineInv'
    BY NextTyped, NextSession, NextFiles, NextUsed, NextTombstone, NextSaved, NextOpen
    DEF OfflineInv
  <1> QED
    BY <1>1, <1>2, PTL DEF Spec

\* private.enc opens with the key a login with the password of users.db derives,
\* for every user no request on whom was cut short, across password changes,
\* logins and restarts, for a tool that runs while the server is down.
THEOREM PasswordSafety == ToolOnline = FALSE => (Spec => []PasswordOpensKey)
  BY OfflineCorrect, PTL DEF OfflineInv, OpenInv

\* The key a session holds opens the private.enc of its user, also after the
\* session created the file or changed the password it is wrapped under.
THEOREM SessionKeySafety == ToolOnline = FALSE => (Spec => []SessionOpensKey)
  BY OfflineCorrect, PTL DEF OfflineInv, OpenInv

-----------------------------------------------------------------------------
(* The server implements KeyLife: one lemma for each abstract step a step  *)
(* of the server may be, then the steps of the server.                     *)

UsedKeys == 0 .. (IF Creating THEN nkeys - 1 ELSE nkeys)

\* The life of u and the key it has published are left as they are.
SameLife(u) == Life(db[u])' = Life(db[u])
SameKey(u) == Published(u)' = Published(u)

LEMMA AsStutter ==
  ASSUME \A u \in User : SameLife(u) /\ SameKey(u), UNCHANGED <<cut, UsedKeys>>
  PROVE  UNCHANGED KeyLife!vars
  BY DEF KeyLife!vars, SameLife, SameKey, UsedKeys

LEMMA AsInterrupt ==
  ASSUME NEW u \in User,
         \A v \in User : SameLife(v) /\ (v # u => SameKey(v)),
         cut' = cut \cup {u},
         UNCHANGED UsedKeys \/ \E k \in KeyId : UsedKeys' = UsedKeys \cup {k}
  PROVE  KeyLife!Next
  <1>1. Published(u)' = NoKey
    BY DEF Published
  <1>2. KeyLife!Interrupt(u)
    BY <1>1 DEF KeyLife!Interrupt, SameLife, SameKey, UsedKeys
  <1> QED
    BY <1>2 DEF KeyLife!Next

LEMMA AsRegister ==
  ASSUME NEW u \in User,
         \A v \in User : SameKey(v) /\ (v # u => SameLife(v)),
         Life(db[u]) # "active", Life(db[u])' = "active",
         UNCHANGED <<cut, UsedKeys>>
  PROVE  KeyLife!Next
  <1>1. KeyLife!Register(u)
    BY DEF KeyLife!Register, SameLife, SameKey, UsedKeys
  <1> QED
    BY <1>1 DEF KeyLife!Next

LEMMA AsDelete ==
  ASSUME NEW u \in User,
         \A v \in User : SameKey(v) /\ (v # u => SameLife(v)),
         Life(db[u]) = "active", Life(db[u])' = "tombstone",
         UNCHANGED <<cut, UsedKeys>>
  PROVE  KeyLife!Next
  <1>1. KeyLife!Delete(u)
    BY DEF KeyLife!Delete, SameLife, SameKey, UsedKeys
  <1> QED
    BY <1>1 DEF KeyLife!Next

LEMMA AsWithdraw ==
  ASSUME NEW u \in User,
         \A v \in User : SameLife(v) /\ (v # u => SameKey(v)),
         Life(db[u]) = "tombstone", Published(u)' = NoKey,
         cut' = cut \ {u}, UNCHANGED UsedKeys
  PROVE  KeyLife!Next
  <1>1. KeyLife!Withdraw(u)
    BY DEF KeyLife!Withdraw, SameLife, SameKey, UsedKeys
  <1> QED
    BY <1>1 DEF KeyLife!Next

LEMMA AsPublish ==
  ASSUME NEW u \in User, NEW k \in KeyId,
         \A v \in User : SameLife(v) /\ (v # u => SameKey(v)),
         Life(db[u]) = "active", Published(u) = NoKey, u \notin cut,
         Published(u)' = k, k \notin UsedKeys, UsedKeys' = UsedKeys \cup {k}, UNCHANGED cut
  PROVE  KeyLife!Next
  <1>1. KeyLife!Publish(u, k)
    BY DEF KeyLife!Publish, SameLife, SameKey, UsedKeys
  <1> QED
    BY <1>1 DEF KeyLife!Next

LEMMA AsDiscard ==
  ASSUME NEW k \in KeyId, \A v \in User : SameLife(v) /\ SameKey(v),
         UsedKeys' = UsedKeys \cup {k}, UNCHANGED cut
  PROVE  KeyLife!Next
  <1>1. KeyLife!Discard(k)
    BY DEF KeyLife!Discard, SameLife, SameKey, UsedKeys
  <1> QED
    BY <1>1 DEF KeyLife!Next

LEMMA InitLife == Init => KeyLife!Init
  <1> SUFFICES ASSUME Init PROVE KeyLife!Init
    OBVIOUS
  <1>1. UsedKeys = {0} /\ 0 \in KeyId /\ cut \subseteq User
    BY MaxKeysAssumption DEF Init, UsedKeys, Creating, KeyId
  <1>2. \A u \in User : pub[u] \in {0, NoFile}
    BY DEF Init, StartPub
  <1>3. \A u \in User : Published(u) \in UsedKeys \cup {NoKey}
    BY <1>1, <1>2 DEF Published, Whole
  <1>4. \A u \in User : Life(db[u]) \in {"absent", "active", "tombstone"}
    BY DEF Life
  <1> QED
    BY <1>1, <1>3, <1>4 DEF KeyLife!Init, UsedKeys

\* What is published does not depend on the steps that leave public.pem alone.
LEMMA SameKeys ==
  ASSUME UNCHANGED <<pub, cut>>, ~Creating, ~Creating'
  PROVE  \A u \in User : SameKey(u)
  BY DEF SameKey, Published, Whole

LEMMA OthersSame ==
  ASSUME NEW u \in User, me = u,
         Creating' => me' = u, \A v \in User \ {u} : pub'[v] = pub[v],
         cut \ {u} \subseteq cut', cut' \subseteq cut \cup {u}
  PROVE  \A v \in User \ {u} : SameKey(v)
  <1> SUFFICES ASSUME NEW v \in User \ {u} PROVE SameKey(v)
    OBVIOUS
  <1>1. v \in cut' <=> v \in cut
    OBVIOUS
  <1> QED
    BY <1>1 DEF SameKey, Published, Whole

LEMMA SameLives ==
  UNCHANGED db => \A u \in User : SameLife(u)
  BY DEF SameLife, Life

\* A request that was creating keys has used the pair it generated.
LEMMA UsedAfter ==
  ASSUME TypeInv, UNCHANGED nkeys, ~Creating'
  PROVE  /\ nkeys \in KeyId
         /\ ~Creating => UNCHANGED UsedKeys
         /\ Creating => UsedKeys' = UsedKeys \cup {nkeys} /\ nkeys \notin UsedKeys
  BY MaxKeysAssumption DEF TypeInv, TypeOK, KeyId, UsedKeys

\* A request, or the process that serves it, comes to an end before its time.
LEMMA CutLife ==
  ASSUME TypeInv, NEW u \in User, me = u,
         UNCHANGED <<db, nkeys>>, \A v \in User \ {u} : pub'[v] = pub[v],
         ~Creating', cut' = cut \cup {u}
  PROVE  KeyLife!Next
  <1>1. \A v \in User \ {u} : SameKey(v)
    BY OthersSame
  <1> QED
    BY <1>1, SameLives, UsedAfter, AsInterrupt

LEMMA RestingLife ==
  ASSUME UNCHANGED <<db, pub, nkeys, cut>>, ~Creating, ~Creating'
  PROVE  UNCHANGED KeyLife!vars
  BY SameKeys, SameLives, AsStutter DEF UsedKeys

LEMMA ToolLife ==
  ASSUME OfflineInv, ToolOnline = FALSE, Tool
  PROVE  KeyLife!Next \/ UNCHANGED KeyLife!vars
  <1>1. /\ pc = "down" /\ UNCHANGED <<pub, pc, nkeys, cut>>
    BY ToolEffect DEF Tool, ToolLoad, ToolWrite, ToolAbort, OfflineInv, SavedInv, Down
  <1>2. CASE UNCHANGED db
    BY <1>1, <1>2, RestingLife DEF Creating
  <1>3. CASE ToolWrite
    <2>1. /\ tool.table = db /\ Registrable(db, tool.user)
          /\ tool.user \in User /\ tool.pw \in Password /\ db \in Table
      BY <1>3 DEF ToolWrite, OfflineInv, SavedInv, TypeInv, TypeOK
    <2>2. PICK u \in User : u = tool.user
      BY <2>1
    <2>3. /\ \A v \in User \ {u} : db'[v] = db[v]
          /\ db'[u] = [pw |-> tool.pw, must_change |-> 1, deleted |-> 0]
      BY <1>3, <2>1, <2>2 DEF ToolWrite, ap_write_db_atomic, Registered, Table
    <2>4. db'[u] \in Account /\ db'[u].deleted = 0
      BY <2>1, <2>3 DEF Account, Flag
    <2>5. Life(db[u])' = "active" /\ Life(db[u]) # "active"
      BY <2>1, <2>2, <2>4, NoAccountAssumption DEF Life, Registrable
    <2>6. \A v \in User \ {u} : SameLife(v)
      BY <2>3 DEF SameLife, Life
    <2> QED
      BY <1>1, <2>5, <2>6, SameKeys, AsRegister DEF Creating, UsedKeys
  <1>4. CASE ToolAbort \/ \E u \in User, p \in Password : ToolLoad(u, p)
    BY <1>2, <1>4 DEF ToolAbort, ToolLoad, accountVars
  <1> QED
    BY <1>3, <1>4 DEF Tool

\* A table with the users and tombstones of another gives them the same lives.
LEMMA TombstonesAreLives ==
  ASSUME NEW s \in Table, NEW t \in Table, NEW u \in User,
         s[u] = NoAccount <=> t[u] = NoAccount,
         t[u] # NoAccount => s[u].deleted = t[u].deleted
  PROVE  Life(s[u]) = Life(t[u])
  BY DEF Life

LEMMA ChangeLife ==
  ASSUME OfflineInv, ChangePassword
  PROVE  KeyLife!Next \/ UNCHANGED KeyLife!vars
  <1> USE DEF OfflineInv
  <1>1. CASE ChangeRefused
    BY <1>1, ReadOnlyEffect, RestingLife DEF Creating
  <1>2. CASE (\E p \in Password : ChangeBegin(p)) \/ ChangeReencrypt
    <2>1. /\ Working /\ ~Creating /\ ~Creating' /\ UNCHANGED <<db, pub, nkeys>>
          /\ cut' \in {cut, cut \cup {me}}
      BY <1>2
      DEF ChangeBegin, ChangeReencrypt, Working, MidRequest, Step, Admitted, Goto, Creating,
          CutShort, accountVars, historyVars
    <2>2. me \in User
      BY <2>1, WorkSession
    <2> QED
      BY <2>1, <2>2, RestingLife, CutLife
  <1>3. CASE ChangeRecord
    <2>1. /\ Working /\ ~Creating /\ ~Creating' /\ UNCHANGED <<pub, nkeys, cut>>
          /\ mem' = Changed(me, job.pw) /\ db' = mem' /\ job.pw \in Password
      BY <1>3
      DEF ChangeRecord, Working, MidRequest, Step, Answer, Creating, fileVars, historyVars,
          auth_change_password_authenticated, auth_write_db, TypeInv, JobOK
    <2>2. /\ me \in User /\ mem[me] # NoAccount /\ SameTombstones(mem, db)
          /\ mem \in Table /\ db \in Table
      BY <2>1, WorkingUser DEF Working, MidRequest, TypeInv, TypeOK
    <2>3. /\ db' \in Table
          /\ \A u \in User : /\ db'[u] = NoAccount <=> db[u] = NoAccount
                             /\ db[u] # NoAccount => db'[u].deleted = db[u].deleted
      BY <2>1, <2>2, ChangedType DEF SameTombstones
    <2>4. \A u \in User : SameLife(u)
      BY <2>2, <2>3, TombstonesAreLives DEF SameLife, Life
    <2> QED
      BY <2>1, <2>4, SameKeys, AsStutter DEF UsedKeys
  <1>4. CASE ChangeFailed
    <2>1. /\ Working /\ ~Creating' /\ UNCHANGED <<db, pub, nkeys>> /\ cut' = cut \cup {me}
      BY <1>4
      DEF ChangeFailed, Working, MidRequest, Step, Answer, Creating, CutShort, ChangeUnwritten,
          accountVars, fileVars
    <2> QED
      BY <2>1, WorkSession, CutLife
  <1> QED
    BY <1>1, <1>2, <1>3, <1>4 DEF ChangePassword

\* A user whose keys are about to be created has published none.
LEMMA NothingPublished ==
  ASSUME TypeInv, FilesInv, NEW u \in User, me = u, pc = "idle", ~HasBothFiles(u)
  PROVE  Published(u) = NoKey
  <1>1. u \notin cut => ~Whole(pub[u])
    BY RestingMatch, MatchingFiles DEF Whole
  <1> QED
    BY <1>1 DEF Published

LEMMA CreateLife ==
  ASSUME OfflineInv, CreateKeys
  PROVE  KeyLife!Next \/ UNCHANGED KeyLife!vars
  <1> USE DEF OfflineInv
  <1>1. CASE CreateRefused \/ CreateKeep
    BY <1>1, LoginEffect, ReadOnlyEffect, RestingLife DEF Creating
  <1>2. CASE CreateBegin
    <2>1. /\ Working /\ pc = "idle" /\ pc' = "crt_pub" /\ ~Creating /\ Creating' /\ nkeys' = nkeys + 1
          /\ ~HasBothFiles(me) /\ UNCHANGED <<db, sess, cut>>
      BY <1>2
      DEF CreateBegin, CreateAdmitted, Working, Admitted, Goto, Creating, accountVars, historyVars
    <2>2. PICK u \in User : me = u /\ me' = u
      BY <2>1, WorkSession DEF me
    <2>3. \A v \in User \ {u} : SameKey(v)
      <3>1. \A v \in User \ {u} : pub'[v] = pub[v]
        BY <1>2, <2>2, SetFileKeeps DEF CreateBegin
      <3> QED
        BY <2>1, <2>2, <3>1, OthersSame
    <2>4. SameKey(u)
      <3>1. Published(u) = NoKey
        BY <2>1, <2>2, NothingPublished
      <3>2. Published(u)' = NoKey
        BY <2>1, <2>2 DEF Published
      <3> QED
        BY <3>1, <3>2 DEF SameKey
    <2>5. UNCHANGED UsedKeys
      BY <2>1, MaxKeysAssumption DEF UsedKeys, TypeInv, TypeOK
    <2> QED
      BY <2>1, <2>3, <2>4, <2>5, SameLives, AsStutter
  <1>3. CASE CreatePub \/ CreateOpen
    <2>1. /\ Working /\ Creating /\ Creating' /\ UNCHANGED <<db, sess, nkeys, cut>>
      BY <1>3
      DEF CreatePub, CreateOpen, Working, MidRequest, Step, Goto, Creating, accountVars,
          historyVars
    <2>2. PICK u \in User : me = u /\ me' = u
      BY <2>1, WorkSession DEF me
    <2>3. \A v \in User \ {u} : SameKey(v)
      <3>1. \A v \in User \ {u} : pub'[v] = pub[v]
        BY <1>3, <2>2, SetFileKeeps DEF CreatePub, CreateOpen
      <3> QED
        BY <2>1, <2>2, <3>1, OthersSame
    <2>4. SameKey(u)
      BY <2>1, <2>2 DEF SameKey, Published
    <2> QED
      BY <2>1, <2>3, <2>4, SameLives, AsStutter DEF UsedKeys
  <1>4. CASE CreateEnc
    <2>1. /\ Working /\ pc = "crt_enc" /\ Creating /\ ~Creating' /\ job.key = nkeys
          /\ UNCHANGED <<db, pub, nkeys, cut>>
      BY <1>4
      DEF CreateEnc, Working, MidRequest, Step, Answer, Creating, UsedInv, accountVars,
          historyVars
    <2>2. PICK u \in User : me = u
      BY <2>1, WorkSession
    <2>3. \A v \in User \ {u} : SameKey(v)
      BY <2>1, <2>2, OthersSame
    <2>4. /\ nkeys \in KeyId /\ UsedKeys' = UsedKeys \cup {nkeys} /\ nkeys \notin UsedKeys
      BY <2>1, UsedAfter
    <2>5. Published(u) = NoKey
      BY <2>1, <2>2 DEF Published
    <2>6. CASE u \in cut
      <3>1. Published(u)' = NoKey
        BY <2>1, <2>6 DEF Published
      <3> QED
        BY <2>1, <2>3, <2>4, <2>5, <3>1, SameLives, AsDiscard DEF SameKey
    <2>7. CASE u \notin cut
      <3>1. pub[u] = nkeys /\ Whole(nkeys)
        BY <2>1, <2>2, <2>4, <2>7, WholeTypes DEF FilesInv
      <3>2. Published(u)' = nkeys
        BY <2>1, <2>7, <3>1 DEF Published, Whole
      <3>3. Life(db[u]) = "active"
        BY <2>1, <2>2, CreationOnLiveAccount DEF Life
      <3> QED
        BY <2>1, <2>3, <2>4, <2>5, <2>7, <3>2, <3>3, SameLives, AsPublish
    <2> QED
      BY <2>6, <2>7
  <1>5. CASE CreateFailed
    <2>1. /\ Working /\ ~Creating' /\ UNCHANGED <<db, nkeys>>
      BY <1>5
      DEF CreateFailed, CreateAdmitted, Working, MidRequest, Step, Answer, Creating, accountVars
    <2>2. PICK u \in User : me = u
      BY <2>1, WorkSession
    <2>3. CASE CreateAdmitted /\ UNCHANGED <<fileVars, historyVars>>
      BY <2>1, <2>3, RestingLife
      DEF CreateAdmitted, Admitted, Creating, fileVars, historyVars
    <2>4. CASE Cleanup /\ cut' = cut \cup {me}
      BY <2>1, <2>2, <2>4, CleanupFiles, CutLife
    <2>5. CASE Cleanup /\ pub'[u] = NoFile /\ UNCHANGED cut
      <3>1. \A v \in User \ {u} : SameKey(v)
        BY <2>1, <2>2, <2>5, CleanupFiles, OthersSame
      <3>2. Published(u)' = NoKey
        BY <2>5 DEF Published, Whole
      <3>3. Published(u) = NoKey
        <4>1. CASE Creating
          BY <2>2, <4>1 DEF Published
        <4>2. CASE ~Creating
          BY <1>5, <2>2, <2>5, <4>2, NothingPublished
          DEF CreateFailed, CreateAdmitted, Admitted, Creating
        <4> QED
          BY <4>1, <4>2
      <3>4. \A v \in User : SameLife(v) /\ SameKey(v)
        BY <2>1, <3>1, <3>2, <3>3, SameLives DEF SameKey
      <3> QED
        BY <2>1, <2>5, <3>4, UsedAfter, AsDiscard, AsStutter
    <2> QED
      BY <1>5, <2>2, <2>3, <2>4, <2>5, CleanupFiles DEF CreateFailed
  <1> QED
    BY <1>1, <1>2, <1>3, <1>4, <1>5 DEF CreateKeys

LEMMA DeleteLife ==
  ASSUME OfflineInv, DeleteKeys
  PROVE  KeyLife!Next \/ UNCHANGED KeyLife!vars
  <1> USE DEF OfflineInv
  <1>1. /\ Working /\ ~Creating /\ ~Creating' /\ UNCHANGED nkeys
    BY DEF DeleteKeys, DeleteTombstone, DeletePub, DeleteEnc, DeleteFailed, Working, MidRequest,
           Step, Admitted, Goto, Answer, Creating
  <1>2. PICK u \in User : me = u
    BY <1>1, WorkSession
  <1>3. /\ mem[u] \in Account /\ mem[u] # NoAccount /\ db \in Table /\ mem \in Table
        /\ SameTombstones(mem, db)
    BY <1>1, <1>2, WorkSession, WorkingUser DEF Working, MidRequest, TypeInv, TypeOK
  <1>4. UNCHANGED UsedKeys
    BY <1>1, UsedAfter
  <1>5. CASE DeleteTombstone
    <2>1. /\ UNCHANGED <<pub, cut>> /\ auth_set_deleted(u)
      BY <1>2, <1>5 DEF DeleteTombstone, fileVars, historyVars
    <2>2. /\ db' = mem' /\ mem'[u] \in Account /\ mem'[u].deleted = 1
          /\ \A v \in User \ {u} : mem'[v] = mem[v]
      BY <1>3, <2>1, RecordDeleted
    <2>3. Life(db[u])' = "tombstone"
      BY <2>2, NoAccountAssumption DEF Life
    <2>4. \A v \in User \ {u} : SameLife(v)
      BY <1>3, <2>2 DEF SameTombstones, SameLife, Life
    <2>5. \A v \in User : SameKey(v)
      BY <1>1, <2>1, SameKeys
    <2>6. Life(db[u]) \in {"active", "tombstone"}
      BY <1>3 DEF SameTombstones, Life
    <2>7. CASE Life(db[u]) = "active"
      BY <1>4, <2>1, <2>3, <2>4, <2>5, <2>7, AsDelete
    <2>8. CASE Life(db[u]) = "tombstone"
      <3>1. \A v \in User : SameLife(v)
        BY <2>3, <2>4, <2>8 DEF SameLife
      <3> QED
        BY <1>4, <2>1, <2>5, <3>1, AsStutter
    <2> QED
      BY <2>6, <2>7, <2>8
  <1>6. Deleting => Life(db[u]) = "tombstone"
    BY <1>2, <1>3 DEF SessionInv, SameTombstones, Life
  <1>7. CASE DeletePub
    <2>1. /\ Deleting /\ UNCHANGED <<db, cut>>
          /\ pub'[u] = NoFile /\ \A v \in User \ {u} : pub'[v] = pub[v]
      BY <1>2, <1>7, SetFileKeeps DEF DeletePub, Deleting, accountVars, historyVars
    <2>2. \A v \in User \ {u} : SameKey(v)
      BY <1>1, <1>2, <2>1, OthersSame
    <2>3. Published(u)' = NoKey
      BY <2>1 DEF Published, Whole
    <2>4. CASE u \in cut
      <3>1. SameKey(u)
        BY <2>3, <2>4 DEF SameKey, Published
      <3> QED
        BY <1>4, <2>1, <2>2, <3>1, SameLives, AsStutter
    <2>5. CASE u \notin cut
      BY <1>4, <1>6, <2>1, <2>2, <2>3, <2>5, SameLives, AsWithdraw
    <2> QED
      BY <2>4, <2>5
  <1>8. CASE DeleteEnc
    <2>1. /\ Deleting /\ UNCHANGED <<db, pub>> /\ cut' = cut \ {u} /\ pub[u] = NoFile
      BY <1>2, <1>8 DEF DeleteEnc, Deleting, accountVars, FilesInv
    <2>2. \A v \in User \ {u} : SameKey(v)
      BY <1>1, <1>2, <2>1, OthersSame
    <2>3. Published(u)' = NoKey
      BY <2>1 DEF Published, Whole
    <2> QED
      BY <1>4, <1>6, <2>1, <2>2, <2>3, SameLives, AsWithdraw
  <1>9. CASE DeleteFailed
    <2>1. /\ UNCHANGED <<db, pub>> /\ (UNCHANGED cut \/ cut' = cut \cup {u})
      BY <1>2, <1>9 DEF DeleteFailed, CutShort, accountVars, historyVars
    <2> QED
      BY <1>1, <1>2, <2>1, RestingLife, CutLife
  <1> QED
    BY <1>5, <1>7, <1>8, <1>9 DEF DeleteKeys

LEMMA NextLife ==
  ASSUME OfflineInv, ToolOnline = FALSE, [Next]_vars
  PROVE  KeyLife!Next \/ UNCHANGED KeyLife!vars
  <1> USE DEF OfflineInv
  <1>1. CASE UNCHANGED vars
    BY <1>1, AsStutter
    DEF vars, SameLife, Life, SameKey, Published, Whole, Creating, me, UsedKeys
  <1>2. CASE Tool
    BY <1>2, ToolLife
  <1>3. CASE ChangePassword \/ CreateKeys \/ DeleteKeys
    BY <1>3, ChangeLife, CreateLife, DeleteLife
  <1>4. CASE Boot
    BY <1>4, BootEffect, RestingLife DEF Creating
  <1>5. CASE Exit \/ Crash
    <2>1. pc' = "down" /\ UNCHANGED <<db, pub, nkeys>>
      BY <1>5, EndEffect
    <2>2. CASE pc = "idle" /\ UNCHANGED cut
      BY <2>1, <2>2, RestingLife DEF Creating
    <2>3. CASE pc \in Step /\ cut' = cut \cup {me}
      BY <2>1, <2>3, MidRequestSession, CutLife DEF Creating
    <2> QED
      BY <1>5, <2>2, <2>3, EndEffect
  <1>6. CASE Server
    BY <1>3, <1>4, <1>5, <1>6, ReadOnlyEffect, LoginEffect, RestingLife
    DEF Server, Authenticate, Creating
  <1> QED
    BY <1>1, <1>2, <1>6 DEF Next

\* Every behaviour of the server and the tool is one of KeyLife: a key appears on an
\* active account that has none, is never given to a second user, and goes away
\* only under a tombstone or with an operation that was cut short; for a tool that
\* runs while the server is down.
THEOREM ServerIsKeyLife == ToolOnline = FALSE => (Spec => ImplementsKeyLife)
  <1> SUFFICES ASSUME ToolOnline = FALSE PROVE Spec => ImplementsKeyLife
    OBVIOUS
  <1>1. OfflineInv /\ [Next]_vars => [KeyLife!Next]_(KeyLife!vars)
    BY NextLife
  <1> QED
    BY InitLife, OfflineCorrect, <1>1, PTL DEF Spec, ImplementsKeyLife, KeyLife!Spec

-----------------------------------------------------------------------------
(* The server's steps for the request under way are steps of DssServer.    *)

LEMMA BeginIsServer ==
  ASSUME TypeInv, RequestInv, Waiting, Begin
  PROVE  Server
  <1>1. creq.op \in Op /\ (creq.user # NoUser => creq.user \in User)
    BY DEF RequestInv, Requests
  <1>2. creq.op = "AUTH" => creq.user \in User /\ creq.pw \in Password
    BY DEF RequestInv
  <1>3. creq.op = "CHANGE_PASSWORD" => creq.pw \in Password
    BY DEF RequestInv
  <1>4. me # NoUser => me \in User
    BY DEF TypeInv, TypeOK, Session, me
  <1>5. CASE Refuse(creq.op)
    BY <1>1, <1>5 DEF Server
  <1>6. CASE \/ creq.op = "AUTH" /\ AuthOk(creq.user, creq.pw)
             \/ creq.op = "AUTH" /\ AuthUnanswered(creq.user, creq.pw)
             \/ creq.op = "AUTH" /\ AuthBad(creq.user, creq.pw)
    BY <1>2, <1>6 DEF Server, Authenticate
  <1>7. CASE creq.op = "LOGOUT" /\ Logout
    BY <1>7 DEF Server
  <1>8. CASE creq.op = "CHANGE_PASSWORD" /\ (ChangeBegin(creq.pw) \/ ChangeRefused)
    BY <1>3, <1>8 DEF Server, ChangePassword
  <1>9. CASE CreateRefused \/ CreateKeep \/ CreateBegin \/ CreateFailed
    BY <1>9 DEF Server, CreateKeys
  <1>10. CASE DeleteTombstone \/ DeleteFailed
    BY <1>10 DEF Server, DeleteKeys
  <1>11. CASE BadRequest("SIGN_DOC") \/ SignOk \/ SignFailed
    BY <1>11 DEF Server, Op
  <1>12. CASE \/ creq.op = "GET_PUBLIC_KEY" /\ creq.user # NoUser /\ GetPublicKey(creq.user)
              \/ creq.op = "GET_PUBLIC_KEY" /\ creq.user = NoUser /\ me # NoUser /\ GetPublicKey(me)
    BY <1>1, <1>4, <1>12 DEF Server
  <1> QED
    BY <1>5, <1>6, <1>7, <1>8, <1>9, <1>10, <1>11, <1>12 DEF Begin

LEMMA ContinueIsServer == Continue => Server
  BY DEF Continue, Server, ChangePassword, CreateKeys, DeleteKeys

\* A step of the client and the server together is one of the server, or of the
\* tool, or leaves them both as they are.
LEMMA ClientStep ==
  ASSUME TypeInv, RequestInv, [ClientNext]_allVars
  PROVE  [Next]_vars
  <1>1. CASE Command \/ Receive \/ DropResponse \/ SeesEnd
    BY <1>1 DEF Command, Send, Receive, DropResponse, SeesEnd
  <1>2. CASE ServerStep
    BY <1>2, BeginIsServer, ContinueIsServer DEF ServerStep, Next
  <1>3. CASE ServerEnd \/ Connect
    BY <1>3 DEF ServerEnd, Connect, Next, Server
  <1>4. CASE RunTool
    BY <1>4 DEF RunTool, Next
  <1>5. CASE UNCHANGED allVars
    BY <1>5 DEF allVars
  <1> QED
    BY <1>1, <1>2, <1>3, <1>4, <1>5 DEF ClientNext

-----------------------------------------------------------------------------
(* What a server step does for the request under way: it goes on with the  *)
(* request, or answers it, and the answer says what became of the session. *)

GoesOn(op) ==
  /\ pc' \in Step
  /\ sess' = sess
  /\ pc' \in {"chg_enc", "chg_db"} => op = "CHANGE_PASSWORD"
  /\ Creating' => op = "CREATE_KEYS"
  /\ Deleting' => op = "DELETE_KEYS"

Answers(op, user, st) ==
  /\ pc' = "idle"
  /\ reply'.st = st
  /\ \/ /\ op = "AUTH" /\ st \in {"OK", "ERR_INTERNAL"}
        /\ sess'.is_authenticated = 1 /\ sess'.username = user
     \/ op = "LOGOUT" /\ st = "OK" /\ sess' = ClearedSession
     \/ /\ op = "CHANGE_PASSWORD" /\ st = "OK"
        /\ job.wrap \in WrapKey
        /\ sess' = [sess EXCEPT !.key = job.wrap, !.must_change = 0]
     \/ op = "CREATE_KEYS" /\ st = "ERR_DELETED" /\ sess' = [sess EXCEPT !.deleted = 1]
     \/ op = "DELETE_KEYS" /\ st = "OK" /\ sess' = [sess EXCEPT !.deleted = 1]
     \/ sess' = sess /\ (st = "OK" => op \in {"CREATE_KEYS", "SIGN_DOC", "GET_PUBLIC_KEY"})

LEMMA BeginAnswers ==
  ASSUME TypeInv, RequestInv, Waiting, pc = "idle", Begin
  PROVE  GoesOn(creq.op) \/ \E st \in Status : Answers(creq.op, creq.user, st)
  <1>1. CASE Refuse(creq.op)
    BY <1>1 DEF Refuse, Answer, Answers, Status
  <1>2. CASE creq.op = "AUTH" /\ AuthOk(creq.user, creq.pw)
    <2>1. creq.user \in User /\ creq.pw \in Password
      BY <1>2 DEF RequestInv
    <2>2. /\ sess' \in {LoggedIn(creq.user, creq.pw), SessionOf(creq.user, NoKey, 0),
                        SessionOf(creq.user, LoginKey(creq.user, creq.pw), 1)}
          /\ Answer("AUTH", "OK") /\ auth_verify_password(creq.user, creq.pw)
      BY <1>2 DEF AuthOk
    <2> QED
      BY <1>2, <2>1, <2>2, LoginSession DEF Answer, Answers, Status
  <1>3. CASE creq.op = "AUTH" /\ AuthUnanswered(creq.user, creq.pw)
    <2>1. creq.user \in User /\ creq.pw \in Password
      BY <1>3 DEF RequestInv
    <2>2. /\ sess' = LoggedIn(creq.user, creq.pw)
          /\ Answer("AUTH", "ERR_INTERNAL") /\ auth_verify_password(creq.user, creq.pw)
      BY <1>3 DEF AuthUnanswered
    <2> QED
      BY <1>3, <2>1, <2>2, LoginSession DEF Answer, Answers, Status
  <1>4. CASE creq.op = "AUTH" /\ AuthBad(creq.user, creq.pw)
    BY <1>4 DEF AuthBad, Answer, Answers, Status
  <1>5. CASE creq.op = "LOGOUT" /\ Logout
    BY <1>5 DEF Logout, Answer, Answers, Status
  <1>6. CASE creq.op = "CHANGE_PASSWORD" /\ (ChangeBegin(creq.pw) \/ ChangeRefused)
    BY <1>6 DEF ChangeBegin, ChangeRefused, Goto, Answer, GoesOn, Answers, Status, Step,
                Creating, Deleting
  <1>7. CASE creq.op = "CREATE_KEYS" /\ (CreateRefused \/ CreateKeep \/ CreateBegin)
    BY <1>7 DEF CreateRefused, CreateKeep, CreateBegin, Goto, Answer, GoesOn, Answers, Status,
                Step, Creating, Deleting
  <1>8. CASE creq.op = "CREATE_KEYS" /\ CreateFailed
    BY <1>8 DEF CreateFailed, Answer, Answers, Status
  <1>9. CASE creq.op = "DELETE_KEYS" /\ (DeleteTombstone \/ DeleteFailed)
    BY <1>9 DEF DeleteTombstone, DeleteFailed, Goto, Answer, GoesOn, Answers, Status, Step,
                Creating, Deleting
  <1>10. CASE creq.op = "SIGN_DOC" /\ (BadRequest("SIGN_DOC") \/ SignOk \/ SignFailed)
    BY <1>10 DEF BadRequest, SignOk, SignFailed, Answer, Answers, Status
  <1>11. CASE creq.op = "GET_PUBLIC_KEY" /\ \E u : GetPublicKey(u)
    BY <1>11 DEF GetPublicKey, Answer, Answers, Status
  <1> QED
    BY <1>1, <1>2, <1>3, <1>4, <1>5, <1>6, <1>7, <1>8, <1>9, <1>10, <1>11 DEF Begin

LEMMA ContinueAnswers ==
  ASSUME TypeInv, RequestInv, MidRequest, Continue
  PROVE  GoesOn(creq.op) \/ \E st \in Status : Answers(creq.op, creq.user, st)
  <1>1. /\ pc # "idle" /\ pc \in Step
        /\ pc \in {"chg_enc", "chg_db"} => creq.op = "CHANGE_PASSWORD" /\ job.wrap \in WrapKey
        /\ Creating => creq.op = "CREATE_KEYS"
        /\ Deleting => creq.op = "DELETE_KEYS"
    BY DEF MidRequest, Step, RequestInv, TypeInv, JobOK
  <1>2. CASE ChangeReencrypt \/ ChangeRecord \/ ChangeFailed
    BY <1>1, <1>2 DEF ChangeReencrypt, ChangeRecord, ChangeFailed, Goto, Answer, GoesOn,
                      Answers, Status, Step, Creating, Deleting
  <1>3. CASE CreatePub \/ CreateOpen \/ CreateEnc \/ CreateFailed
    BY <1>1, <1>3 DEF CreatePub, CreateOpen, CreateEnc, CreateFailed, CreateAdmitted, Admitted,
                      Goto, Answer, GoesOn, Answers, Status, Step, Creating, Deleting
  <1>4. CASE DeletePub \/ DeleteEnc \/ DeleteFailed
    BY <1>1, <1>4 DEF DeletePub, DeleteEnc, DeleteFailed, Admitted, Goto, Answer, GoesOn,
                      Answers, Status, Step, Creating, Deleting
  <1> QED
    BY <1>2, <1>3, <1>4 DEF Continue

LEMMA StepAnswers ==
  ASSUME TypeInv, RequestInv, ServerStep
  PROVE  GoesOn(creq.op) \/ \E st \in Status : Answers(creq.op, creq.user, st)
  BY BeginAnswers, ContinueAnswers DEF ServerStep

\* SIGN_DOC in a session that knows its tombstone.
LEMMA SignRefused ==
  ASSUME TypeInv, SessionInv, RequestInv, ServerStep,
         creq.op = "SIGN_DOC", sess.deleted = 1
  PROVE  reply'.st = "ERR_DELETED"
  <1>1. sess.is_authenticated = 1
    BY FlagTypes DEF SessionInv, ClearedSession
  <1>2. SessionDeleted("SIGN_DOC") /\ ~NeedsLogin("SIGN_DOC")
    BY <1>1 DEF SessionDeleted, NeedsLogin
  <1>3. pc = "idle" /\ Begin
    BY DEF ServerStep, SessionInv
  <1>4. Refuse("SIGN_DOC")
    BY <1>2, <1>3 DEF Begin, BadRequest, SignOk, SignFailed, Admitted
  <1> QED
    BY <1>2, <1>4 DEF Refuse, Answer

-----------------------------------------------------------------------------
(* Types, with what a request carries and whom the server works for.       *)

LEMMA RequestType ==
  ASSUME NEW op \in Op, NEW u \in User \cup {NoUser}, NEW p \in Password \cup {NoKey}
  PROVE  /\ Request(op, u, p) \in Requests
         /\ Request(op, u, p).op = op /\ Request(op, u, p).user = u
         /\ Request(op, u, p).pw = p /\ Request(op, u, p).at = "server"
         /\ Request(op, u, p) # NoRequest
  <1>1. Request(op, u, p) \in Requests
    BY DEF Request, Requests, Flag
  <1> QED
    BY <1>1, NoRequestAssumption DEF Request

\* A request that has got further.
LEMMA RequestMoved ==
  ASSUME NEW r \in Requests, NEW at \in {"server", "client", "lost"}
  PROVE  LET q == [r EXCEPT !.at = at] IN
         /\ q \in Requests /\ q # NoRequest
         /\ q.op = r.op /\ q.user = r.user /\ q.pw = r.pw /\ q.st = r.st
         /\ q.flags = r.flags /\ q.at = at
  <1>1. [r EXCEPT !.at = at] \in Requests
    BY DEF Requests
  <1>2. [r EXCEPT !.at = at] # NoRequest
    BY <1>1, NoRequestAssumption
  <1> QED
    BY <1>1, <1>2 DEF Requests

\* What a command sends, and what it leaves as it is.
LEMMA CommandSends ==
  ASSUME Command
  PROVE  /\ creq' \in Requests /\ creq' # NoRequest /\ creq'.at = "server"
         /\ creq'.op = "AUTH" => creq'.user \in User /\ creq'.pw \in Password
         /\ creq'.op = "CHANGE_PASSWORD" => creq'.pw \in Password
         /\ Prompt /\ shown' = Blank
         /\ UNCHANGED <<vars, cli, conn, adrift, slips>>
  <1>1. \A op \in Op, u \in User \cup {NoUser}, p \in Password \cup {NoKey} :
          Send(op, u, p) =>
            /\ creq' \in Requests /\ creq' # NoRequest /\ creq'.at = "server"
            /\ creq'.op = op /\ creq'.user = u /\ creq'.pw = p
            /\ Prompt /\ shown' = Blank
            /\ UNCHANGED <<vars, cli, conn, adrift, slips>>
    BY RequestType DEF Send
  <1>2. CASE \E u \in User, p \in Password : Send("AUTH", u, p)
    BY <1>1, <1>2 DEF Op
  <1>3. CASE \E p \in Password : Send("CHANGE_PASSWORD", NoUser, p)
    BY <1>1, <1>3 DEF Op
  <1>4. CASE \E u \in User \cup {NoUser} : Send("GET_PUBLIC_KEY", u, NoKey)
    BY <1>1, <1>4 DEF Op
  <1>5. CASE \E op \in {"CREATE_KEYS", "SIGN_DOC", "DELETE_KEYS", "LOGOUT"} : Send(op, NoUser, NoKey)
    BY <1>1, <1>5 DEF Op
  <1> QED
    BY <1>2, <1>3, <1>4, <1>5 DEF Command

\* Where the request is after a server step.
LEMMA StepDelivers ==
  ASSUME TypeInv, TypeInv', RequestInv, ServerStep
  PROVE  /\ creq' \in Requests /\ creq' # NoRequest
         /\ creq'.op = creq.op /\ creq'.user = creq.user /\ creq'.pw = creq.pw
         /\ GoesOn(creq.op) => creq' = creq
         /\ pc' = "idle" =>
              /\ creq'.at = "client" /\ creq'.st = reply'.st /\ creq'.st \in Status
              /\ creq'.flags = <<sess'.must_change, sess'.deleted>>
              /\ creq'.flags \in Flag \X Flag
  <1>1. creq \in Requests /\ creq # NoRequest
    BY DEF ServerStep, RequestInv, Waiting
  <1>2. sess'.must_change \in Flag /\ sess'.deleted \in Flag
    BY DEF TypeInv, TypeOK, Session
  <1>3. CASE GoesOn(creq.op)
    BY <1>1, <1>3 DEF ServerStep, Deliver, GoesOn, Step
  <1>4. CASE \E st \in Status : Answers(creq.op, creq.user, st)
    <2>1. pc' = "idle" /\ reply'.st \in Status
      BY <1>4 DEF Answers
    <2>2. creq' = [creq EXCEPT !.at = "client", !.st = reply'.st,
                               !.flags = <<sess'.must_change, sess'.deleted>>]
      BY <2>1 DEF ServerStep, Deliver
    <2>3. /\ creq' \in Requests /\ creq' # NoRequest
          /\ creq'.op = creq.op /\ creq'.user = creq.user /\ creq'.pw = creq.pw
          /\ creq'.at = "client" /\ creq'.st = reply'.st
          /\ creq'.flags = <<sess'.must_change, sess'.deleted>>
      <3>1. creq' \in Requests
        BY <1>1, <1>2, <2>1, <2>2 DEF Requests
      <3> QED
        BY <1>1, <2>2, <3>1, NoRequestAssumption DEF Requests
    <2> QED
      BY <1>2, <2>1, <2>3 DEF GoesOn, Step
  <1> QED
    BY <1>3, <1>4, StepAnswers

\* The request of a client whose server is gone.
LEMMA EndLoses ==
  ASSUME RequestInv, ServerEnd
  PROVE  /\ ~Waiting => creq' = NoRequest
         /\ Waiting =>
              /\ creq' \in Requests /\ creq' # NoRequest
              /\ creq'.op = creq.op /\ creq'.user = creq.user /\ creq'.pw = creq.pw
              /\ creq'.st = creq.st /\ creq'.flags = creq.flags
              /\ creq'.at = "lost" \/ (creq'.at = creq.at /\ creq.at # "server")
  <1>1. CASE ~Waiting
    BY <1>1 DEF ServerEnd, Waiting
  <1>2. CASE Waiting
    <2>1. creq \in Requests /\ creq.at \in {"server", "client", "lost"}
      BY <1>2 DEF RequestInv, Requests
    <2>2. PICK at \in {"lost"} \cup ({creq.at} \ {"server"}) : creq' = [creq EXCEPT !.at = at]
      BY <1>2 DEF ServerEnd
    <2>3. at \in {"server", "client", "lost"} /\ (at = "lost" \/ (at = creq.at /\ at # "server"))
      BY <2>1
    <2> QED
      BY <1>2, <2>1, <2>2, <2>3, RequestMoved
  <1> QED
    BY <1>1, <1>2

\* A response read changes the client's flags as AfterOk says, or not at all.
LEMMA AfterOkType ==
  ASSUME ClientTypeOK, RequestInv, Waiting, creq.at = "client"
  PROVE  AfterOk(creq.op) \in ClientState
  <1>1. cli \in ClientState /\ creq.flags \in Flag \X Flag
    BY DEF ClientTypeOK
  <1>2. LoggedOut \in ClientState /\ KeysDeleted \in ClientState /\ PasswordChanged \in ClientState
    BY <1>1 DEF LoggedOut, ClearedClient, KeysDeleted, PasswordChanged, ClientState, Flag
  <1>3. creq.op = "AUTH" => LoggedInAs(creq.flags) \in ClientState
    <2>1. creq.op = "AUTH" => creq.user \in User
      BY DEF RequestInv
    <2> QED
      BY <1>1, <2>1 DEF LoggedInAs, ClientState, Flag
  <1> QED
    BY <1>1, <1>2, <1>3 DEF AfterOk

\* What the user reads.
LEMMA ShowEffect ==
  ASSUME NEW out, NEW hint, Show(out, hint)
  PROVE  /\ shown'.op = creq.op /\ shown'.out = out
         /\ shown'.hint => hint
  <1>1. shown' = [op |-> creq.op, out |-> out, hint |-> hint]
    BY DEF Show
  <1>2. shown'.op = creq.op /\ shown'.out = out
    BY <1>1
  <1>3. shown'.hint => hint
    BY <1>1, Zenon
  <1> QED
    BY <1>2, <1>3

LEMMA ReceiveEffect ==
  ASSUME Receive
  PROVE  /\ creq # NoRequest /\ creq.at = "client" /\ creq' = NoRequest
         /\ cli' = IF creq.st = "OK" THEN AfterOk(creq.op) ELSE cli
         /\ adrift' = IF Telling THEN FALSE ELSE adrift
         /\ shown'.op = creq.op
         /\ shown'.out \in {"ok", "failed", "tombstone"}
         /\ creq.st = "ERR_DELETED" /\ creq.op # "AUTH" => shown'.out = "tombstone"
         /\ shown'.hint => creq.st = "ERR_AUTH" /\ creq.op # "AUTH" /\ cli.must_change = 1
         /\ UNCHANGED <<vars, conn, slips>>
  <1>1. /\ creq # NoRequest /\ creq.at = "client" /\ creq' = NoRequest
        /\ cli' = IF creq.st = "OK" THEN AfterOk(creq.op) ELSE cli
        /\ adrift' = IF Telling THEN FALSE ELSE adrift
        /\ UNCHANGED <<vars, conn, slips>>
    BY DEF Receive, Waiting, Telling
  <1>2. CASE creq.st = "OK"
    <2>1. Show("ok", FALSE)
      BY <1>2 DEF Receive
    <2> QED
      BY <1>1, <1>2, <2>1, ShowEffect
  <1>3. CASE creq.st # "OK" /\ creq.op = "AUTH"
    <2>1. Show("failed", FALSE)
      BY <1>3 DEF Receive
    <2> QED
      BY <1>1, <1>3, <2>1, ShowEffect
  <1>4. CASE creq.st = "ERR_DELETED" /\ creq.op # "AUTH"
    <2>1. Show("tombstone", FALSE)
      BY <1>4 DEF Receive, PrintFailure
    <2> QED
      BY <1>1, <1>4, <2>1, ShowEffect
  <1>5. CASE creq.st \notin {"OK", "ERR_DELETED"} /\ creq.op # "AUTH"
    <2>1. Show("failed", creq.st = "ERR_AUTH" /\ cli.must_change = 1)
      BY <1>5 DEF Receive, PrintFailure
    <2>2. shown'.op = creq.op /\ shown'.out = "failed"
      BY <2>1, ShowEffect
    <2>3. shown'.hint => creq.st = "ERR_AUTH" /\ cli.must_change = 1
      BY <2>1, ShowEffect, Zenon
    <2> QED
      BY <1>1, <1>5, <2>2, <2>3
  <1> QED
    BY <1>2, <1>3, <1>4, <1>5

LEMMA InitClient == ClientInit => TypeInv /\ SessionInv /\ ClientTypeOK /\ RequestInv
  <1> SUFFICES ASSUME ClientInit PROVE TypeInv /\ SessionInv /\ ClientTypeOK /\ RequestInv
    OBVIOUS
  <1>1. Init
    BY DEF ClientInit
  <1>2. TypeInv /\ SessionInv
    BY <1>1, InitTyped, InitSession
  <1>3. ClearedClient \in ClientState
    BY DEF ClearedClient, ClientState, Flag
  <1>4. pc = "down" /\ creq = NoRequest /\ conn = FALSE /\ adrift = FALSE
    BY DEF ClientInit, Init
  <1>5. slips \in 0 .. MaxSlips /\ shown.out = "nothing" /\ cli \in ClientState
    BY <1>3, MaxSlipsAssumption DEF ClientInit, Blank
  <1>6. ClientTypeOK
    BY <1>4, <1>5 DEF ClientTypeOK, Waiting
  <1>7. RequestInv
    BY <1>4 DEF RequestInv, Waiting, MidRequest, Step
  <1> QED
    BY <1>2, <1>6, <1>7

\* A step of the client alone leaves the server's variables as they are.
LEMMA CallerTyped ==
  ASSUME TypeInv, ClientTypeOK, RequestInv, Command \/ Receive \/ DropResponse \/ SeesEnd
  PROVE  ClientTypeOK' /\ RequestInv'
  <1>1. CASE Command
    <2>1. /\ creq' \in Requests /\ creq' # NoRequest /\ creq'.at = "server"
          /\ creq'.op = "AUTH" => creq'.user \in User /\ creq'.pw \in Password
          /\ creq'.op = "CHANGE_PASSWORD" => creq'.pw \in Password
          /\ Prompt /\ shown' = Blank
          /\ UNCHANGED <<pc, cli, conn, adrift, slips>>
      BY <1>1, CommandSends DEF vars
    <2>2. ~MidRequest'
      BY <2>1 DEF Prompt, RequestInv, Waiting, MidRequest
    <2> QED
      BY <2>1, <2>2 DEF ClientTypeOK, RequestInv, Waiting, Prompt, Blank, Down
  <1>2. CASE Receive
    <2>1. /\ creq # NoRequest /\ creq.at = "client" /\ creq' = NoRequest
          /\ cli' = IF creq.st = "OK" THEN AfterOk(creq.op) ELSE cli
          /\ adrift' \in BOOLEAN
          /\ shown'.out \in {"ok", "failed", "tombstone"}
          /\ UNCHANGED <<pc, conn, slips>>
      BY <1>2, ReceiveEffect DEF vars, ClientTypeOK
    <2>2. cli' \in ClientState
      BY <2>1, AfterOkType DEF Waiting, ClientTypeOK
    <2>3. ~MidRequest'
      BY <2>1 DEF RequestInv, MidRequest
    <2> QED
      BY <2>1, <2>2, <2>3 DEF ClientTypeOK, RequestInv, Waiting, Down
  <1>3. CASE DropResponse \/ SeesEnd
    <2>1. /\ creq.at # "server" /\ creq' = NoRequest
          /\ UNCHANGED <<pc, cli, conn>>
      BY <1>3 DEF DropResponse, SeesEnd, vars
    <2>2. shown'.out = "request failed"
      BY <1>3, ShowEffect DEF DropResponse, SeesEnd
    <2>3. adrift' \in BOOLEAN
      BY <1>3 DEF DropResponse, SeesEnd, ClientTypeOK
    <2>4. slips' \in 0 .. MaxSlips
      <3>1. slips' = slips \/ (slips < MaxSlips /\ slips' = slips + 1)
        BY <1>3 DEF DropResponse, SeesEnd
      <3>2. slips \in 0 .. MaxSlips
        BY DEF ClientTypeOK
      <3> QED
        BY <3>1, <3>2, MaxSlipsAssumption
    <2>5. ~MidRequest'
      BY <2>1 DEF RequestInv, MidRequest
    <2> QED
      BY <2>1, <2>2, <2>3, <2>4, <2>5 DEF ClientTypeOK, RequestInv, Waiting, Down
  <1> QED
    BY <1>1, <1>2, <1>3

LEMMA StepTypedClient ==
  ASSUME TypeInv, TypeInv', ClientTypeOK, RequestInv, ServerStep
  PROVE  ClientTypeOK' /\ RequestInv'
  <1>1. /\ creq # NoRequest /\ creq.at = "server" /\ creq \in Requests /\ conn
        /\ adrift' \in BOOLEAN /\ UNCHANGED <<cli, conn, shown, slips>>
    BY DEF ServerStep, Waiting, RequestInv, ClientTypeOK, Unsaid
  <1>2. /\ creq' \in Requests /\ creq' # NoRequest
        /\ creq'.op = creq.op /\ creq'.user = creq.user /\ creq'.pw = creq.pw
        /\ GoesOn(creq.op) => creq' = creq
        /\ pc' = "idle" => /\ creq'.at = "client" /\ creq'.st \in Status
                           /\ creq'.flags \in Flag \X Flag
    BY StepDelivers
  <1>3. GoesOn(creq.op) \/ pc' = "idle"
    BY StepAnswers DEF Answers
  <1>4. creq.op = "AUTH" => creq.user \in User /\ creq.pw \in Password
    BY <1>1 DEF RequestInv, Waiting
  <1>5. creq.op = "CHANGE_PASSWORD" => creq.pw \in Password
    BY <1>1 DEF RequestInv, Waiting
  <1>6. CASE GoesOn(creq.op)
    BY <1>1, <1>2, <1>4, <1>5, <1>6
    DEF GoesOn, ClientTypeOK, RequestInv, Waiting, MidRequest, Down, Step
  <1>7. CASE pc' = "idle"
    BY <1>1, <1>2, <1>4, <1>5, <1>7
    DEF ClientTypeOK, RequestInv, Waiting, MidRequest, Down, Step
  <1> QED
    BY <1>3, <1>6, <1>7

LEMMA ProcessTypedClient ==
  ASSUME TypeInv, ClientTypeOK, RequestInv, ServerEnd \/ Connect \/ RunTool \/ UNCHANGED allVars
  PROVE  ClientTypeOK' /\ RequestInv'
  <1>1. CASE ServerEnd
    <2>1. pc' = "down" /\ conn' = FALSE /\ UNCHANGED <<cli, shown, adrift, slips>>
      BY <1>1, EndEffect DEF ServerEnd
    <2>2. CASE ~Waiting
      BY <1>1, <2>1, <2>2, EndLoses
      DEF ClientTypeOK, RequestInv, Waiting, MidRequest, Step
    <2>3. CASE Waiting
      <3>1. /\ creq' \in Requests /\ creq' # NoRequest
            /\ creq'.op = creq.op /\ creq'.user = creq.user /\ creq'.pw = creq.pw
            /\ creq'.st = creq.st /\ creq'.flags = creq.flags
            /\ creq'.at = "lost" \/ (creq'.at = creq.at /\ creq.at # "server")
        BY <1>1, <2>3, EndLoses
      <3> QED
        BY <2>1, <2>3, <3>1 DEF ClientTypeOK, RequestInv, Waiting, MidRequest, Step
    <2> QED
      BY <2>2, <2>3
  <1>2. CASE Connect
    <2>1. ClearedClient \in ClientState
      BY DEF ClearedClient, ClientState, Flag
    <2> QED
      BY <1>2, <2>1, BootEffect
      DEF Connect, ClientTypeOK, RequestInv, Waiting, MidRequest, Step, Blank, Down
  <1>3. CASE RunTool \/ UNCHANGED allVars
    <2>1. UNCHANGED <<pc, cli, creq, conn, shown, adrift, slips>>
      BY <1>3, ToolEffect DEF RunTool, allVars, vars, cliVars
    <2> QED
      BY <2>1
      DEF ClientTypeOK, RequestInv, Waiting, MidRequest, Down, Creating, Deleting
  <1> QED
    BY <1>1, <1>2, <1>3

LEMMA NextClientTyped ==
  ASSUME TypeInv, ClientTypeOK, RequestInv, [ClientNext]_allVars
  PROVE  TypeInv' /\ ClientTypeOK' /\ RequestInv'
  <1>1. TypeInv'
    BY ClientStep, NextTyped
  <1> QED
    BY <1>1, CallerTyped, StepTypedClient, ProcessTypedClient DEF ClientNext

\* The client and the server together behave as the server does: whatever holds
\* of every behaviour of DssServer holds behind a client that sends one request
\* at a time, reads or drops the response and comes back after a crash.
THEOREM ClientIsServer == ClientSpec => Spec
  <1>1. ClientInit => TypeInv /\ ClientTypeOK /\ RequestInv
    BY InitClient
  <1>2. TypeInv /\ ClientTypeOK /\ RequestInv /\ [ClientNext]_allVars
          => (TypeInv /\ ClientTypeOK /\ RequestInv)'
    BY NextClientTyped
  <1>3. TypeInv /\ RequestInv /\ [ClientNext]_allVars => [Next]_vars
    BY ClientStep
  <1>4. ClientInit => Init
    BY DEF ClientInit
  <1> QED
    BY <1>1, <1>2, <1>3, <1>4, PTL DEF ClientSpec, Spec

\* Every value the client keeps, sends and prints is one the code has a case for;
\* a response that has come back carries a status and two flags.
THEOREM ClientTyped == ClientSpec => []ClientTypeOK
  <1>1. ClientInit => TypeInv /\ ClientTypeOK /\ RequestInv
    BY InitClient
  <1>2. TypeInv /\ ClientTypeOK /\ RequestInv /\ [ClientNext]_allVars
          => (TypeInv /\ ClientTypeOK /\ RequestInv)'
    BY NextClientTyped
  <1> QED
    BY <1>1, <1>2, PTL DEF ClientSpec

-----------------------------------------------------------------------------
(* What the client knows of its session, and what it tells the user.       *)

\* The client's flags c are those of the session s, or behind its tombstone.
KnownAs(c, s) ==
  /\ c.logged_in = s.is_authenticated
  /\ c.username = s.username
  /\ c.must_change = s.must_change
  /\ c.deleted <= s.deleted

LEMMA KnowsIs ==
  /\ \A c : Knows(c) <=> KnownAs(c, sess)
  /\ KnownAs(ClearedClient, ClearedSession)
  BY DEF Knows, KnownAs, me, ClearedClient, ClearedSession

\* What the client makes of an answer OK, on a request that has come back.
LEMMA AfterOkNext ==
  ASSUME cli \in ClientState, cli' = cli, creq'.op = creq.op, creq'.user = creq.user,
         creq'.flags = <<sess'.must_change, sess'.deleted>>
  PROVE  LET c == AfterOk(creq.op)' IN
         /\ creq.op = "AUTH" =>
              /\ c.logged_in = 1 /\ c.username = creq.user
              /\ c.must_change = sess'.must_change /\ c.deleted = sess'.deleted
         /\ creq.op = "LOGOUT" => c = ClearedClient
         /\ creq.op = "CHANGE_PASSWORD" =>
              /\ c.logged_in = cli.logged_in /\ c.username = cli.username
              /\ c.must_change = 0 /\ c.deleted = cli.deleted
         /\ creq.op = "DELETE_KEYS" =>
              /\ c.logged_in = cli.logged_in /\ c.username = cli.username
              /\ c.must_change = cli.must_change /\ c.deleted = 1
         /\ creq.op \in {"CREATE_KEYS", "SIGN_DOC", "GET_PUBLIC_KEY"} => c = cli
  <1>1. creq.op = "AUTH" =>
          AfterOk(creq.op)' = [logged_in |-> 1, must_change |-> sess'.must_change,
                               deleted |-> sess'.deleted, username |-> creq.user]
    BY DEF AfterOk, LoggedInAs
  <1>2. creq.op = "LOGOUT" => AfterOk(creq.op)' = ClearedClient
    BY DEF AfterOk, LoggedOut, ClearedClient
  <1>3. creq.op = "CHANGE_PASSWORD" => AfterOk(creq.op)' = [cli EXCEPT !.must_change = 0]
    BY DEF AfterOk, PasswordChanged
  <1>4. creq.op = "DELETE_KEYS" => AfterOk(creq.op)' = [cli EXCEPT !.deleted = 1]
    BY DEF AfterOk, KeysDeleted
  <1>5. creq.op \in {"CREATE_KEYS", "SIGN_DOC", "GET_PUBLIC_KEY"} => AfterOk(creq.op)' = cli
    BY DEF AfterOk
  <1> QED
    BY <1>1, <1>2, <1>3, <1>4, <1>5 DEF ClientState

\* A response, with what the client will make of it, is what became of the session.
LEMMA AnswerTells ==
  ASSUME TypeInv, TypeInv', ClientTypeOK, RequestInv, ServerStep, pc' = "idle",
         KnownAs(cli, sess) \/ (creq.op \in {"AUTH", "LOGOUT"} /\ reply'.st = "OK"),
         ~(creq.op = "AUTH" /\ reply'.st = "ERR_INTERNAL")
  PROVE  KnownAs(IF reply'.st = "OK" THEN AfterOk(creq.op)' ELSE cli, sess')
  <1> DEFINE c == AfterOk(creq.op)'
  <1>1. PICK st \in Status : Answers(creq.op, creq.user, st)
    BY StepAnswers DEF GoesOn, Step
  <1>2. reply'.st = st
    BY <1>1 DEF Answers
  <1>3. /\ creq.op = "AUTH" =>
              /\ c.logged_in = 1 /\ c.username = creq.user
              /\ c.must_change = sess'.must_change /\ c.deleted = sess'.deleted
        /\ creq.op = "LOGOUT" => c = ClearedClient
        /\ creq.op = "CHANGE_PASSWORD" =>
              /\ c.logged_in = cli.logged_in /\ c.username = cli.username
              /\ c.must_change = 0 /\ c.deleted = cli.deleted
        /\ creq.op = "DELETE_KEYS" =>
              /\ c.logged_in = cli.logged_in /\ c.username = cli.username
              /\ c.must_change = cli.must_change /\ c.deleted = 1
        /\ creq.op \in {"CREATE_KEYS", "SIGN_DOC", "GET_PUBLIC_KEY"} => c = cli
    BY StepDelivers, AfterOkNext DEF ServerStep, ClientTypeOK
  <1> HIDE DEF c
  <1>4. /\ sess \in Session /\ sess' \in Session
        /\ sess'.deleted \in {0, 1} /\ cli.deleted \in {0, 1}
    <2>1. sess \in Session /\ sess' \in Session /\ cli \in ClientState
      BY DEF TypeInv, TypeOK, ClientTypeOK
    <2> QED
      BY <2>1 DEF Session, ClientState, Flag
  <1>5. CASE /\ creq.op = "AUTH" /\ st \in {"OK", "ERR_INTERNAL"}
             /\ sess'.is_authenticated = 1 /\ sess'.username = creq.user
    BY <1>2, <1>3, <1>4, <1>5 DEF KnownAs, c
  <1>6. CASE creq.op = "LOGOUT" /\ st = "OK" /\ sess' = ClearedSession
    BY <1>2, <1>3, <1>6, KnowsIs DEF c
  <1>7. CASE /\ creq.op = "CHANGE_PASSWORD" /\ st = "OK"
             /\ job.wrap \in WrapKey
             /\ sess' = [sess EXCEPT !.key = job.wrap, !.must_change = 0]
    <2>1. /\ sess'.is_authenticated = sess.is_authenticated /\ sess'.username = sess.username
          /\ sess'.must_change = 0 /\ sess'.deleted = sess.deleted
      <3>1. sess \in Session /\ job.wrap \in WrapKey
        BY <1>4, <1>7
      <3>2. LET t == [sess EXCEPT !.key = job.wrap, !.must_change = 0] IN
            /\ t.is_authenticated = sess.is_authenticated /\ t.username = sess.username
            /\ t.deleted = sess.deleted
        BY <3>1, SessionChangedType
      <3>3. [sess EXCEPT !.key = job.wrap, !.must_change = 0].must_change = 0
        BY <3>1, SessionFields
      <3> QED
        BY <1>7, <3>2, <3>3
    <2>2. KnownAs(cli, sess)
      BY <1>7
    <2>3. KnownAs(c, sess')
      BY <1>3, <1>7, <2>1, <2>2 DEF KnownAs
    <2> QED
      BY <1>2, <1>7, <2>3 DEF c
  <1>8. CASE /\ sess' = [sess EXCEPT !.deleted = 1]
             /\ \/ creq.op = "CREATE_KEYS" /\ st = "ERR_DELETED"
                \/ creq.op = "DELETE_KEYS" /\ st = "OK"
    <2>1. /\ sess'.is_authenticated = sess.is_authenticated /\ sess'.username = sess.username
          /\ sess'.must_change = sess.must_change /\ sess'.deleted = 1
      BY <1>4, <1>8, SessionDeletedType, SessionFields
    <2>2. KnownAs(cli, sess)
      BY <1>8
    <2>3. CASE creq.op = "CREATE_KEYS" /\ st = "ERR_DELETED"
      BY <1>2, <1>4, <2>1, <2>2, <2>3 DEF KnownAs
    <2>4. CASE creq.op = "DELETE_KEYS" /\ st = "OK"
      BY <1>2, <1>3, <2>1, <2>2, <2>4 DEF KnownAs, c
    <2> QED
      BY <1>8, <2>3, <2>4
  <1>9. CASE sess' = sess /\ (st = "OK" => creq.op \in {"CREATE_KEYS", "SIGN_DOC", "GET_PUBLIC_KEY"})
    BY <1>2, <1>3, <1>9 DEF c
  <1> QED
    BY <1>1, <1>5, <1>6, <1>7, <1>8, <1>9 DEF Answers

\* AnswerInv with the client's flags and the session's side by side, before a step
\* and after it.
LEMMA AnswerInvIs ==
  ASSUME AnswerInv
  PROVE  /\ conn /\ ~adrift /\ ~(creq # NoRequest /\ creq.at = "client") => KnownAs(cli, sess)
         /\ conn /\ creq # NoRequest /\ creq.at = "client" /\ (~adrift \/ Telling)
              => KnownAs(IF creq.st = "OK" THEN AfterOk(creq.op) ELSE cli, sess)
         /\ ~adrift /\ creq # NoRequest /\ creq.at = "client" /\ creq.op = "SIGN_DOC"
              /\ cli.deleted = 1 => creq.st = "ERR_DELETED"
  BY KnowsIs DEF AnswerInv, Waiting

LEMMA AnswerInvNext ==
  ASSUME conn' /\ ~adrift' /\ ~(creq' # NoRequest /\ creq'.at = "client")
           => KnownAs(cli', sess'),
         conn' /\ creq' # NoRequest /\ creq'.at = "client" /\ (~adrift' \/ Telling')
           => KnownAs(IF creq'.st = "OK" THEN AfterOk(creq.op)' ELSE cli', sess'),
         ~adrift' /\ creq' # NoRequest /\ creq'.at = "client" /\ creq'.op = "SIGN_DOC"
           /\ cli'.deleted = 1 => creq'.st = "ERR_DELETED"
  PROVE  AnswerInv'
  BY DEF AnswerInv, Waiting, Knows, KnownAs, me

LEMMA AfterOkSame ==
  ASSUME cli' = cli, creq' = creq
  PROVE  AfterOk(creq.op)' = AfterOk(creq.op)
  BY DEF AfterOk, LoggedInAs, PasswordChanged, KeysDeleted, LoggedOut

\* A session with a pending password change is a login.
LEMMA PendingIsLogin ==
  ASSUME TypeInv, SessionInv, sess.must_change = 1
  PROVE  sess.is_authenticated = 1
  BY FlagTypes DEF SessionInv, ClearedSession

LEMMA InitAnswer == ClientInit => AnswerInv /\ MessagesAreRight
  BY DEF ClientInit, AnswerInv, MessagesAreRight, Waiting, Blank

LEMMA CallerAnswer ==
  ASSUME TypeInv, SessionInv, ClientTypeOK, RequestInv, AnswerInv, MessagesAreRight,
         Command \/ Receive \/ DropResponse \/ SeesEnd
  PROVE  AnswerInv' /\ MessagesAreRight'
  <1>1. CASE Command
    <2>1. /\ creq = NoRequest /\ creq'.at = "server" /\ shown' = Blank
          /\ UNCHANGED <<sess, cli, conn, adrift>>
      BY <1>1, CommandSends DEF Prompt, vars
    <2>2. AnswerInv'
      BY <2>1, AnswerInvIs, AnswerInvNext
    <2>3. shown'.op = "NONE" /\ shown'.hint = FALSE
      BY <2>1 DEF Blank
    <2> QED
      BY <2>2, <2>3, Zenon DEF MessagesAreRight
  <1>2. CASE Receive
    <2>1. /\ creq # NoRequest /\ creq.at = "client" /\ creq' = NoRequest
          /\ cli' = IF creq.st = "OK" THEN AfterOk(creq.op) ELSE cli
          /\ ~adrift' => ~adrift \/ Telling
          /\ shown'.op = creq.op
          /\ creq.st = "ERR_DELETED" /\ creq.op # "AUTH" => shown'.out = "tombstone"
          /\ UNCHANGED <<sess, conn>>
      BY <1>2, ReceiveEffect DEF vars
    <2>2. shown'.hint => creq.st = "ERR_AUTH" /\ creq.op # "AUTH" /\ cli.must_change = 1
      BY <1>2, ReceiveEffect
    <2>3. conn' /\ ~adrift' => KnownAs(cli', sess')
      BY <2>1, AnswerInvIs
    <2>4. AnswerInv'
      BY <2>1, <2>3, AnswerInvNext
    <2>5. ~adrift' /\ shown'.op = "SIGN_DOC" /\ cli'.deleted = 1 => shown'.out = "tombstone"
      <3> SUFFICES ASSUME ~adrift', shown'.op = "SIGN_DOC", cli'.deleted = 1
                   PROVE  shown'.out = "tombstone"
        OBVIOUS
      <3>1. ~adrift /\ creq.op = "SIGN_DOC"
        BY <2>1 DEF Telling
      <3>2. cli.deleted = 1
        BY <2>1, <3>1 DEF AfterOk
      <3> QED
        BY <2>1, <3>1, <3>2, AnswerInvIs
    <2>6. ~adrift' /\ shown'.hint /\ Prompt' => sess'.is_authenticated = 1 /\ sess'.must_change = 1
      <3> SUFFICES ASSUME ~adrift', shown'.hint, Prompt'
                   PROVE  sess'.is_authenticated = 1 /\ sess'.must_change = 1
        OBVIOUS
      <3>1. conn' /\ creq.st = "ERR_AUTH" /\ cli.must_change = 1
        BY <2>2 DEF Prompt
      <3>2. sess.must_change = 1
        BY <2>1, <2>3, <3>1 DEF KnownAs
      <3> QED
        BY <2>1, <3>2, PendingIsLogin
    <2> QED
      BY <2>4, <2>5, <2>6, Zenon DEF MessagesAreRight
  <1>3. CASE DropResponse
    <2>1. creq' = NoRequest /\ adrift' = TRUE
      BY <1>3 DEF DropResponse
    <2> QED
      BY <2>1 DEF AnswerInv, MessagesAreRight, Waiting
  <1>4. CASE SeesEnd
    <2>1. /\ creq.at = "lost" /\ creq' = NoRequest
          /\ UNCHANGED <<sess, cli, conn, adrift>>
      BY <1>4 DEF SeesEnd, vars
    <2>2. Show("request failed", FALSE)
      BY <1>4 DEF SeesEnd
    <2>3. shown'.out = "request failed" /\ ~shown'.hint
      BY <2>2, ShowEffect
    <2>4. AnswerInv'
      BY <2>1, AnswerInvIs, AnswerInvNext
    <2> QED
      BY <2>3, <2>4, Zenon DEF MessagesAreRight
  <1> QED
    BY <1>1, <1>2, <1>3, <1>4

LEMMA StepAnswer ==
  ASSUME TypeInv, TypeInv', SessionInv, ClientTypeOK, RequestInv, AnswerInv, MessagesAreRight,
         ServerStep
  PROVE  AnswerInv' /\ MessagesAreRight'
  <1>1. /\ creq # NoRequest /\ creq.at = "server" /\ conn
        /\ UNCHANGED <<cli, conn, shown>>
        /\ ~adrift' => ~adrift /\ ~(creq.op = "AUTH" /\ reply'.st = "ERR_INTERNAL")
    BY DEF ServerStep, Waiting, RequestInv, Unsaid
  <1>2. ~adrift => KnownAs(cli, sess)
    BY <1>1, AnswerInvIs
  <1>3. /\ creq' # NoRequest /\ creq'.op = creq.op
        /\ GoesOn(creq.op) => creq' = creq
        /\ pc' = "idle" => creq'.at = "client" /\ creq'.st = reply'.st
    BY StepDelivers
  <1>4. GoesOn(creq.op) \/ pc' = "idle"
    BY StepAnswers DEF Answers
  <1>5. AnswerInv'
    <2>1. CASE GoesOn(creq.op)
      <3>1. sess' = sess
        BY <2>1 DEF GoesOn
      <3> QED
        BY <1>1, <1>2, <1>3, <2>1, <3>1, AnswerInvNext
    <2>2. CASE pc' = "idle"
      <3>1. ASSUME ~adrift' \/ Telling'
            PROVE  KnownAs(IF creq'.st = "OK" THEN AfterOk(creq.op)' ELSE cli', sess')
        <4>1. KnownAs(cli, sess) \/ (creq.op \in {"AUTH", "LOGOUT"} /\ reply'.st = "OK")
          BY <1>1, <1>2, <1>3, <2>2, <3>1 DEF Telling
        <4>2. ~(creq.op = "AUTH" /\ reply'.st = "ERR_INTERNAL")
          BY <1>1, <1>3, <2>2, <3>1 DEF Telling
        <4>3. KnownAs(IF reply'.st = "OK" THEN AfterOk(creq.op)' ELSE cli, sess')
          BY <2>2, <4>1, <4>2, AnswerTells
        <4> QED
          BY <1>1, <1>3, <2>2, <4>3
      <3>2. ASSUME ~adrift', creq'.op = "SIGN_DOC", cli'.deleted = 1
            PROVE  creq'.st = "ERR_DELETED"
        <4>1. cli.deleted <= sess.deleted /\ cli.deleted = 1
          BY <1>1, <1>2, <3>2 DEF KnownAs
        <4>2. sess.deleted = 1
          BY <4>1, FlagTypes
        <4> QED
          BY <1>3, <2>2, <3>2, <4>2, SignRefused
      <3> QED
        BY <1>3, <2>2, <3>1, <3>2, AnswerInvNext
    <2> QED
      BY <1>4, <2>1, <2>2
  <1>6. ~Prompt'
    BY <1>3 DEF Prompt
  <1>7. ~adrift' /\ shown'.op = "SIGN_DOC" /\ cli'.deleted = 1
          => shown'.out \in {"tombstone", "request failed"}
    BY <1>1 DEF MessagesAreRight
  <1> QED
    BY <1>5, <1>6, <1>7, Zenon DEF MessagesAreRight

LEMMA ProcessAnswer ==
  ASSUME TypeInv, ClientTypeOK, RequestInv, AnswerInv, MessagesAreRight,
         ServerEnd \/ Connect \/ RunTool \/ UNCHANGED allVars
  PROVE  AnswerInv' /\ MessagesAreRight'
  <1>1. CASE ServerEnd
    <2>1. conn' = FALSE /\ UNCHANGED <<cli, shown, adrift>>
      BY <1>1 DEF ServerEnd
    <2>2. creq' # NoRequest /\ creq'.at = "client" =>
            /\ creq # NoRequest /\ creq.at = "client"
            /\ creq'.op = creq.op /\ creq'.st = creq.st
      BY <1>1, EndLoses DEF Waiting
    <2>3. AnswerInv'
      BY <2>1, <2>2, AnswerInvIs, AnswerInvNext
    <2>4. ~Prompt'
      BY <2>1 DEF Prompt
    <2>5. ~adrift' /\ shown'.op = "SIGN_DOC" /\ cli'.deleted = 1
            => shown'.out \in {"tombstone", "request failed"}
      BY <2>1 DEF MessagesAreRight
    <2> QED
      BY <2>3, <2>4, <2>5, Zenon DEF MessagesAreRight
  <1>2. CASE Connect
    <2>1. /\ creq' = NoRequest /\ cli' = ClearedClient /\ shown' = Blank
          /\ sess' = ClearedSession
      BY <1>2, BootEffect DEF Connect, Waiting, TypeInv, SessionOK, Down
    <2>2. AnswerInv'
      BY <2>1, KnowsIs, AnswerInvNext
    <2>3. shown'.op = "NONE" /\ shown'.hint = FALSE
      BY <2>1 DEF Blank
    <2> QED
      BY <2>2, <2>3, Zenon DEF MessagesAreRight
  <1>3. CASE RunTool \/ UNCHANGED allVars
    <2>1. UNCHANGED <<sess, cli, creq, conn, shown, adrift>>
      BY <1>3, ToolEffect DEF RunTool, allVars, vars, cliVars
    <2>2. AnswerInv'
      BY <2>1, AnswerInvIs, AnswerInvNext, AfterOkSame DEF Telling
    <2>3. MessagesAreRight'
      BY <2>1 DEF MessagesAreRight, Prompt
    <2> QED
      BY <2>2, <2>3
  <1> QED
    BY <1>1, <1>2, <1>3

\* The whole invariant of the client.
ClientInv ==
  TypeInv /\ SessionInv /\ ClientTypeOK /\ RequestInv /\ AnswerInv /\ MessagesAreRight

LEMMA NextClient == ClientInv /\ [ClientNext]_allVars => ClientInv'
  <1> SUFFICES ASSUME ClientInv, [ClientNext]_allVars PROVE ClientInv'
    OBVIOUS
  <1>1. [Next]_vars
    BY ClientStep DEF ClientInv
  <1>2. TypeInv' /\ SessionInv'
    BY <1>1, NextTyped, NextSession DEF ClientInv
  <1>3. ClientTypeOK' /\ RequestInv'
    BY NextClientTyped DEF ClientInv
  <1>4. AnswerInv' /\ MessagesAreRight'
    BY <1>2, CallerAnswer, StepAnswer, ProcessAnswer DEF ClientInv, ClientNext
  <1> QED
    BY <1>2, <1>3, <1>4 DEF ClientInv

LEMMA ClientCorrect == ClientSpec => []ClientInv
  <1>1. ClientInit => ClientInv
    BY InitClient, InitAnswer DEF ClientInv
  <1> QED
    BY <1>1, NextClient, PTL DEF ClientSpec

\* At the prompt the client's flags are the session's, and its tombstone is one
\* the session knows of, unless a response was dropped or AUTH answered an error
\* for a login that took place.
THEOREM ClientKnows == ClientSpec => []ClientKnowsSession
  <1>1. ClientInv => ClientKnowsSession
    BY DEF ClientInv, AnswerInv, ClientKnowsSession, Prompt, Waiting
  <1> QED
    BY <1>1, ClientCorrect, PTL

\* What the client prints of a tombstone and of a pending password change is true
\* of the session it prints it for.
THEOREM ClientTellsRight == ClientSpec => []MessagesAreRight
  <1>1. ClientInv => MessagesAreRight
    BY DEF ClientInv
  <1> QED
    BY <1>1, ClientCorrect, PTL

=============================================================================
