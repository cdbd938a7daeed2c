------------------------------- MODULE Client -------------------------------
(***************************************************************************)
(* The interactive client of client/main.c in front of the server: one     *)
(* command, one request, one response, and the flags it keeps of its login *)
(* next to the session's.  The server's steps are those of DssServer, one  *)
(* request at a time; Channel has the frames in between.                   *)
(***************************************************************************)
EXTENDS DssServer

CONSTANTS
  MaxSlips,  \* bound: responses read and dropped
  NoRequest  \* no request under way

\* Everything a request can be on its way to the server and back.
Requests ==
  [op : Op, user : User \cup {NoUser}, pw : Password \cup {NoKey},
   at : {"server", "client", "lost"}, st : Status \cup {"NONE"}, flags : Flag \X Flag]

ASSUME MaxSlipsAssumption == MaxSlips \in Nat
ASSUME NoRequestAssumption == NoRequest \notin Requests

VARIABLES
  cli,     \* cli_state_t
  creq,    \* the request under way: its arguments, where it is, its response
  conn,    \* is the client connected to the server process that runs?
  shown,   \* what the last command printed
  adrift,  \* history: the client may have missed a change of its session
  slips

cliVars == <<cli, creq, conn, shown, adrift, slips>>
allVars == <<vars, cliVars>>

ClearedClient == [logged_in |-> 0, must_change |-> 0, deleted |-> 0, username |-> NoUser]
Blank == [op |-> "NONE", out |-> "nothing", hint |-> FALSE]

ClientInit ==
  /\ Init
  /\ cli = ClearedClient
  /\ creq = NoRequest
  /\ conn = FALSE
  /\ shown = Blank
  /\ adrift = FALSE
  /\ slips = 0

Prompt == conn /\ creq = NoRequest
Waiting == creq # NoRequest

-----------------------------------------------------------------------------
(* Commands.                                                               *)

Request(op, u, p) ==
  [op |-> op, user |-> u, pw |-> p, at |-> "server", st |-> "NONE", flags |-> <<0, 0>>]

Send(op, u, p) ==
  /\ Prompt
  /\ creq' = Request(op, u, p)
  /\ shown' = Blank
  /\ UNCHANGED <<vars, cli, conn, adrift, slips>>

\* getpub without a name asks for one's own key; changepw is the only command
\* the client itself refuses without a login.  (createkeys: within the bound.)
Command ==
  \/ \E u \in User, p \in Password : Send("AUTH", u, p)
  \/ \E p \in Password : cli.logged_in = 1 /\ Send("CHANGE_PASSWORD", NoUser, p)
  \/ \E u \in User \cup {NoUser} : Send("GET_PUBLIC_KEY", u, NoKey)
  \/ nkeys < MaxKeys /\ Send("CREATE_KEYS", NoUser, NoKey)
  \/ \E op \in {"SIGN_DOC", "DELETE_KEYS", "LOGOUT"} : Send(op, NoUser, NoKey)

Show(out, hint) == shown' = [op |-> creq.op, out |-> out, hint |-> hint]

\* print_command_failure
PrintFailure(st) ==
  IF st = "ERR_DELETED" THEN Show("tombstone", FALSE)
  ELSE Show("failed", st = "ERR_AUTH" /\ cli.must_change = 1)

\* Mutant: the flags of the login before stay.
LoginKeepsFlags(flags) == [cli EXCEPT !.logged_in = 1, !.username = creq.user]

LoggedInAs(flags) ==
  [logged_in |-> 1, must_change |-> flags[1], deleted |-> flags[2], username |-> creq.user]

PasswordChanged == [cli EXCEPT !.must_change = 0]
KeysDeleted == [cli EXCEPT !.deleted = 1]
LoggedOut == ClearedClient

AfterOk(op) ==
  CASE op = "AUTH" -> LoggedInAs(creq.flags)
    [] op = "CHANGE_PASSWORD" -> PasswordChanged
    [] op = "DELETE_KEYS" -> KeysDeleted
    [] op = "LOGOUT" -> LoggedOut
    [] OTHER -> cli

Receive ==
  /\ Waiting /\ creq.at = "client"
  /\ \/ /\ creq.st = "OK"
        /\ cli' = AfterOk(creq.op)
        /\ Show("ok", FALSE)
     \/ /\ creq.st # "OK"
        /\ UNCHANGED cli
        /\ IF creq.op = "AUTH" THEN Show("failed", FALSE) ELSE PrintFailure(creq.st)
  /\ adrift' = IF creq.op \in {"AUTH", "LOGOUT"} /\ creq.st = "OK" THEN FALSE ELSE adrift
  /\ creq' = NoRequest
  /\ UNCHANGED <<vars, conn, slips>>

\* A call fails with the response read: "request failed".
DropResponse ==
  /\ Waiting /\ creq.at = "client"
  /\ slips < MaxSlips
  /\ slips' = slips + 1
  /\ Show("request failed", FALSE)
  /\ creq' = NoRequest
  /\ adrift' = TRUE
  /\ UNCHANGED <<vars, cli, conn>>

\* Mutant: a command that meets the end of the connection waits on.
WaitOn == Waiting /\ creq.at = "lost" /\ UNCHANGED allVars

SeesEnd ==
  /\ Waiting /\ creq.at = "lost"
  /\ Show("request failed", FALSE)
  /\ creq' = NoRequest
  /\ UNCHANGED <<vars, cli, conn, adrift, slips>>

-----------------------------------------------------------------------------
(* The server's steps, for the request under way.                          *)

Begin ==
  \/ Refuse(creq.op)
  \/ creq.op = "AUTH" /\ AuthOk(creq.user, creq.pw)
  \/ creq.op = "AUTH" /\ AuthUnanswered(creq.user, creq.pw)
  \/ creq.op = "AUTH" /\ AuthBad(creq.user, creq.pw)
  \/ creq.op = "LOGOUT" /\ Logout
  \/ creq.op = "CHANGE_PASSWORD" /\ (ChangeBegin(creq.pw) \/ ChangeRefused)
  \/ creq.op = "CREATE_KEYS" /\ (CreateRefused \/ CreateKeep \/ CreateBegin)
  \/ creq.op = "CREATE_KEYS" /\ CreateFailed
  \/ creq.op = "DELETE_KEYS" /\ (DeleteTombstone \/ DeleteFailed)
  \/ creq.op = "SIGN_DOC" /\ (BadRequest("SIGN_DOC") \/ SignOk \/ SignFailed)
  \/ creq.op = "GET_PUBLIC_KEY" /\ creq.user # NoUser /\ GetPublicKey(creq.user)
  \/ creq.op = "GET_PUBLIC_KEY" /\ creq.user = NoUser /\ me # NoUser /\ GetPublicKey(me)

Continue ==
  \/ ChangeReencrypt \/ ChangeRecord \/ ChangeFailed
  \/ CreatePub \/ CreateOpen \/ CreateEnc \/ CreateFailed
  \/ DeletePub \/ DeleteEnc \/ DeleteFailed

\* Mutant: the response leaves before the handler has come to its end.
DeliverEarly ==
  creq' = [creq EXCEPT !.at = "client", !.st = reply'.st,
                       !.flags = <<sess'.must_change, sess'.deleted>>]

\* The response of AUTH carries the flags of the account.
Deliver ==
  creq' = IF pc' # "idle" THEN creq
          ELSE [creq EXCEPT !.at = "client", !.st = reply'.st,
                            !.flags = <<sess'.must_change, sess'.deleted>>]

\* A session changed under a response that says it did not.
Unsaid == creq.op = "AUTH" /\ reply'.st = "ERR_INTERNAL"

ServerStep ==
  /\ Waiting /\ creq.at = "server"
  /\ (pc = "idle" /\ Begin) \/ (MidRequest /\ Continue)
  /\ Deliver
  /\ adrift' = (adrift \/ Unsaid)
  /\ UNCHANGED <<cli, conn, shown, slips>>

\* The process ends, for whatever reason; a response not sent is lost.
ServerEnd ==
  /\ Exit \/ Crash
  /\ conn' = FALSE
  /\ IF Waiting
     THEN \E at \in {"lost"} \cup ({creq.at} \ {"server"}) : creq' = [creq EXCEPT !.at = at]
     ELSE UNCHANGED creq
  /\ UNCHANGED <<cli, shown, adrift, slips>>

\* A new server process, and the client process that connects to it.
Connect ==
  /\ ~Waiting
  /\ Boot
  /\ conn' = TRUE
  /\ cli' = ClearedClient /\ shown' = Blank /\ adrift' = FALSE
  /\ UNCHANGED <<creq, slips>>

RunTool == Tool /\ UNCHANGED cliVars

-----------------------------------------------------------------------------

ClientNext ==
  \/ Command \/ Receive \/ DropResponse \/ SeesEnd
  \/ ServerStep \/ ServerEnd \/ Connect \/ RunTool

ClientSpec == ClientInit /\ [][ClientNext]_allVars

\* A server goes on with what it has begun, and a client reads what has come.
FairClientSpec ==
  /\ ClientSpec
  /\ WF_allVars(ServerStep) /\ WF_allVars(Receive) /\ WF_allVars(SeesEnd)

ClientState ==
  [logged_in : Flag, must_change : Flag, deleted : Flag, username : User \cup {NoUser}]

\* The types of the client's variables; a response on its way has a status.
ClientTypeOK ==
  /\ cli \in ClientState
  /\ conn \in BOOLEAN /\ adrift \in BOOLEAN
  /\ slips \in 0 .. MaxSlips
  /\ shown.out \in {"nothing", "ok", "tombstone", "failed", "request failed"}
  /\ Waiting => creq.at \in {"server", "client", "lost"}
  /\ Waiting /\ creq.at = "client" => creq.st \in Status /\ creq.flags \in Flag \X Flag
  /\ conn => ~Down

Knows(c) ==
  /\ c.logged_in = sess.is_authenticated
  /\ c.username = me
  /\ c.must_change = sess.must_change
  /\ c.deleted <= sess.deleted

\* At the prompt the client knows its session: the same user, the same pending
\* password change, and no tombstone the session does not know of.  It loses
\* track only when a response is read and dropped, or AUTH answers an error for
\* a login that took place, and until the next login or logout.
ClientKnowsSession == Prompt /\ ~adrift => Knows(cli)

\* What the user is told is true of the session.  Once the client has said "keys
\* deleted", or logged in to a deleted account, signdoc is refused with the
\* tombstone message README.md:84 shows; "Hint: run 'changepw' first." goes to a
\* user who is logged in and whose password change is pending.
MessagesAreRight ==
  ~adrift =>
    /\ shown.op = "SIGN_DOC" /\ cli.deleted = 1 => shown.out \in {"tombstone", "request failed"}
    /\ shown.hint /\ Prompt => sess.is_authenticated = 1 /\ sess.must_change = 1

\* The strengthening that makes ClientTypeOK inductive: what a request carries, and
\* that the server works on the request that waits for it.
RequestInv ==
  /\ Waiting => creq \in Requests
  /\ Waiting /\ creq.op = "AUTH" => creq.user \in User /\ creq.pw \in Password
  /\ Waiting /\ creq.op = "CHANGE_PASSWORD" => creq.pw \in Password
  /\ Waiting /\ creq.at = "server" => conn
  /\ MidRequest =>
       /\ Waiting /\ creq.at = "server"
       /\ pc \in {"chg_enc", "chg_db"} => creq.op = "CHANGE_PASSWORD"
       /\ Creating => creq.op = "CREATE_KEYS"
       /\ Deleting => creq.op = "DELETE_KEYS"

\* A response that says what its request did to the session.
Telling == creq.op \in {"AUTH", "LOGOUT"} /\ creq.st = "OK"

\* The strengthening that makes ClientKnowsSession and MessagesAreRight inductive:
\* the client knows the session until the server answers, and then the answer
\* tells it what to know; one that ends a login tells it all.
AnswerInv ==
  /\ conn /\ ~adrift /\ ~(Waiting /\ creq.at = "client") => Knows(cli)
  /\ conn /\ Waiting /\ creq.at = "client" /\ (~adrift \/ Telling)
       => Knows(IF creq.st = "OK" THEN AfterOk(creq.op) ELSE cli)
  /\ ~adrift /\ Waiting /\ creq.at = "client" /\ creq.op = "SIGN_DOC" /\ cli.deleted = 1
       => creq.st = "ERR_DELETED"

\* Every command ends: the server finishes each request it begins and answers
\* it, or the connection is over.
CommandEnds == Waiting ~> ~Waiting

=============================================================================
