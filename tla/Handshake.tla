----------------------------- MODULE Handshake -----------------------------
(***************************************************************************)
(* The handshake of common/handshake.c as run_handshake (client/main.c)    *)
(* and server/main.c drive it, from the connection to the first requests.  *)
(* A server process listens, accepts one client and serves it; the others  *)
(* wait in its backlog and are reset when it ends.  Any call of either end *)
(* may fail, and either end may go, at any point.  Cryptography is         *)
(* symbolic: a key pair is an identity, a signature a record of the key    *)
(* and of what was signed, and a frame opens under the key that sealed it. *)
(***************************************************************************)
EXTENDS Integers, Sequences

CONSTANTS
  Client,    \* client processes
  KeyPair,   \* ephemeral key pairs
  PinKey,    \* server signing keys a client may have pinned
  SignKey,   \* the key in server/res/keys/server_private.pem
  NoPair,    \* no ephemeral key pair yet
  NoClient   \* the server has not accepted anyone

ASSUME KeyAssumption == SignKey \in PinKey /\ NoPair \notin KeyPair
ASSUME ClientAssumption == NoClient \notin Client

VARIABLES
  cpc,      \* each client: "off", "hello", "wait", "ready", "asked"
  cpub,     \* its ephemeral key pair
  cpeer,    \* the server's ephemeral public key it accepted
  pin,      \* the key in its client/res/server_public.pem
  spc,      \* server: "off", "accept", "chlo", "sign", "derive", "ready"
  peer,     \* the client it accepted
  spub,     \* its ephemeral key pair
  speer,    \* the client's ephemeral public key
  backlog,  \* connections not accepted yet
  up, down  \* frames under way from and to each client

clientVars == <<cpc, cpub, cpeer, pin>>
serverVars == <<spc, peer, spub, speer>>
vars == <<clientVars, serverVars, backlog, up, down>>

-----------------------------------------------------------------------------
(* Cryptography.                                                           *)

\* What is signed, and what the salt of the keys is the digest of.
Transcript(client_pub, server_pub) == <<client_pub, server_pub>>

\* hs_derive_keys after hs_compute_shared: the same secret at both ends, the
\* transcript as salt, and a label for each direction.
Key(label, client_pub, server_pub) ==
  [dh |-> {client_pub, server_pub}, salt |-> Transcript(client_pub, server_pub),
   label |-> label]

hs_sign_transcript(t) == [key |-> SignKey, over |-> t]

hs_verify_transcript(c, t, sig) == sig = [key |-> pin[c], over |-> t]

sc_aead_encrypt(key) == [type |-> "DATA", sealed |-> key]
sc_aead_decrypt(key, frame) == frame.type = "DATA" /\ frame.sealed = key

HS_CHLO(pub) == [type |-> "CHLO", pub |-> pub]
HS_SHLO(pub, sig) == [type |-> "SHLO", pub |-> pub, sig |-> sig]

\* Pairs that someone holds or that a frame under way names.
Named(queue) == {queue[i].pub : i \in {j \in DOMAIN queue : queue[j].type # "DATA"}}

InUse ==
  {cpub[c] : c \in Client} \cup {cpeer[c] : c \in Client} \cup {spub, speer}
    \cup UNION {Named(up[c]) \cup Named(down[c]) : c \in Client}

\* Bound: there is a pair left to generate.
PairLeft == \E k \in KeyPair : k \notin InUse

\* A generated pair is one that nobody has.
Generated == CHOOSE k \in KeyPair : k \notin InUse

-----------------------------------------------------------------------------

Init ==
  /\ cpc = [c \in Client |-> "off"]
  /\ cpub = [c \in Client |-> NoPair]
  /\ cpeer = [c \in Client |-> NoPair]
  /\ pin \in [Client -> PinKey]
  /\ spc = "off" /\ peer = NoClient /\ spub = NoPair /\ speer = NoPair
  /\ backlog = <<>>
  /\ up = [c \in Client |-> <<>>]
  /\ down = [c \in Client |-> <<>>]

\* The server still has an open connection with c.
Connected(c) == c = peer \/ \E i \in 1 .. Len(backlog) : backlog[i] = c

(* The client.                                                             *)

tcp_connect(c) ==
  /\ cpc[c] = "off" /\ ~Connected(c)
  /\ spc # "off"
  /\ backlog' = Append(backlog, c)
  /\ cpc' = [cpc EXCEPT ![c] = "hello"]
  /\ up' = [up EXCEPT ![c] = <<>>]
  /\ down' = [down EXCEPT ![c] = <<>>]
  /\ UNCHANGED <<cpub, cpeer, pin, serverVars>>

hs_send_chlo(c) ==
  /\ cpc[c] = "hello"
  /\ PairLeft
  /\ cpub' = [cpub EXCEPT ![c] = Generated]
  /\ up' = [up EXCEPT ![c] = IF Connected(c) THEN Append(@, HS_CHLO(Generated)) ELSE @]
  /\ cpc' = [cpc EXCEPT ![c] = "wait"]
  /\ UNCHANGED <<cpeer, pin, serverVars, backlog, down>>

\* The process exits and its socket closes.
ClientGone(c) ==
  /\ cpc' = [cpc EXCEPT ![c] = "off"]
  /\ cpub' = [cpub EXCEPT ![c] = NoPair]
  /\ cpeer' = [cpeer EXCEPT ![c] = NoPair]
  /\ down' = [down EXCEPT ![c] = <<>>]
  /\ UNCHANGED <<pin, serverVars, backlog, up>>

\* hs_recv_shlo, the signature over the transcript, the shared secret, the keys.
FinishHello(c) ==
  /\ cpc[c] = "wait"
  /\ down[c] # <<>>
  /\ LET shlo == Head(down[c]) IN
       IF /\ shlo.type = "SHLO"
          /\ hs_verify_transcript(c, <<cpub[c], shlo.pub>>, shlo.sig)
       THEN /\ cpc' = [cpc EXCEPT ![c] = "ready"]
            /\ cpeer' = [cpeer EXCEPT ![c] = shlo.pub]
            /\ down' = [down EXCEPT ![c] = Tail(@)]
            /\ UNCHANGED <<cpub, pin, serverVars, backlog, up>>
       ELSE ClientGone(c)

Ask(c) ==
  /\ cpc[c] = "ready"
  /\ up' = [up EXCEPT ![c] = IF Connected(c)
                             THEN Append(@, sc_aead_encrypt(Key("c2s", cpub[c], cpeer[c])))
                             ELSE @]
  /\ cpc' = [cpc EXCEPT ![c] = "asked"]
  /\ UNCHANGED <<cpub, cpeer, pin, serverVars, backlog, down>>

\* The answer opens, or the command fails and the user may give another.
Answered(c) ==
  /\ cpc[c] = "asked"
  /\ down[c] # <<>>
  /\ down' = [down EXCEPT ![c] = Tail(@)]
  /\ cpc' = [cpc EXCEPT ![c] = "ready"]
  /\ UNCHANGED <<cpub, cpeer, pin, serverVars, backlog, up>>

\* Mutant: a client that waits for the server's hello does not see the end.
SeesEndLate(c) ==
  /\ cpc[c] = "asked"
  /\ down[c] = <<>> /\ ~Connected(c)
  /\ ClientGone(c)

\* The server has closed the connection: the handshake has failed, and a user
\* whose request fails has nothing left to do but to quit.
SeesEnd(c) ==
  /\ cpc[c] \in {"wait", "asked"}
  /\ down[c] = <<>> /\ ~Connected(c)
  /\ ClientGone(c)

\* A call fails, or the user quits.
ClientLeaves(c) == cpc[c] # "off" /\ ClientGone(c)

-----------------------------------------------------------------------------
(* The server.                                                             *)

tcp_listen ==
  /\ spc = "off"
  /\ spc' = "accept"
  /\ UNCHANGED <<clientVars, peer, spub, speer, backlog, up, down>>

tcp_accept ==
  /\ spc = "accept"
  /\ backlog # <<>>
  /\ peer' = Head(backlog)
  /\ backlog' = Tail(backlog)
  /\ spc' = "chlo"
  /\ UNCHANGED <<clientVars, spub, speer, up, down>>

hs_recv_chlo ==
  /\ spc = "chlo"
  /\ up[peer] # <<>> /\ Head(up[peer]).type = "CHLO"
  /\ speer' = Head(up[peer]).pub
  /\ up' = [up EXCEPT ![peer] = Tail(@)]
  /\ spc' = "sign"
  /\ UNCHANGED <<clientVars, peer, spub, backlog, down>>

\* Frames for a client that is gone are lost.
ToPeer(f) == down' = [down EXCEPT ![peer] = IF cpc[peer] = "off" THEN @ ELSE Append(@, f)]

\* hs_gen_ecdh_keypair, hs_sign_transcript, hs_send_shlo.
hs_send_shlo ==
  /\ spc = "sign"
  /\ PairLeft
  /\ spub' = Generated
  /\ ToPeer(HS_SHLO(Generated, hs_sign_transcript(Transcript(speer, Generated))))
  /\ spc' = "derive"
  /\ UNCHANGED <<clientVars, peer, speer, backlog, up>>

\* hs_compute_shared, hs_derive_keys, replay_init.
DeriveKeys ==
  /\ spc = "derive"
  /\ spc' = "ready"
  /\ UNCHANGED <<clientVars, peer, spub, speer, backlog, up, down>>

\* Mutant: the accepted client is not forgotten.
ServerGoneKeepsPeer ==
  /\ spc' = "off" /\ spub' = NoPair /\ speer' = NoPair
  /\ backlog' = <<>>
  /\ up' = [c \in Client |-> <<>>]
  /\ UNCHANGED <<clientVars, down, peer>>

\* The process exits: its sockets close and the backlog is reset.
ServerGone ==
  /\ spc' = "off" /\ peer' = NoClient /\ spub' = NoPair /\ speer' = NoPair
  /\ backlog' = <<>>
  /\ up' = [c \in Client |-> <<>>]
  /\ UNCHANGED <<clientVars, down>>

\* Mutants: the directions are mixed up; one key is used for both.
key_in_swapped == Key("s2c", speer, spub)
key_out_shared == Key("c2s", speer, spub)

key_in == Key("c2s", speer, spub)

key_out == Key("s2c", speer, spub)

Serve ==
  /\ spc = "ready"
  /\ up[peer] # <<>>
  /\ IF sc_aead_decrypt(key_in, Head(up[peer]))
     THEN /\ up' = [up EXCEPT ![peer] = Tail(@)]
          /\ ToPeer(sc_aead_encrypt(key_out))
          /\ UNCHANGED <<clientVars, serverVars, backlog>>
     ELSE ServerGone

ServerSeesEnd ==
  /\ spc \in {"chlo", "ready"}
  /\ up[peer] = <<>> /\ cpc[peer] = "off"
  /\ ServerGone

\* A call fails, or a signal ends the process.
ServerFails == spc # "off" /\ ServerGone

-----------------------------------------------------------------------------

ClientNext(c) ==
  \/ tcp_connect(c) \/ hs_send_chlo(c) \/ FinishHello(c)
  \/ Ask(c) \/ Answered(c) \/ SeesEnd(c) \/ ClientLeaves(c)

ServerNext ==
  \/ tcp_listen \/ tcp_accept \/ hs_recv_chlo \/ hs_send_shlo \/ DeriveKeys
  \/ Serve \/ ServerSeesEnd \/ ServerFails

Next == ServerNext \/ \E c \in Client : ClientNext(c)

Spec == Init /\ [][Next]_vars

\* No user takes part in a handshake: each end goes on when it can.  Nobody has
\* to start a server or a client, give a command, or quit.
Fairness ==
  /\ \A c \in Client :
       WF_vars(hs_send_chlo(c)) /\ WF_vars(FinishHello(c))
       /\ WF_vars(Answered(c)) /\ WF_vars(SeesEnd(c))
  /\ WF_vars(tcp_accept) /\ WF_vars(hs_recv_chlo) /\ WF_vars(hs_send_shlo)
  /\ WF_vars(DeriveKeys) /\ WF_vars(Serve) /\ WF_vars(ServerSeesEnd)

FairSpec == Spec /\ Fairness

-----------------------------------------------------------------------------

Hello == [type : {"CHLO"}, pub : KeyPair]
Pair == KeyPair \cup {NoPair}
Sealed == [dh : SUBSET Pair, salt : Pair \X Pair, label : {"c2s", "s2c"}]
Signature == [key : PinKey, over : Pair \X Pair]
UpFrame == Hello \cup [type : {"DATA"}, sealed : Sealed]
DownFrame ==
  [type : {"SHLO"}, pub : KeyPair, sig : Signature] \cup [type : {"DATA"}, sealed : Sealed]

\* The types of every variable; a server that serves has accepted a client.
TypeOK ==
  /\ cpc \in [Client -> {"off", "hello", "wait", "ready", "asked"}]
  /\ cpub \in [Client -> Pair] /\ cpeer \in [Client -> Pair]
  /\ pin \in [Client -> PinKey]
  /\ spc \in {"off", "accept", "chlo", "sign", "derive", "ready"}
  /\ peer \in Client \cup {NoClient}
  /\ spc \in {"off", "accept"} <=> peer = NoClient
  /\ spub \in Pair /\ speer \in Pair
  /\ backlog \in Seq(Client)
  /\ \A i \in 1 .. Len(backlog) : backlog[i] # peer
  /\ up \in [Client -> Seq(UpFrame)]
  /\ down \in [Client -> Seq(DownFrame)]

InSession(c) == cpc[c] \in {"ready", "asked"}

\* Nobody finishes the handshake with a server whose key is not the pinned one,
\* and a client that finished it with the server that has its connection derived the two keys that server derives, or is about to: they agree on both
\* ephemeral keys, hence on the secret, the salt and each direction.
KeysAgree ==
  \A c \in Client : InSession(c) =>
    /\ pin[c] = SignKey
    /\ peer = c =>
         /\ spc \in {"derive", "ready"}
         /\ Key("c2s", cpub[c], cpeer[c]) = key_in
         /\ Key("s2c", cpub[c], cpeer[c]) = key_out

\* Every request under way opens at the server that gets it, also one sent before
\* the server derived its keys, and every answer opens at the client: a session
\* never ends on an authentication failure.
FramesOpen ==
  /\ spc \in {"derive", "ready"} =>
       \A i \in 1 .. Len(up[peer]) : sc_aead_decrypt(key_in, up[peer][i])
  /\ \A c \in Client : InSession(c) =>
       \A i \in 1 .. Len(down[c]) : sc_aead_decrypt(Key("s2c", cpub[c], cpeer[c]), down[c][i])

\* A client's handshake ends, with keys or with the connection, unless the server
\* is busy with someone else: it serves one client for as long as that one stays.
\* A server whose client has gone ends, wherever the handshake was.
NobodyStuck ==
  /\ \A c \in Client :
       cpc[c] \in {"hello", "wait"} ~>
         (cpc[c] \in {"off", "ready"} \/ peer \in Client \ {c})
  /\ (peer # NoClient /\ cpc[peer] = "off") ~> spc = "off"

=============================================================================
