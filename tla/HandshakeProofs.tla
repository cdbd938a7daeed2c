--------------------------- MODULE HandshakeProofs ---------------------------
(***************************************************************************)
(* For any clients, key pairs and signing keys: the types of Handshake,    *)
(* and that a client that is through with the handshake has the pinned     *)
(* server and the keys of the server that has its connection.              *)
(***************************************************************************)
EXTENDS Handshake, SeqFacts, TLAPS

-----------------------------------------------------------------------------
(* The invariant.                                                          *)

\* A connection is in the backlog once.
QueuedOnce ==
  \A i, j \in 1 .. Len(backlog) : backlog[i] = backlog[j] => i = j

\* A client whose connection waits has heard nothing and is through with nothing.
HeardNothing ==
  \A i \in 1 .. Len(backlog) : down[backlog[i]] = <<>> /\ ~InSession(backlog[i])

\* A server's hello is signed by the server's key; one for the client that is
\* being served is from this server, over both keys of this handshake.
SignedHello(c, f) ==
  f.type = "SHLO" =>
    /\ f.sig.key = SignKey
    /\ c = peer => spc \in {"derive", "ready"} /\ f.sig.over = <<speer, spub>>

HellosSigned == \A c \in Client : \A i \in 1 .. Len(down[c]) : SignedHello(c, down[c][i])

HelloInv == TypeOK /\ QueuedOnce /\ HeardNothing /\ HellosSigned /\ KeysAgree

-----------------------------------------------------------------------------
(* Types.                                                                  *)

LEMMA Sealing ==
  ASSUME NEW a \in Pair, NEW b \in Pair, NEW l \in {"c2s", "s2c"}
  PROVE  sc_aead_encrypt(Key(l, a, b)) \in [type : {"DATA"}, sealed : Sealed]
  <1>1. Key(l, a, b) \in Sealed
    BY DEF Key, Transcript, Sealed
  <1> QED
    BY <1>1 DEF sc_aead_encrypt

LEMMA Hellos ==
  ASSUME NEW k \in KeyPair, NEW t \in Pair \X Pair
  PROVE  /\ HS_CHLO(k) \in UpFrame
         /\ HS_SHLO(k, hs_sign_transcript(t)) \in DownFrame
  <1>1. hs_sign_transcript(t) \in Signature
    BY KeyAssumption DEF hs_sign_transcript, Signature
  <1> QED
    BY <1>1 DEF HS_CHLO, HS_SHLO, UpFrame, DownFrame, Hello

LEMMA HelloRead ==
  /\ \A f \in UpFrame : f.type = "CHLO" => f.pub \in KeyPair
  /\ \A f \in DownFrame : f.type = "SHLO" => f.pub \in KeyPair
  <1>1. ASSUME NEW f \in UpFrame, f.type = "CHLO" PROVE f.pub \in KeyPair
    <2>1. f \notin [type : {"DATA"}, sealed : Sealed]
      BY <1>1
    <2> QED
      BY <1>1, <2>1 DEF UpFrame, Hello
  <1>2. ASSUME NEW f \in DownFrame, f.type = "SHLO" PROVE f.pub \in KeyPair
    <2>1. f \notin [type : {"DATA"}, sealed : Sealed]
      BY <1>2
    <2> QED
      BY <1>2, <2>1 DEF DownFrame
  <1> QED
    BY <1>1, <1>2

LEMMA GeneratedIsPair == PairLeft => Generated \in KeyPair
  BY DEF PairLeft, Generated

\* A connection taken from the backlog is nowhere else in it.
LEMMA Accepting ==
  ASSUME backlog \in Seq(Client), backlog # <<>>, QueuedOnce
  PROVE  /\ Head(backlog) \in Client /\ Head(backlog) = backlog[1]
         /\ Tail(backlog) \in Seq(Client)
         /\ \A i \in 1 .. Len(Tail(backlog)) :
              /\ i + 1 \in 1 .. Len(backlog) /\ Tail(backlog)[i] = backlog[i + 1]
              /\ Tail(backlog)[i] # Head(backlog)
         /\ \A i, j \in 1 .. Len(Tail(backlog)) : Tail(backlog)[i] = Tail(backlog)[j] => i = j
  <1>1. /\ Head(backlog) \in Client /\ Head(backlog) = backlog[1] /\ Len(backlog) > 0
        /\ Tail(backlog) \in Seq(Client)
        /\ Len(Tail(backlog)) = Len(backlog) - 1
        /\ \A i \in 1 .. Len(backlog) - 1 : Tail(backlog)[i] = backlog[i + 1]
    BY TailFacts
  <1>2. ASSUME NEW i \in 1 .. Len(Tail(backlog))
        PROVE  i + 1 \in 1 .. Len(backlog) /\ Tail(backlog)[i] = backlog[i + 1]
    BY <1>1
  <1>3. ASSUME NEW i \in 1 .. Len(Tail(backlog)) PROVE Tail(backlog)[i] # Head(backlog)
    <2>1. 1 \in 1 .. Len(backlog) /\ i + 1 # 1
      BY <1>1
    <2> QED
      BY <1>1, <1>2, <2>1 DEF QueuedOnce
  <1>4. ASSUME NEW i \in 1 .. Len(Tail(backlog)), NEW j \in 1 .. Len(Tail(backlog)),
               Tail(backlog)[i] = Tail(backlog)[j]
        PROVE  i = j
    <2>1. i + 1 = j + 1
      BY <1>2, <1>4 DEF QueuedOnce
    <2> QED
      BY <2>1
  <1> QED
    BY <1>1, <1>2, <1>3, <1>4

Queues == TypeOK /\ QueuedOnce

LEMMA QueuesStart == Init => Queues
  BY EmptyFacts, ClientAssumption DEF Init, Queues, TypeOK, QueuedOnce, Pair

LEMMA ClientKeeps ==
  ASSUME Queues, NEW c \in Client, ClientNext(c)
  PROVE  Queues'
  <1> USE DEF Queues, TypeOK, QueuedOnce
  <1>1. CASE tcp_connect(c)
    <2>1. /\ backlog' \in Seq(Client) /\ Len(backlog') = Len(backlog) + 1
          /\ \A i \in 1 .. Len(backlog) : backlog'[i] = backlog[i]
          /\ backlog'[Len(backlog) + 1] = c
      BY <1>1, AppendFacts DEF tcp_connect
    <2>2. c # peer /\ \A i \in 1 .. Len(backlog) : backlog[i] # c
      BY <1>1 DEF tcp_connect, Connected
    <2>3. \A i \in 1 .. Len(backlog') : i \in 1 .. Len(backlog) \/ i = Len(backlog) + 1
      BY <2>1
    <2>4. \A i \in 1 .. Len(backlog') : backlog'[i] # peer'
      BY <1>1, <2>1, <2>2, <2>3 DEF tcp_connect, serverVars
    <2>5. \A i, j \in 1 .. Len(backlog') : backlog'[i] = backlog'[j] => i = j
      BY <2>1, <2>2, <2>3
    <2>6. up' \in [Client -> Seq(UpFrame)] /\ down' \in [Client -> Seq(DownFrame)]
      BY <1>1, EmptyFacts DEF tcp_connect
    <2>7. cpc' \in [Client -> {"off", "hello", "wait", "ready", "asked"}]
      BY <1>1 DEF tcp_connect
    <2> QED
      BY <1>1, <2>1, <2>4, <2>5, <2>6, <2>7 DEF tcp_connect, serverVars
  <1>2. CASE hs_send_chlo(c)
    <2>1. Generated \in KeyPair
      BY <1>2, GeneratedIsPair DEF hs_send_chlo
    <2>2. <<Generated, Generated>> \in Pair \X Pair
      BY <2>1 DEF Pair
    <2>3. Append(up[c], HS_CHLO(Generated)) \in Seq(UpFrame)
      BY <2>1, <2>2, Hellos, AppendFacts
    <2>4. up' \in [Client -> Seq(UpFrame)]
      BY <1>2, <2>3 DEF hs_send_chlo
    <2>5. cpub' \in [Client -> Pair]
      BY <1>2, <2>1 DEF hs_send_chlo, Pair
    <2>6. cpc' \in [Client -> {"off", "hello", "wait", "ready", "asked"}]
      BY <1>2 DEF hs_send_chlo
    <2> QED
      BY <1>2, <2>4, <2>5, <2>6 DEF hs_send_chlo, serverVars
  <1>3. ASSUME ClientGone(c) PROVE Queues'
    <2>1. /\ cpc' \in [Client -> {"off", "hello", "wait", "ready", "asked"}]
          /\ cpub' \in [Client -> Pair] /\ cpeer' \in [Client -> Pair]
      BY <1>3 DEF ClientGone, Pair
    <2>2. down' \in [Client -> Seq(DownFrame)]
      BY <1>3, EmptyFacts DEF ClientGone
    <2> QED
      BY <1>3, <2>1, <2>2 DEF ClientGone, serverVars
  <1>4. CASE FinishHello(c)
    <2>1. CASE ClientGone(c)
      BY <1>3, <2>1
    <2>2. CASE ~ClientGone(c)
      <3>1. down[c] # <<>> /\ down[c] \in Seq(DownFrame)
        BY <1>4 DEF FinishHello
      <3>2. Head(down[c]) \in DownFrame /\ Tail(down[c]) \in Seq(DownFrame)
        BY <3>1, TailFacts
      <3>3. Head(down[c]).pub \in KeyPair
        BY <1>4, <2>2, <3>2, HelloRead DEF FinishHello
      <3>4. cpeer' \in [Client -> Pair]
        BY <1>4, <2>2, <3>3 DEF FinishHello, Pair
      <3>5. down' \in [Client -> Seq(DownFrame)]
        BY <1>4, <2>2, <3>2 DEF FinishHello
      <3>6. cpc' \in [Client -> {"off", "hello", "wait", "ready", "asked"}]
        BY <1>4, <2>2 DEF FinishHello
      <3>7. UNCHANGED <<cpub, pin, serverVars, backlog, up>>
        BY <1>4, <2>2 DEF FinishHello
      <3> QED
        BY <3>4, <3>5, <3>6, <3>7 DEF serverVars
    <2> QED
      BY <2>1, <2>2
  <1>5. CASE Ask(c)
    <2>1. sc_aead_encrypt(Key("c2s", cpub[c], cpeer[c])) \in UpFrame
      BY Sealing DEF UpFrame
    <2>2. Append(up[c], sc_aead_encrypt(Key("c2s", cpub[c], cpeer[c]))) \in Seq(UpFrame)
      BY <2>1, AppendFacts
    <2>3. up' \in [Client -> Seq(UpFrame)]
      BY <1>5, <2>2 DEF Ask
    <2>4. cpc' \in [Client -> {"off", "hello", "wait", "ready", "asked"}]
      BY <1>5 DEF Ask
    <2> QED
      BY <1>5, <2>3, <2>4 DEF Ask, serverVars
  <1>6. CASE Answered(c)
    <2>1. Tail(down[c]) \in Seq(DownFrame)
      BY <1>6, TailFacts DEF Answered
    <2>2. down' \in [Client -> Seq(DownFrame)]
      BY <1>6, <2>1 DEF Answered
    <2>3. cpc' \in [Client -> {"off", "hello", "wait", "ready", "asked"}]
      BY <1>6 DEF Answered
    <2> QED
      BY <1>6, <2>2, <2>3 DEF Answered, serverVars
  <1>7. CASE SeesEnd(c)
    BY <1>3, <1>7 DEF SeesEnd
  <1>8. CASE ClientLeaves(c)
    BY <1>3, <1>8 DEF ClientLeaves
  <1> QED
    BY <1>1, <1>2, <1>4, <1>5, <1>6, <1>7, <1>8 DEF ClientNext

LEMMA ServerGoneKeeps ==
  ASSUME Queues, ServerGone
  PROVE  Queues'
  <1> USE DEF Queues, TypeOK, QueuedOnce
  <1>1. /\ backlog' = <<>> /\ backlog' \in Seq(Client) /\ Len(backlog') = 0
        /\ up' \in [Client -> Seq(UpFrame)]
    BY EmptyFacts DEF ServerGone
  <1> QED
    BY <1>1 DEF ServerGone, clientVars, Pair

\* A frame put in the queue of the client that is served.
LEMMA ToPeerTyped ==
  ASSUME Queues, peer \in Client, NEW f \in DownFrame, ToPeer(f)
  PROVE  down' \in [Client -> Seq(DownFrame)]
  <1>1. down[peer] \in Seq(DownFrame) /\ Append(down[peer], f) \in Seq(DownFrame)
    BY AppendFacts DEF Queues, TypeOK
  <1> QED
    BY <1>1 DEF ToPeer, Queues, TypeOK

LEMMA ServerKeeps ==
  ASSUME Queues, ServerNext
  PROVE  Queues'
  <1> USE DEF Queues, TypeOK, QueuedOnce
  <1>1. CASE tcp_listen
    BY <1>1 DEF tcp_listen, clientVars
  <1>2. CASE tcp_accept
    <2>1. backlog # <<>>
      BY <1>2 DEF tcp_accept
    <2>2. /\ Head(backlog) \in Client
          /\ Tail(backlog) \in Seq(Client)
          /\ \A i \in 1 .. Len(Tail(backlog)) : Tail(backlog)[i] # Head(backlog)
          /\ \A i, j \in 1 .. Len(Tail(backlog)) : Tail(backlog)[i] = Tail(backlog)[j] => i = j
      BY <2>1, Accepting
    <2> HIDE DEF QueuedOnce
    <2>3. QueuedOnce'
      BY <1>2, <2>2 DEF tcp_accept, QueuedOnce
    <2>4. peer' \in Client /\ peer' # NoClient
      BY <1>2, <2>2, ClientAssumption DEF tcp_accept
    <2> QED
      BY <1>2, <2>2, <2>3, <2>4 DEF tcp_accept, clientVars
  <1>3. CASE hs_recv_chlo
    <2>1. peer \in Client /\ up[peer] \in Seq(UpFrame) /\ up[peer] # <<>>
      BY <1>3 DEF hs_recv_chlo
    <2>2. Head(up[peer]) \in UpFrame /\ Tail(up[peer]) \in Seq(UpFrame)
      BY <2>1, TailFacts
    <2>3. Head(up[peer]).pub \in KeyPair
      BY <1>3, <2>2, HelloRead DEF hs_recv_chlo
    <2>4. up' \in [Client -> Seq(UpFrame)] /\ speer' \in Pair
      BY <1>3, <2>2, <2>3 DEF hs_recv_chlo, Pair
    <2> QED
      BY <1>3, <2>1, <2>4 DEF hs_recv_chlo, clientVars
  <1>4. CASE hs_send_shlo
    <2>1. Generated \in KeyPair /\ peer \in Client
      BY <1>4, GeneratedIsPair DEF hs_send_shlo
    <2>2. Transcript(speer, Generated) \in Pair \X Pair
      BY <2>1 DEF Transcript, Pair
    <2>3. HS_SHLO(Generated, hs_sign_transcript(Transcript(speer, Generated))) \in DownFrame
      BY <2>1, <2>2, Hellos
    <2>4. down' \in [Client -> Seq(DownFrame)]
      BY <1>4, <2>1, <2>3, ToPeerTyped DEF hs_send_shlo
    <2>5. spub' \in Pair
      BY <1>4, <2>1 DEF hs_send_shlo, Pair
    <2> QED
      BY <1>4, <2>1, <2>4, <2>5 DEF hs_send_shlo, clientVars
  <1>5. CASE DeriveKeys
    BY <1>5 DEF DeriveKeys, clientVars
  <1>6. CASE Serve
    <2>1. CASE ServerGone
      BY <2>1, ServerGoneKeeps
    <2>2. CASE ~ServerGone
      <3>1. peer \in Client /\ up[peer] \in Seq(UpFrame) /\ up[peer] # <<>>
        BY <1>6 DEF Serve
      <3>2. Tail(up[peer]) \in Seq(UpFrame)
        BY <3>1, TailFacts
      <3>3. up' \in [Client -> Seq(UpFrame)]
        BY <1>6, <2>2, <3>2 DEF Serve
      <3>4. sc_aead_encrypt(key_out) \in DownFrame
        BY Sealing DEF key_out, DownFrame
      <3>5. ToPeer(sc_aead_encrypt(key_out)) /\ UNCHANGED <<clientVars, serverVars, backlog>>
        BY <1>6, <2>2 DEF Serve
      <3>6. down' \in [Client -> Seq(DownFrame)]
        BY <3>1, <3>4, <3>5, ToPeerTyped
      <3> QED
        BY <3>3, <3>5, <3>6 DEF clientVars, serverVars
    <2> QED
      BY <2>1, <2>2
  <1>7. CASE ServerSeesEnd
    BY <1>7, ServerGoneKeeps DEF ServerSeesEnd
  <1>8. CASE ServerFails
    BY <1>8, ServerGoneKeeps DEF ServerFails
  <1> QED
    BY <1>1, <1>2, <1>3, <1>4, <1>5, <1>6, <1>7, <1>8 DEF ServerNext

LEMMA QueuesKept == Queues /\ [Next]_vars => Queues'
  <1> SUFFICES ASSUME Queues, [Next]_vars PROVE Queues'
    OBVIOUS
  <1>1. CASE ServerNext
    BY <1>1, ServerKeeps
  <1>2. ASSUME NEW c \in Client, ClientNext(c) PROVE Queues'
    BY <1>2, ClientKeeps
  <1>3. CASE UNCHANGED vars
    BY <1>3 DEF vars, clientVars, serverVars, Queues, TypeOK, QueuedOnce
  <1> QED
    BY <1>1, <1>2, <1>3 DEF Next

\* In every reachable state every variable of the handshake has its type, and the
\* server has a client exactly when it has accepted one: reading its frames is
\* always defined (hs_recv_chlo, and the loop of server/main.c).
THEOREM HandshakeTypes == Spec => []TypeOK
  <1>1. Spec => []Queues
    BY QueuesStart, QueuesKept, PTL DEF Spec
  <1>2. Queues => TypeOK
    BY DEF Queues
  <1> QED
    BY <1>1, <1>2, PTL

-----------------------------------------------------------------------------
(* Agreement.                                                              *)

Agreed == HeardNothing /\ HellosSigned /\ KeysAgree

\* Nothing another client holds is looked at when one client's own state changes.
LEMMA OthersAgree ==
  ASSUME HelloInv, NEW c \in Client, NEW d \in Client \ {c},
         UNCHANGED <<pin, serverVars>>,
         cpc'[d] = cpc[d], cpub'[d] = cpub[d], cpeer'[d] = cpeer[d], down'[d] = down[d]
  PROVE  /\ InSession(d)' <=> InSession(d)
         /\ \A i \in 1 .. Len(down'[d]) : SignedHello(d, down[d][i])'
         /\ InSession(d)' =>
              /\ pin'[d] = SignKey
              /\ peer' = d =>
                   /\ spc' \in {"derive", "ready"}
                   /\ Key("c2s", cpub'[d], cpeer'[d]) = key_in'
                   /\ Key("s2c", cpub'[d], cpeer'[d]) = key_out'
  <1>1. InSession(d)' <=> InSession(d)
    BY DEF InSession
  <1>2. \A i \in 1 .. Len(down'[d]) : SignedHello(d, down[d][i])'
    BY DEF HelloInv, HellosSigned, SignedHello, serverVars
  <1>3. key_in' = key_in /\ key_out' = key_out
    BY DEF key_in, key_out, Key, Transcript, serverVars
  <1>4. spc' = spc /\ peer' = peer /\ pin' = pin
    BY DEF serverVars
  <1> QED
    BY <1>1, <1>2, <1>3, <1>4 DEF HelloInv, KeysAgree

\* What a step of one client has to show: its own part of the invariant.
LEMMA OneClient ==
  ASSUME HelloInv, NEW c \in Client, UNCHANGED <<pin, serverVars>>,
         \A d \in Client \ {c} : /\ cpc'[d] = cpc[d] /\ cpub'[d] = cpub[d]
                                 /\ cpeer'[d] = cpeer[d] /\ down'[d] = down[d],
         \A i \in 1 .. Len(down'[c]) : SignedHello(c, down[c][i])',
         InSession(c)' =>
           /\ pin'[c] = SignKey
           /\ peer' = c =>
                /\ spc' \in {"derive", "ready"}
                /\ Key("c2s", cpub'[c], cpeer'[c]) = key_in'
                /\ Key("s2c", cpub'[c], cpeer'[c]) = key_out'
  PROVE  HellosSigned' /\ KeysAgree'
  <1>1. HellosSigned'
    <2> SUFFICES ASSUME NEW d \in Client
                 PROVE  \A i \in 1 .. Len(down'[d]) : SignedHello(d, down[d][i])'
      BY DEF HellosSigned
    <2> QED
      BY OthersAgree
  <1>2. KeysAgree'
    <2> SUFFICES ASSUME NEW d \in Client, InSession(d)'
                 PROVE  /\ pin'[d] = SignKey
                        /\ peer' = d =>
                             /\ spc' \in {"derive", "ready"}
                             /\ Key("c2s", cpub'[d], cpeer'[d]) = key_in'
                             /\ Key("s2c", cpub'[d], cpeer'[d]) = key_out'
      BY DEF KeysAgree
    <2> QED
      BY OthersAgree
  <1> QED
    BY <1>1, <1>2

LEMMA ClientGoneAgrees ==
  ASSUME HelloInv, NEW c \in Client, ClientGone(c)
  PROVE  Agreed'
  <1> USE DEF HelloInv, TypeOK
  <1>1. UNCHANGED <<pin, serverVars, backlog>>
    BY DEF ClientGone
  <1>2. \A d \in Client \ {c} : /\ cpc'[d] = cpc[d] /\ cpub'[d] = cpub[d]
                                /\ cpeer'[d] = cpeer[d] /\ down'[d] = down[d]
    BY DEF ClientGone
  <1>3. down'[c] = <<>> /\ cpc'[c] = "off"
    BY DEF ClientGone
  <1>4. Len(down'[c]) = 0 /\ ~InSession(c)'
    BY <1>3 DEF InSession
  <1>5. HellosSigned' /\ KeysAgree'
    <2> HIDE DEF HelloInv, TypeOK
    <2>1. \A i \in 1 .. Len(down'[c]) : SignedHello(c, down[c][i])'
      BY <1>4
    <2> QED
      BY <1>1, <1>2, <1>4, <2>1, OneClient
  <1>6. HeardNothing'
    BY <1>1, <1>2, <1>3 DEF HeardNothing, InSession
  <1> QED
    BY <1>5, <1>6 DEF Agreed

LEMMA FinishAgrees ==
  ASSUME HelloInv, NEW c \in Client, FinishHello(c)
  PROVE  Agreed'
  <1>1. CASE ClientGone(c)
    BY <1>1, ClientGoneAgrees
  <1>2. CASE ~ClientGone(c)
    <2> DEFINE shlo == Head(down[c])
    <2>1. /\ down[c] # <<>> /\ down[c] \in Seq(DownFrame)
          /\ shlo.type = "SHLO"
          /\ shlo.sig = [key |-> pin[c], over |-> <<cpub[c], shlo.pub>>]
      BY <1>2 DEF FinishHello, hs_verify_transcript, HelloInv, TypeOK
    <2>2. /\ shlo = down[c][1] /\ Len(down[c]) > 0 /\ Len(Tail(down[c])) = Len(down[c]) - 1
          /\ \A i \in 1 .. Len(down[c]) - 1 : Tail(down[c])[i] = down[c][i + 1]
      BY <2>1, TailFacts
    <2>3. /\ UNCHANGED <<pin, serverVars, backlog>>
          /\ down'[c] = Tail(down[c]) /\ cpub'[c] = cpub[c] /\ cpeer'[c] = shlo.pub
          /\ cpc'[c] = "ready"
          /\ \A d \in Client \ {c} : /\ cpc'[d] = cpc[d] /\ cpub'[d] = cpub[d]
                                     /\ cpeer'[d] = cpeer[d] /\ down'[d] = down[d]
      BY <1>2 DEF FinishHello, HelloInv, TypeOK
    <2>4. SignedHello(c, shlo)
      <3>1. 1 \in 1 .. Len(down[c])
        BY <2>1, <2>2
      <3> QED
        BY <2>2, <3>1 DEF HelloInv, HellosSigned
    <2>5. pin[c] = SignKey
      BY <2>1, <2>4 DEF SignedHello
    <2>6. c = peer => /\ spc \in {"derive", "ready"}
                      /\ cpub[c] = speer /\ shlo.pub = spub
      BY <2>1, <2>4 DEF SignedHello
    <2>7. \A i \in 1 .. Len(down'[c]) : SignedHello(c, down[c][i])'
      <3>1. ASSUME NEW i \in 1 .. Len(down'[c]) PROVE SignedHello(c, down[c][i])'
        <4>1. i + 1 \in 1 .. Len(down[c]) /\ down'[c][i] = down[c][i + 1]
          BY <2>1, <2>2, <2>3
        <4>2. SignedHello(c, down[c][i + 1])
          BY <4>1 DEF HelloInv, HellosSigned
        <4> QED
          BY <2>3, <4>1, <4>2 DEF SignedHello, serverVars
      <3> QED
        BY <3>1
    <2>8. /\ pin'[c] = SignKey
          /\ peer' = c =>
               /\ spc' \in {"derive", "ready"}
               /\ Key("c2s", cpub'[c], cpeer'[c]) = key_in'
               /\ Key("s2c", cpub'[c], cpeer'[c]) = key_out'
      BY <2>3, <2>5, <2>6 DEF key_in, key_out, serverVars
    <2> HIDE DEF shlo
    <2>9. HellosSigned' /\ KeysAgree'
      BY <2>3, <2>7, <2>8, OneClient
    <2>10. \A i \in 1 .. Len(backlog) : backlog[i] # c
      BY <2>1 DEF HelloInv, HeardNothing
    <2>11. HeardNothing'
      BY <2>3, <2>10 DEF HelloInv, HeardNothing, InSession, TypeOK
    <2> QED
      BY <2>9, <2>11 DEF Agreed
  <1> QED
    BY <1>1, <1>2

LEMMA ClientAgrees ==
  ASSUME HelloInv, NEW c \in Client, ClientNext(c)
  PROVE  Agreed'
  <1>1. CASE tcp_connect(c)
    <2>1. /\ UNCHANGED <<pin, serverVars>>
          /\ down'[c] = <<>> /\ Len(down'[c]) = 0 /\ cpc'[c] = "hello"
          /\ \A d \in Client \ {c} : /\ cpc'[d] = cpc[d] /\ cpub'[d] = cpub[d]
                                     /\ cpeer'[d] = cpeer[d] /\ down'[d] = down[d]
      BY <1>1 DEF tcp_connect, HelloInv, TypeOK
    <2>2. ~InSession(c)'
      BY <2>1 DEF InSession
    <2>3. \A i \in 1 .. Len(down'[c]) : SignedHello(c, down[c][i])'
      BY <2>1
    <2>4. HellosSigned' /\ KeysAgree'
      BY <2>1, <2>2, <2>3, OneClient
    <2>5. /\ backlog \in Seq(Client) /\ Len(backlog') = Len(backlog) + 1
          /\ \A i \in 1 .. Len(backlog) : backlog'[i] = backlog[i]
          /\ backlog'[Len(backlog) + 1] = c
      BY <1>1, AppendFacts DEF tcp_connect, HelloInv, TypeOK
    <2>6. \A i \in 1 .. Len(backlog) : backlog[i] # c
      BY <1>1 DEF tcp_connect, Connected
    <2>7. ASSUME NEW i \in 1 .. Len(backlog')
          PROVE  down'[backlog'[i]] = <<>> /\ ~(cpc'[backlog'[i]] \in {"ready", "asked"})
      <3>1. CASE i = Len(backlog) + 1
        BY <2>1, <2>5, <3>1
      <3>2. CASE i \in 1 .. Len(backlog)
        <4>1. backlog[i] \in Client \ {c} /\ backlog'[i] = backlog[i]
          BY <2>5, <2>6, <3>2
        <4>2. down[backlog[i]] = <<>> /\ ~(cpc[backlog[i]] \in {"ready", "asked"})
          BY <3>2 DEF HelloInv, HeardNothing, InSession
        <4> QED
          BY <2>1, <4>1, <4>2
      <3> QED
        BY <2>5, <3>1, <3>2
    <2>8. HeardNothing'
      BY <2>7 DEF HeardNothing, InSession
    <2> QED
      BY <2>4, <2>8 DEF Agreed
  <1>2. CASE hs_send_chlo(c)
    <2>1. /\ UNCHANGED <<pin, serverVars, backlog, down>>
          /\ cpc[c] = "hello" /\ cpc'[c] = "wait"
          /\ \A d \in Client \ {c} : /\ cpc'[d] = cpc[d] /\ cpub'[d] = cpub[d]
                                     /\ cpeer'[d] = cpeer[d] /\ down'[d] = down[d]
      BY <1>2 DEF hs_send_chlo, HelloInv, TypeOK
    <2>2. ~InSession(c)'
      BY <2>1 DEF InSession
    <2>3. \A i \in 1 .. Len(down'[c]) : SignedHello(c, down[c][i])'
      BY <2>1 DEF HelloInv, HellosSigned, SignedHello, serverVars
    <2>4. HellosSigned' /\ KeysAgree'
      BY <2>1, <2>2, <2>3, OneClient
    <2>5. HeardNothing'
      BY <2>1, <2>2 DEF HelloInv, TypeOK, HeardNothing, InSession
    <2> QED
      BY <2>4, <2>5 DEF Agreed
  <1>3. CASE FinishHello(c)
    BY <1>3, FinishAgrees
  <1>4. CASE Ask(c)
    <2>1. /\ UNCHANGED <<cpub, cpeer, pin, serverVars, backlog, down>>
          /\ cpc[c] = "ready" /\ cpc'[c] = "asked"
          /\ \A d \in Client \ {c} : cpc'[d] = cpc[d]
      BY <1>4 DEF Ask, HelloInv, TypeOK
    <2>2. \A d \in Client : InSession(d)' <=> InSession(d)
      BY <2>1 DEF InSession
    <2>3. \A i \in 1 .. Len(down'[c]) : SignedHello(c, down[c][i])'
      BY <2>1 DEF HelloInv, HellosSigned, SignedHello, serverVars
    <2>4. KeysAgree'
      BY <2>1, <2>2 DEF HelloInv, KeysAgree, key_in, key_out, serverVars
    <2>5. HellosSigned'
      BY <2>1 DEF HelloInv, HellosSigned, SignedHello, serverVars
    <2>6. HeardNothing'
      BY <2>1, <2>2 DEF HelloInv, TypeOK, HeardNothing, InSession
    <2> QED
      BY <2>4, <2>5, <2>6 DEF Agreed
  <1>5. CASE Answered(c)
    <2>1. /\ UNCHANGED <<pin, serverVars, backlog>>
          /\ down[c] # <<>> /\ down[c] \in Seq(DownFrame)
          /\ down'[c] = Tail(down[c])
          /\ cpub'[c] = cpub[c] /\ cpeer'[c] = cpeer[c]
          /\ cpc[c] = "asked" /\ cpc'[c] = "ready"
          /\ \A d \in Client \ {c} : /\ cpc'[d] = cpc[d] /\ cpub'[d] = cpub[d]
                                     /\ cpeer'[d] = cpeer[d] /\ down'[d] = down[d]
      BY <1>5 DEF Answered, HelloInv, TypeOK
    <2>2. /\ Len(down[c]) > 0 /\ Len(down'[c]) = Len(down[c]) - 1
          /\ \A i \in 1 .. Len(down[c]) - 1 : down'[c][i] = down[c][i + 1]
      BY <2>1, TailFacts
    <2>3. ASSUME NEW i \in 1 .. Len(down'[c]) PROVE SignedHello(c, down[c][i])'
      <3>1. i + 1 \in 1 .. Len(down[c]) /\ down'[c][i] = down[c][i + 1]
        BY <2>1, <2>2
      <3>2. SignedHello(c, down[c][i + 1])
        BY <3>1 DEF HelloInv, HellosSigned
      <3> QED
        BY <2>1, <3>1, <3>2 DEF SignedHello, serverVars
    <2>4. /\ pin'[c] = SignKey
          /\ peer' = c =>
               /\ spc' \in {"derive", "ready"}
               /\ Key("c2s", cpub'[c], cpeer'[c]) = key_in'
               /\ Key("s2c", cpub'[c], cpeer'[c]) = key_out'
      BY <2>1 DEF HelloInv, KeysAgree, InSession, key_in, key_out, serverVars
    <2>5. HellosSigned' /\ KeysAgree'
      BY <2>1, <2>3, <2>4, OneClient
    <2>6. \A i \in 1 .. Len(backlog) : backlog[i] # c
      BY <2>1 DEF HelloInv, HeardNothing
    <2>7. HeardNothing'
      BY <2>1, <2>6 DEF HelloInv, HeardNothing, InSession, TypeOK
    <2> QED
      BY <2>5, <2>7 DEF Agreed
  <1>6. CASE SeesEnd(c)
    BY <1>6, ClientGoneAgrees DEF SeesEnd
  <1>7. CASE ClientLeaves(c)
    BY <1>7, ClientGoneAgrees DEF ClientLeaves
  <1> QED
    BY <1>1, <1>2, <1>3, <1>4, <1>5, <1>6, <1>7 DEF ClientNext

LEMMA ServerGoneAgrees ==
  ASSUME HelloInv, ServerGone
  PROVE  Agreed'
  <1>1. /\ peer' = NoClient /\ backlog' = <<>> /\ Len(backlog') = 0
        /\ UNCHANGED <<cpc, cpub, cpeer, pin, down>>
    BY DEF ServerGone, clientVars
  <1>2. \A c \in Client : c # peer'
    BY <1>1, ClientAssumption
  <1>3. HellosSigned'
    BY <1>1, <1>2 DEF HelloInv, HellosSigned, SignedHello
  <1>4. KeysAgree'
    BY <1>1, <1>2 DEF HelloInv, KeysAgree, InSession
  <1>5. HeardNothing'
    BY <1>1 DEF HeardNothing
  <1> QED
    BY <1>3, <1>4, <1>5 DEF Agreed

\* Until the server has said hello, nothing signed is under way to its client,
\* and its client is through with nothing.
LEMMA PeerWaits ==
  ASSUME HelloInv, peer \in Client, spc \notin {"derive", "ready"}
  PROVE  /\ \A i \in 1 .. Len(down[peer]) : down[peer][i].type # "SHLO"
         /\ ~InSession(peer)
  BY DEF HelloInv, HellosSigned, SignedHello, KeysAgree

\* One more frame for the client that is served: everything else is as before.
LEMMA ToPeerAdds ==
  ASSUME HelloInv, peer \in Client, NEW f \in DownFrame, ToPeer(f)
  PROVE  /\ \A c \in Client \ {peer} : down'[c] = down[c]
         /\ \A i \in 1 .. Len(down'[peer]) :
              \/ down'[peer][i] = f
              \/ i \in 1 .. Len(down[peer]) /\ down'[peer][i] = down[peer][i]
         /\ UNCHANGED <<cpc, backlog>> => HeardNothing'
  <1>1. down[peer] \in Seq(DownFrame) /\ down \in [Client -> Seq(DownFrame)]
    BY DEF HelloInv, TypeOK
  <1>2. /\ \A c \in Client \ {peer} : down'[c] = down[c]
        /\ down'[peer] = down[peer] \/ down'[peer] = Append(down[peer], f)
    BY <1>1 DEF ToPeer
  <1>3. ASSUME NEW i \in 1 .. Len(down'[peer])
        PROVE  \/ down'[peer][i] = f
               \/ i \in 1 .. Len(down[peer]) /\ down'[peer][i] = down[peer][i]
    <2>1. CASE down'[peer] = down[peer]
      BY <2>1
    <2>2. CASE down'[peer] = Append(down[peer], f)
      BY <1>1, <2>2, AppendFacts
    <2> QED
      BY <1>2, <2>1, <2>2
  <1>4. ASSUME UNCHANGED <<cpc, backlog>> PROVE HeardNothing'
    <2>1. \A i \in 1 .. Len(backlog) : backlog[i] \in Client \ {peer}
      BY DEF HelloInv, TypeOK
    <2> QED
      BY <1>2, <1>4, <2>1 DEF HelloInv, HeardNothing, InSession
  <1> QED
    BY <1>2, <1>3, <1>4

LEMMA ServerAgrees ==
  ASSUME HelloInv, ServerNext
  PROVE  Agreed'
  <1>1. CASE tcp_listen
    <2>1. /\ peer' = peer /\ peer = NoClient
          /\ UNCHANGED <<cpc, cpub, cpeer, pin, backlog, down>>
      BY <1>1 DEF tcp_listen, clientVars, HelloInv, TypeOK
    <2>2. \A c \in Client : c # peer'
      BY <2>1, ClientAssumption
    <2>3. HellosSigned'
      BY <2>1, <2>2 DEF HelloInv, HellosSigned, SignedHello
    <2>4. KeysAgree'
      BY <2>1, <2>2 DEF HelloInv, KeysAgree, InSession
    <2>5. HeardNothing'
      BY <2>1 DEF HelloInv, HeardNothing, InSession
    <2> QED
      BY <2>3, <2>4, <2>5 DEF Agreed
  <1>2. CASE tcp_accept
    <2>1. /\ backlog # <<>> /\ backlog \in Seq(Client) /\ QueuedOnce
          /\ peer' = Head(backlog) /\ backlog' = Tail(backlog)
          /\ UNCHANGED <<cpc, cpub, cpeer, pin, down>>
      BY <1>2 DEF tcp_accept, clientVars, HelloInv, TypeOK
    <2>2. /\ peer' \in Client /\ peer' = backlog[1] /\ 1 \in 1 .. Len(backlog)
          /\ \A i \in 1 .. Len(backlog') :
               i + 1 \in 1 .. Len(backlog) /\ backlog'[i] = backlog[i + 1]
      BY <2>1, Accepting, TailFacts
    <2>3. down'[peer'] = <<>> /\ cpc'[peer'] \notin {"ready", "asked"}
      BY <2>1, <2>2 DEF HelloInv, HeardNothing, InSession
    <2>4. HellosSigned'
      <3>1. ASSUME NEW c \in Client, NEW i \in 1 .. Len(down'[c])
            PROVE  SignedHello(c, down[c][i])'
        <4>1. c # peer'
          BY <2>3
        <4>2. SignedHello(c, down[c][i])
          BY <2>1 DEF HelloInv, HellosSigned
        <4> QED
          BY <2>1, <4>1, <4>2 DEF SignedHello
      <3> QED
        BY <3>1 DEF HellosSigned
    <2>5. KeysAgree'
      BY <2>1, <2>3 DEF HelloInv, KeysAgree, InSession
    <2>6. HeardNothing'
      BY <2>1, <2>2 DEF HelloInv, HeardNothing, InSession
    <2> QED
      BY <2>4, <2>5, <2>6 DEF Agreed
  <1>3. CASE hs_recv_chlo
    <2>1. /\ peer \in Client /\ spc = "chlo" /\ peer' = peer
          /\ UNCHANGED <<cpc, cpub, cpeer, pin, backlog, down>>
      BY <1>3 DEF hs_recv_chlo, clientVars, HelloInv, TypeOK
    <2>2. /\ \A i \in 1 .. Len(down[peer]) : down[peer][i].type # "SHLO"
          /\ ~InSession(peer)
      BY <2>1, PeerWaits
    <2>3. HellosSigned'
      BY <2>1, <2>2 DEF HelloInv, HellosSigned, SignedHello
    <2>4. KeysAgree'
      BY <2>1, <2>2 DEF HelloInv, KeysAgree, InSession
    <2>5. HeardNothing'
      BY <2>1 DEF HelloInv, HeardNothing, InSession
    <2> QED
      BY <2>3, <2>4, <2>5 DEF Agreed
  <1>4. CASE DeriveKeys
    <2>1. /\ spc = "derive" /\ spc' = "ready"
          /\ UNCHANGED <<cpc, cpub, cpeer, pin, backlog, down, peer, speer, spub>>
      BY <1>4 DEF DeriveKeys, clientVars
    <2>2. HellosSigned'
      BY <2>1 DEF HelloInv, HellosSigned, SignedHello
    <2>3. KeysAgree'
      BY <2>1 DEF HelloInv, KeysAgree, InSession, key_in, key_out
    <2>4. HeardNothing'
      BY <2>1 DEF HelloInv, HeardNothing, InSession
    <2> QED
      BY <2>2, <2>3, <2>4 DEF Agreed
  <1>5. CASE ServerSeesEnd
    BY <1>5, ServerGoneAgrees DEF ServerSeesEnd
  <1>6. CASE ServerFails
    BY <1>6, ServerGoneAgrees DEF ServerFails
  <1>7. CASE hs_send_shlo
    <2> DEFINE f == HS_SHLO(Generated, hs_sign_transcript(Transcript(speer, Generated)))
    <2>1. /\ peer \in Client /\ spc = "sign" /\ spc' = "derive" /\ spub' = Generated
          /\ Generated \in KeyPair
          /\ UNCHANGED <<cpc, cpub, cpeer, pin, peer, speer, backlog>>
      BY <1>7, GeneratedIsPair DEF hs_send_shlo, clientVars, HelloInv, TypeOK
    <2>2. /\ \A i \in 1 .. Len(down[peer]) : down[peer][i].type # "SHLO"
          /\ ~InSession(peer)
      BY <2>1, PeerWaits
    <2>3. f \in DownFrame
      <3>1. Transcript(speer, Generated) \in Pair \X Pair
        BY <2>1 DEF Transcript, Pair, HelloInv, TypeOK
      <3> QED
        BY <2>1, <3>1, Hellos
    <2>4. ToPeer(f)
      BY <1>7 DEF hs_send_shlo
    <2>5. f.sig.key = SignKey /\ f.sig.over = <<speer, spub>>'
      BY <2>1 DEF HS_SHLO, hs_sign_transcript, Transcript
    <2> HIDE DEF f
    <2>6. /\ \A c \in Client \ {peer} : down'[c] = down[c]
          /\ \A i \in 1 .. Len(down'[peer]) :
               \/ down'[peer][i] = f
               \/ i \in 1 .. Len(down[peer]) /\ down'[peer][i] = down[peer][i]
          /\ HeardNothing'
      BY <2>1, <2>3, <2>4, ToPeerAdds
    <2>7. ASSUME NEW c \in Client, NEW i \in 1 .. Len(down'[c])
          PROVE  SignedHello(c, down[c][i])'
      <3>1. CASE c = peer
        BY <2>1, <2>2, <2>5, <2>6, <3>1 DEF SignedHello
      <3>2. CASE c # peer
        BY <2>1, <2>6, <3>2 DEF SignedHello, HelloInv, HellosSigned
      <3> QED
        BY <3>1, <3>2
    <2>8. HellosSigned'
      BY <2>7 DEF HellosSigned
    <2>9. KeysAgree'
      BY <2>1, <2>2 DEF HelloInv, KeysAgree, InSession
    <2> QED
      BY <2>6, <2>8, <2>9 DEF Agreed
  <1>8. CASE Serve
    <2>1. CASE ServerGone
      BY <2>1, ServerGoneAgrees
    <2>2. CASE ~ServerGone
      <3> DEFINE f == sc_aead_encrypt(key_out)
      <3>1. /\ peer \in Client /\ ToPeer(f)
            /\ UNCHANGED <<cpc, cpub, cpeer, pin, spc, peer, spub, speer, backlog>>
        BY <1>8, <2>2 DEF Serve, clientVars, serverVars, HelloInv, TypeOK
      <3>2. f \in DownFrame /\ f.type # "SHLO"
        <4>1. f \in DownFrame
          BY Sealing DEF key_out, DownFrame, HelloInv, TypeOK
        <4>2. f.type # "SHLO"
          BY DEF sc_aead_encrypt
        <4> QED
          BY <4>1, <4>2
      <3> HIDE DEF f
      <3>3. /\ \A c \in Client \ {peer} : down'[c] = down[c]
            /\ \A i \in 1 .. Len(down'[peer]) :
                 \/ down'[peer][i] = f
                 \/ i \in 1 .. Len(down[peer]) /\ down'[peer][i] = down[peer][i]
            /\ HeardNothing'
        BY <3>1, <3>2, ToPeerAdds
      <3>4. ASSUME NEW c \in Client, NEW i \in 1 .. Len(down'[c])
            PROVE  SignedHello(c, down[c][i])'
        BY <3>1, <3>2, <3>3 DEF SignedHello, HelloInv, HellosSigned
      <3>5. HellosSigned'
        BY <3>4 DEF HellosSigned
      <3>6. KeysAgree'
        BY <3>1 DEF HelloInv, KeysAgree, InSession, key_in, key_out
      <3> QED
        BY <3>3, <3>5, <3>6 DEF Agreed
    <2> QED
      BY <2>1, <2>2
  <1> QED
    BY <1>1, <1>2, <1>3, <1>4, <1>5, <1>6, <1>7, <1>8 DEF ServerNext

LEMMA HelloInvKept == HelloInv /\ [Next]_vars => HelloInv'
  <1> SUFFICES ASSUME HelloInv, [Next]_vars PROVE HelloInv'
    OBVIOUS
  <1>1. Queues'
    BY QueuesKept DEF Queues, HelloInv
  <1>2. Agreed'
    <2>1. CASE ServerNext
      BY <2>1, ServerAgrees
    <2>2. ASSUME NEW c \in Client, ClientNext(c) PROVE Agreed'
      BY <2>2, ClientAgrees
    <2>3. CASE UNCHANGED vars
      BY <2>3 DEF vars, clientVars, serverVars, Agreed, HelloInv, HeardNothing,
                  HellosSigned, SignedHello, KeysAgree, InSession, key_in, key_out
    <2> QED
      BY <2>1, <2>2, <2>3 DEF Next
  <1> QED
    BY <1>1, <1>2 DEF Queues, Agreed, HelloInv

LEMMA HelloInvStarts == Init => HelloInv
  <1> SUFFICES ASSUME Init PROVE HelloInv
    OBVIOUS
  <1>1. Queues
    BY QueuesStart
  <1>2. Len(backlog) = 0 /\ \A c \in Client : Len(down[c]) = 0 /\ cpc[c] = "off"
    BY EmptyFacts DEF Init
  <1>3. HeardNothing /\ HellosSigned /\ KeysAgree
    BY <1>2 DEF HeardNothing, HellosSigned, KeysAgree, InSession
  <1> QED
    BY <1>1, <1>3 DEF Queues, HelloInv

\* A client that is through with the handshake has the server whose key it pinned,
\* and derived the keys of the server that has its connection, whatever failed,
\* ended or was started again before (run_handshake of client/main.c, and
\* server/main.c from tcp_accept to hs_derive_keys).
THEOREM HandshakeAgrees == Spec => []KeysAgree
  <1>1. Spec => []HelloInv
    BY HelloInvStarts, HelloInvKept, PTL DEF Spec
  <1>2. HelloInv => KeysAgree
    BY DEF HelloInv
  <1> QED
    BY <1>1, <1>2, PTL

-----------------------------------------------------------------------------
(* Frames.                                                                 *)

\* The server has not read the hello of c yet.
Waits(c) == (c = peer /\ spc = "chlo") \/ \E i \in 1 .. Len(backlog) : backlog[i] = c

\* A client has sent its hello at most once before the server reads it, and after
\* that nothing but requests under the server's key.
RequestsOf(c) ==
  /\ Waits(c) => Len(up[c]) <= 1 /\ (cpc[c] = "hello" => up[c] = <<>>)
  /\ c = peer /\ spc = "sign" => up[c] = <<>> /\ cpc[c] # "hello"
  /\ c = peer /\ spc \in {"derive", "ready"} =>
       /\ cpc[c] # "hello"
       /\ \A i \in 1 .. Len(up[c]) : sc_aead_decrypt(key_in, up[c][i])

\* The first frame for a client that waits is a server's hello, and what follows
\* is sealed under the key over the two pairs which that hello signs.
AnswersOf(c) ==
  /\ cpc[c] = "hello" => down[c] = <<>>
  /\ cpc[c] = "wait" /\ down[c] # <<>> =>
       /\ down[c][1].type = "SHLO"
       /\ \A i \in 2 .. Len(down[c]) :
            sc_aead_decrypt(Key("s2c", down[c][1].sig.over[1], down[c][1].sig.over[2]), down[c][i])
  /\ cpc[c] = "wait" /\ c = peer /\ spc \in {"derive", "ready"} => down[c] # <<>>
  /\ InSession(c) =>
       \A i \in 1 .. Len(down[c]) : sc_aead_decrypt(Key("s2c", cpub[c], cpeer[c]), down[c][i])

FrameInv == HelloInv /\ \A c \in Client : RequestsOf(c) /\ AnswersOf(c)

LEMMA FramesStart == Init => FrameInv
  <1> SUFFICES ASSUME Init, NEW c \in Client PROVE RequestsOf(c) /\ AnswersOf(c)
    BY HelloInvStarts DEF FrameInv
  <1>1. Len(backlog) = 0 /\ cpc[c] = "off" /\ spc = "off"
    BY EmptyFacts DEF Init
  <1> QED
    BY <1>1 DEF RequestsOf, AnswersOf, Waits, InSession

\* A step that touches neither a client nor its place at the server keeps its frames.
LEMMA Untouched ==
  ASSUME NEW d \in Client, RequestsOf(d), AnswersOf(d),
         UNCHANGED serverVars, Waits(d)' <=> Waits(d),
         cpc'[d] = cpc[d], cpub'[d] = cpub[d], cpeer'[d] = cpeer[d],
         up'[d] = up[d], down'[d] = down[d]
  PROVE  RequestsOf(d)' /\ AnswersOf(d)'
  <1>1. UNCHANGED <<spc, peer, key_in>>
    BY DEF serverVars, key_in
  <1>2. RequestsOf(d)'
    BY <1>1 DEF RequestsOf, sc_aead_decrypt
  <1>3. AnswersOf(d)'
    BY <1>1 DEF AnswersOf, InSession, sc_aead_decrypt
  <1> QED
    BY <1>2, <1>3

\* So a step of one client has to show its own frames.
LEMMA OwnFrames ==
  ASSUME FrameInv, NEW c \in Client, UNCHANGED <<serverVars, backlog>>,
         \A d \in Client \ {c} : /\ cpc'[d] = cpc[d] /\ cpub'[d] = cpub[d]
                                 /\ cpeer'[d] = cpeer[d]
                                 /\ up'[d] = up[d] /\ down'[d] = down[d],
         RequestsOf(c)' /\ AnswersOf(c)'
  PROVE  \A d \in Client : (RequestsOf(d) /\ AnswersOf(d))'
  <1> SUFFICES ASSUME NEW d \in Client, d # c PROVE (RequestsOf(d) /\ AnswersOf(d))'
    OBVIOUS
  <1>1. Waits(d)' <=> Waits(d)
    BY DEF Waits, serverVars
  <1> QED
    BY <1>1, Untouched DEF FrameInv

LEMMA ConnectFrames ==
  ASSUME FrameInv, NEW c \in Client, tcp_connect(c), NEW d \in Client
  PROVE  (RequestsOf(d) /\ AnswersOf(d))'
  <1>1. /\ UNCHANGED serverVars /\ c # peer
        /\ cpc'[c] = "hello" /\ up'[c] = <<>> /\ down'[c] = <<>> /\ Len(up'[c]) = 0
        /\ \A e \in Client \ {c} : /\ cpc'[e] = cpc[e] /\ cpub'[e] = cpub[e]
                                   /\ cpeer'[e] = cpeer[e]
                                   /\ up'[e] = up[e] /\ down'[e] = down[e]
    BY DEF tcp_connect, FrameInv, HelloInv, TypeOK, Connected
  <1>2. CASE d = c
    BY <1>1, <1>2 DEF RequestsOf, AnswersOf, InSession, serverVars
  <1>3. CASE d # c
    <2>1. /\ backlog \in Seq(Client) /\ Len(backlog') = Len(backlog) + 1
          /\ \A i \in 1 .. Len(backlog) : backlog'[i] = backlog[i]
          /\ backlog'[Len(backlog) + 1] = c
      BY AppendFacts DEF tcp_connect, FrameInv, HelloInv, TypeOK
    <2>2. \A i \in 1 .. Len(backlog') : i \in 1 .. Len(backlog) \/ i = Len(backlog) + 1
      BY <2>1
    <2>3. \A i \in 1 .. Len(backlog) : i \in 1 .. Len(backlog')
      BY <2>1
    <2>4. Waits(d)' <=> Waits(d)
      BY <1>1, <1>3, <2>1, <2>2, <2>3 DEF Waits, serverVars
    <2> QED
      BY <1>1, <1>3, <2>4, Untouched DEF FrameInv
  <1> QED
    BY <1>2, <1>3

LEMMA GoneFrames ==
  ASSUME FrameInv, NEW c \in Client, ClientGone(c)
  PROVE  \A d \in Client : (RequestsOf(d) /\ AnswersOf(d))'
  <1>1. /\ UNCHANGED <<serverVars, backlog, up>>
        /\ cpc'[c] = "off"
        /\ \A d \in Client \ {c} : /\ cpc'[d] = cpc[d] /\ cpub'[d] = cpub[d]
                                   /\ cpeer'[d] = cpeer[d]
                                   /\ up'[d] = up[d] /\ down'[d] = down[d]
    BY DEF ClientGone, FrameInv, HelloInv, TypeOK
  <1>2. RequestsOf(c)'
    BY <1>1 DEF FrameInv, RequestsOf, Waits, key_in, sc_aead_decrypt, serverVars
  <1>3. AnswersOf(c)'
    BY <1>1 DEF AnswersOf, InSession
  <1> QED
    BY <1>1, <1>2, <1>3, OwnFrames

\* A client whose hello the server has not read is through with nothing.
LEMMA WaitsHasNothing ==
  ASSUME FrameInv, NEW c \in Client, Waits(c) \/ (c = peer /\ spc = "sign")
  PROVE  ~InSession(c)
  <1>1. CASE \E i \in 1 .. Len(backlog) : backlog[i] = c
    BY <1>1 DEF FrameInv, HelloInv, HeardNothing
  <1>2. CASE c = peer /\ spc \in {"chlo", "sign"}
    BY <1>2, PeerWaits DEF FrameInv
  <1> QED
    BY <1>1, <1>2 DEF Waits

LEMMA ClientFrames ==
  ASSUME FrameInv, NEW c \in Client, ClientNext(c)
  PROVE  \A d \in Client : (RequestsOf(d) /\ AnswersOf(d))'
  <1>1. CASE tcp_connect(c)
    BY <1>1, ConnectFrames
  <1>2. CASE hs_send_chlo(c)
    <2> DEFINE f == HS_CHLO(Generated)
    <2>1. /\ UNCHANGED <<serverVars, backlog, down>>
          /\ cpc[c] = "hello" /\ cpc'[c] = "wait"
          /\ up'[c] = up[c] \/ up'[c] = Append(up[c], f)
          /\ \A d \in Client \ {c} : /\ cpc'[d] = cpc[d] /\ cpub'[d] = cpub[d]
                                     /\ cpeer'[d] = cpeer[d]
                                     /\ up'[d] = up[d] /\ down'[d] = down[d]
      BY <1>2 DEF hs_send_chlo, FrameInv, HelloInv, TypeOK
    <2>2. f \in UpFrame
      <3>1. Generated \in KeyPair /\ <<Generated, Generated>> \in Pair \X Pair
        BY <1>2, GeneratedIsPair DEF hs_send_chlo, Pair
      <3> QED
        BY <3>1, Hellos
    <2> HIDE DEF f
    <2>3. RequestsOf(c) /\ AnswersOf(c)
      BY DEF FrameInv
    <2>4. Waits(c)' => Len(up'[c]) <= 1
      <3>1. Waits(c)' => Waits(c)
        BY <2>1 DEF Waits, serverVars
      <3>2. Waits(c) => up[c] = <<>>
        BY <2>1, <2>3 DEF RequestsOf
      <3>3. up[c] \in Seq(UpFrame)
        BY DEF FrameInv, HelloInv, TypeOK
      <3>4. Waits(c) => Len(up'[c]) <= 1
        BY <2>1, <2>2, <3>2, <3>3, AppendFacts, EmptyFacts
      <3> QED
        BY <3>1, <3>4
    <2>5. c = peer => spc \notin {"sign", "derive", "ready"}
      BY <2>1, <2>3 DEF RequestsOf
    <2>6. RequestsOf(c)'
      BY <2>1, <2>4, <2>5 DEF RequestsOf, serverVars
    <2>7. AnswersOf(c)'
      BY <2>1, <2>3, <2>5 DEF AnswersOf, InSession, serverVars
    <2> QED
      BY <2>1, <2>6, <2>7, OwnFrames
  <1>3. CASE FinishHello(c)
    <2>1. CASE ClientGone(c)
      BY <2>1, GoneFrames
    <2>2. CASE ~ClientGone(c)
      <3> DEFINE shlo == Head(down[c])
      <3>1. /\ down[c] # <<>> /\ down[c] \in Seq(DownFrame)
            /\ cpc[c] = "wait"
            /\ shlo.sig = [key |-> pin[c], over |-> <<cpub[c], shlo.pub>>]
            /\ UNCHANGED <<serverVars, backlog, up>>
            /\ down'[c] = Tail(down[c]) /\ cpub'[c] = cpub[c] /\ cpeer'[c] = shlo.pub
            /\ cpc'[c] = "ready"
            /\ \A d \in Client \ {c} : /\ cpc'[d] = cpc[d] /\ cpub'[d] = cpub[d]
                                       /\ cpeer'[d] = cpeer[d]
                                       /\ up'[d] = up[d] /\ down'[d] = down[d]
        BY <1>3, <2>2 DEF FinishHello, hs_verify_transcript, FrameInv, HelloInv, TypeOK
      <3>2. /\ shlo = down[c][1] /\ Len(Tail(down[c])) = Len(down[c]) - 1 /\ Len(down[c]) > 0
            /\ \A i \in 1 .. Len(down[c]) - 1 : Tail(down[c])[i] = down[c][i + 1]
        BY <3>1, TailFacts
      <3>3. shlo.sig.over[1] = cpub'[c] /\ shlo.sig.over[2] = cpeer'[c]
        BY <3>1
      <3>4. \A i \in 2 .. Len(down[c]) : sc_aead_decrypt(Key("s2c", cpub'[c], cpeer'[c]), down[c][i])
        BY <3>1, <3>2, <3>3 DEF FrameInv, AnswersOf
      <3>5. ASSUME NEW i \in 1 .. Len(down'[c])
            PROVE  sc_aead_decrypt(Key("s2c", cpub'[c], cpeer'[c]), down'[c][i])
        <4>1. i + 1 \in 2 .. Len(down[c]) /\ down'[c][i] = down[c][i + 1]
          BY <3>1, <3>2
        <4> QED
          BY <3>4, <4>1
      <3>6. AnswersOf(c)'
        BY <3>1, <3>5 DEF AnswersOf, sc_aead_decrypt
      <3>7. RequestsOf(c)'
        BY <3>1 DEF FrameInv, RequestsOf, Waits, key_in, sc_aead_decrypt, serverVars
      <3> HIDE DEF shlo
      <3> QED
        BY <3>1, <3>6, <3>7, OwnFrames
    <2> QED
      BY <2>1, <2>2
  <1>4. CASE Ask(c)
    <2> DEFINE f == sc_aead_encrypt(Key("c2s", cpub[c], cpeer[c]))
    <2>1. /\ UNCHANGED <<serverVars, backlog, down, cpub, cpeer>>
          /\ cpc[c] = "ready" /\ cpc'[c] = "asked"
          /\ up'[c] = up[c] \/ up'[c] = Append(up[c], f)
          /\ \A d \in Client \ {c} : cpc'[d] = cpc[d] /\ up'[d] = up[d]
      BY <1>4 DEF Ask, FrameInv, HelloInv, TypeOK
    <2>2. f \in UpFrame /\ sc_aead_decrypt(Key("c2s", cpub[c], cpeer[c]), f)
      BY Sealing DEF UpFrame, FrameInv, HelloInv, TypeOK, sc_aead_encrypt, sc_aead_decrypt
    <2> HIDE DEF f
    <2>3. InSession(c) /\ ~Waits(c) /\ ~(c = peer /\ spc = "sign")
      BY <2>1, WaitsHasNothing DEF InSession
    <2>4. c = peer => /\ spc \in {"derive", "ready"}
                      /\ sc_aead_decrypt(key_in, f)
      BY <2>2, <2>3 DEF FrameInv, HelloInv, KeysAgree
    <2>5. ASSUME c = peer, NEW i \in 1 .. Len(up'[c]) PROVE sc_aead_decrypt(key_in, up'[c][i])
      <3>1. up[c] \in Seq(UpFrame)
        BY DEF FrameInv, HelloInv, TypeOK
      <3>2. up'[c][i] = f \/ (i \in 1 .. Len(up[c]) /\ up'[c][i] = up[c][i])
        BY <2>1, <2>2, <3>1, AppendFacts
      <3> QED
        BY <2>4, <2>5, <3>2 DEF FrameInv, RequestsOf
    <2>6. ~Waits(c)' /\ key_in' = key_in
      BY <2>1, <2>3 DEF Waits, key_in, serverVars
    <2>7. RequestsOf(c)'
      BY <2>1, <2>3, <2>5, <2>6 DEF RequestsOf, sc_aead_decrypt, serverVars
    <2>8. AnswersOf(c)'
      BY <2>1 DEF FrameInv, AnswersOf, InSession, sc_aead_decrypt
    <2> QED
      BY <2>1, <2>7, <2>8, OwnFrames
  <1>5. CASE Answered(c)
    <2>1. /\ UNCHANGED <<serverVars, backlog, up>>
          /\ down[c] # <<>> /\ down[c] \in Seq(DownFrame)
          /\ down'[c] = Tail(down[c])
          /\ cpub'[c] = cpub[c] /\ cpeer'[c] = cpeer[c]
          /\ cpc[c] = "asked" /\ cpc'[c] = "ready"
          /\ \A d \in Client \ {c} : /\ cpc'[d] = cpc[d] /\ cpub'[d] = cpub[d]
                                     /\ cpeer'[d] = cpeer[d]
                                     /\ up'[d] = up[d] /\ down'[d] = down[d]
      BY <1>5 DEF Answered, FrameInv, HelloInv, TypeOK
    <2>2. /\ Len(down'[c]) = Len(down[c]) - 1 /\ Len(down[c]) > 0
          /\ \A i \in 1 .. Len(down[c]) - 1 : down'[c][i] = down[c][i + 1]
      BY <2>1, TailFacts
    <2>3. ASSUME NEW i \in 1 .. Len(down'[c])
          PROVE  sc_aead_decrypt(Key("s2c", cpub[c], cpeer[c]), down'[c][i])
      <3>1. i + 1 \in 1 .. Len(down[c]) /\ down'[c][i] = down[c][i + 1]
        BY <2>1, <2>2
      <3> QED
        BY <2>1, <3>1 DEF FrameInv, AnswersOf, InSession
    <2>4. AnswersOf(c)'
      BY <2>1, <2>3 DEF AnswersOf, sc_aead_decrypt
    <2>5. RequestsOf(c)'
      BY <2>1 DEF FrameInv, RequestsOf, Waits, key_in, sc_aead_decrypt, serverVars
    <2> QED
      BY <2>1, <2>4, <2>5, OwnFrames
  <1>6. CASE SeesEnd(c)
    BY <1>6, GoneFrames DEF SeesEnd
  <1>7. CASE ClientLeaves(c)
    BY <1>7, GoneFrames DEF ClientLeaves
  <1> QED
    BY <1>1, <1>2, <1>3, <1>4, <1>5, <1>6, <1>7 DEF ClientNext

LEMMA ServerGoneFrames ==
  ASSUME FrameInv, ServerGone, NEW d \in Client
  PROVE  (RequestsOf(d) /\ AnswersOf(d))'
  <1>1. /\ peer' = NoClient /\ Len(backlog') = 0
        /\ UNCHANGED <<cpc, cpub, cpeer, down>>
    BY EmptyFacts DEF ServerGone, clientVars
  <1>2. d # peer'
    BY <1>1, ClientAssumption
  <1>3. RequestsOf(d)'
    BY <1>1, <1>2 DEF RequestsOf, Waits
  <1>4. AnswersOf(d)'
    BY <1>1, <1>2 DEF FrameInv, AnswersOf, InSession, sc_aead_decrypt
  <1> QED
    BY <1>3, <1>4

\* The answer goes where answers belong.
LEMMA ServeFrames ==
  ASSUME FrameInv, Serve, ~ServerGone, NEW d \in Client
  PROVE  (RequestsOf(d) /\ AnswersOf(d))'
  <1> DEFINE f == sc_aead_encrypt(key_out)
  <1>1. /\ spc = "ready" /\ peer \in Client /\ ToPeer(f)
        /\ up[peer] # <<>> /\ up[peer] \in Seq(UpFrame)
        /\ up'[peer] = Tail(up[peer])
        /\ \A c \in Client \ {peer} : up'[c] = up[c] /\ down'[c] = down[c]
        /\ down[peer] \in Seq(DownFrame)
        /\ down'[peer] = IF cpc[peer] = "off" THEN down[peer] ELSE Append(down[peer], f)
        /\ UNCHANGED <<cpc, cpub, cpeer, spc, peer, speer, spub, backlog>>
    BY DEF Serve, ToPeer, clientVars, serverVars, FrameInv, HelloInv, TypeOK
  <1>2. UNCHANGED serverVars /\ key_in' = key_in /\ (Waits(d)' <=> Waits(d))
    BY <1>1 DEF serverVars, key_in, Waits
  <1>3. f \in DownFrame /\ sc_aead_decrypt(key_out, f) /\ key_out = Key("s2c", speer, spub)
    BY Sealing DEF key_out, DownFrame, FrameInv, HelloInv, TypeOK, sc_aead_encrypt, sc_aead_decrypt
  <1> HIDE DEF f
  <1>4. CASE d # peer
    BY <1>1, <1>2, <1>4, Untouched DEF FrameInv
  <1>5. CASE d = peer
    <2>1. RequestsOf(d) /\ AnswersOf(d)
      BY DEF FrameInv
    <2>2. ~Waits(d)
      <3>1. \A i \in 1 .. Len(backlog) : backlog[i] # peer
        BY DEF FrameInv, HelloInv, TypeOK
      <3> QED
        BY <1>1, <1>5, <3>1 DEF Waits
    <2>3. RequestsOf(d)'
      <3>1. /\ Len(up'[d]) = Len(up[d]) - 1 /\ Len(up[d]) > 0
            /\ \A i \in 1 .. Len(up[d]) - 1 : up'[d][i] = up[d][i + 1]
        <4>1. up[d] # <<>> /\ up[d] \in Seq(UpFrame) /\ up'[d] = Tail(up[d])
          BY <1>1, <1>5
        <4> QED
          BY <4>1, TailFacts
      <3>2. ASSUME NEW i \in 1 .. Len(up'[d]) PROVE sc_aead_decrypt(key_in, up'[d][i])
        <4>1. i + 1 \in 1 .. Len(up[d]) /\ up'[d][i] = up[d][i + 1]
          BY <1>1, <1>5, <3>1
        <4> QED
          BY <1>1, <1>5, <2>1, <4>1 DEF RequestsOf
      <3> QED
        BY <1>1, <1>2, <1>5, <2>1, <2>2, <3>2 DEF RequestsOf, sc_aead_decrypt
    <2>4. ASSUME NEW i \in 1 .. Len(down'[d])
          PROVE  \/ down'[d][i] = f
                 \/ i \in 1 .. Len(down[d]) /\ down'[d][i] = down[d][i]
      BY <1>1, <1>3, <1>5, ToPeerAdds DEF FrameInv
    <2>5. InSession(d) =>
            \A i \in 1 .. Len(down'[d]) : sc_aead_decrypt(Key("s2c", cpub[d], cpeer[d]), down'[d][i])
      <3> SUFFICES ASSUME InSession(d), NEW i \in 1 .. Len(down'[d])
                   PROVE  sc_aead_decrypt(Key("s2c", cpub[d], cpeer[d]), down'[d][i])
        OBVIOUS
      <3>1. Key("s2c", cpub[d], cpeer[d]) = key_out
        BY <1>5 DEF FrameInv, HelloInv, KeysAgree
      <3>2. \A j \in 1 .. Len(down[d]) : sc_aead_decrypt(Key("s2c", cpub[d], cpeer[d]), down[d][j])
        BY <2>1 DEF AnswersOf
      <3> QED
        BY <1>3, <2>4, <3>1, <3>2
    <2>6. cpc[d] # "hello"
      BY <1>1, <1>5, <2>1 DEF RequestsOf
    <2>7. ASSUME cpc[d] = "wait" PROVE AnswersOf(d)'
      <3>1. /\ down[d] # <<>> /\ down[d] \in Seq(DownFrame) /\ down[d][1].type = "SHLO"
            /\ \A i \in 2 .. Len(down[d]) :
                 sc_aead_decrypt(Key("s2c", down[d][1].sig.over[1], down[d][1].sig.over[2]), down[d][i])
        BY <1>1, <1>5, <2>1, <2>7 DEF AnswersOf
      <3>2. 1 \in 1 .. Len(down[d]) /\ down'[d] = Append(down[d], f)
        BY <1>1, <1>5, <2>7, <3>1, TailFacts
      <3>3. down'[d][1] = down[d][1] /\ down'[d] # <<>>
        BY <1>1, <1>3, <3>1, <3>2, AppendFacts
      <3>4. down[d][1].sig.over = <<speer, spub>>
        BY <1>5, <3>1, <3>2 DEF FrameInv, HelloInv, HellosSigned, SignedHello
      <3>5. Key("s2c", down[d][1].sig.over[1], down[d][1].sig.over[2]) = key_out
        BY <1>3, <3>4
      <3>6. ASSUME NEW i \in 2 .. Len(down'[d]) PROVE sc_aead_decrypt(key_out, down'[d][i])
        <4>1. i \in 1 .. Len(down'[d])
          OBVIOUS
        <4>2. down'[d][i] = f \/ (i \in 2 .. Len(down[d]) /\ down'[d][i] = down[d][i])
          BY <2>4, <4>1
        <4> QED
          BY <1>3, <3>1, <3>5, <4>2
      <3> HIDE DEF key_out
      <3> QED
        BY <1>1, <2>7, <3>1, <3>3, <3>5, <3>6 DEF AnswersOf, InSession, sc_aead_decrypt
    <2>8. ASSUME cpc[d] # "wait" PROVE AnswersOf(d)'
      BY <1>1, <2>5, <2>6, <2>8 DEF AnswersOf, InSession, sc_aead_decrypt
    <2> QED
      BY <2>3, <2>7, <2>8
  <1> QED
    BY <1>4, <1>5

\* The server's hello finds nothing under way to its client.
LEMMA HelloFrames ==
  ASSUME FrameInv, hs_send_shlo, NEW d \in Client
  PROVE  (RequestsOf(d) /\ AnswersOf(d))'
  <1> DEFINE f == HS_SHLO(Generated, hs_sign_transcript(Transcript(speer, Generated)))
  <1>1. /\ spc = "sign" /\ spc' = "derive" /\ peer \in Client /\ ToPeer(f)
        /\ Generated \in KeyPair
        /\ UNCHANGED <<cpc, cpub, cpeer, peer, backlog, up>>
    BY GeneratedIsPair DEF hs_send_shlo, clientVars, FrameInv, HelloInv, TypeOK
  <1>2. f \in DownFrame /\ f.type = "SHLO"
    <2>1. Transcript(speer, Generated) \in Pair \X Pair
      BY <1>1 DEF Transcript, Pair, FrameInv, HelloInv, TypeOK
    <2>2. f \in DownFrame
      BY <1>1, <2>1, Hellos
    <2>3. f.type = "SHLO"
      BY DEF HS_SHLO
    <2> QED
      BY <2>2, <2>3
  <1> HIDE DEF f
  <1>3. RequestsOf(d) /\ AnswersOf(d)
    BY DEF FrameInv
  <1>4. CASE d # peer
    <2>1. Waits(d)' <=> Waits(d)
      BY <1>1, <1>4 DEF Waits
    <2>2. down'[d] = down[d]
      BY <1>1, <1>4 DEF ToPeer, FrameInv, HelloInv, TypeOK
    <2>3. RequestsOf(d)'
      BY <1>1, <1>3, <1>4, <2>1 DEF RequestsOf
    <2>4. AnswersOf(d)'
      BY <1>1, <1>3, <1>4, <2>2 DEF AnswersOf, InSession, sc_aead_decrypt
    <2> QED
      BY <2>3, <2>4
  <1>5. CASE d = peer
    <2>1. up'[d] = <<>> /\ Len(up'[d]) = 0 /\ cpc'[d] # "hello"
      BY <1>1, <1>3, <1>5 DEF RequestsOf
    <2>2. \A i \in 1 .. Len(backlog) : backlog[i] # d
      BY <1>5 DEF FrameInv, HelloInv, TypeOK
    <2>3. RequestsOf(d)'
      BY <1>1, <2>1, <2>2 DEF RequestsOf, Waits
    <2>4. ~InSession(d)' /\ ~InSession(d)
      BY <1>1, <1>5, WaitsHasNothing DEF InSession
    <2>5. ASSUME cpc[d] = "wait"
          PROVE  down'[d] = <<f>> /\ Len(down'[d]) = 1 /\ down'[d][1] = f
      <3>1. down[d] \in Seq(DownFrame)
        BY DEF FrameInv, HelloInv, TypeOK
      <3>2. \A i \in 1 .. Len(down[d]) : down[d][i].type # "SHLO"
        BY <1>1, <1>5, PeerWaits DEF FrameInv
      <3>3. down[d] = <<>>
        <4> SUFFICES ASSUME down[d] # <<>> PROVE FALSE
          OBVIOUS
        <4>1. 1 \in 1 .. Len(down[d])
          BY <3>1, TailFacts
        <4> QED
          BY <1>3, <2>5, <3>2, <4>1 DEF AnswersOf
      <3>4. down'[d] = Append(down[d], f)
        BY <1>1, <1>5, <2>5 DEF ToPeer, FrameInv, HelloInv, TypeOK
      <3> QED
        BY <3>3, <3>4
    <2>6. AnswersOf(d)'
      BY <1>1, <1>2, <2>1, <2>4, <2>5 DEF AnswersOf
    <2> QED
      BY <2>3, <2>6
  <1> QED
    BY <1>4, <1>5

\* The hello of the client is the only frame it has sent.
LEMMA ChloFrames ==
  ASSUME FrameInv, hs_recv_chlo, NEW d \in Client
  PROVE  (RequestsOf(d) /\ AnswersOf(d))'
  <1>1. /\ spc = "chlo" /\ spc' = "sign" /\ peer \in Client
        /\ up[peer] # <<>> /\ up[peer] \in Seq(UpFrame)
        /\ up'[peer] = Tail(up[peer])
        /\ \A c \in Client \ {peer} : up'[c] = up[c]
        /\ UNCHANGED <<cpc, cpub, cpeer, peer, backlog, down>>
    BY DEF hs_recv_chlo, clientVars, FrameInv, HelloInv, TypeOK
  <1>2. RequestsOf(d) /\ AnswersOf(d)
    BY DEF FrameInv
  <1>3. AnswersOf(d)'
    BY <1>1, <1>2 DEF AnswersOf, InSession, sc_aead_decrypt
  <1>4. CASE d # peer
    <2>1. Waits(d)' <=> Waits(d)
      BY <1>1, <1>4 DEF Waits
    <2>2. RequestsOf(d)'
      BY <1>1, <1>2, <1>4, <2>1 DEF RequestsOf
    <2> QED
      BY <1>3, <2>2
  <1>5. CASE d = peer
    <2>1. Len(up[d]) <= 1 /\ cpc[d] # "hello"
      BY <1>1, <1>2, <1>5 DEF RequestsOf, Waits
    <2>2. up'[d] = <<>> /\ Len(up'[d]) = 0
      <3>1. up[d] # <<>> /\ up[d] \in Seq(UpFrame) /\ up'[d] = Tail(up[d])
        BY <1>1, <1>5
      <3> QED
        BY <2>1, <3>1, OnlyOne
    <2>3. RequestsOf(d)'
      BY <1>1, <2>1, <2>2 DEF RequestsOf
    <2> QED
      BY <1>3, <2>3
  <1> QED
    BY <1>4, <1>5

LEMMA ServerFrames ==
  ASSUME FrameInv, ServerNext, NEW d \in Client
  PROVE  (RequestsOf(d) /\ AnswersOf(d))'
  <1>1. RequestsOf(d) /\ AnswersOf(d)
    BY DEF FrameInv
  <1>2. CASE tcp_listen
    <2>1. /\ spc = "off" /\ spc' = "accept" /\ d # peer
          /\ UNCHANGED <<cpc, cpub, cpeer, peer, backlog, up, down>>
      BY <1>2, ClientAssumption DEF tcp_listen, clientVars, FrameInv, HelloInv, TypeOK
    <2>2. RequestsOf(d)'
      BY <1>1, <2>1 DEF RequestsOf, Waits
    <2>3. AnswersOf(d)'
      BY <1>1, <2>1 DEF AnswersOf, InSession, sc_aead_decrypt
    <2> QED
      BY <2>2, <2>3
  <1>3. CASE tcp_accept
    <2>1. /\ backlog # <<>> /\ backlog \in Seq(Client) /\ QueuedOnce
          /\ peer' = Head(backlog) /\ backlog' = Tail(backlog) /\ spc' = "chlo"
          /\ UNCHANGED <<cpc, cpub, cpeer, up, down>>
      BY <1>3 DEF tcp_accept, clientVars, FrameInv, HelloInv, TypeOK
    <2>2. /\ peer' = backlog[1] /\ 1 \in 1 .. Len(backlog)
          /\ \A i \in 1 .. Len(backlog') :
               i + 1 \in 1 .. Len(backlog) /\ backlog'[i] = backlog[i + 1]
      BY <2>1, Accepting, TailFacts
    <2>3. Waits(d)' => Waits(d)
      BY <2>1, <2>2 DEF Waits
    <2>4. RequestsOf(d)'
      BY <1>1, <2>1, <2>3 DEF RequestsOf
    <2>5. AnswersOf(d)'
      BY <1>1, <2>1 DEF AnswersOf, InSession, sc_aead_decrypt
    <2> QED
      BY <2>4, <2>5
  <1>4. CASE hs_recv_chlo
    BY <1>4, ChloFrames
  <1>5. CASE hs_send_shlo
    BY <1>5, HelloFrames
  <1>6. CASE DeriveKeys
    <2>1. /\ spc = "derive" /\ spc' = "ready"
          /\ UNCHANGED <<cpc, cpub, cpeer, peer, backlog, up, down, key_in>>
      BY <1>6 DEF DeriveKeys, clientVars, key_in
    <2>2. Waits(d)' <=> Waits(d)
      BY <2>1 DEF Waits
    <2>3. RequestsOf(d)'
      BY <1>1, <2>1, <2>2 DEF RequestsOf, sc_aead_decrypt
    <2>4. AnswersOf(d)'
      BY <1>1, <2>1 DEF AnswersOf, InSession, sc_aead_decrypt
    <2> QED
      BY <2>3, <2>4
  <1>7. CASE Serve
    BY <1>7, ServeFrames, ServerGoneFrames
  <1>8. CASE ServerSeesEnd
    BY <1>8, ServerGoneFrames DEF ServerSeesEnd
  <1>9. CASE ServerFails
    BY <1>9, ServerGoneFrames DEF ServerFails
  <1> QED
    BY <1>2, <1>3, <1>4, <1>5, <1>6, <1>7, <1>8, <1>9 DEF ServerNext

LEMMA FramesKept == FrameInv /\ [Next]_vars => FrameInv'
  <1> SUFFICES ASSUME FrameInv, [Next]_vars PROVE FrameInv'
    OBVIOUS
  <1>1. HelloInv'
    BY HelloInvKept DEF FrameInv
  <1>2. \A d \in Client : (RequestsOf(d) /\ AnswersOf(d))'
    <2>1. CASE ServerNext
      BY <2>1, ServerFrames
    <2>2. ASSUME NEW c \in Client, ClientNext(c)
          PROVE  \A d \in Client : (RequestsOf(d) /\ AnswersOf(d))'
      BY <2>2, ClientFrames
    <2>3. CASE UNCHANGED vars
      <3>1. ASSUME NEW d \in Client PROVE (RequestsOf(d) /\ AnswersOf(d))'
        BY <2>3, Untouched DEF FrameInv, Waits, vars, clientVars, serverVars
      <3> QED
        BY <3>1
    <2> QED
      BY <2>1, <2>2, <2>3 DEF Next
  <1> QED
    BY <1>1, <1>2 DEF FrameInv

\* Whatever fails or is started again, a request under way opens at the server that
\* reads it and an answer opens at its client: no session ends because
\* sc_aead_decrypt refuses a frame.
THEOREM FramesAlwaysOpen == Spec => []FramesOpen
  <1>1. Spec => []FrameInv
    BY FramesStart, FramesKept, PTL DEF Spec
  <1>2. FrameInv => FramesOpen
    <2>1. ASSUME FrameInv, spc \in {"derive", "ready"}
          PROVE  \A i \in 1 .. Len(up[peer]) : sc_aead_decrypt(key_in, up[peer][i])
      <3>1. peer \in Client
        BY <2>1 DEF FrameInv, HelloInv, TypeOK
      <3> QED
        BY <2>1, <3>1 DEF FrameInv, RequestsOf
    <2>2. ASSUME FrameInv, NEW c \in Client, InSession(c)
          PROVE  \A i \in 1 .. Len(down[c]) :
                   sc_aead_decrypt(Key("s2c", cpub[c], cpeer[c]), down[c][i])
      BY <2>2 DEF FrameInv, AnswersOf
    <2> QED
      BY <2>1, <2>2 DEF FramesOpen
  <1> QED
    BY <1>1, <1>2, PTL

=============================================================================
