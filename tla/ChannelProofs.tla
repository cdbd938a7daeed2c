--------------------------- MODULE ChannelProofs ---------------------------
(***************************************************************************)
(* Proofs about Channel, for every number of requests, failing calls and   *)
(* repeated frames, and every capacity of the cache.                       *)
(***************************************************************************)
EXTENDS Channel, SeqFacts, FiniteSetTheorems, TLAPS

-----------------------------------------------------------------------------
(* Types.                                                                  *)

\* The client has asked for something before it waits for it.
Waiting == cpc = "wait" => Len(asked) > 0

TypeInv == TypeOK /\ Waiting

LEMMA InitTyped == Init => TypeInv
  BY BoundsAssumption, EmptyFacts DEF Init, TypeInv, TypeOK, Waiting, NoAnswers

\* What is left of the stream after a failing or a confused read.
LEMMA RestTyped ==
  ASSUME NEW s \in Seq(Frame \cup {Rest}), s # <<>>
  PROVE  /\ <<Rest>> \o Tail(s) \in Seq(Frame \cup {Rest})
         /\ Len(s) > 1 => <<Rest>> \o Tail(Tail(s)) \in Seq(Frame \cup {Rest})
  <1>1. <<Rest>> \in Seq(Frame \cup {Rest}) /\ Tail(s) \in Seq(Frame \cup {Rest})
    OBVIOUS
  <1>2. Len(s) > 1 => Tail(Tail(s)) \in Seq(Frame \cup {Rest})
    <2> DEFINE t == Tail(s)
    <2>1. t \in Seq(Frame \cup {Rest}) /\ Len(t) = Len(s) - 1
      BY TailFacts
    <2> HIDE DEF t
    <2>2. Len(t) > 0 => Tail(t) \in Seq(Frame \cup {Rest})
      BY <2>1, TailFacts, EmptyFacts
    <2> QED
      BY <2>1, <2>2 DEF t
  <1> QED
    BY <1>1, <1>2

LEMMA ClientTyped == TypeInv /\ ClientNext => TypeInv'
  <1> SUFFICES ASSUME TypeInv, ClientNext PROVE TypeInv'
    OBVIOUS
  <1> USE DEF TypeInv, TypeOK, Waiting
  <1>1. ASSUME NEW op \in Op, ClientSend(op) PROVE TypeInv'
    <2>1. /\ asked' \in Seq(Op) /\ Len(asked') = Len(asked) + 1
          /\ Len(asked') <= MaxRequests
      BY <1>1, AppendFacts, BoundsAssumption DEF ClientSend
    <2>2. [nonce |-> Len(asked) + 1, op |-> op] \in Frame
      BY <1>1, BoundsAssumption DEF ClientSend, Frame, Nonce
    <2>3. c2s' \in Seq(Frame)
      BY <1>1, <2>2, AppendFacts DEF ClientSend
    <2> QED
      BY <1>1, <2>1, <2>3 DEF ClientSend, serverVars, cacheVars
  <1>2. CASE ClientReceive
    <2>1. /\ Head(s2c) \in Frame \cup {Rest} /\ Head(s2c) # Rest
          /\ s2c' \in Seq(Frame \cup {Rest})
      BY <1>2, TailFacts DEF ClientReceive
    <2>2. Head(s2c).nonce \in Nonce
      BY <2>1 DEF Frame
    <2>3. Current \in 1 .. Len(asked)
      BY <1>2 DEF ClientReceive, Current
    <2>4. /\ DOMAIN accepted' \subseteq 1 .. Len(asked)
          /\ \A n \in DOMAIN accepted' : accepted'[n] \in Nonce
      <3>1. PICK a \in Nonce : a = Head(s2c).nonce
        BY <2>2
      <3>2. \/ accepted' = accepted
            \/ accepted' = [n \in DOMAIN accepted \cup {Current} |->
                              IF n = Current THEN a ELSE accepted[n]]
        BY <1>2, <3>1 DEF ClientReceive
      <3> HIDE DEF Current
      <3>3. CASE accepted' = accepted
        BY <3>3
      <3>4. CASE accepted' = [n \in DOMAIN accepted \cup {Current} |->
                                IF n = Current THEN a ELSE accepted[n]]
        <4>1. DOMAIN accepted' = DOMAIN accepted \cup {Current}
          BY <3>4
        <4>2. \A n \in DOMAIN accepted' : accepted'[n] = a \/ (n \in DOMAIN accepted /\ accepted'[n] = accepted[n])
          BY <3>4
        <4> QED
          BY <2>3, <4>1, <4>2
      <3> QED
        BY <3>2, <3>3, <3>4
    <2> QED
      BY <1>2, <2>1, <2>4 DEF ClientReceive, serverVars, cacheVars
  <1>3. CASE ClientFails
    <2>1. s2c' \in Seq(Frame \cup {Rest})
      BY <1>3, TailFacts, RestTyped DEF ClientFails
    <2>2. slips' \in 0 .. MaxSlips
      BY <1>3, BoundsAssumption DEF ClientFails
    <2> QED
      BY <1>3, <2>1, <2>2 DEF ClientFails, serverVars, cacheVars
  <1>4. CASE ClientReadsRest
    <2>1. s2c # <<>> /\ s2c \in Seq(Frame \cup {Rest})
      BY <1>4 DEF ClientReadsRest
    <2>2. /\ Tail(s2c) \in Seq(Frame \cup {Rest})
          /\ Len(s2c) > 1 => <<Rest>> \o Tail(Tail(s2c)) \in Seq(Frame \cup {Rest})
      BY <2>1, TailFacts, RestTyped
    <2>3. s2c' \in Seq(Frame \cup {Rest})
      BY <1>4, <2>1, <2>2 DEF ClientReadsRest
    <2> QED
      BY <1>4, <2>3 DEF ClientReadsRest, serverVars, cacheVars
  <1>5. CASE ClientSeesEnd
    BY <1>5 DEF ClientSeesEnd, serverVars, cacheVars
  <1>6. CASE ClientLeaves
    BY <1>6 DEF ClientLeaves, serverVars, cacheVars
  <1> QED
    BY <1>1, <1>2, <1>3, <1>4, <1>5, <1>6 DEF ClientNext

LEMMA ServerTyped == TypeInv /\ ServerNext => TypeInv'
  <1> SUFFICES ASSUME TypeInv, ServerNext PROVE TypeInv'
    OBVIOUS
  <1> USE DEF TypeInv, TypeOK, Waiting
  <1>1. CASE ServerReceive
    <2> DEFINE f == Head(c2s)
    <2>1. f \in Frame /\ c2s' \in Seq(Frame)
      BY <1>1, TailFacts DEF ServerReceive
    <2>2. f # NoFrame
      BY <2>1, FrameAssumption
    <2>3. f.nonce \in Nonce
      BY <2>1 DEF Frame
    <2>4. \/ executed' = executed
          \/ executed' = Append(executed, f.nonce)
      BY <1>1 DEF ServerReceive
    <2>5. executed' \in Seq(Nonce)
      <3> HIDE DEF f
      <3>1. PICK n \in Nonce : n = f.nonce
        BY <2>3
      <3>2. executed \in Seq(Nonce)
        OBVIOUS
      <3>3. Append(executed, n) \in Seq(Nonce)
        BY <3>1, <3>2, AppendFacts
      <3> QED
        BY <2>4, <3>1, <3>2, <3>3
    <2>6. \/ spc' = "gone" /\ serving' = serving /\ serving = NoFrame
          \/ spc' = "answer" /\ serving' = Head(c2s)
      BY <1>1 DEF ServerReceive, Handle
    <2>7. UNCHANGED <<clientVars, s2c, dups>>
      BY <1>1 DEF ServerReceive
    <2> QED
      BY <2>1, <2>2, <2>5, <2>6, <2>7 DEF clientVars
  <1>2. CASE ServerRespond
    <2>1. serving \in Frame
      BY <1>2 DEF ServerRespond
    <2>2. s2c' \in Seq(Frame \cup {Rest})
      BY <1>2, <2>1, AppendFacts DEF ServerRespond
    <2> QED
      BY <1>2, <2>2 DEF ServerRespond, clientVars, cacheVars
  <1>3. CASE ServerFails
    BY <1>3 DEF ServerFails, clientVars, cacheVars
  <1>4. CASE ServerSeesEnd
    BY <1>4 DEF ServerSeesEnd, clientVars, cacheVars
  <1> QED
    BY <1>1, <1>2, <1>3, <1>4 DEF ServerNext

LEMMA OtherTyped == TypeInv /\ (Duplicate \/ Reconnect \/ UNCHANGED vars) => TypeInv'
  <1> SUFFICES ASSUME TypeInv, Duplicate \/ Reconnect \/ UNCHANGED vars PROVE TypeInv'
    OBVIOUS
  <1> USE DEF TypeInv, TypeOK, Waiting
  <1>1. CASE Duplicate
    <2>1. PICK n \in 1 .. Len(asked) : c2s' = Append(c2s, [nonce |-> n, op |-> asked[n]])
      BY <1>1 DEF Duplicate
    <2>2. [nonce |-> n, op |-> asked[n]] \in Frame
      BY BoundsAssumption DEF Frame, Nonce
    <2>3. c2s' \in Seq(Frame)
      BY <2>1, <2>2, AppendFacts
    <2>4. dups' \in 0 .. MaxDups
      BY <1>1, BoundsAssumption DEF Duplicate
    <2> QED
      BY <1>1, <2>3, <2>4 DEF Duplicate, clientVars, serverVars, cacheVars
  <1>2. CASE Reconnect
    BY <1>2, BoundsAssumption, EmptyFacts DEF Reconnect, NoAnswers
  <1>3. CASE UNCHANGED vars
    BY <1>3 DEF vars, clientVars, serverVars
  <1> QED
    BY <1>1, <1>2, <1>3

LEMMA NextTyped == TypeInv /\ [Next]_vars => TypeInv'
  BY ClientTyped, ServerTyped, OtherTyped DEF Next

\* The types of the channel, and that a server that answers has a request to
\* answer, for every number of requests and failures.
THEOREM ChannelTypes == Spec => []TypeOK
  <1>1. TypeInv => TypeOK
    BY DEF TypeInv
  <1> QED
    BY InitTyped, NextTyped, <1>1, PTL DEF Spec

-----------------------------------------------------------------------------
(* What each step does to the sequences.                                   *)

LEMMA SendStep ==
  ASSUME TypeInv, NEW op \in Op, ClientSend(op)
  PROVE  /\ Len(asked') = Len(asked) + 1
         /\ \A n \in 1 .. Len(asked) : asked'[n] = asked[n]
         /\ asked'[Len(asked) + 1] = op
         /\ Len(c2s') = Len(c2s) + 1
         /\ \A i \in 1 .. Len(c2s) : c2s'[i] = c2s[i]
         /\ c2s'[Len(c2s) + 1] = [nonce |-> Len(asked) + 1, op |-> op]
         /\ cpc = "prompt" /\ cpc' = "wait"
         /\ UNCHANGED <<accepted, slips, s2c, spc, serving, executed, dups>>
  <1>1. asked \in Seq(Op) /\ c2s \in Seq(Frame) /\ Len(asked) < MaxRequests
    BY DEF TypeInv, TypeOK, ClientSend
  <1>2. [nonce |-> Len(asked) + 1, op |-> op] \in Frame
    BY <1>1, BoundsAssumption DEF Frame, Nonce
  <1> QED
    BY <1>1, <1>2, AppendFacts DEF ClientSend, serverVars

LEMMA ReceiveStep ==
  ASSUME TypeInv, ClientReceive
  PROVE  /\ Len(s2c) > 0 /\ Len(s2c') = Len(s2c) - 1
         /\ s2c[1] # Rest /\ s2c[1] = Head(s2c)
         /\ \A i \in 1 .. Len(s2c') : s2c'[i] = s2c[i + 1]
         /\ Current \in 1 .. Len(asked) /\ Current = Len(asked)
         /\ cpc = "wait" /\ cpc' = "prompt"
         /\ UNCHANGED <<asked, slips, c2s, spc, serving, executed, dups>>
  <1>1. s2c # <<>> /\ s2c \in Seq(Frame \cup {Rest}) /\ asked \in Seq(Op) /\ Len(asked) > 0
    BY DEF TypeInv, TypeOK, Waiting, ClientReceive
  <1>2. Len(Tail(s2c)) = Len(s2c) - 1 /\ Len(s2c) > 0 /\ Head(s2c) = s2c[1]
        /\ \A i \in 1 .. Len(s2c) - 1 : Tail(s2c)[i] = s2c[i + 1]
    BY <1>1, TailFacts
  <1> QED
    BY <1>1, <1>2 DEF ClientReceive, Current, serverVars

\* A failing or a confused read only shortens what there is to read, but for the
\* bytes it leaves.
LEMMA LostStep ==
  ASSUME TypeInv, ClientFails \/ ClientReadsRest
  PROVE  /\ \A i \in 1 .. Len(s2c') :
              s2c'[i] = Rest \/ \E j \in 1 .. Len(s2c) : s2c'[i] = s2c[j]
         /\ slips' > 0 \/ (slips' = slips /\ Len(s2c) > 0 /\ s2c[1] = Rest)
         /\ UNCHANGED <<asked, accepted, c2s, spc, serving, executed, dups>>
  <1> USE DEF TypeInv, TypeOK
  <1> DEFINE V == Frame \cup {Rest}
             t == Tail(s2c)
  <1>1. s2c \in Seq(V)
    OBVIOUS
  <1>2. CASE s2c' = s2c
    BY <1>1, <1>2, TailFacts, BoundsAssumption DEF ClientFails, ClientReadsRest, serverVars, cacheVars
  <1>3. CASE s2c' # s2c
    <2>1. \/ s2c # <<>> /\ s2c' \in {t, <<Rest>> \o t}
          \/ Len(s2c) > 1 /\ s2c' = <<Rest>> \o Tail(t)
      BY <1>3 DEF ClientFails, ClientReadsRest
    <2>2. s2c # <<>>
      BY <2>1, EmptyFacts
    <2>3. /\ t \in Seq(V) /\ Len(t) = Len(s2c) - 1 /\ Len(s2c) > 0 /\ Head(s2c) = s2c[1]
          /\ \A i \in 1 .. Len(t) : t[i] = s2c[i + 1]
      BY <1>1, <2>2, TailFacts
    <2> HIDE DEF t
    <2>4. \A i \in 1 .. Len(<<Rest>> \o t) :
            (<<Rest>> \o t)[i] = Rest \/ \E j \in 1 .. Len(s2c) : (<<Rest>> \o t)[i] = s2c[j]
      <3> SUFFICES ASSUME NEW i \in 1 .. Len(<<Rest>> \o t), i # 1
                   PROVE  \E j \in 1 .. Len(s2c) : (<<Rest>> \o t)[i] = s2c[j]
        BY <2>3
      <3>1. i - 1 \in 1 .. Len(t) /\ (<<Rest>> \o t)[i] = t[i - 1]
        BY <2>3
      <3> QED
        BY <2>3, <3>1
    <2>5. Len(s2c) > 1 => \A i \in 1 .. Len(<<Rest>> \o Tail(t)) :
            \/ (<<Rest>> \o Tail(t))[i] = Rest
            \/ \E j \in 1 .. Len(s2c) : (<<Rest>> \o Tail(t))[i] = s2c[j]
      <3> DEFINE r == Tail(t)
      <3> SUFFICES ASSUME Len(s2c) > 1, NEW i \in 1 .. Len(<<Rest>> \o r), i # 1
                   PROVE  \E j \in 1 .. Len(s2c) : (<<Rest>> \o r)[i] = s2c[j]
        BY <2>3
      <3>1. /\ r \in Seq(V) /\ Len(r) = Len(t) - 1
            /\ \A k \in 1 .. Len(r) : r[k] = t[k + 1]
        BY <2>3, TailFacts, EmptyFacts
      <3> HIDE DEF r
      <3>2. i - 1 \in 1 .. Len(r) /\ (<<Rest>> \o r)[i] = r[i - 1]
        BY <3>1
      <3>3. i \in 1 .. Len(t) /\ r[i - 1] = t[i]
        BY <2>3, <3>1, <3>2
      <3>4. i + 1 \in 1 .. Len(s2c) /\ t[i] = s2c[i + 1]
        BY <2>3, <3>3
      <3> QED
        BY <3>2, <3>3, <3>4
    <2>6. \A i \in 1 .. Len(t) : \E j \in 1 .. Len(s2c) : t[i] = s2c[j]
      BY <2>3
    <2> DEFINE Old(s) == \A i \in 1 .. Len(s) :
                           s[i] = Rest \/ \E j \in 1 .. Len(s2c) : s[i] = s2c[j]
    <2>7. /\ Old(t) /\ Old(<<Rest>> \o t)
          /\ Len(s2c) > 1 => Old(<<Rest>> \o Tail(t))
      BY <2>4, <2>5, <2>6
    <2>8. Old(s2c')
      <3> HIDE DEF Old
      <3> QED
        BY <2>1, <2>7
    <2> QED
      BY <2>3, <2>8, BoundsAssumption DEF ClientFails, ClientReadsRest, serverVars, cacheVars
  <1> QED
    BY <1>2, <1>3

-----------------------------------------------------------------------------
(* The answer accepted for a request.                                      *)

Sent(f) == f.nonce <= Len(asked) /\ f.op = asked[f.nonce]

Done(n) == \E i \in 1 .. Len(executed) : executed[i] = n

\* Every frame under way is, or answers, a request that was sent, and a frame on
\* its way back one that was handled.
FramesSent ==
  /\ \A i \in 1 .. Len(c2s) : Sent(c2s[i])
  /\ \A i \in 1 .. Len(s2c) : s2c[i] # Rest => Sent(s2c[i]) /\ Done(s2c[i].nonce)
  /\ serving # NoFrame => Sent(serving) /\ Done(serving.nonce)

\* With nothing repeated and no read failed, at most one request is under way to
\* and from a server that is there, it is the latest, and the client waits for it.
InStep ==
  slips = 0 /\ dups = 0 =>
    /\ \A i \in 1 .. Len(s2c) : s2c[i] # Rest /\ s2c[i].nonce = Len(asked)
    /\ Len(s2c) <= 1
    /\ Len(s2c) > 0 => cpc # "prompt" /\ serving = NoFrame /\ (spc # "gone" => Len(c2s) = 0)
    /\ serving # NoFrame => cpc # "prompt" /\ serving.nonce = Len(asked) /\ Len(c2s) = 0
    /\ spc # "gone" =>
         /\ Len(c2s) <= 1
         /\ Len(c2s) > 0 => cpc # "prompt" /\ c2s[1].nonce = Len(asked)

AnswerInv == TypeInv /\ FramesSent /\ InStep /\ AcceptedAnswers

LEMMA TakeStep ==
  ASSUME TypeInv, ServerReceive
  PROVE  /\ Len(c2s) > 0 /\ Len(c2s') = Len(c2s) - 1 /\ c2s[1] \in Frame
         /\ \A i \in 1 .. Len(c2s') : c2s'[i] = c2s[i + 1]
         /\ spc = "recv" /\ serving = NoFrame
         /\ \/ spc' = "gone" /\ UNCHANGED <<serving, executed>>
            \/ /\ spc' = "answer" /\ serving' = c2s[1]
               /\ Len(executed') = Len(executed) + 1
               /\ \A i \in 1 .. Len(executed) : executed'[i] = executed[i]
               /\ executed'[Len(executed) + 1] = c2s[1].nonce
         /\ UNCHANGED <<cpc, asked, accepted, slips, s2c, dups>>
  <1>1. /\ c2s \in Seq(Frame) /\ c2s # <<>> /\ executed \in Seq(Nonce)
        /\ spc = "recv" /\ serving = NoFrame
    BY DEF TypeInv, TypeOK, ServerReceive
  <1>2. /\ Head(c2s) \in Frame /\ Head(c2s) = c2s[1] /\ Len(c2s) > 0
        /\ Len(Tail(c2s)) = Len(c2s) - 1
        /\ \A i \in 1 .. Len(c2s) - 1 : Tail(c2s)[i] = c2s[i + 1]
    BY <1>1, TailFacts
  <1>3. c2s' = Tail(c2s) /\ UNCHANGED <<clientVars, s2c, dups>>
    BY DEF ServerReceive
  <1>4. \/ spc' = "gone" /\ UNCHANGED <<serving, executed>>
        \/ spc' = "answer" /\ serving' = c2s[1] /\ executed' = Append(executed, c2s[1].nonce)
    BY <1>2 DEF ServerReceive, Handle
  <1>5. c2s[1].nonce \in Nonce
    BY <1>2 DEF Frame
  <1>6. /\ Len(Append(executed, c2s[1].nonce)) = Len(executed) + 1
        /\ \A i \in 1 .. Len(executed) : Append(executed, c2s[1].nonce)[i] = executed[i]
        /\ Append(executed, c2s[1].nonce)[Len(executed) + 1] = c2s[1].nonce
    BY <1>1, <1>5, AppendFacts
  <1>7. /\ Len(c2s) > 0 /\ Len(c2s') = Len(c2s) - 1 /\ c2s[1] \in Frame
        /\ \A i \in 1 .. Len(c2s') : c2s'[i] = c2s[i + 1]
    BY <1>2, <1>3
  <1>8. UNCHANGED <<cpc, asked, accepted, slips, s2c, dups>>
    BY <1>3 DEF clientVars
  <1> QED
    BY <1>1, <1>4, <1>6, <1>7, <1>8

LEMMA RespondStep ==
  ASSUME TypeInv, ServerRespond
  PROVE  /\ Len(s2c') = Len(s2c) + 1
         /\ \A i \in 1 .. Len(s2c) : s2c'[i] = s2c[i]
         /\ s2c'[Len(s2c) + 1] = serving
         /\ serving \in Frame /\ serving # Rest /\ serving # NoFrame /\ serving' = NoFrame
         /\ spc = "answer" /\ spc' = "recv"
         /\ UNCHANGED <<cpc, asked, accepted, slips, c2s, executed, dups>>
  <1>1. s2c \in Seq(Frame \cup {Rest}) /\ serving \in Frame /\ serving # Rest /\ serving # NoFrame
    BY FrameAssumption DEF TypeInv, TypeOK, ServerRespond
  <1> QED
    BY <1>1, AppendFacts DEF ServerRespond, clientVars

LEMMA RepeatStep ==
  ASSUME TypeInv, Duplicate
  PROVE  \E n \in 1 .. Len(asked) :
           /\ Len(c2s') = Len(c2s) + 1
           /\ \A i \in 1 .. Len(c2s) : c2s'[i] = c2s[i]
           /\ c2s'[Len(c2s) + 1] = [nonce |-> n, op |-> asked[n]]
           /\ dups' > 0
           /\ UNCHANGED <<cpc, asked, accepted, slips, s2c, spc, serving, executed>>
  <1>1. PICK n \in 1 .. Len(asked) : c2s' = Append(c2s, [nonce |-> n, op |-> asked[n]])
    BY DEF Duplicate
  <1>2. c2s \in Seq(Frame) /\ [nonce |-> n, op |-> asked[n]] \in Frame
    BY BoundsAssumption DEF TypeInv, TypeOK, Frame, Nonce
  <1>3. dups' > 0 /\ UNCHANGED <<cpc, asked, accepted, slips, s2c, spc, serving, executed>>
    BY BoundsAssumption DEF Duplicate, clientVars, serverVars, TypeInv, TypeOK
  <1> QED
    BY <1>1, <1>2, <1>3, AppendFacts

\* The steps that only end a command, a client or a server.
Ending == ClientSeesEnd \/ ClientLeaves \/ ServerFails \/ ServerSeesEnd \/ UNCHANGED vars

LEMMA EndingStep ==
  ASSUME TypeInv, Ending
  PROVE  /\ UNCHANGED <<asked, accepted, slips, c2s, s2c, executed, dups>>
         /\ \/ UNCHANGED <<spc, serving>> /\ cpc' \in {cpc, "gone"}
            \/ UNCHANGED <<spc, serving>> /\ spc = "gone" /\ s2c = <<>>
            \/ UNCHANGED cpc /\ spc' = "gone" /\ serving' = NoFrame
  <1>1. CASE ClientSeesEnd
    BY <1>1 DEF ClientSeesEnd, serverVars
  <1>2. CASE ClientLeaves
    BY <1>2 DEF ClientLeaves, serverVars
  <1>3. CASE ServerFails
    BY <1>3 DEF ServerFails, clientVars
  <1>4. CASE ServerSeesEnd
    <2>1. serving = NoFrame
      BY <1>4 DEF ServerSeesEnd, TypeInv, TypeOK
    <2> QED
      BY <1>4, <2>1 DEF ServerSeesEnd, clientVars
  <1>5. CASE UNCHANGED vars
    BY <1>5 DEF vars, clientVars, serverVars
  <1> QED
    BY <1>1, <1>2, <1>3, <1>4, <1>5 DEF Ending

\* The lengths and the members of the sequences, without the sequences.
LEMMA Lengths ==
  ASSUME TypeInv
  PROVE  /\ Len(asked) \in Nat /\ Len(c2s) \in Nat /\ Len(s2c) \in Nat /\ Len(executed) \in Nat
         /\ \A i \in 1 .. Len(c2s) : c2s[i] \in Frame
         /\ \A i \in 1 .. Len(s2c) : s2c[i] # Rest => s2c[i] \in Frame
         /\ \A i \in 1 .. Len(executed) : executed[i] \in Nat
         /\ \A f \in Frame : f.nonce \in Nat \ {0}
  <1>1. asked \in Seq(Op) /\ c2s \in Seq(Frame) /\ s2c \in Seq(Frame \cup {Rest})
        /\ executed \in Seq(Nonce)
    BY DEF TypeInv, TypeOK
  <1>2. \A f \in Frame : f.nonce \in Nat \ {0}
    BY BoundsAssumption DEF Frame, Nonce
  <1>3. Nonce \subseteq Nat
    BY BoundsAssumption DEF Nonce
  <1>4. \A i \in 1 .. Len(s2c) : s2c[i] \in Frame \cup {Rest}
    <2> DEFINE V == Frame \cup {Rest}
    <2>1. s2c \in Seq(V)
      BY <1>1
    <2> HIDE DEF V
    <2>2. \A i \in 1 .. Len(s2c) : s2c[i] \in V
      BY <2>1
    <2> QED
      BY <2>2 DEF V
  <1>5. \A i \in 1 .. Len(executed) : executed[i] \in Nonce
    BY <1>1
  <1>6. \A i \in 1 .. Len(c2s) : c2s[i] \in Frame
    BY <1>1
  <1>7. \A i \in 1 .. Len(executed) : executed[i] \in Nat
    BY <1>3, <1>5
  <1>8. Len(asked) \in Nat /\ Len(c2s) \in Nat /\ Len(s2c) \in Nat /\ Len(executed) \in Nat
    BY <1>1
  <1>9. \A i \in 1 .. Len(s2c) : s2c[i] # Rest => s2c[i] \in Frame
    BY <1>4
  <1> QED
    BY <1>2, <1>6, <1>7, <1>8, <1>9

\* What was sent and what was handled stays so while the connection lasts.
LEMMA FactsLast ==
  ASSUME TypeInv, Next \/ UNCHANGED vars, ~Reconnect
  PROVE  /\ \A f \in Frame : Sent(f) => f.nonce <= Len(asked') /\ f.op = asked'[f.nonce]
         /\ \A n \in Nat : Done(n) => \E i \in 1 .. Len(executed') : executed'[i] = n
         /\ \A n \in 1 .. Len(asked) : asked'[n] = asked[n]
         /\ Len(asked') >= Len(asked)
  <1>1. /\ Len(asked') \in Nat /\ Len(asked') >= Len(asked)
        /\ \A n \in 1 .. Len(asked) : asked'[n] = asked[n]
    <2>1. ASSUME NEW op \in Op, ClientSend(op) PROVE <1>1!:
      <3>1. /\ Len(asked') = Len(asked) + 1
            /\ \A n \in 1 .. Len(asked) : asked'[n] = asked[n]
        BY <2>1, SendStep
      <3> QED
        BY <3>1, Lengths
    <2>2. CASE asked' = asked
      BY <2>2, Lengths
    <2> QED
      BY <2>1, <2>2, TakeStep, RespondStep, RepeatStep, EndingStep, ReceiveStep, LostStep
      DEF Next, ClientNext, ServerNext, Ending
  <1>2. \/ executed' = executed
        \/ /\ Len(executed') = Len(executed) + 1
           /\ \A i \in 1 .. Len(executed) : executed'[i] = executed[i]
    <2>1. ASSUME NEW op \in Op, ClientSend(op) PROVE executed' = executed
      BY <2>1, SendStep
    <2> QED
      BY <2>1, TakeStep, RespondStep, RepeatStep, EndingStep, ReceiveStep, LostStep
      DEF Next, ClientNext, ServerNext, Ending
  <1>3. \A n \in Nat : Done(n) => \E i \in 1 .. Len(executed') : executed'[i] = n
    BY <1>2, Lengths DEF Done
  <1>4. \A f \in Frame : Sent(f) => f.nonce <= Len(asked') /\ f.op = asked'[f.nonce]
    BY <1>1, Lengths DEF Sent
  <1> QED
    BY <1>1, <1>3, <1>4

LEMMA FramesSentKept ==
  ASSUME TypeInv, TypeInv', FramesSent, Next \/ UNCHANGED vars, ~Reconnect
  PROVE  FramesSent'
  <1> DEFINE NowSent(f) == f.nonce <= Len(asked') /\ f.op = asked'[f.nonce]
             NowDone(n) == \E i \in 1 .. Len(executed') : executed'[i] = n
  <1>1. /\ \A f \in Frame : Sent(f) => NowSent(f)
        /\ \A n \in Nat : Done(n) => NowDone(n)
    BY FactsLast
  <1>2. /\ \A i \in 1 .. Len(c2s) : NowSent(c2s[i])
        /\ \A i \in 1 .. Len(s2c) : s2c[i] # Rest => NowSent(s2c[i]) /\ NowDone(s2c[i].nonce)
        /\ serving # NoFrame => NowSent(serving) /\ NowDone(serving.nonce)
    <2>1. serving # NoFrame => serving \in Frame
      BY DEF TypeInv, TypeOK
    <2>2. \A f \in Frame : f.nonce \in Nat
      BY Lengths
    <2> HIDE DEF NowSent, NowDone
    <2> QED
      BY <1>1, <2>1, <2>2, Lengths DEF FramesSent
  <1> SUFFICES /\ \A i \in 1 .. Len(c2s') : NowSent(c2s'[i])
               /\ \A i \in 1 .. Len(s2c') : s2c'[i] # Rest => NowSent(s2c'[i]) /\ NowDone(s2c'[i].nonce)
               /\ serving' # NoFrame => NowSent(serving') /\ NowDone(serving'.nonce)
    BY DEF FramesSent, Sent, Done
  <1>3. ASSUME NEW op \in Op, ClientSend(op) PROVE \A i \in 1 .. Len(c2s') : NowSent(c2s'[i])
    <2>1. /\ Len(asked') = Len(asked) + 1 /\ asked'[Len(asked) + 1] = op
          /\ Len(c2s') = Len(c2s) + 1
          /\ \A i \in 1 .. Len(c2s) : c2s'[i] = c2s[i]
          /\ c2s'[Len(c2s) + 1] = [nonce |-> Len(asked) + 1, op |-> op]
      BY <1>3, SendStep
    <2>2. NowSent(c2s'[Len(c2s) + 1])
      BY <2>1, Lengths
    <2>3. \A i \in 1 .. Len(c2s') : i # Len(c2s) + 1 => i \in 1 .. Len(c2s)
      BY <2>1, Lengths
    <2> HIDE DEF NowSent, NowDone
    <2> QED
      BY <1>2, <2>1, <2>2, <2>3
  <1>4. ASSUME NEW op \in Op, ClientSend(op) PROVE s2c' = s2c /\ serving' = serving
    BY <1>4, SendStep
  <1>5. CASE ServerReceive
    <2>1. NowSent(c2s[1]) /\ Len(c2s) > 0
      BY <1>2, <1>5, TakeStep, Lengths
    <2>2. serving' # NoFrame => NowDone(serving'.nonce) /\ serving' = c2s[1]
      BY <1>5, TakeStep, Lengths
    <2>3. /\ Len(c2s') = Len(c2s) - 1 /\ s2c' = s2c
          /\ \A i \in 1 .. Len(c2s') : c2s'[i] = c2s[i + 1]
      BY <1>5, TakeStep
    <2>4. \A i \in 1 .. Len(c2s') : i + 1 \in 1 .. Len(c2s)
      BY <2>3, Lengths
    <2> HIDE DEF NowSent, NowDone
    <2> QED
      BY <1>2, <2>1, <2>2, <2>3, <2>4
  <1>6. CASE Duplicate
    <2>1. PICK n \in 1 .. Len(asked) :
            /\ Len(c2s') = Len(c2s) + 1
            /\ \A i \in 1 .. Len(c2s) : c2s'[i] = c2s[i]
            /\ c2s'[Len(c2s) + 1] = [nonce |-> n, op |-> asked[n]]
            /\ UNCHANGED <<asked, s2c, serving>>
      BY <1>6, RepeatStep
    <2>2. NowSent(c2s'[Len(c2s) + 1])
      BY <2>1, Lengths
    <2> HIDE DEF NowSent, NowDone
    <2> QED
      BY <1>2, <2>1, <2>2, Lengths
  <1> HIDE DEF NowSent, NowDone
  <1>7. CASE ClientReceive
    BY <1>2, <1>7, ReceiveStep, Lengths
  <1>8. CASE ClientFails \/ ClientReadsRest
    BY <1>2, <1>8, LostStep, Lengths
  <1>9. CASE ServerRespond
    BY <1>2, <1>9, RespondStep, Lengths
  <1>10. CASE Ending
    BY <1>2, <1>10, EndingStep
  <1> QED
    BY <1>2, <1>3, <1>4, <1>5, <1>6, <1>7, <1>8, <1>9, <1>10
    DEF Next, ClientNext, ServerNext, Ending

LEMMA InStepKept ==
  ASSUME TypeInv, TypeInv', InStep, Next \/ UNCHANGED vars, ~Reconnect
  PROVE  InStep'
  <1> SUFFICES ASSUME slips' = 0, dups' = 0 PROVE InStep'
    BY DEF InStep
  <1>1. slips = 0 /\ dups = 0
    <2>1. slips \in Nat /\ dups \in Nat
      BY BoundsAssumption DEF TypeInv, TypeOK
    <2>2. ASSUME NEW op \in Op, ClientSend(op) PROVE slips = slips' /\ dups = dups'
      BY <2>2, SendStep
    <2> QED
      BY <2>1, <2>2, ReceiveStep, LostStep, TakeStep, RespondStep, RepeatStep, EndingStep
      DEF Next, ClientNext, ServerNext, Ending
  <1>2. /\ \A i \in 1 .. Len(s2c) : s2c[i] # Rest /\ s2c[i].nonce = Len(asked)
        /\ Len(s2c) <= 1
        /\ Len(s2c) > 0 => cpc # "prompt" /\ serving = NoFrame /\ (spc # "gone" => Len(c2s) = 0)
        /\ serving # NoFrame => cpc # "prompt" /\ serving.nonce = Len(asked) /\ Len(c2s) = 0
        /\ spc # "gone" => /\ Len(c2s) <= 1
                           /\ Len(c2s) > 0 => cpc # "prompt" /\ c2s[1].nonce = Len(asked)
    BY <1>1 DEF InStep
  <1>3. /\ Len(c2s) \in Nat /\ Len(s2c) \in Nat /\ Len(asked) \in Nat
    BY Lengths
  <1>4. ASSUME NEW op \in Op, ClientSend(op) PROVE InStep'
    <2>1. /\ Len(asked') = Len(asked) + 1 /\ Len(c2s') = Len(c2s) + 1
          /\ c2s'[Len(c2s) + 1] = [nonce |-> Len(asked) + 1, op |-> op]
          /\ cpc = "prompt" /\ cpc' = "wait"
          /\ UNCHANGED <<s2c, spc, serving>>
      BY <1>4, SendStep
    <2>2. Len(s2c) = 0 /\ serving = NoFrame /\ (spc # "gone" => Len(c2s) = 0)
      BY <1>2, <1>3, <2>1
    <2> QED
      BY <1>3, <2>1, <2>2 DEF InStep
  <1>5. CASE ClientReceive
    <2>1. Len(s2c') = 0 /\ serving = NoFrame /\ (spc # "gone" => Len(c2s) = 0)
      BY <1>2, <1>3, <1>5, ReceiveStep
    <2> QED
      BY <1>5, <2>1, ReceiveStep DEF InStep
  <1>6. CASE ClientFails \/ ClientReadsRest
    <2>1. slips' = slips /\ Len(s2c) > 0 /\ s2c[1] = Rest
      BY <1>1, <1>6, LostStep
    <2> QED
      BY <1>2, <1>3, <2>1
  <1>7. CASE ServerReceive
    <2>1. /\ Len(c2s) = 1 /\ Len(c2s') = 0 /\ cpc # "prompt" /\ c2s[1].nonce = Len(asked)
          /\ Len(s2c) = 0 /\ UNCHANGED <<cpc, asked, s2c>>
      BY <1>2, <1>3, <1>7, TakeStep
    <2>2. serving' # NoFrame => serving' = c2s[1]
      BY <1>7, TakeStep
    <2> QED
      BY <2>1, <2>2 DEF InStep
  <1>8. CASE ServerRespond
    <2>1. /\ Len(s2c') = 1 /\ s2c'[1] = serving /\ serving # Rest /\ serving.nonce = Len(asked)
          /\ cpc # "prompt" /\ Len(c2s) = 0 /\ serving' = NoFrame
          /\ UNCHANGED <<cpc, asked, c2s>>
      BY <1>2, <1>3, <1>8, RespondStep
    <2> QED
      BY <2>1 DEF InStep
  <1>9. CASE Duplicate
    <2>1. dups' > 0
      BY <1>9, RepeatStep
    <2> QED
      BY <2>1
  <1>10. CASE Ending
    <2>1. UNCHANGED <<asked, c2s, s2c>>
      BY <1>10, EndingStep
    <2>2. \/ UNCHANGED <<spc, serving>> /\ cpc' \in {cpc, "gone"}
          \/ UNCHANGED <<spc, serving>> /\ spc = "gone" /\ s2c = <<>>
          \/ UNCHANGED cpc /\ spc' = "gone" /\ serving' = NoFrame
      BY <1>10, EndingStep
    <2>3. s2c = <<>> => Len(s2c) = 0
      BY EmptyFacts
    <2>4. spc = "gone" => serving = NoFrame
      BY DEF TypeInv, TypeOK
    <2> QED
      BY <1>2, <2>1, <2>2, <2>3, <2>4 DEF InStep
  <1> QED
    BY <1>4, <1>5, <1>6, <1>7, <1>8, <1>9, <1>10 DEF Next, ClientNext, ServerNext, Ending

LEMMA AcceptedKept ==
  ASSUME TypeInv, TypeInv', FramesSent, InStep, AcceptedAnswers,
         Next \/ UNCHANGED vars, ~Reconnect
  PROVE  AcceptedAnswers'
  <1> SUFFICES ASSUME NEW n \in DOMAIN accepted'
               PROVE  /\ accepted'[n] <= n
                      /\ asked'[accepted'[n]] = asked'[n]
                      /\ \E i \in 1 .. Len(executed') : executed'[i] = accepted'[n]
                      /\ slips' = 0 /\ dups' = 0 => accepted'[n] = n
    BY DEF AcceptedAnswers
  <1>1. /\ \A m \in Nat : Done(m) => \E i \in 1 .. Len(executed') : executed'[i] = m
        /\ \A m \in 1 .. Len(asked) : asked'[m] = asked[m]
        /\ Len(asked') >= Len(asked)
    BY FactsLast
  <1>2. /\ DOMAIN accepted \subseteq 1 .. Len(asked)
        /\ \A m \in DOMAIN accepted : accepted[m] \in Nat \ {0}
        /\ slips \in Nat /\ dups \in Nat /\ Len(asked) \in Nat
    BY BoundsAssumption DEF TypeInv, TypeOK, Nonce
  <1>3. slips' = 0 /\ dups' = 0 => slips = 0 /\ dups = 0
    <2>1. ASSUME NEW op \in Op, ClientSend(op) PROVE slips = slips' /\ dups = dups'
      BY <2>1, SendStep
    <2> QED
      BY <1>2, <2>1, ReceiveStep, LostStep, TakeStep, RespondStep, RepeatStep, EndingStep
      DEF Next, ClientNext, ServerNext, Ending
  <1>4. ASSUME n \in DOMAIN accepted, accepted'[n] = accepted[n]
        PROVE  /\ accepted'[n] <= n
               /\ asked'[accepted'[n]] = asked'[n]
               /\ \E i \in 1 .. Len(executed') : executed'[i] = accepted'[n]
               /\ slips' = 0 /\ dups' = 0 => accepted'[n] = n
    <2>1. /\ accepted[n] <= n /\ asked[accepted[n]] = asked[n]
          /\ Done(accepted[n])
          /\ slips = 0 /\ dups = 0 => accepted[n] = n
      BY <1>4 DEF AcceptedAnswers, Done
    <2>2. n \in 1 .. Len(asked) /\ accepted[n] \in 1 .. Len(asked) /\ accepted[n] \in Nat
      BY <1>2, <1>4, <2>1
    <2>3. asked'[accepted[n]] = asked'[n]
      BY <1>1, <2>1, <2>2
    <2> QED
      BY <1>1, <1>3, <1>4, <2>1, <2>2, <2>3
  <1>5. CASE ClientReceive
    <2> DEFINE f == s2c[1]
    <2>1. /\ Len(s2c) > 0 /\ f # Rest /\ f = Head(s2c) /\ Current = Len(asked)
          /\ UNCHANGED <<asked, slips, executed, dups>>
      BY <1>5, ReceiveStep
    <2>2. f \in Frame /\ f.nonce \in Nat \ {0} /\ 1 \in 1 .. Len(s2c)
      BY <2>1, Lengths
    <2>3. f.nonce <= Len(asked) /\ f.op = asked[f.nonce] /\ Done(f.nonce)
      BY <2>1, <2>2 DEF FramesSent, Sent
    <2>4. slips = 0 /\ dups = 0 => f.nonce = Len(asked)
      BY <2>2 DEF InStep
    <2>5. \/ n \in DOMAIN accepted /\ accepted'[n] = accepted[n]
          \/ n = Current /\ accepted'[n] = Head(s2c).nonce /\ Answers(Head(s2c))
      BY <1>5 DEF ClientReceive
    <2>6. CASE n = Current /\ accepted'[n] = Head(s2c).nonce /\ Answers(Head(s2c))
      <3>1. n = Len(asked) /\ accepted'[n] = f.nonce /\ f.op = asked[Len(asked)]
        BY <2>1, <2>6 DEF Answers
      <3> HIDE DEF f
      <3> QED
        BY <2>1, <2>3, <2>4, <3>1 DEF Done
    <2> QED
      BY <1>4, <2>5, <2>6
  <1>6. CASE ~ClientReceive
    <2>1. ASSUME NEW op \in Op, ClientSend(op) PROVE accepted' = accepted
      BY <2>1, SendStep
    <2>2. accepted' = accepted
      BY <1>6, <2>1, LostStep, TakeStep, RespondStep, RepeatStep, EndingStep
      DEF Next, ClientNext, ServerNext, Ending
    <2> QED
      BY <1>4, <2>2
  <1> QED
    BY <1>5, <1>6

LEMMA AnswerStarts == (Init => AnswerInv) /\ (TypeInv /\ Reconnect => AnswerInv')
  <1>1. Init => AnswerInv
    BY InitTyped, EmptyFacts
    DEF Init, AnswerInv, FramesSent, InStep, AcceptedAnswers, NoAnswers
  <1>2. TypeInv /\ Reconnect => AnswerInv'
    BY OtherTyped, EmptyFacts
    DEF Reconnect, AnswerInv, FramesSent, InStep, AcceptedAnswers, NoAnswers
  <1> QED
    BY <1>1, <1>2

\* The answer a client accepts was made for a request of the same opcode that the
\* server handled, and not a later one; with nothing repeated and no failed read
\* it is the answer to that very request.
THEOREM AnswersAccepted == Spec => []AcceptedAnswers
  <1>1. Init => AnswerInv
    BY AnswerStarts
  <1>2. AnswerInv /\ [Next]_vars => AnswerInv'
    <2> SUFFICES ASSUME AnswerInv, [Next]_vars PROVE AnswerInv'
      OBVIOUS
    <2>1. CASE Reconnect
      BY <2>1, AnswerStarts DEF AnswerInv
    <2>2. CASE ~Reconnect
      BY <2>2, NextTyped, FramesSentKept, InStepKept, AcceptedKept DEF AnswerInv
    <2> QED
      BY <2>1, <2>2
  <1>3. AnswerInv => AcceptedAnswers
    BY DEF AnswerInv
  <1> QED
    BY <1>1, <1>2, <1>3, PTL DEF Spec

-----------------------------------------------------------------------------
(* A connection that repeats nothing.                                      *)

\* The requests under way are the latest ones, in order, and those handled are
\* earlier ones, in order.
Ordered ==
  dups = 0 =>
    /\ Len(c2s) <= Len(asked)
    /\ \A i \in 1 .. Len(c2s) : c2s[i].nonce = Len(asked) - Len(c2s) + i
    /\ \A i \in 1 .. Len(executed) : executed[i] <= Len(asked) - Len(c2s)
    /\ \A i, j \in 1 .. Len(executed) : i < j => executed[i] < executed[j]

LEMMA OrderedKept ==
  ASSUME TypeInv, TypeInv', Ordered, Next \/ UNCHANGED vars, ~Reconnect
  PROVE  Ordered'
  <1> SUFFICES ASSUME dups' = 0 PROVE Ordered'
    BY DEF Ordered
  <1>1. dups = 0
    <2>1. dups \in Nat
      BY BoundsAssumption DEF TypeInv, TypeOK
    <2>2. ASSUME NEW op \in Op, ClientSend(op) PROVE dups = dups'
      BY <2>2, SendStep
    <2> QED
      BY <2>1, <2>2, ReceiveStep, LostStep, TakeStep, RespondStep, RepeatStep, EndingStep
      DEF Next, ClientNext, ServerNext, Ending
  <1>2. /\ Len(c2s) <= Len(asked)
        /\ \A i \in 1 .. Len(c2s) : c2s[i].nonce = Len(asked) - Len(c2s) + i
        /\ \A i \in 1 .. Len(executed) : executed[i] <= Len(asked) - Len(c2s)
        /\ \A i, j \in 1 .. Len(executed) : i < j => executed[i] < executed[j]
    BY <1>1 DEF Ordered
  <1>3. /\ Len(c2s) \in Nat /\ Len(asked) \in Nat /\ Len(executed) \in Nat
        /\ \A i \in 1 .. Len(executed) : executed[i] \in Nat
    BY Lengths
  <1>4. ASSUME NEW op \in Op, ClientSend(op) PROVE Ordered'
    <2>1. /\ Len(asked') = Len(asked) + 1 /\ Len(c2s') = Len(c2s) + 1
          /\ \A i \in 1 .. Len(c2s) : c2s'[i] = c2s[i]
          /\ c2s'[Len(c2s) + 1] = [nonce |-> Len(asked) + 1, op |-> op]
          /\ executed' = executed
      BY <1>4, SendStep
    <2>2. ASSUME NEW i \in 1 .. Len(c2s')
          PROVE  c2s'[i].nonce = Len(asked') - Len(c2s') + i
      <3>1. CASE i = Len(c2s) + 1
        BY <1>3, <2>1, <3>1
      <3>2. CASE i \in 1 .. Len(c2s)
        <4>1. c2s'[i].nonce = Len(asked) - Len(c2s) + i
          BY <1>2, <2>1, <3>2
        <4> QED
          BY <1>3, <2>1, <4>1
      <3>3. i = Len(c2s) + 1 \/ i \in 1 .. Len(c2s)
        BY <1>3, <2>1
      <3> QED
        BY <3>1, <3>2, <3>3
    <2>3. Len(asked') - Len(c2s') = Len(asked) - Len(c2s) /\ Len(c2s') <= Len(asked')
      BY <1>2, <1>3, <2>1
    <2>4. \A i \in 1 .. Len(executed') : executed'[i] <= Len(asked') - Len(c2s')
      BY <1>2, <2>1, <2>3
    <2>5. \A i, j \in 1 .. Len(executed') : i < j => executed'[i] < executed'[j]
      BY <1>2, <2>1
    <2> QED
      BY <2>2, <2>3, <2>4, <2>5 DEF Ordered
  <1>5. CASE ServerReceive
    <2>1. /\ Len(c2s) > 0 /\ Len(c2s') = Len(c2s) - 1
          /\ \A i \in 1 .. Len(c2s') : c2s'[i] = c2s[i + 1]
          /\ asked' = asked
      BY <1>5, TakeStep
    <2>2. ASSUME NEW i \in 1 .. Len(c2s')
          PROVE  c2s'[i].nonce = Len(asked') - Len(c2s') + i
      <3>1. i + 1 \in 1 .. Len(c2s)
        BY <1>3, <2>1
      <3>2. c2s'[i].nonce = Len(asked) - Len(c2s) + (i + 1)
        BY <1>2, <2>1, <3>1
      <3> QED
        BY <1>3, <2>1, <3>2
    <2>3. c2s[1].nonce = Len(asked) - Len(c2s) + 1
      BY <1>2, <1>3, <2>1
    <2>4. /\ \A i \in 1 .. Len(executed') : executed'[i] <= Len(asked') - Len(c2s')
          /\ \A i, j \in 1 .. Len(executed') : i < j => executed'[i] < executed'[j]
      <3>1. CASE executed' = executed
        BY <1>2, <1>3, <2>1, <3>1
      <3>2. CASE /\ Len(executed') = Len(executed) + 1
                 /\ \A i \in 1 .. Len(executed) : executed'[i] = executed[i]
                 /\ executed'[Len(executed) + 1] = c2s[1].nonce
        <4>1. \A i \in 1 .. Len(executed') :
                \/ i \in 1 .. Len(executed) /\ executed'[i] = executed[i]
                \/ i = Len(executed) + 1 /\ executed'[i] = Len(asked) - Len(c2s) + 1
          BY <1>3, <2>3, <3>2
        <4>2. Len(asked') - Len(c2s') = Len(asked) - Len(c2s) + 1
          BY <1>3, <2>1
        <4>3. \A i \in 1 .. Len(executed') : executed'[i] <= Len(asked') - Len(c2s')
          BY <1>2, <1>3, <4>1, <4>2
        <4>4. ASSUME NEW i \in 1 .. Len(executed'), NEW j \in 1 .. Len(executed'), i < j
              PROVE  executed'[i] < executed'[j]
          <5>1. i \in 1 .. Len(executed) /\ executed'[i] = executed[i]
            BY <1>3, <3>2, <4>4
          <5>2. CASE j \in 1 .. Len(executed) /\ executed'[j] = executed[j]
            BY <1>2, <4>4, <5>1, <5>2
          <5>3. CASE executed'[j] = Len(asked) - Len(c2s) + 1
            BY <1>2, <1>3, <5>1, <5>3
          <5> QED
            BY <4>1, <5>2, <5>3
        <4> QED
          BY <4>3, <4>4
      <3> QED
        BY <1>5, <3>1, <3>2, TakeStep
    <2> QED
      BY <1>2, <1>3, <2>1, <2>2, <2>4 DEF Ordered
  <1>6. CASE Duplicate
    BY <1>6, RepeatStep
  <1>7. CASE ClientReceive \/ ClientFails \/ ClientReadsRest \/ ServerRespond \/ Ending
    <2>1. UNCHANGED <<asked, c2s, executed>>
      BY <1>7, ReceiveStep, LostStep, RespondStep, EndingStep
    <2> QED
      BY <1>2, <2>1 DEF Ordered
  <1> QED
    BY <1>4, <1>5, <1>6, <1>7 DEF Next, ClientNext, ServerNext, Ending

\* Whatever is lost or fails, and although the loop serves a frame whose nonce it
\* has seen: a request is handled twice only if the network delivers it twice.
THEOREM OnceUnlessRepeated == Spec => [](dups = 0 => ExecutedOnce)
  <1> DEFINE Inv == TypeInv /\ Ordered
  <1>1. Init => Inv
    BY InitTyped, EmptyFacts DEF Init, Ordered
  <1>2. Inv /\ [Next]_vars => Inv'
    <2> SUFFICES ASSUME Inv, [Next]_vars PROVE Inv'
      OBVIOUS
    <2>1. CASE Reconnect
      <3>1. Ordered'
        BY <2>1, EmptyFacts DEF Reconnect, Ordered
      <3> QED
        BY <3>1, NextTyped
    <2>2. CASE ~Reconnect
      BY <2>2, NextTyped, OrderedKept
    <2> QED
      BY <2>1, <2>2
  <1>3. Inv => (dups = 0 => ExecutedOnce)
    <2> SUFFICES ASSUME TypeInv, Ordered, dups = 0,
                        NEW i \in 1 .. Len(executed), NEW j \in 1 .. Len(executed),
                        executed[i] = executed[j], i # j
                 PROVE  FALSE
      BY DEF ExecutedOnce
    <2>1. i < j => executed[i] < executed[j]
      BY DEF Ordered
    <2>2. j < i => executed[j] < executed[i]
      BY DEF Ordered
    <2> QED
      BY <2>1, <2>2, Lengths
  <1> QED
    BY <1>1, <1>2, <1>3, PTL DEF Spec

-----------------------------------------------------------------------------
(* How far a client is behind, on a connection that repeats nothing.       *)

\* What the client has not read of the answers keeps its distance from the end of
\* the stream.
LEMMA LostAlign ==
  ASSUME TypeInv, ClientFails \/ ClientReadsRest
  PROVE  /\ Len(s2c') \in Nat /\ Len(s2c') <= Len(s2c)
         /\ \A i \in 1 .. Len(s2c') :
              s2c'[i] = Rest \/ s2c'[i] = s2c[i + (Len(s2c) - Len(s2c'))]
         /\ cpc' = "prompt"
         /\ UNCHANGED <<asked, accepted, c2s, spc, serving, dups>>
  <1> DEFINE V == Frame \cup {Rest}
             t == Tail(s2c)
             Aligned(s) ==
               /\ Len(s) \in Nat /\ Len(s) <= Len(s2c)
               /\ \A i \in 1 .. Len(s) : s[i] = Rest \/ s[i] = s2c[i + (Len(s2c) - Len(s))]
  <1>1. s2c \in Seq(V) /\ Rest \in V
    BY DEF TypeInv, TypeOK
  <1>2. /\ cpc' = "prompt" /\ UNCHANGED <<asked, accepted, c2s, spc, serving, dups>>
        /\ \/ s2c' = s2c
           \/ s2c # <<>> /\ s2c' \in {t, <<Rest>> \o t}
           \/ s2c # <<>> /\ Len(s2c) > 1 /\ s2c' = <<Rest>> \o Tail(t)
    BY DEF ClientFails, ClientReadsRest, serverVars, cacheVars
  <1>3. Aligned(s2c)
    BY <1>1
  <1>4. ASSUME s2c # <<>>
        PROVE  /\ Aligned(t) /\ Aligned(<<Rest>> \o t)
               /\ Len(s2c) > 1 => Aligned(<<Rest>> \o Tail(t))
    <2>1. /\ t \in Seq(V) /\ Len(t) = Len(s2c) - 1 /\ Len(s2c) \in Nat /\ Len(s2c) > 0
          /\ \A i \in 1 .. Len(t) : t[i] = s2c[i + 1]
      BY <1>1, <1>4, TailFacts
    <2> HIDE DEF t
    <2>2. Aligned(t)
      BY <2>1
    <2>3. ASSUME NEW r \in Seq(V)
          PROVE  /\ Len(<<Rest>> \o r) = Len(r) + 1 /\ Len(r) \in Nat
                 /\ \A i \in 1 .. Len(r) + 1 :
                      \/ i = 1 /\ (<<Rest>> \o r)[i] = Rest
                      \/ i - 1 \in 1 .. Len(r) /\ (<<Rest>> \o r)[i] = r[i - 1]
      <3> HIDE DEF V
      <3>1. <<Rest>> \in Seq(V) /\ Len(<<Rest>>) = 1 /\ <<Rest>>[1] = Rest /\ Len(r) \in Nat
        BY <1>1
      <3>2. /\ Len(<<Rest>> \o r) = 1 + Len(r)
            /\ \A i \in 1 .. 1 : (<<Rest>> \o r)[i] = <<Rest>>[i]
            /\ \A i \in 2 .. 1 + Len(r) : (<<Rest>> \o r)[i] = r[i - 1]
        BY <3>1, JoinFacts
      <3> QED
        BY <3>1, <3>2
    <2>4. Aligned(<<Rest>> \o t)
      <3>1. Len(<<Rest>> \o t) = Len(s2c)
        BY <2>1, <2>3
      <3>2. ASSUME NEW i \in 1 .. Len(s2c)
            PROVE  (<<Rest>> \o t)[i] = Rest \/ (<<Rest>> \o t)[i] = s2c[i]
        BY <2>1, <2>3, <3>2
      <3> QED
        BY <2>1, <3>1, <3>2
    <2>5. ASSUME Len(s2c) > 1 PROVE Aligned(<<Rest>> \o Tail(t))
      <3> DEFINE r == Tail(t)
      <3>1. /\ r \in Seq(V) /\ Len(r) = Len(t) - 1
            /\ \A k \in 1 .. Len(r) : r[k] = t[k + 1]
        <4> HIDE DEF V
        <4> QED
          BY <2>1, <2>5, TailFacts, EmptyFacts
      <3> HIDE DEF r
      <3>2. Len(<<Rest>> \o r) = Len(s2c) - 1
        BY <2>1, <2>3, <3>1
      <3>3. ASSUME NEW i \in 1 .. Len(s2c) - 1
            PROVE  (<<Rest>> \o r)[i] = Rest \/ (<<Rest>> \o r)[i] = s2c[i + 1]
        <4>1. CASE i = 1
          BY <2>1, <2>3, <3>1, <4>1
        <4>2. CASE i - 1 \in 1 .. Len(r)
          <5>1. (<<Rest>> \o r)[i] = r[i - 1]
            BY <2>1, <2>3, <3>1, <4>2
          <5>2. r[i - 1] = t[i] /\ i \in 1 .. Len(t)
            BY <2>1, <3>1, <4>2
          <5> QED
            BY <2>1, <5>1, <5>2
        <4> QED
          BY <2>1, <3>1, <4>1, <4>2
      <3>4. Aligned(<<Rest>> \o r)
        BY <2>1, <3>2, <3>3
      <3> QED
        BY <3>4 DEF r
    <2> QED
      BY <2>2, <2>4, <2>5
  <1>5. Aligned(s2c')
    <2> HIDE DEF Aligned, t
    <2> QED
      BY <1>2, <1>3, <1>4
  <1> QED
    BY <1>2, <1>5

\* An answer accepted adds one request to those that have one.
LEMMA AcceptedCount ==
  ASSUME TypeInv
  PROVE  /\ Cardinality(DOMAIN accepted) \in Nat
         /\ ClientReceive => /\ Cardinality(DOMAIN accepted') \in Nat
                             /\ Cardinality(DOMAIN accepted') <= Cardinality(DOMAIN accepted) + 1
  <1>1. IsFiniteSet(DOMAIN accepted)
    <2>1. IsFiniteSet(1 .. Len(asked))
      BY Lengths, FS_Interval
    <2> QED
      BY <2>1, FS_Subset DEF TypeInv, TypeOK
  <1>2. Cardinality(DOMAIN accepted) \in Nat
    BY <1>1, FS_CardinalityType
  <1>3. ASSUME ClientReceive
        PROVE  DOMAIN accepted' = DOMAIN accepted \/ DOMAIN accepted' = DOMAIN accepted \cup {Current}
    BY <1>3 DEF ClientReceive
  <1>4. /\ Cardinality(DOMAIN accepted \cup {Current}) \in Nat
        /\ Cardinality(DOMAIN accepted \cup {Current}) <= Cardinality(DOMAIN accepted) + 1
    BY <1>1, <1>2, FS_AddElement, FS_CardinalityType
  <1> QED
    BY <1>2, <1>3, <1>4

Held == IF serving = NoFrame THEN 0 ELSE 1

\* BehindByFailures, queue by queue: the answers to be read, the request being
\* served and, in Ordered, the requests to come are the latest ones, in order.
Behind ==
  dups = 0 /\ spc # "gone" =>
    /\ \A i \in 1 .. Len(s2c) :
         s2c[i] # Rest => s2c[i].nonce = Len(asked) - Len(c2s) - Held - (Len(s2c) - i)
    /\ serving # NoFrame => serving.nonce = Len(asked) - Len(c2s)
    /\ Len(s2c) + Held + Len(c2s) <= Len(asked) - Cardinality(DOMAIN accepted)
    /\ cpc = "wait" => Len(s2c) + Held + Len(c2s) > 0

LEMMA BehindKept ==
  ASSUME TypeInv, Ordered, Behind, Next \/ UNCHANGED vars, ~Reconnect
  PROVE  Behind'
  <1> SUFFICES ASSUME dups' = 0, spc' # "gone" PROVE Behind'
    BY DEF Behind
  <1>1. dups = 0 /\ spc # "gone"
    <2>1. dups \in Nat
      BY BoundsAssumption DEF TypeInv, TypeOK
    <2>2. ASSUME NEW op \in Op, ClientSend(op) PROVE dups = dups' /\ spc = spc'
      BY <2>2, SendStep
    <2> QED
      BY <2>1, <2>2, ReceiveStep, LostStep, TakeStep, RespondStep, RepeatStep, EndingStep
      DEF Next, ClientNext, ServerNext, Ending
  <1> DEFINE N == Len(asked)
             B == Len(s2c)
             C == Len(c2s)
             A == Cardinality(DOMAIN accepted)
  <1>2. /\ \A i \in 1 .. B : s2c[i] # Rest => s2c[i].nonce = N - C - Held - (B - i)
        /\ serving # NoFrame => serving.nonce = N - C
        /\ B + Held + C <= N - A
        /\ cpc = "wait" => B + Held + C > 0
    BY <1>1 DEF Behind
  <1>3. C <= N /\ \A i \in 1 .. C : c2s[i].nonce = N - C + i
    BY <1>1 DEF Ordered
  <1>4. N \in Nat /\ B \in Nat /\ C \in Nat /\ A \in Nat /\ Held \in {0, 1}
    BY Lengths, AcceptedCount DEF Held
  <1>5. ASSUME NEW op \in Op, ClientSend(op) PROVE Behind'
    <2>1. /\ Len(asked') = N + 1 /\ Len(c2s') = C + 1
          /\ UNCHANGED <<accepted, s2c, serving>>
      BY <1>5, SendStep
    <2>2. Held' = Held
      BY <2>1 DEF Held
    <2> QED
      BY <1>2, <1>4, <2>1, <2>2 DEF Behind
  <1>6. CASE ClientReceive
    <2>1. /\ B > 0 /\ Len(s2c') = B - 1
          /\ \A i \in 1 .. Len(s2c') : s2c'[i] = s2c[i + 1]
          /\ cpc' = "prompt" /\ UNCHANGED <<asked, c2s, serving>>
      BY <1>6, ReceiveStep
    <2>2. Held' = Held
      BY <2>1 DEF Held
    <2>3. Cardinality(DOMAIN accepted') \in Nat /\ Cardinality(DOMAIN accepted') <= A + 1
      BY <1>6, AcceptedCount
    <2>4. ASSUME NEW i \in 1 .. Len(s2c'), s2c'[i] # Rest
          PROVE  s2c'[i].nonce = N - C - Held - (Len(s2c') - i)
      <3>1. i + 1 \in 1 .. B /\ s2c'[i] = s2c[i + 1]
        BY <1>4, <2>1
      <3>2. s2c'[i].nonce = N - C - Held - (B - (i + 1))
        BY <1>2, <2>4, <3>1
      <3> QED
        BY <1>4, <2>1, <3>2
    <2> QED
      BY <1>2, <1>4, <2>1, <2>2, <2>3, <2>4 DEF Behind
  <1>7. CASE ClientFails \/ ClientReadsRest
    <2>1. /\ Len(s2c') \in Nat /\ Len(s2c') <= B
          /\ \A i \in 1 .. Len(s2c') : s2c'[i] = Rest \/ s2c'[i] = s2c[i + (B - Len(s2c'))]
          /\ cpc' = "prompt"
          /\ UNCHANGED <<asked, accepted, c2s, serving>>
      BY <1>7, LostAlign
    <2>2. Held' = Held
      BY <2>1 DEF Held
    <2>3. ASSUME NEW i \in 1 .. Len(s2c'), s2c'[i] # Rest
          PROVE  s2c'[i].nonce = N - C - Held - (Len(s2c') - i)
      <3>1. i + (B - Len(s2c')) \in 1 .. B /\ s2c'[i] = s2c[i + (B - Len(s2c'))]
        BY <1>4, <2>1, <2>3
      <3>2. s2c'[i].nonce = N - C - Held - (B - (i + (B - Len(s2c'))))
        BY <1>2, <2>3, <3>1
      <3> QED
        BY <1>4, <2>1, <3>2
    <2> QED
      BY <1>2, <1>4, <2>1, <2>2, <2>3 DEF Behind
  <1>8. CASE ServerReceive
    <2>1. /\ C > 0 /\ Len(c2s') = C - 1 /\ c2s[1] \in Frame
          /\ serving = NoFrame /\ serving' = c2s[1]
          /\ UNCHANGED <<cpc, asked, accepted, s2c>>
      BY <1>8, TakeStep
    <2>2. Held = 0 /\ Held' = 1
      BY <2>1, FrameAssumption DEF Held
    <2>3. serving'.nonce = N - (C - 1)
      BY <1>3, <1>4, <2>1
    <2> QED
      BY <1>2, <1>4, <2>1, <2>2, <2>3 DEF Behind
  <1>9. CASE ServerRespond
    <2>1. /\ Len(s2c') = B + 1
          /\ \A i \in 1 .. B : s2c'[i] = s2c[i]
          /\ s2c'[B + 1] = serving
          /\ serving # NoFrame /\ serving' = NoFrame
          /\ UNCHANGED <<cpc, asked, accepted, c2s>>
      BY <1>9, RespondStep
    <2>2. Held = 1 /\ Held' = 0
      BY <2>1 DEF Held
    <2>3. ASSUME NEW i \in 1 .. B + 1, s2c'[i] # Rest
          PROVE  s2c'[i].nonce = N - C - 0 - (B + 1 - i)
      <3>1. CASE i = B + 1
        BY <1>2, <1>4, <2>1, <3>1
      <3>2. CASE i \in 1 .. B
        <4>1. s2c'[i].nonce = N - C - 1 - (B - i)
          BY <1>2, <2>1, <2>2, <2>3, <3>2
        <4> QED
          BY <1>4, <4>1
      <3> QED
        BY <1>4, <3>1, <3>2
    <2> QED
      BY <1>2, <1>4, <2>1, <2>2, <2>3 DEF Behind
  <1>10. CASE Duplicate
    BY <1>10, RepeatStep
  <1>11. CASE Ending
    <2>1. UNCHANGED <<asked, accepted, c2s, s2c, serving>> /\ cpc' \in {cpc, "gone"}
      BY <1>1, <1>11, EndingStep
    <2>2. Held' = Held
      BY <2>1 DEF Held
    <2> QED
      BY <1>2, <2>1, <2>2 DEF Behind
  <1> QED
    BY <1>5, <1>6, <1>7, <1>8, <1>9, <1>10, <1>11 DEF Next, ClientNext, ServerNext, Ending

\* The three queues are what is pending, in one row.
LEMMA PendingParts ==
  ASSUME TypeInv
  PROVE  /\ Len(Pending) = Len(s2c) + Held + Len(c2s)
         /\ \A i \in 1 .. Len(s2c) : Pending[i] = s2c[i]
         /\ serving # NoFrame => Pending[Len(s2c) + 1] = serving
         /\ \A i \in 1 .. Len(c2s) : Pending[Len(s2c) + Held + i] = c2s[i]
         /\ Len(Pending) > 0 => Pending # <<>>
  <1> DEFINE V == Frame \cup {Rest}
             one == IF serving = NoFrame THEN <<>> ELSE <<serving>>
  <1>1. s2c \in Seq(V) /\ c2s \in Seq(V) /\ one \in Seq(V)
    <2>1. s2c \in Seq(V) /\ c2s \in Seq(Frame)
      BY DEF TypeInv, TypeOK
    <2>2. c2s \in Seq(V)
      <3>1. \A i \in 1 .. Len(c2s) : c2s[i] \in V
        BY <2>1
      <3> QED
        BY <2>1, <3>1
    <2>3. serving # NoFrame => serving \in V
      BY DEF TypeInv, TypeOK
    <2> HIDE DEF V
    <2> QED
      BY <2>1, <2>2, <2>3
  <1>2. Len(one) = Held /\ (serving # NoFrame => one[1] = serving)
    BY DEF Held
  <1> HIDE DEF V, one
  <1>3. /\ s2c \o one \in Seq(V) /\ Len(s2c \o one) = Len(s2c) + Held
        /\ \A i \in 1 .. Len(s2c) : (s2c \o one)[i] = s2c[i]
        /\ \A i \in Len(s2c) + 1 .. Len(s2c) + Held : (s2c \o one)[i] = one[i - Len(s2c)]
    BY <1>1, <1>2, JoinFacts
  <1> DEFINE p == s2c \o one
  <1> HIDE DEF p
  <1>4. p \in Seq(V) /\ Len(p) = Len(s2c) + Held
    BY <1>3 DEF p
  <1>5. /\ Len(p \o c2s) = Len(p) + Len(c2s)
        /\ \A i \in 1 .. Len(p) : (p \o c2s)[i] = p[i]
        /\ \A i \in Len(p) + 1 .. Len(p) + Len(c2s) : (p \o c2s)[i] = c2s[i - Len(p)]
    BY <1>1, <1>4, JoinFacts
  <1>6. Pending = p \o c2s
    BY DEF Pending, p, one
  <1>7. Len(s2c) \in Nat /\ Len(c2s) \in Nat /\ Held \in {0, 1}
    BY Lengths DEF Held
  <1>8. \A i \in 1 .. Len(s2c) : Pending[i] = s2c[i]
    BY <1>3, <1>4, <1>5, <1>6, <1>7 DEF p
  <1>9. serving # NoFrame => Pending[Len(s2c) + 1] = serving
    <2> SUFFICES ASSUME serving # NoFrame PROVE Pending[Len(s2c) + 1] = serving
      OBVIOUS
    <2>1. Held = 1
      BY DEF Held
    <2>2. p[Len(s2c) + 1] = one[1]
      BY <1>3, <1>7, <2>1 DEF p
    <2> QED
      BY <1>2, <1>4, <1>5, <1>6, <1>7, <2>1, <2>2
  <1>10. ASSUME NEW i \in 1 .. Len(c2s) PROVE Pending[Len(s2c) + Held + i] = c2s[i]
    <2>1. Len(p) + i \in Len(p) + 1 .. Len(p) + Len(c2s) /\ (Len(p) + i) - Len(p) = i
      BY <1>4, <1>7
    <2> QED
      BY <1>4, <1>5, <1>6, <2>1
  <1>11. Len(Pending) > 0 => Pending # <<>>
    BY EmptyFacts
  <1> QED
    BY <1>4, <1>5, <1>6, <1>8, <1>9, <1>10, <1>11

\* On a connection that repeats nothing, what the client has not read yet are the
\* answers to its latest requests, in order and without a gap, and no more of
\* them than it has commands without an accepted answer.
THEOREM BehindByNoMore == Spec => []BehindByFailures
  <1> DEFINE Inv == TypeInv /\ Ordered /\ Behind
  <1>1. Init => Inv
    <2> SUFFICES ASSUME Init PROVE Behind
      BY InitTyped, EmptyFacts DEF Init, Ordered
    <2>1. /\ s2c = <<>> /\ c2s = <<>> /\ asked = <<>> /\ serving = NoFrame /\ cpc = "prompt"
          /\ DOMAIN accepted = {}
      BY DEF Init, NoAnswers
    <2> QED
      BY <2>1, EmptyFacts, FS_EmptySet DEF Behind, Held
  <1>2. Inv /\ [Next]_vars => Inv'
    <2> SUFFICES ASSUME Inv, [Next]_vars PROVE Inv'
      OBVIOUS
    <2>1. CASE Reconnect
      <3>1. /\ s2c' = <<>> /\ c2s' = <<>> /\ asked' = <<>> /\ serving' = NoFrame
            /\ executed' = <<>> /\ cpc' = "prompt" /\ DOMAIN accepted' = {}
        BY <2>1 DEF Reconnect, NoAnswers
      <3>2. Ordered'
        BY <3>1, EmptyFacts DEF Ordered
      <3>3. Behind'
        BY <3>1, EmptyFacts, FS_EmptySet DEF Behind, Held
      <3> QED
        BY <3>2, <3>3, NextTyped
    <2>2. CASE ~Reconnect
      BY <2>2, NextTyped, OrderedKept, BehindKept
    <2> QED
      BY <2>1, <2>2
  <1>3. Inv => BehindByFailures
    <2> SUFFICES ASSUME TypeInv, Ordered, Behind, dups = 0, spc # "gone"
                 PROVE  /\ \A i \in 1 .. Len(Pending) : Pending[i] # Rest =>
                             Pending[i].nonce = Len(asked) - Len(Pending) + i
                        /\ Len(Pending) <= Len(asked) - Cardinality(DOMAIN accepted)
                        /\ cpc = "wait" => Pending # <<>>
      BY DEF BehindByFailures
    <2>1. Len(s2c) \in Nat /\ Len(c2s) \in Nat /\ Len(asked) \in Nat /\ Held \in {0, 1}
      BY Lengths DEF Held
    <2>2. Len(Pending) = Len(s2c) + Held + Len(c2s)
      BY PendingParts
    <2>3. ASSUME NEW i \in 1 .. Len(Pending), Pending[i] # Rest
          PROVE  Pending[i].nonce = Len(asked) - Len(Pending) + i
      <3>1. CASE i \in 1 .. Len(s2c)
        <4>1. Pending[i].nonce = Len(asked) - Len(c2s) - Held - (Len(s2c) - i)
          BY <2>3, <3>1, PendingParts DEF Behind
        <4> QED
          BY <2>1, <2>2, <3>1, <4>1
      <3>2. CASE i = Len(s2c) + 1 /\ serving # NoFrame
        <4>1. Pending[i].nonce = Len(asked) - Len(c2s) /\ Held = 1
          BY <3>2, PendingParts DEF Behind, Held
        <4> QED
          BY <2>1, <2>2, <3>2, <4>1
      <3>3. CASE i > Len(s2c) + Held
        <4> DEFINE k == i - (Len(s2c) + Held)
        <4>1. k \in 1 .. Len(c2s) /\ i = Len(s2c) + Held + k
          BY <2>1, <2>2, <3>3
        <4>2. Pending[i].nonce = Len(asked) - Len(c2s) + k
          BY <4>1, PendingParts DEF Ordered
        <4> QED
          BY <2>1, <2>2, <4>1, <4>2
      <3> QED
        BY <2>1, <3>1, <3>2, <3>3 DEF Held
    <2> QED
      BY <2>3, PendingParts DEF Behind
  <1> QED
    BY <1>1, <1>2, <1>3, PTL DEF Spec

-----------------------------------------------------------------------------
(* What the replay cache reports.                                          *)

\* The ring holds nonces of requests that were handled, each in one slot, and
\* while it has room it holds all of them.
CacheInv ==
  /\ capacity = Capacity /\ count \in 0 .. capacity /\ next_index \in 0 .. capacity - 1
  /\ DOMAIN entries = 0 .. capacity - 1
  /\ count < capacity => next_index = count
  /\ \A i \in 0 .. count - 1 : entries[i] \in Handled
  /\ \A i, j \in 0 .. count - 1 : entries[i] = entries[j] => i = j
  /\ count < capacity => \A n \in Handled : \E i \in 0 .. count - 1 : entries[i] = n

LEMMA CacheEmpty ==
  /\ Init => CacheInv
  /\ Reconnect => CacheInv'
  <1>1. executed = <<>> => Handled = {}
    BY EmptyFacts DEF Handled
  <1>2. executed' = <<>> => Handled' = {}
    BY EmptyFacts DEF Handled
  <1> QED
    BY <1>1, <1>2, RingAssumption DEF Init, Reconnect, CacheInv, EmptyRing

\* Only a request that is handled adds to what was handled, itself and no other.
LEMMA HandledGrows ==
  ASSUME TypeInv
  PROVE  /\ IsFiniteSet(Handled)
         /\ ServerReceive =>
              \E n \in Nonce :
                /\ CheckNonce(Head(c2s)) /\ n = Head(c2s).nonce
                /\ result' >= 0 => /\ Len(executed') = Len(executed) + 1
                                   /\ executed'[Len(executed')] = n
                                   /\ Handled' = Handled \cup {n}
  <1>1. executed \in Seq(Nonce) /\ Len(executed) \in Nat
    BY DEF TypeInv, TypeOK
  <1>2. IsFiniteSet(Handled)
    <2>1. IsFiniteSet(Nonce)
      BY BoundsAssumption, FS_Interval DEF Nonce
    <2>2. Handled \in SUBSET Nonce
      BY <1>1 DEF Handled
    <2> QED
      BY <2>1, <2>2, FS_Subset
  <1>3. ASSUME ServerReceive
        PROVE  \E n \in Nonce :
                 /\ CheckNonce(Head(c2s)) /\ n = Head(c2s).nonce
                 /\ result' >= 0 => /\ Len(executed') = Len(executed) + 1
                                    /\ executed'[Len(executed')] = n
                                    /\ Handled' = Handled \cup {n}
    <2>1. Head(c2s) \in Frame
      BY <1>3, TailFacts DEF ServerReceive, TypeInv, TypeOK
    <2>2. PICK n \in Nonce : n = Head(c2s).nonce
      BY <2>1 DEF Frame
    <2>3. ASSUME result' >= 0
          PROVE  /\ Len(executed') = Len(executed) + 1
                 /\ executed'[Len(executed')] = n
                 /\ Handled' = Handled \cup {n}
      <3>1. ~(result' < 0)
        <4>1. result' \in {-1, 0, 1}
          BY <1>3 DEF ServerReceive, CheckNonce, Cache!replay_check_and_add
        <4> QED
          BY <2>3, <4>1
      <3>2. executed' = Append(executed, n)
        BY <1>3, <2>2, <3>1 DEF ServerReceive
      <3>3. /\ Len(executed') = Len(executed) + 1
            /\ \A i \in 1 .. Len(executed) : executed'[i] = executed[i]
            /\ executed'[Len(executed) + 1] = n
        BY <1>1, <3>2, AppendFacts
      <3> QED
        BY <1>1, <3>3 DEF Handled
    <2> QED
      BY <1>3, <2>2, <2>3 DEF ServerReceive
  <1> QED
    BY <1>2, <1>3

\* A nonce the scan finds leaves the ring as it is; any other goes to the head.
LEMMA RingStep ==
  ASSUME TypeInv, CacheInv, ServerReceive, NEW n \in Nonce, n = Head(c2s).nonce
  PROVE  \/ /\ result' = 0 /\ UNCHANGED <<entries, capacity, count, next_index>>
            /\ \E i \in 0 .. count - 1 : entries[i] = n
         \/ /\ result' = 1 /\ \A i \in 0 .. count - 1 : entries[i] # n
            /\ entries' = [entries EXCEPT ![next_index] = n]
            /\ next_index' = IF next_index + 1 < capacity THEN next_index + 1 ELSE 0
            /\ count' = IF count < capacity THEN count + 1 ELSE count
            /\ capacity' = capacity
  <1>1. capacity # 0 /\ capacity \in Nat \ {0} /\ next_index \in 0 .. capacity - 1
    BY RingAssumption DEF CacheInv
  <1>2. (next_index + 1) % capacity = IF next_index + 1 < capacity THEN next_index + 1 ELSE 0
    BY <1>1, HeadMoves
  <1>3. Cache!replay_check_and_add(n)
    BY DEF ServerReceive, CheckNonce
  <1> QED
    BY <1>1, <1>2, <1>3
    DEF Cache!replay_check_and_add, Cache!Seen, Cache!Store, Cache!cacheVars

LEMMA CacheKept ==
  ASSUME TypeInv, CacheInv, Next \/ UNCHANGED vars, ~Reconnect
  PROVE  CacheInv'
  <1>1. CASE ServerReceive
    <2>1. PICK n \in Nonce :
            /\ n = Head(c2s).nonce
            /\ result' >= 0 => Handled' = Handled \cup {n}
      BY <1>1, HandledGrows
    <2>2. CASE /\ result' = 0 /\ UNCHANGED <<entries, capacity, count, next_index>>
               /\ \E i \in 0 .. count - 1 : entries[i] = n
      BY <2>1, <2>2 DEF CacheInv
    <2>3. CASE /\ result' = 1 /\ \A i \in 0 .. count - 1 : entries[i] # n
               /\ entries' = [entries EXCEPT ![next_index] = n]
               /\ next_index' = IF next_index + 1 < capacity THEN next_index + 1 ELSE 0
               /\ count' = IF count < capacity THEN count + 1 ELSE count
               /\ capacity' = capacity
      <3>1. Handled' = Handled \cup {n}
        BY <2>1, <2>3
      <3>2. /\ capacity = Capacity /\ Capacity \in Nat \ {0}
            /\ count \in 0 .. capacity /\ next_index \in 0 .. capacity - 1
            /\ DOMAIN entries = 0 .. capacity - 1
            /\ count < capacity => next_index = count
        BY RingAssumption DEF CacheInv
      <3>3. /\ DOMAIN entries' = 0 .. capacity - 1 /\ entries'[next_index] = n
            /\ \A i \in 0 .. capacity - 1 : i # next_index => entries'[i] = entries[i]
        BY <2>3, <3>2
      <3>4. /\ count' \in 0 .. capacity' /\ next_index' \in 0 .. capacity' - 1
            /\ count' < capacity' => next_index' = count'
            /\ \A i \in 0 .. count' - 1 : i = next_index \/ i \in 0 .. count - 1
            /\ next_index \in 0 .. count' - 1
        BY <2>3, <3>2
      <3>5. \A i \in 0 .. count' - 1 : entries'[i] \in Handled'
        BY <2>3, <3>1, <3>2, <3>3, <3>4 DEF CacheInv
      <3>6. \A i, j \in 0 .. count' - 1 : entries'[i] = entries'[j] => i = j
        BY <2>3, <3>2, <3>3, <3>4 DEF CacheInv
      <3>7. ASSUME count' < capacity', NEW m \in Handled'
            PROVE  \E i \in 0 .. count' - 1 : entries'[i] = m
        <4>1. count < capacity /\ next_index = count /\ count' = count + 1
          BY <2>3, <3>2, <3>7
        <4>2. CASE m = n
          BY <3>3, <3>4, <4>2
        <4>3. CASE m \in Handled
          <5>1. PICK i \in 0 .. count - 1 : entries[i] = m
            BY <4>1, <4>3 DEF CacheInv
          <5>2. i \in 0 .. count' - 1 /\ i \in 0 .. capacity - 1 /\ i # next_index
            BY <3>2, <4>1
          <5> QED
            BY <3>3, <5>1, <5>2
        <4> QED
          BY <3>1, <4>2, <4>3
      <3> QED
        BY <2>3, <3>2, <3>3, <3>4, <3>5, <3>6, <3>7 DEF CacheInv
    <2> QED
      BY <1>1, <2>1, <2>2, <2>3, RingStep
  <1>2. CASE ~ServerReceive
    <2>1. UNCHANGED <<executed, entries, capacity, count, next_index>>
      BY <1>2 DEF Next, ClientNext, ServerNext, ClientSend, ClientReceive, ClientFails,
        ClientReadsRest, ClientSeesEnd, ClientLeaves, ServerRespond, ServerFails,
        ServerSeesEnd, Duplicate, vars, clientVars, serverVars, cacheVars
    <2> QED
      BY <2>1 DEF CacheInv, Handled
  <1> QED
    BY <1>1, <1>2

\* The nonces in a ring that is full and does not hold n are that many others.
LEMMA PushedOut ==
  ASSUME TypeInv, CacheInv, NEW n \in Handled, \A i \in 0 .. count - 1 : entries[i] # n
  PROVE  Cardinality(Handled \ {n}) >= capacity
  <1>1. count = capacity /\ capacity \in Nat /\ DOMAIN entries = 0 .. capacity - 1
    BY RingAssumption DEF CacheInv
  <1> DEFINE S == 0 .. capacity - 1
             T == Handled \ {n}
             f == [i \in S |-> entries[i]]
  <1>2. f \in Injection(S, T)
    <2>1. \A i \in S : f[i] = entries[i] /\ entries[i] \in T
      BY <1>1 DEF CacheInv
    <2>2. \A i, j \in S : f[i] = f[j] => i = j
      BY <1>1, <2>1 DEF CacheInv
    <2>3. f \in [S -> T]
      BY <2>1
    <2> QED
      BY <2>2, <2>3 DEF Injection, IsInjective
  <1>3. IsFiniteSet(T) /\ Cardinality(T) \in Nat
    <2>1. IsFiniteSet(Handled)
      BY HandledGrows
    <2> QED
      BY <2>1, FS_RemoveElement, FS_CardinalityType
  <1>4. Cardinality(S) = capacity /\ IsFiniteSet(S)
    BY <1>1, FS_Interval
  <1> HIDE DEF S, T, f
  <1>5. Cardinality(S) <= Cardinality(T)
    BY <1>2, <1>3, FS_Injection
  <1> QED
    BY <1>1, <1>3, <1>4, <1>5 DEF T

\* What replay_check_and_add tells the loop is true: a nonce reported as seen was
\* handled before, and one that was handled is reported as fresh only after as
\* many others as the ring has slots.
THEOREM CacheTellsTruth == Spec => CacheNotices
  <1> DEFINE Inv == TypeInv /\ CacheInv
             Truth == Len(executed') > Len(executed) =>
                        LET n == executed'[Len(executed')] IN
                          /\ result' = 0 => n \in Handled
                          /\ n \in Handled /\ result' = 1 => Cardinality(Handled \ {n}) >= capacity
  <1>1. Init => Inv
    BY InitTyped, CacheEmpty
  <1>2. Inv /\ [Next]_vars => Inv'
    BY NextTyped, CacheEmpty, CacheKept DEF vars
  <1>3. Inv /\ [Next]_vars => [Truth]_vars
    <2> SUFFICES ASSUME Inv, Next, Len(executed') > Len(executed)
                 PROVE  /\ result' = 0 => executed'[Len(executed')] \in Handled
                        /\ executed'[Len(executed')] \in Handled /\ result' = 1 =>
                             Cardinality(Handled \ {executed'[Len(executed')]}) >= capacity
      OBVIOUS
    <2>1. ServerReceive
      <3>1. Len(executed) \in Nat
        BY DEF TypeInv, TypeOK
      <3>2. executed' # executed /\ ~Reconnect
        BY <3>1, EmptyFacts DEF Reconnect
      <3> QED
        BY <3>2 DEF Next, ClientNext, ServerNext, ClientSend, ClientReceive, ClientFails,
          ClientReadsRest, ClientSeesEnd, ClientLeaves, ServerRespond, ServerFails,
          ServerSeesEnd, Duplicate, serverVars
    <2>2. PICK n \in Nonce :
            /\ n = Head(c2s).nonce
            /\ result' >= 0 => executed'[Len(executed')] = n
      BY <2>1, HandledGrows
    <2>3. CASE result' = 0 /\ \E i \in 0 .. count - 1 : entries[i] = n
      BY <2>2, <2>3 DEF CacheInv
    <2>4. CASE result' = 1 /\ \A i \in 0 .. count - 1 : entries[i] # n
      BY <2>2, <2>4, PushedOut
    <2> QED
      BY <2>1, <2>2, <2>3, <2>4, RingStep
  <1> QED
    BY <1>1, <1>2, <1>3, PTL DEF Spec, CacheNotices

=============================================================================
