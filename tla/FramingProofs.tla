---------------------------- MODULE FramingProofs ----------------------------
(***************************************************************************)
(* For frames of any number and any lengths, moved in parts of any size:   *)
(* the types of Framing, what arrives while no call has failed, and what   *)
(* cannot arrive even after that.                                          *)
(***************************************************************************)
EXTENDS Framing, SeqFacts, TLAPS

-----------------------------------------------------------------------------
(* Types.                                                                  *)

\* Bytes of the frames begun so far.
Sent == {b \in Nat \X Nat : b[1] \in 1 .. Len(sizes) /\ b[2] \in 1 .. FrameLen(b[1])}

\* What a stage waits for, and what is left when the receiver's end is closed.
Stages ==
  /\ stage = "length" => want = LengthSize
  /\ stage = "header" => want = LengthSize + HeaderSize
  /\ ~ropen => got = <<>> /\ stage = "length"

Typed ==
  /\ TypeOK /\ Stages
  /\ sizes \in Seq(Payload) /\ delivered \in Seq(Nat) /\ total \in Nat
  /\ got \in Seq(Sent) /\ wire \in Seq(Sent) /\ todo \in Seq(Sent)

LEMMA TypedStarts == Init => Typed
  <1> SUFFICES ASSUME Init PROVE Typed
    OBVIOUS
  <1>1. /\ <<>> \in Seq(Payload) /\ <<>> \in Seq(Nat) /\ <<>> \in Seq(Sent)
        /\ Len(sizes) = 0 /\ Len(wire) = 0 /\ Len(got) = 0
    BY EmptyFacts DEF Init
  <1> QED
    BY <1>1, SizeAssumption, PayloadAssumption, BoundsAssumption DEF Init, Typed, TypeOK, Stages

\* Begun frames stay what they are when the next one begins.
LEMMA SentGrows ==
  ASSUME Typed, NEW n \in Payload, sizes' = Append(sizes, n)
  PROVE  /\ Len(sizes') = Len(sizes) + 1 /\ sizes' \in Seq(Payload)
         /\ \A f \in 1 .. Len(sizes) : sizes'[f] = sizes[f] /\ FrameLen(f)' = FrameLen(f)
         /\ sizes'[Len(sizes')] = n
         /\ Sent \subseteq Sent'
  <1>1. /\ Len(sizes') = Len(sizes) + 1 /\ sizes' \in Seq(Payload)
        /\ \A f \in 1 .. Len(sizes) : sizes'[f] = sizes[f]
        /\ sizes'[Len(sizes) + 1] = n
    BY AppendFacts DEF Typed
  <1>2. \A f \in 1 .. Len(sizes) : FrameLen(f)' = FrameLen(f)
    BY <1>1 DEF FrameLen
  <1>3. 1 .. Len(sizes) \subseteq 1 .. Len(sizes')
    BY <1>1 DEF Typed
  <1>4. Sent \subseteq Sent'
    BY <1>2, <1>3 DEF Sent
  <1> QED
    BY <1>1, <1>2, <1>4

LEMMA FrameBytes ==
  ASSUME Typed, NEW n \in Payload, n <= MaxPayload, sizes' = Append(sizes, n),
         todo' = Bytes(Len(sizes) + 1, 1, LengthSize + HeaderSize + n)
  PROVE  /\ todo' \in Seq(Sent')
         /\ Len(todo') = LengthSize + HeaderSize + n
         /\ FrameLen(Len(sizes))' = LengthSize + HeaderSize + n
         /\ \A i \in 1 .. Len(todo') : todo'[i] = <<Len(sizes'), i>>
  <1> DEFINE m == LengthSize + HeaderSize + n
  <1>1. Len(sizes) \in Nat /\ n \in Nat /\ m \in Nat
    BY SizeAssumption, PayloadAssumption DEF Typed
  <1>2. PICK f \in Nat : f = Len(sizes) + 1
    BY <1>1
  <1>3. Len(sizes') = f /\ sizes'[f] = n /\ f \in 1 .. f
    BY <1>1, <1>2, SentGrows
  <1>4. FrameLen(f)' = m
    BY <1>3 DEF FrameLen, m
  <1> HIDE DEF m
  <1>5. todo' = Bytes(f, 1, m)
    BY <1>2 DEF m
  <1>6. m - 1 + 1 = m /\ \A i \in 1 .. m : 1 + i - 1 = i
    BY <1>1
  <1>7. todo' = [i \in 1 .. m |-> <<f, i>>]
    <2>1. todo' = [i \in 1 .. m - 1 + 1 |-> <<f, 1 + i - 1>>]
      BY <1>5 DEF Bytes
    <2> QED
      BY <1>6, <2>1
  <1>8. ASSUME NEW i \in 1 .. m PROVE <<f, i>> \in Sent'
    <2>1. <<f, i>> \in Nat \X Nat /\ <<f, i>>[1] = f /\ <<f, i>>[2] = i
      BY <1>1
    <2> QED
      BY <1>3, <1>4, <2>1 DEF Sent
  <1>9. todo' \in Seq(Sent') /\ Len(todo') = m
    BY <1>1, <1>7, <1>8
  <1>10. FrameLen(Len(sizes))' = m
    BY <1>3 DEF FrameLen, m
  <1> QED
    BY <1>3, <1>7, <1>9, <1>10 DEF m

\* A step that begins no frame leaves what was sent as it is.
LEMMA SentKept == UNCHANGED sizes => Sent' = Sent
  BY DEF Sent, FrameLen

\* The receiver starts over, with the bytes it has read or without them.
LEMMA RestartTyped ==
  Restart => /\ got' \in Seq(Sent') /\ Len(got') <= want'
             /\ stage' = "length" /\ want' = LengthSize /\ total' \in Nat
             /\ got' = <<>> /\ want' \in LengthSize .. LengthSize + HeaderSize + MaxPayload
  <1> SUFFICES ASSUME Restart
               PROVE  /\ got' \in Seq(Sent') /\ Len(got') <= want'
                      /\ stage' = "length" /\ want' = LengthSize /\ total' \in Nat
                      /\ got' = <<>> /\ want' \in LengthSize .. LengthSize + HeaderSize + MaxPayload
    OBVIOUS
  <1>1. got' = <<>> /\ stage' = "length" /\ want' = LengthSize /\ total' = 0
    BY DEF Restart
  <1>2. Len(got') = 0
    BY <1>1, EmptyFacts
  <1>3. got' \in Seq(Sent')
    <2>1. <<>> \in Seq(Sent')
      BY EmptyFacts
    <2> QED
      BY <1>1, <2>1
  <1>4. LengthSize \in LengthSize .. LengthSize + HeaderSize + MaxPayload
    BY SizeAssumption, PayloadAssumption
  <1>5. 0 <= LengthSize
    BY SizeAssumption
  <1> QED
    BY <1>1, <1>2, <1>3, <1>4, <1>5

\* Bytes in step are the beginning of a frame that was begun.
LEMMA InStepSent ==
  ASSUME Typed, InStep
  PROVE  /\ got[1][1] \in 1 .. Len(sizes) /\ sizes[got[1][1]] \in 0 .. MaxPayload
  <1>1. got # <<>> /\ got \in Seq(Sent)
    BY DEF InStep, Typed
  <1>2. got[1] \in Sent
    BY <1>1, TailFacts
  <1>3. got[1][1] \in 1 .. Len(sizes)
    BY <1>2 DEF Sent
  <1>4. \A f \in 1 .. Len(sizes) : sizes[f] \in Nat /\ sizes[f] <= MaxPayload
    BY PayloadAssumption DEF Typed, TypeOK
  <1>5. sizes[got[1][1]] \in Nat /\ sizes[got[1][1]] <= MaxPayload
    BY <1>3, <1>4
  <1> QED
    BY <1>3, <1>5, PayloadAssumption

LEMMA LengthsRead ==
  ASSUME Typed
  PROVE  LengthRead \subseteq Nat /\ PayloadRead \subseteq Nat
  BY InStepSent, SizeAssumption, PayloadAssumption DEF LengthRead, PayloadRead

LEMMA SendTyped ==
  ASSUME Typed, NEW n \in Payload, dsspacket_send(n)
  PROVE  Typed'
  <1>1. n <= MaxPayload /\ sizes' = Append(sizes, n) /\ Len(sizes) < MaxFrames
        /\ todo' = Bytes(Len(sizes) + 1, 1, LengthSize + HeaderSize + n)
        /\ UNCHANGED <<sopen, wire, receiverVars, fails>>
    BY DEF dsspacket_send, Accepted
  <1>2. /\ Len(sizes') = Len(sizes) + 1 /\ sizes' \in Seq(Payload)
        /\ \A f \in 1 .. Len(sizes) : sizes'[f] = sizes[f]
        /\ sizes'[Len(sizes')] = n
        /\ Sent \subseteq Sent'
    BY <1>1, SentGrows
  <1>3. todo' \in Seq(Sent')
    BY <1>1, FrameBytes
  <1>4. got' \in Seq(Sent') /\ wire' \in Seq(Sent')
    BY <1>1, <1>2 DEF Typed, receiverVars
  <1>5. Len(sizes) \in Nat /\ Len(sizes') <= MaxFrames
    BY <1>1, <1>2, BoundsAssumption DEF Typed
  <1>6. \A f \in 1 .. Len(sizes') : sizes'[f] \in Payload /\ sizes'[f] <= MaxPayload
    <2>1. \A f \in 1 .. Len(sizes') : f \in 1 .. Len(sizes) \/ f = Len(sizes')
      BY <1>2, <1>5
    <2> QED
      BY <1>1, <1>2, <2>1 DEF Typed, TypeOK
  <1> QED
    BY <1>1, <1>2, <1>3, <1>4, <1>5, <1>6 DEF Typed, TypeOK, Stages, receiverVars

LEMMA SendAllTyped ==
  ASSUME Typed, send_all
  PROVE  Typed'
  <1>1. PICK k \in 1 .. Len(todo) :
          /\ Len(wire) + k <= Buffer
          /\ wire' = wire \o SubSeq(todo, 1, k)
          /\ todo' = SubSeq(todo, k + 1, Len(todo))
    BY DEF send_all, RestToSend
  <1>2. UNCHANGED <<sizes, sopen, receiverVars, fails>>
    BY DEF send_all
  <1>3. k \in 0 .. Len(todo) /\ todo \in Seq(Sent) /\ wire \in Seq(Sent)
    BY DEF Typed
  <1>4. /\ SubSeq(todo, 1, k) \in Seq(Sent) /\ Len(SubSeq(todo, 1, k)) = k
        /\ todo' \in Seq(Sent)
    BY <1>1, <1>3, CutFacts
  <1>5. wire' \in Seq(Sent) /\ Len(wire') = Len(wire) + k
    BY <1>1, <1>3, <1>4, JoinFacts
  <1>6. Sent' = Sent
    BY <1>2, SentKept
  <1> QED
    BY <1>1, <1>2, <1>4, <1>5, <1>6 DEF Typed, TypeOK, Stages, receiverVars

LEMMA RecvAllTyped ==
  ASSUME Typed, recv_all
  PROVE  Typed'
  <1>1. PICK k \in 1 .. want - Len(got) :
          /\ k <= Len(wire)
          /\ got' = got \o SubSeq(wire, 1, k)
          /\ wire' = SubSeq(wire, k + 1, Len(wire))
    BY DEF recv_all, Missing
  <1>2. /\ UNCHANGED <<senderVars, stage, want, total, delivered, ropen, refused, fails>>
        /\ ropen
    BY DEF recv_all
  <1>3. k \in 0 .. Len(wire) /\ got \in Seq(Sent) /\ wire \in Seq(Sent) /\ want \in Int
    BY <1>1 DEF Typed, TypeOK
  <1>4. /\ SubSeq(wire, 1, k) \in Seq(Sent) /\ Len(SubSeq(wire, 1, k)) = k
        /\ wire' \in Seq(Sent) /\ Len(wire') = Len(wire) - k
    BY <1>1, <1>3, CutFacts
  <1>5. got' \in Seq(Sent) /\ Len(got') = Len(got) + k
    BY <1>1, <1>3, <1>4, JoinFacts
  <1>6. Len(got') <= want /\ Len(wire') <= Len(wire)
    BY <1>1, <1>3, <1>4, <1>5
  <1>7. Sent' = Sent
    BY <1>2, SentKept DEF senderVars
  <1>8. Len(wire') <= Buffer
    BY <1>3, <1>4, <1>6, BoundsAssumption DEF Typed, TypeOK
  <1> QED
    BY <1>2, <1>4, <1>5, <1>6, <1>7, <1>8 DEF Typed, TypeOK, Stages, senderVars

LEMMA GiveUpTyped ==
  ASSUME Typed, GiveUp, UNCHANGED <<senderVars, wire, fails>>,
         ropen \/ got # <<>>
  PROVE  Typed'
  <1>1. /\ got' \in Seq(Sent') /\ Len(got') <= want'
        /\ stage' = "length" /\ want' = LengthSize /\ total' \in Nat
        /\ got' = <<>> /\ want' \in LengthSize .. LengthSize + HeaderSize + MaxPayload
    BY RestartTyped DEF GiveUp
  <1>2. Sent' = Sent
    BY SentKept DEF senderVars
  <1>3. ropen' \in BOOLEAN /\ refused' = refused + 1 /\ delivered' = delivered
    BY DEF GiveUp
  <1>4. refused' \in Nat
    BY <1>3 DEF Typed, TypeOK
  <1> QED
    BY <1>1, <1>2, <1>3, <1>4 DEF Typed, TypeOK, Stages, senderVars

LEMMA DeliverTyped ==
  ASSUME Typed, Deliver(got), got # <<>>, UNCHANGED <<senderVars, wire, fails>>
  PROVE  Typed'
  <1>1. /\ got' \in Seq(Sent') /\ Len(got') <= want'
        /\ stage' = "length" /\ want' = LengthSize /\ total' \in Nat
        /\ got' = <<>> /\ want' \in LengthSize .. LengthSize + HeaderSize + MaxPayload
    BY RestartTyped DEF Deliver
  <1>2. Sent' = Sent
    BY SentKept DEF senderVars
  <1>3. got[1] \in Sent
    BY TailFacts DEF Typed
  <1>4. got[1][1] \in Nat
    BY <1>3 DEF Sent
  <1>5. \E f \in Nat : delivered' = Append(delivered, f)
    BY <1>4 DEF Deliver
  <1>6. delivered' \in Seq(Nat)
    BY <1>5, AppendFacts DEF Typed
  <1>7. UNCHANGED <<ropen, refused>>
    BY DEF Deliver
  <1> QED
    BY <1>1, <1>2, <1>6, <1>7 DEF Typed, TypeOK, Stages, senderVars

\* A length field asks for no more than a frame of the largest size.
LEMMA TotalTyped ==
  ASSUME Typed, TotalRead
  PROVE  Typed'
  <1>1. /\ stage = "length" /\ Len(got) = want
        /\ UNCHANGED <<senderVars, wire, fails>>
    BY DEF TotalRead
  <1>2. want = LengthSize /\ got # <<>>
    BY <1>1, SizeAssumption, EmptyFacts DEF Typed, Stages
  <1>3. PICK t \in LengthRead :
          IF t >= HeaderSize /\ t - HeaderSize <= MaxPayload
          THEN /\ total' = t
               /\ stage' = "header"
               /\ want' = want + HeaderSize
               /\ UNCHANGED <<got, delivered, ropen, refused>>
          ELSE GiveUp
    BY DEF TotalRead
  <1>4. CASE GiveUp
    BY <1>1, <1>2, <1>4, GiveUpTyped
  <1>5. CASE ~GiveUp
    <2>1. /\ total' = t /\ t \in Nat
          /\ stage' = "header" /\ want' = LengthSize + HeaderSize
          /\ UNCHANGED <<got, delivered, ropen, refused>>
      BY <1>2, <1>3, <1>5, LengthsRead
    <2>2. Sent' = Sent
      BY <1>1, SentKept DEF senderVars
    <2>3. /\ LengthSize + HeaderSize \in LengthSize .. LengthSize + HeaderSize + MaxPayload
          /\ Len(got) <= LengthSize + HeaderSize
          /\ LengthSize + HeaderSize >= LengthSize + HeaderSize
      BY <1>1, <1>2, SizeAssumption, PayloadAssumption
    <2>4. ropen
      BY <1>2 DEF Typed, Stages
    <2> QED
      BY <1>1, <2>1, <2>2, <2>3, <2>4 DEF Typed, TypeOK, Stages, senderVars
  <1> QED
    BY <1>4, <1>5

LEMMA HeaderTyped ==
  ASSUME Typed, HeaderRead
  PROVE  Typed'
  <1>1. /\ stage = "header" /\ Len(got) = want
        /\ UNCHANGED <<senderVars, wire, fails>>
    BY DEF HeaderRead
  <1>2. want = LengthSize + HeaderSize /\ got # <<>>
    BY <1>1, SizeAssumption, EmptyFacts DEF Typed, Stages
  <1>3. PICK p \in PayloadRead :
          IF p > MaxPayload \/ HeaderSize + p # total THEN GiveUp
          ELSE IF p = 0 THEN Deliver(got)
          ELSE /\ stage' = "payload"
               /\ want' = want + p
               /\ UNCHANGED <<got, total, delivered, ropen, refused>>
    BY DEF HeaderRead
  <1>4. CASE GiveUp
    BY <1>1, <1>2, <1>4, GiveUpTyped
  <1>5. CASE Deliver(got)
    BY <1>1, <1>2, <1>5, DeliverTyped
  <1>6. CASE ~GiveUp /\ ~Deliver(got)
    <2>1. /\ p \in Nat /\ p <= MaxPayload /\ HeaderSize + p = total
          /\ stage' = "payload" /\ want' = want + p
          /\ UNCHANGED <<got, total, delivered, ropen, refused>>
      BY <1>3, <1>6, LengthsRead, PayloadAssumption
    <2>2. Sent' = Sent
      BY <1>1, SentKept DEF senderVars
    <2>3. /\ want' \in LengthSize .. LengthSize + HeaderSize + MaxPayload
          /\ want' >= LengthSize + HeaderSize
          /\ want' = LengthSize + total /\ Len(got) <= want'
      BY <1>1, <1>2, <2>1, SizeAssumption, PayloadAssumption
    <2>4. ropen
      BY <1>2 DEF Typed, Stages
    <2> QED
      BY <1>1, <2>1, <2>2, <2>3, <2>4 DEF Typed, TypeOK, Stages, senderVars
  <1> QED
    BY <1>4, <1>5, <1>6

LEMMA RestartsTyped ==
  ASSUME Typed, Restart, ropen' \in BOOLEAN, fails' \in 0 .. MaxFails,
         UNCHANGED <<senderVars, wire, delivered, refused>>
  PROVE  Typed'
  <1>1. /\ got' \in Seq(Sent') /\ Len(got') <= want'
        /\ stage' = "length" /\ want' = LengthSize /\ total' \in Nat
        /\ got' = <<>> /\ want' \in LengthSize .. LengthSize + HeaderSize + MaxPayload
    BY RestartTyped
  <1>2. Sent' = Sent
    BY SentKept DEF senderVars
  <1> QED
    BY <1>1, <1>2 DEF Typed, TypeOK, Stages, senderVars

\* The sender forgets the rest of a frame.
LEMMA DroppedTyped ==
  ASSUME Typed, todo' = <<>>, sopen' \in BOOLEAN, fails' \in 0 .. MaxFails,
         UNCHANGED <<sizes, wire, receiverVars>>
  PROVE  Typed'
  <1>1. todo' \in Seq(Sent)
    <2>1. <<>> \in Seq(Sent)
      BY EmptyFacts
    <2> QED
      BY <2>1
  <1>2. Sent' = Sent
    BY SentKept
  <1> QED
    BY <1>1, <1>2 DEF Typed, TypeOK, Stages, receiverVars

LEMMA ReopenTyped ==
  ASSUME Typed, Reopen
  PROVE  Typed'
  <1>1. /\ sizes' = <<>> /\ todo' = <<>> /\ wire' = <<>> /\ delivered' = <<>>
        /\ got' = <<>> /\ stage' = "length" /\ want' = LengthSize /\ total' = 0
        /\ sopen' = TRUE /\ ropen' = TRUE /\ refused' = 0 /\ fails' = 0
    BY DEF Reopen, Restart
  <1>2. /\ <<>> \in Seq(Payload) /\ <<>> \in Seq(Nat) /\ <<>> \in Seq(Sent')
        /\ Len(sizes') = 0 /\ Len(wire') = 0 /\ Len(got') = 0
    BY <1>1, EmptyFacts
  <1> QED
    BY <1>1, <1>2, SizeAssumption, PayloadAssumption, BoundsAssumption
    DEF Typed, TypeOK, Stages

LEMMA TypedKept == Typed /\ [Next]_vars => Typed'
  <1> SUFFICES ASSUME Typed, [Next]_vars PROVE Typed'
    OBVIOUS
  <1>1. sopen \in BOOLEAN /\ fails \in 0 .. MaxFails
    BY DEF Typed, TypeOK
  <1>2. fails < MaxFails => fails + 1 \in 0 .. MaxFails
    BY <1>1, BoundsAssumption
  <1>3. ASSUME NEW n \in Payload, dsspacket_send(n) PROVE Typed'
    BY <1>3, SendTyped
  <1>4. CASE send_all
    BY <1>4, SendAllTyped
  <1>5. CASE SendFails
    BY <1>1, <1>2, <1>5, DroppedTyped DEF SendFails
  <1>6. CASE SendBroken
    BY <1>1, <1>6, DroppedTyped DEF SendBroken
  <1>7. CASE Close
    BY <1>1, <1>7, DroppedTyped DEF Close
  <1>8. CASE recv_all
    BY <1>8, RecvAllTyped
  <1>9. CASE TotalRead
    BY <1>9, TotalTyped
  <1>10. CASE HeaderRead
    BY <1>10, HeaderTyped
  <1>11. CASE PayloadComplete
    <2>1. Deliver(got) /\ UNCHANGED <<senderVars, wire, fails>> /\ Len(got) = want
      BY <1>11 DEF PayloadComplete
    <2>2. got # <<>>
      BY <2>1, SizeAssumption, EmptyFacts DEF Typed, TypeOK
    <2> QED
      BY <2>1, <2>2, DeliverTyped
  <1>12. CASE ReceiveFails
    BY <1>1, <1>2, <1>12, RestartsTyped DEF ReceiveFails, Typed, TypeOK
  <1>13. CASE EndRead
    BY <1>1, <1>13, RestartsTyped DEF EndRead
  <1>14. CASE ReceiverCloses
    BY <1>1, <1>14, RestartsTyped DEF ReceiverCloses
  <1>15. CASE Reopen
    BY <1>15, ReopenTyped
  <1>16. CASE UNCHANGED vars
    BY <1>16, SentKept DEF vars, senderVars, receiverVars, Typed, TypeOK, Stages
  <1> QED
    BY <1>3, <1>4, <1>5, <1>6, <1>7, <1>8, <1>9, <1>10, <1>11, <1>12, <1>13,
       <1>14, <1>15, <1>16 DEF Next

\* The types of every variable, and with them that no read asks for more than the
\* buffer it was given has room for: recv_all is called with what is missing of a
\* length field, a header, or the payload allocated for it (dsspacket_recv).
THEOREM FramingTypes == Spec => []TypeOK
  <1>1. Spec => []Typed
    BY TypedStarts, TypedKept, PTL DEF Spec
  <1>2. Typed => TypeOK
    BY DEF Typed
  <1> QED
    BY <1>1, <1>2, PTL

-----------------------------------------------------------------------------
(* Frames arrive whole.                                                    *)

\* All bytes that were not handed up yet, in the order they will be read.
StreamLen == Len(got) + Len(wire) + Len(todo)
At(i) ==
  IF i <= Len(got) THEN got[i]
  ELSE IF i <= Len(got) + Len(wire) THEN wire[i - Len(got)]
  ELSE todo[i - Len(got) - Len(wire)]

\* Where a frame starts in the stream, the whole frame is there and the next one
\* follows; only the end of the connection cuts it off.
FrameAt(i) ==
  LET f == At(i)[1] IN
    /\ \A k \in 0 .. FrameLen(f) - 1 : i + k <= StreamLen => At(i + k) = <<f, k + 1>>
    /\ i + FrameLen(f) <= StreamLen => At(i + FrameLen(f)) = <<f + 1, 1>>
    /\ sopen => /\ i + FrameLen(f) <= StreamLen + 1
                /\ i + FrameLen(f) = StreamLen + 1 => f = Len(sizes)

\* The stream begins with the frame after the last one delivered.
NextFrame == Len(delivered) + 1

StreamWhole ==
  /\ StreamLen > 0 => At(1) = <<NextFrame, 1>>
  /\ \A i \in 1 .. StreamLen : At(i)[2] = 1 => FrameAt(i)
  /\ sopen /\ StreamLen = 0 => Len(delivered) = Len(sizes)

\* What the receiver knows of the frame it is reading.
ReadSoFar ==
  stage # "length" => /\ got # <<>>
                      /\ total = HeaderSize + sizes[NextFrame]

Whole ==
  fails = 0 =>
    /\ refused = 0
    /\ Len(delivered) <= Len(sizes)
    /\ \A i \in 1 .. Len(delivered) : delivered[i] = i
    /\ ropen => StreamWhole /\ ReadSoFar

\* Sending and receiving moves bytes along the stream and changes nothing in it.
LEMMA SendMoves ==
  ASSUME Typed, send_all
  PROVE  StreamLen' = StreamLen /\ \A i \in 1 .. StreamLen : At(i)' = At(i)
  <1>1. PICK k \in 1 .. Len(todo) :
          /\ wire' = wire \o SubSeq(todo, 1, k)
          /\ todo' = SubSeq(todo, k + 1, Len(todo))
    BY DEF send_all, RestToSend
  <1>2. got' = got
    BY DEF send_all, receiverVars
  <1>3. /\ k \in 0 .. Len(todo) /\ todo \in Seq(Sent) /\ wire \in Seq(Sent) /\ got \in Seq(Sent)
        /\ Len(got) \in Nat /\ Len(wire) \in Nat /\ Len(todo) \in Nat
    BY DEF Typed
  <1>4. PICK part :
          /\ part \in Seq(Sent) /\ Len(part) = k
          /\ \A i \in 1 .. k : part[i] = todo[i]
          /\ wire' = wire \o part
          /\ Len(todo') = Len(todo) - k
          /\ \A i \in 1 .. Len(todo) - k : todo'[i] = todo[i + k]
    <2>1. PICK part : part = SubSeq(todo, 1, k)
      OBVIOUS
    <2>2. /\ part \in Seq(Sent) /\ Len(part) = k
          /\ \A i \in 1 .. k : part[i] = todo[i]
      BY <1>3, <2>1, CutFacts
    <2>3. PICK rest : rest = SubSeq(todo, k + 1, Len(todo))
      OBVIOUS
    <2>4. /\ Len(rest) = Len(todo) - k
          /\ \A i \in 1 .. Len(todo) - k : rest[i] = todo[i + k]
      BY <1>3, <2>3, CutFacts
    <2>5. wire' = wire \o part /\ todo' = rest
      BY <1>1, <2>1, <2>3
    <2> QED
      BY <2>2, <2>4, <2>5
  <1>5. /\ Len(wire') = Len(wire) + k
        /\ \A i \in 1 .. Len(wire) : wire'[i] = wire[i]
        /\ \A i \in Len(wire) + 1 .. Len(wire) + k : wire'[i] = part[i - Len(wire)]
    BY <1>3, <1>4, JoinFacts
  <1>6. \A i \in Len(wire) + 1 .. Len(wire) + k : wire'[i] = todo[i - Len(wire)]
    BY <1>3, <1>4, <1>5
  <1>7. StreamLen' = StreamLen
    BY <1>2, <1>3, <1>4, <1>5 DEF StreamLen
  <1>8. ASSUME NEW i \in 1 .. StreamLen PROVE At(i)' = At(i)
    <2> DEFINE g == Len(got)
               w == Len(wire)
    <2>1. i \in Int /\ 1 <= i /\ i <= g + w + Len(todo)
      BY <1>3 DEF StreamLen
    <2>2. CASE i <= g
      BY <1>2, <2>2 DEF At
    <2>3. CASE ~(i <= g) /\ i <= g + w
      <3>1. i - g \in 1 .. w /\ i <= g + (w + k)
        BY <1>3, <2>1, <2>3
      <3>2. At(i) = wire[i - g] /\ At(i)' = wire'[i - g]
        BY <1>2, <1>5, <2>3, <3>1 DEF At
      <3> QED
        BY <1>5, <3>1, <3>2
    <2>4. CASE ~(i <= g + w) /\ i <= g + w + k
      <3>1. ~(i <= g) /\ i - g \in w + 1 .. w + k /\ i - g - w = (i - g) - w /\ i <= g + (w + k)
        BY <1>3, <2>1, <2>4
      <3>2. At(i) = todo[i - g - w] /\ At(i)' = wire'[i - g]
        BY <1>2, <1>5, <2>4, <3>1 DEF At
      <3> QED
        BY <1>6, <3>1, <3>2
    <2>5. CASE ~(i <= g + w + k)
      <3>1. /\ ~(i <= g) /\ ~(i <= g + w) /\ ~(i <= g + (w + k))
            /\ i - g - (w + k) \in 1 .. Len(todo) - k
            /\ i - g - (w + k) + k = i - g - w
        BY <1>3, <2>1, <2>5
      <3>2. At(i) = todo[i - g - w] /\ At(i)' = todo'[i - g - (w + k)]
        BY <1>2, <1>5, <3>1 DEF At
      <3> QED
        BY <1>4, <3>1, <3>2
    <2> QED
      BY <2>2, <2>3, <2>4, <2>5
  <1> QED
    BY <1>7, <1>8

LEMMA RecvMoves ==
  ASSUME Typed, recv_all
  PROVE  StreamLen' = StreamLen /\ \A i \in 1 .. StreamLen : At(i)' = At(i)
  <1>1. PICK k \in 1 .. want - Len(got) :
          /\ k <= Len(wire)
          /\ got' = got \o SubSeq(wire, 1, k)
          /\ wire' = SubSeq(wire, k + 1, Len(wire))
    BY DEF recv_all, Missing
  <1>2. todo' = todo
    BY DEF recv_all, senderVars
  <1>3. /\ k \in 0 .. Len(wire) /\ todo \in Seq(Sent) /\ wire \in Seq(Sent) /\ got \in Seq(Sent)
        /\ Len(got) \in Nat /\ Len(wire) \in Nat /\ Len(todo) \in Nat
    BY <1>1 DEF Typed, TypeOK
  <1>4. PICK part :
          /\ part \in Seq(Sent) /\ Len(part) = k
          /\ \A i \in 1 .. k : part[i] = wire[i]
          /\ got' = got \o part
          /\ Len(wire') = Len(wire) - k
          /\ \A i \in 1 .. Len(wire) - k : wire'[i] = wire[i + k]
    <2>1. PICK part : part = SubSeq(wire, 1, k)
      OBVIOUS
    <2>2. /\ part \in Seq(Sent) /\ Len(part) = k
          /\ \A i \in 1 .. k : part[i] = wire[i]
      BY <1>3, <2>1, CutFacts
    <2>3. PICK rest : rest = SubSeq(wire, k + 1, Len(wire))
      OBVIOUS
    <2>4. /\ Len(rest) = Len(wire) - k
          /\ \A i \in 1 .. Len(wire) - k : rest[i] = wire[i + k]
      BY <1>3, <2>3, CutFacts
    <2>5. got' = got \o part /\ wire' = rest
      BY <1>1, <2>1, <2>3
    <2> QED
      BY <2>2, <2>4, <2>5
  <1>5. /\ Len(got') = Len(got) + k
        /\ \A i \in 1 .. Len(got) : got'[i] = got[i]
        /\ \A i \in Len(got) + 1 .. Len(got) + k : got'[i] = part[i - Len(got)]
    BY <1>3, <1>4, JoinFacts
  <1>6. \A i \in Len(got) + 1 .. Len(got) + k : got'[i] = wire[i - Len(got)]
    <2>1. \A i \in Len(got) + 1 .. Len(got) + k : i - Len(got) \in 1 .. k
      BY <1>3
    <2> QED
      BY <1>4, <1>5, <2>1
  <1>7. StreamLen' = StreamLen
    BY <1>2, <1>3, <1>4, <1>5 DEF StreamLen
  <1>8. ASSUME NEW i \in 1 .. StreamLen PROVE At(i)' = At(i)
    <2> DEFINE g == Len(got)
               w == Len(wire)
    <2>1. i \in Int /\ 1 <= i /\ i <= g + w + Len(todo)
      BY <1>3 DEF StreamLen
    <2>2. CASE i <= g
      <3>1. i \in 1 .. g /\ i <= g + k
        BY <1>3, <2>1, <2>2
      <3>2. At(i) = got[i] /\ At(i)' = got'[i]
        BY <1>5, <2>2, <3>1 DEF At
      <3> QED
        BY <1>5, <3>1, <3>2
    <2>3. CASE ~(i <= g) /\ i <= g + k
      <3>1. i \in g + 1 .. g + k /\ i <= g + w
        BY <1>1, <1>3, <2>1, <2>3
      <3>2. At(i) = wire[i - g] /\ At(i)' = got'[i]
        BY <1>5, <2>3, <3>1 DEF At
      <3> QED
        BY <1>6, <3>1, <3>2
    <2>4. CASE ~(i <= g + k) /\ i <= g + w
      <3>1. /\ ~(i <= g) /\ i - (g + k) \in 1 .. w - k /\ i - (g + k) + k = i - g
            /\ i <= (g + k) + (w - k)
        BY <1>3, <2>1, <2>4
      <3>2. At(i) = wire[i - g] /\ At(i)' = wire'[i - (g + k)]
        BY <1>4, <1>5, <2>4, <3>1 DEF At
      <3> QED
        BY <1>4, <3>1, <3>2
    <2>5. CASE ~(i <= g + w)
      <3>1. /\ ~(i <= g) /\ ~(i <= g + k) /\ ~(i <= (g + k) + (w - k))
            /\ i - (g + k) - (w - k) = i - g - w
        BY <1>1, <1>3, <2>1, <2>5
      <3>2. At(i) = todo[i - g - w] /\ At(i)' = todo'[i - (g + k) - (w - k)]
        BY <1>4, <1>5, <2>5, <3>1 DEF At
      <3> QED
        BY <1>2, <3>1, <3>2
    <2> QED
      BY <2>2, <2>3, <2>4, <2>5
  <1> QED
    BY <1>7, <1>8

\* Nor does the end of the connection, which cuts it off.
LEMMA DropCuts ==
  ASSUME Typed, todo' = <<>>, UNCHANGED <<got, wire>>
  PROVE  StreamLen' <= StreamLen /\ \A i \in 1 .. StreamLen' : At(i)' = At(i)
  <1>1. Len(todo') = 0 /\ Len(got) \in Nat /\ Len(wire) \in Nat /\ Len(todo) \in Nat
    BY EmptyFacts DEF Typed
  <1>2. StreamLen' <= StreamLen /\ StreamLen' = Len(got) + Len(wire)
    BY <1>1 DEF StreamLen
  <1>3. ASSUME NEW i \in 1 .. StreamLen' PROVE At(i)' = At(i)
    BY <1>1, <1>2, <1>3 DEF At
  <1> QED
    BY <1>2, <1>3

\* Every byte of the stream is one of a frame that was begun.
LEMMA AtSent ==
  ASSUME Typed
  PROVE  \A i \in 1 .. StreamLen : At(i) \in Sent
  <1>1. /\ todo \in Seq(Sent) /\ wire \in Seq(Sent) /\ got \in Seq(Sent)
        /\ Len(got) \in Nat /\ Len(wire) \in Nat /\ Len(todo) \in Nat
    BY DEF Typed
  <1>2. /\ \A i \in 1 .. Len(got) : got[i] \in Sent
        /\ \A i \in 1 .. Len(wire) : wire[i] \in Sent
        /\ \A i \in 1 .. Len(todo) : todo[i] \in Sent
    BY <1>1
  <1>3. ASSUME NEW i \in 1 .. StreamLen PROVE At(i) \in Sent
    <2>1. i \in Int /\ 1 <= i /\ i <= Len(got) + Len(wire) + Len(todo)
      BY <1>1 DEF StreamLen
    <2>2. CASE i <= Len(got)
      BY <1>2, <2>1, <2>2 DEF At
    <2>3. CASE ~(i <= Len(got)) /\ i <= Len(got) + Len(wire)
      <3>1. i - Len(got) \in 1 .. Len(wire)
        BY <1>1, <2>1, <2>3
      <3> QED
        BY <1>2, <2>3, <3>1 DEF At
    <2>4. CASE ~(i <= Len(got) + Len(wire))
      <3>1. i - Len(got) - Len(wire) \in 1 .. Len(todo) /\ ~(i <= Len(got))
        BY <1>1, <2>1, <2>4
      <3> QED
        BY <1>2, <2>4, <3>1 DEF At
    <2> QED
      BY <2>2, <2>3, <2>4
  <1> QED
    BY <1>3

LEMMA FrameLens ==
  ASSUME Typed
  PROVE  \A f \in 1 .. Len(sizes) :
           FrameLen(f) \in Nat /\ FrameLen(f) > 0 /\ sizes[f] \in 0 .. MaxPayload
  <1>1. \A f \in 1 .. Len(sizes) : sizes[f] \in Nat /\ sizes[f] <= MaxPayload
    BY PayloadAssumption DEF Typed, TypeOK
  <1> QED
    BY <1>1, SizeAssumption, PayloadAssumption DEF FrameLen

LEMMA CutStream ==
  ASSUME Typed, StreamWhole, UNCHANGED <<sizes, delivered>>,
         StreamLen' \in Nat, StreamLen' <= StreamLen,
         \A i \in 1 .. StreamLen' : At(i)' = At(i),
         sopen' => sopen /\ StreamLen' = StreamLen
  PROVE  StreamWhole'
  <1>1. StreamLen \in Nat
    BY DEF StreamLen, Typed
  <1>2. StreamLen' > 0 => At(1)' = <<NextFrame', 1>>
    BY <1>1 DEF StreamWhole, NextFrame
  <1>3. ASSUME NEW i \in 1 .. StreamLen', At(i)'[2] = 1
        PROVE  FrameAt(i)'
    <2>1. i \in 1 .. StreamLen /\ FrameAt(i) /\ At(i)' = At(i)
      BY <1>1, <1>3 DEF StreamWhole
    <2>2. PICK f : f = At(i)[1]
      OBVIOUS
    <2>3. /\ \A k \in 0 .. FrameLen(f) - 1 : i + k <= StreamLen => At(i + k) = <<f, k + 1>>
          /\ i + FrameLen(f) <= StreamLen => At(i + FrameLen(f)) = <<f + 1, 1>>
          /\ sopen => /\ i + FrameLen(f) <= StreamLen + 1
                      /\ i + FrameLen(f) = StreamLen + 1 => f = Len(sizes)
      BY <2>1, <2>2 DEF FrameAt
    <2>4. FrameLen(f)' = FrameLen(f) /\ FrameLen(f) \in Nat \ {0}
      <3>1. f \in 1 .. Len(sizes)
        BY <2>1, <2>2, AtSent DEF Sent
      <3> QED
        BY <3>1, FrameLens DEF FrameLen
    <2>5. ASSUME NEW k \in 0 .. FrameLen(f) - 1, i + k <= StreamLen'
          PROVE  At(i + k)' = <<f, k + 1>>
      <3>1. i + k \in 1 .. StreamLen' /\ i + k <= StreamLen
        BY <1>1, <2>1, <2>4, <2>5
      <3> QED
        BY <2>3, <3>1
    <2>6. ASSUME i + FrameLen(f) <= StreamLen'
          PROVE  At(i + FrameLen(f))' = <<f + 1, 1>>
      <3>1. i + FrameLen(f) \in 1 .. StreamLen' /\ i + FrameLen(f) <= StreamLen
        BY <1>1, <2>1, <2>4, <2>6
      <3> QED
        BY <2>3, <2>4, <3>1
    <2>7. At(i)'[1] = f
      BY <2>1, <2>2
    <2> QED
      BY <2>3, <2>4, <2>5, <2>6, <2>7 DEF FrameAt
  <1>4. sopen' /\ StreamLen' = 0 => Len(delivered') = Len(sizes')
    BY DEF StreamWhole
  <1> QED
    BY <1>2, <1>3, <1>4 DEF StreamWhole

\* What the receiver has read is the beginning of the next frame.
LEMMA GotNext ==
  ASSUME Typed, StreamWhole, ReadSoFar, got # <<>>
  PROVE  /\ NextFrame \in 1 .. Len(sizes)
         /\ want <= FrameLen(NextFrame)
         /\ stage = "payload" => want = FrameLen(NextFrame)
         /\ \A i \in 1 .. Len(got) : got[i] = <<NextFrame, i>>
         /\ InStep /\ got[1][1] = NextFrame
  <1>1. /\ got \in Seq(Sent) /\ Len(got) \in Nat /\ Len(got) > 0
        /\ Len(wire) \in Nat /\ Len(todo) \in Nat
    BY TailFacts DEF Typed
  <1>2. /\ 1 \in 1 .. StreamLen /\ StreamLen > 0
        /\ StreamLen \in Nat /\ Len(got) <= StreamLen
    BY <1>1 DEF StreamLen
  <1>3. At(1) = <<NextFrame, 1>> /\ FrameAt(1)
    BY <1>2 DEF StreamWhole
  <1>4. NextFrame \in 1 .. Len(sizes)
    BY <1>2, <1>3, AtSent DEF Sent
  <1>5. FrameLen(NextFrame) \in Nat /\ sizes[NextFrame] \in 0 .. MaxPayload
    BY <1>4, FrameLens
  <1>6. want <= FrameLen(NextFrame) /\ (stage = "payload" => want = FrameLen(NextFrame))
    <2>1. CASE stage = "length"
      BY <1>5, <2>1, SizeAssumption DEF Typed, Stages, FrameLen
    <2>2. CASE stage = "header"
      BY <1>5, <2>2, SizeAssumption DEF Typed, Stages, FrameLen
    <2>3. CASE stage = "payload"
      <3>1. want = LengthSize + total
        BY <2>3 DEF Typed, TypeOK
      <3>2. total = HeaderSize + sizes[NextFrame]
        BY <2>3 DEF ReadSoFar
      <3> QED
        BY <1>5, <3>1, <3>2, SizeAssumption DEF FrameLen
    <2> QED
      BY <2>1, <2>2, <2>3 DEF Typed, TypeOK
  <1>7. ASSUME NEW i \in 1 .. Len(got) PROVE got[i] = <<NextFrame, i>>
    <2>1. want \in Int /\ Len(got) <= want
      BY DEF Typed, TypeOK
    <2>2. i - 1 \in 0 .. FrameLen(NextFrame) - 1 /\ 1 + (i - 1) = i /\ i <= StreamLen
      BY <1>1, <1>2, <1>5, <1>6, <2>1
    <2>3. At(i) = <<NextFrame, i>>
      BY <1>3, <2>2 DEF FrameAt
    <2> QED
      BY <2>3 DEF At
  <1>8. got[1] = <<NextFrame, 1>>
    BY <1>1, <1>7
  <1>9. InStep /\ got[1][1] = NextFrame
    BY <1>7, <1>8 DEF InStep
  <1> QED
    BY <1>4, <1>6, <1>7, <1>9

\* A frame that is complete is handed up as what it is, and the stream goes on
\* with the frame after it.
LEMMA Delivery ==
  ASSUME Typed, StreamWhole, ReadSoFar, got # <<>>,
         Len(got) = FrameLen(NextFrame), Deliver(got), UNCHANGED <<senderVars, wire>>
  PROVE  delivered' = Append(delivered, NextFrame) /\ StreamWhole'
  <1> DEFINE L == Len(got)
  <1>1. PICK f \in 1 .. Len(sizes) : f = NextFrame
    BY GotNext
  <1>2. \A i \in 1 .. L : got[i] = <<f, i>>
    BY <1>1, GotNext
  <1>3. /\ got \in Seq(Sent) /\ L \in Nat /\ L > 0
        /\ Len(wire) \in Nat /\ Len(todo) \in Nat
    BY TailFacts DEF Typed
  <1>4. got = Bytes(f, 1, FrameLen(f))
    <2>1. got = [i \in 1 .. L |-> got[i]]
      BY <1>3
    <2>2. got = [i \in 1 .. L |-> <<f, i>>]
      BY <1>2, <2>1
    <2>3. L - 1 + 1 = L /\ \A i \in 1 .. L : 1 + i - 1 = i
      BY <1>3
    <2>4. Bytes(f, 1, L) = [i \in 1 .. L - 1 + 1 |-> <<f, 1 + i - 1>>]
      BY DEF Bytes
    <2>5. Bytes(f, 1, L) = [i \in 1 .. L |-> <<f, i>>]
      BY <2>3, <2>4
    <2> QED
      BY <1>1, <2>2, <2>5
  <1>5. got[1][1] = f
    BY <1>2, <1>3
  <1>6. delivered' = Append(delivered, f)
    BY <1>4, <1>5 DEF Deliver
  <1>7. got' = <<>> /\ Len(got') = 0 /\ UNCHANGED <<sizes, todo, wire, sopen>>
    BY EmptyFacts DEF Deliver, Restart, senderVars
  <1>8. StreamLen' \in Nat /\ StreamLen = L + StreamLen' /\ StreamLen \in Nat
    BY <1>3, <1>7 DEF StreamLen
  <1>9. ASSUME NEW i \in 1 .. StreamLen' PROVE At(i)' = At(i + L)
    <2>1. /\ i \in Nat /\ ~(i <= 0) /\ i - 0 = i /\ ~(i + L <= L) /\ i + L - L = i
          /\ (i + L <= L + Len(wire)) = (i <= Len(wire)) /\ 0 + Len(wire) = Len(wire)
      BY <1>3, <1>8
    <2>2. At(i)' = IF i <= Len(wire) THEN wire[i] ELSE todo[i - Len(wire)]
      BY <1>7, <2>1 DEF At
    <2>3. At(i + L) = IF i <= Len(wire) THEN wire[i] ELSE todo[i - Len(wire)]
      BY <2>1 DEF At
    <2> QED
      BY <2>2, <2>3
  <1>10. NextFrame' = f + 1 /\ Len(delivered') = f
    <2>1. Len(delivered') = Len(delivered) + 1
      BY <1>6, AppendFacts DEF Typed
    <2> QED
      BY <1>1, <2>1 DEF NextFrame
  <1>11. FrameLen(f) = L /\ FrameAt(1) /\ StreamLen > 0 /\ At(1)[1] = f
    <2>1. 1 \in 1 .. StreamLen
      BY <1>3, <1>8
    <2> QED
      BY <1>1, <1>3, <1>8, <2>1 DEF StreamWhole
  <1>12. /\ \A k \in 0 .. L - 1 : 1 + k <= StreamLen => At(1 + k) = <<f, k + 1>>
         /\ 1 + L <= StreamLen => At(1 + L) = <<f + 1, 1>>
         /\ sopen /\ 1 + L = StreamLen + 1 => f = Len(sizes)
    BY <1>11 DEF FrameAt
  <1>13. StreamLen' > 0 => At(1)' = <<NextFrame', 1>>
    <2>1. ASSUME StreamLen' > 0 PROVE 1 \in 1 .. StreamLen' /\ 1 + L <= StreamLen
      BY <1>3, <1>8, <2>1
    <2> QED
      BY <1>8, <1>9, <1>10, <1>12, <2>1
  <1>14. sopen' /\ StreamLen' = 0 => Len(delivered') = Len(sizes')
    BY <1>7, <1>8, <1>10, <1>12
  <1>15. ASSUME NEW i \in 1 .. StreamLen', At(i)'[2] = 1 PROVE FrameAt(i)'
    <2>1. i + L \in 1 .. StreamLen /\ At(i)' = At(i + L) /\ FrameAt(i + L)
      <3>1. i + L \in 1 .. StreamLen
        BY <1>3, <1>8
      <3> QED
        BY <1>9, <1>15, <3>1 DEF StreamWhole
    <2>2. PICK g : g = At(i + L)[1]
      OBVIOUS
    <2>3. PICK m : m = FrameLen(g)
      OBVIOUS
    <2>4. /\ \A k \in 0 .. m - 1 : i + L + k <= StreamLen => At(i + L + k) = <<g, k + 1>>
          /\ i + L + m <= StreamLen => At(i + L + m) = <<g + 1, 1>>
          /\ sopen => /\ i + L + m <= StreamLen + 1
                      /\ i + L + m = StreamLen + 1 => g = Len(sizes)
      BY <2>1, <2>2, <2>3 DEF FrameAt
    <2>5. m \in Nat /\ m > 0 /\ FrameLen(g)' = m
      <3>1. g \in 1 .. Len(sizes)
        BY <2>1, <2>2, AtSent DEF Sent
      <3>2. FrameLen(g)' = FrameLen(g)
        BY <1>7 DEF FrameLen
      <3> QED
        BY <2>3, <3>1, <3>2, FrameLens
    <2>6. ASSUME NEW k \in 0 .. m - 1, i + k <= StreamLen' PROVE At(i + k)' = <<g, k + 1>>
      <3>1. i + k \in 1 .. StreamLen' /\ i + k + L = i + L + k /\ i + L + k <= StreamLen
        BY <1>3, <1>8, <2>5, <2>6
      <3> QED
        BY <1>9, <2>4, <3>1
    <2>7. ASSUME i + m <= StreamLen' PROVE At(i + m)' = <<g + 1, 1>>
      <3>1. i + m \in 1 .. StreamLen' /\ i + m + L = i + L + m /\ i + L + m <= StreamLen
        BY <1>3, <1>8, <2>5, <2>7
      <3> QED
        BY <1>9, <2>4, <3>1
    <2>8. sopen' => /\ i + m <= StreamLen' + 1
                    /\ i + m = StreamLen' + 1 => g = Len(sizes')
      <3>1. /\ i + L + m <= StreamLen + 1 => i + m <= StreamLen' + 1
            /\ i + m = StreamLen' + 1 => i + L + m = StreamLen + 1
        <4>1. PICK l \in Nat, r \in Nat, t \in Nat : l = L /\ r = StreamLen' /\ t = StreamLen
          BY <1>3, <1>8
        <4>2. t = l + r /\ i \in Nat /\ m \in Nat
          BY <1>8, <2>5, <4>1
        <4>3. /\ i + l + m <= t + 1 => i + m <= r + 1
              /\ i + m = r + 1 => i + l + m = t + 1
          BY <4>2
        <4> QED
          BY <4>1, <4>3
      <3>2. sopen' = sopen /\ sizes' = sizes
        BY <1>7
      <3> QED
        BY <2>4, <3>1, <3>2
    <2>9. At(i)'[1] = g
      BY <2>1, <2>2
    <2> QED
      BY <2>5, <2>6, <2>7, <2>8, <2>9 DEF FrameAt
  <1>16. StreamWhole'
    BY <1>13, <1>14, <1>15 DEF StreamWhole
  <1> QED
    BY <1>1, <1>6, <1>16

\* A new frame is put behind the last one.
LEMMA SendExtends ==
  ASSUME Typed, StreamWhole, NEW n \in Payload, dsspacket_send(n)
  PROVE  StreamWhole'
  <1>1. /\ n <= MaxPayload /\ sizes' = Append(sizes, n) /\ sopen /\ todo = <<>>
        /\ todo' = Bytes(Len(sizes) + 1, 1, LengthSize + HeaderSize + n)
        /\ UNCHANGED <<sopen, wire, got, delivered>>
    BY DEF dsspacket_send, Accepted, receiverVars
  <1>2. /\ Len(got) \in Nat /\ Len(wire) \in Nat /\ Len(todo) = 0 /\ Len(sizes) \in Nat
        /\ n \in Nat /\ Len(delivered) \in Nat
    BY <1>1, EmptyFacts, PayloadAssumption DEF Typed
  <1>3. PICK N \in Nat, m \in Nat, q \in Nat :
          /\ N = StreamLen /\ N = Len(got) + Len(wire)
          /\ m = LengthSize + HeaderSize + n /\ m > 0
          /\ q = Len(sizes) + 1
    <2>1. StreamLen \in Nat /\ StreamLen = Len(got) + Len(wire)
      BY <1>2 DEF StreamLen
    <2>2. LengthSize + HeaderSize + n \in Nat /\ LengthSize + HeaderSize + n > 0
      BY <1>2, SizeAssumption
    <2>3. Len(sizes) + 1 \in Nat
      BY <1>2
    <2> QED
      BY <2>1, <2>2, <2>3
  <1>4. /\ Len(sizes') = q
        /\ \A f \in 1 .. Len(sizes) : FrameLen(f)' = FrameLen(f)
    BY <1>1, <1>3, SentGrows
  <1>5. /\ Len(todo') = m
        /\ \A i \in 1 .. m : todo'[i] = <<q, i>>
    BY <1>1, <1>3, <1>4, FrameBytes
  <1>6. FrameLen(q)' = m
    BY <1>1, <1>3, <1>4, SentGrows DEF FrameLen
  <1>7. StreamLen' = N + m
    BY <1>1, <1>3, <1>5 DEF StreamLen
  <1>8. ASSUME NEW i \in 1 .. N PROVE At(i)' = At(i)
    BY <1>1, <1>2, <1>3, <1>8 DEF At
  <1>9. ASSUME NEW i \in 1 .. m PROVE At(N + i)' = <<q, i>>
    <2>1. /\ ~(N + i <= Len(got)) /\ ~(N + i <= Len(got) + Len(wire))
          /\ N + i - Len(got) - Len(wire) = i
      BY <1>2, <1>3
    <2>2. At(N + i)' = todo'[N + i - Len(got) - Len(wire)]
      BY <1>1, <2>1 DEF At
    <2> QED
      BY <1>5, <2>1, <2>2
  <1>10. At(1)' = <<NextFrame', 1>>
    <2>1. CASE N = 0
      <3>1. At(N + 1)' = <<q, 1>>
        BY <1>3, <1>9
      <3>2. N + 1 = 1 /\ NextFrame' = q
        BY <1>1, <1>3, <2>1 DEF StreamWhole, NextFrame
      <3> QED
        BY <3>1, <3>2
    <2>2. CASE N # 0
      BY <1>1, <1>3, <1>8, <2>2 DEF StreamWhole, NextFrame
    <2> QED
      BY <2>1, <2>2
  <1>11. ASSUME NEW i \in 1 .. N, At(i)'[2] = 1 PROVE FrameAt(i)'
    <2>1. At(i)' = At(i) /\ FrameAt(i)
      BY <1>3, <1>8, <1>11 DEF StreamWhole
    <2>2. PICK f : f = At(i)[1]
      OBVIOUS
    <2>3. PICK F : F = FrameLen(f)
      OBVIOUS
    <2>4. /\ \A k \in 0 .. F - 1 : i + k <= N => At(i + k) = <<f, k + 1>>
          /\ i + F <= N => At(i + F) = <<f + 1, 1>>
          /\ i + F <= N + 1
          /\ i + F = N + 1 => f = Len(sizes)
      BY <1>1, <1>3, <2>1, <2>2, <2>3 DEF FrameAt
    <2>5. F \in Nat /\ F > 0 /\ FrameLen(f)' = F
      <3>1. f \in 1 .. Len(sizes)
        BY <1>3, <2>2, AtSent DEF Sent
      <3> QED
        BY <1>4, <2>3, <3>1, FrameLens
    <2>6. ASSUME NEW k \in 0 .. F - 1 PROVE At(i + k)' = <<f, k + 1>>
      <3>1. i + k \in 1 .. N
        BY <2>4, <2>5
      <3> QED
        BY <1>8, <2>4, <3>1
    <2>7. At(i + F)' = <<f + 1, 1>>
      <3>1. CASE i + F <= N
        <4>1. i + F \in 1 .. N
          BY <2>5, <3>1
        <4> QED
          BY <1>8, <2>4, <4>1
      <3>2. CASE i + F = N + 1
        <4>1. f + 1 = q
          BY <1>3, <2>4, <3>2
        <4>2. At(N + 1)' = <<q, 1>>
          BY <1>3, <1>9
        <4> QED
          BY <3>2, <4>1, <4>2
      <3> QED
        BY <2>4, <2>5, <3>1, <3>2
    <2>8. i + F <= N + m + 1 /\ i + F # N + m + 1
      BY <1>3, <2>4, <2>5
    <2>9. At(i)'[1] = f
      BY <2>1, <2>2
    <2> QED
      BY <1>7, <2>5, <2>6, <2>7, <2>8, <2>9 DEF FrameAt
  <1>12. FrameAt(N + 1)'
    <2>1. At(N + 1)' = <<q, 1>>
      BY <1>3, <1>9
    <2>2. ASSUME NEW k \in 0 .. m - 1 PROVE At(N + 1 + k)' = <<q, k + 1>>
      <3>1. k + 1 \in 1 .. m /\ N + 1 + k = N + (k + 1)
        BY <1>3
      <3> QED
        BY <1>9, <3>1
    <2>3. ~(N + 1 + m <= N + m) /\ N + 1 + m <= N + m + 1
      BY <1>3
    <2> QED
      BY <1>4, <1>6, <1>7, <2>1, <2>2, <2>3 DEF FrameAt
  <1>13. ASSUME NEW i \in 1 .. N + m, At(i)'[2] = 1 PROVE FrameAt(i)'
    <2>1. CASE i \in 1 .. N
      BY <1>11, <1>13, <2>1
    <2>2. CASE i \notin 1 .. N
      <3>1. PICK j \in 1 .. m : i = N + j
        <4>1. i - N \in 1 .. m /\ i = N + (i - N)
          BY <1>3, <2>2
        <4> QED
          BY <4>1
      <3>2. At(i)' = <<q, j>>
        BY <1>9, <3>1
      <3>3. i = N + 1
        BY <1>13, <3>1, <3>2
      <3> QED
        BY <1>12, <3>3
    <2> QED
      BY <2>1, <2>2
  <1>14. N + m > 0
    BY <1>3
  <1> QED
    BY <1>7, <1>10, <1>13, <1>14 DEF StreamWhole

\* Nothing has failed: what was delivered, and what comes next.
Unharmed ==
  /\ refused = 0
  /\ Len(delivered) <= Len(sizes)
  /\ \A i \in 1 .. Len(delivered) : delivered[i] = i
  /\ ropen => StreamWhole /\ ReadSoFar

LEMMA WholeIsUnharmed == Whole <=> (fails = 0 => Unharmed)
  BY DEF Whole, Unharmed

LEMMA TotalWhole ==
  ASSUME Typed, Unharmed, TotalRead
  PROVE  Unharmed'
  <1>1. /\ stage = "length" /\ Len(got) = want
        /\ UNCHANGED <<senderVars, wire, fails>>
    BY DEF TotalRead
  <1>2. want = LengthSize /\ got # <<>> /\ ropen
    BY <1>1, SizeAssumption, EmptyFacts DEF Typed, Stages
  <1>3. /\ NextFrame \in 1 .. Len(sizes)
        /\ InStep /\ got[1][1] = NextFrame
    BY <1>2, GotNext DEF Unharmed
  <1>4. LengthRead = {HeaderSize + sizes[NextFrame]}
    BY <1>3 DEF LengthRead
  <1>5. sizes[NextFrame] \in Nat /\ sizes[NextFrame] <= MaxPayload
    BY <1>3, FrameLens, PayloadAssumption
  <1>6. /\ total' = HeaderSize + sizes[NextFrame]
        /\ UNCHANGED <<got, delivered, ropen, refused>>
    <2>1. PICK t \in LengthRead :
            IF t >= HeaderSize /\ t - HeaderSize <= MaxPayload
            THEN /\ total' = t
                 /\ stage' = "header"
                 /\ want' = want + HeaderSize
                 /\ UNCHANGED <<got, delivered, ropen, refused>>
            ELSE GiveUp
      BY DEF TotalRead
    <2>2. t = HeaderSize + sizes[NextFrame]
      BY <1>4
    <2>3. t >= HeaderSize /\ t - HeaderSize <= MaxPayload
      BY <1>5, <2>2, SizeAssumption, PayloadAssumption
    <2> QED
      BY <2>1, <2>2, <2>3
  <1>7. StreamLen' = StreamLen /\ StreamLen \in Nat
    BY <1>1, <1>6 DEF StreamLen, senderVars, Typed
  <1>8. \A i \in 1 .. StreamLen : At(i)' = At(i)
    BY <1>1, <1>6 DEF At, senderVars
  <1>9. StreamWhole'
    BY <1>1, <1>2, <1>6, <1>7, <1>8, CutStream DEF Unharmed, senderVars
  <1>10. ReadSoFar'
    BY <1>1, <1>2, <1>6 DEF ReadSoFar, NextFrame, senderVars
  <1> QED
    BY <1>1, <1>6, <1>9, <1>10 DEF Unharmed, senderVars

\* A complete frame counts once.
LEMMA DeliverWhole ==
  ASSUME Typed, Unharmed, got # <<>>, ropen, Len(got) = FrameLen(NextFrame),
         Deliver(got), UNCHANGED <<senderVars, wire>>
  PROVE  Unharmed'
  <1>1. delivered' = Append(delivered, NextFrame) /\ StreamWhole'
    BY Delivery DEF Unharmed
  <1>2. NextFrame \in 1 .. Len(sizes) /\ NextFrame = Len(delivered) + 1 /\ Len(delivered) \in Nat
    BY GotNext DEF Unharmed, NextFrame, Typed
  <1>3. /\ Len(delivered') = Len(delivered) + 1
        /\ \A i \in 1 .. Len(delivered) : delivered'[i] = delivered[i]
        /\ delivered'[Len(delivered) + 1] = NextFrame
    BY <1>1, <1>2, AppendFacts DEF Typed
  <1>4. ASSUME NEW i \in 1 .. Len(delivered') PROVE delivered'[i] = i
    BY <1>2, <1>3 DEF Unharmed
  <1>5. ReadSoFar' /\ UNCHANGED <<ropen, refused, sizes>>
    BY DEF Deliver, Restart, ReadSoFar, senderVars
  <1>6. Len(delivered') <= Len(sizes')
    BY <1>2, <1>3, <1>5
  <1> QED
    BY <1>1, <1>4, <1>5, <1>6 DEF Unharmed

LEMMA HeaderWhole ==
  ASSUME Typed, Unharmed, HeaderRead
  PROVE  Unharmed'
  <1>1. /\ stage = "header" /\ Len(got) = want
        /\ UNCHANGED <<senderVars, wire, fails>>
    BY DEF HeaderRead
  <1>2. want = LengthSize + HeaderSize /\ got # <<>> /\ ropen
    BY <1>1, SizeAssumption, EmptyFacts DEF Typed, Stages
  <1>3. /\ NextFrame \in 1 .. Len(sizes)
        /\ InStep /\ got[1][1] = NextFrame
    BY <1>2, GotNext DEF Unharmed
  <1>4. PayloadRead = {sizes[NextFrame]} /\ total = HeaderSize + sizes[NextFrame]
    BY <1>1, <1>2, <1>3 DEF PayloadRead, ReadSoFar, Unharmed
  <1>5. sizes[NextFrame] \in Nat /\ sizes[NextFrame] <= MaxPayload
    BY <1>3, FrameLens, PayloadAssumption
  <1>6. IF sizes[NextFrame] = 0 THEN Deliver(got)
        ELSE /\ stage' = "payload"
             /\ want' = want + sizes[NextFrame]
             /\ UNCHANGED <<got, total, delivered, ropen, refused>>
    BY <1>4, <1>5, PayloadAssumption DEF HeaderRead
  <1>7. CASE sizes[NextFrame] = 0
    <2>1. Len(got) = FrameLen(NextFrame)
      BY <1>1, <1>2, <1>7, SizeAssumption DEF FrameLen
    <2> QED
      BY <1>1, <1>2, <1>6, <1>7, <2>1, DeliverWhole
  <1>8. CASE sizes[NextFrame] # 0
    <2>1. UNCHANGED <<got, total, delivered, ropen, refused>>
      BY <1>6, <1>8
    <2>2. StreamLen' = StreamLen /\ StreamLen \in Nat
      BY <1>1, <2>1 DEF StreamLen, senderVars, Typed
    <2>3. \A i \in 1 .. StreamLen : At(i)' = At(i)
      BY <1>1, <2>1 DEF At, senderVars
    <2>4. StreamWhole'
      BY <1>1, <1>2, <2>1, <2>2, <2>3, CutStream DEF Unharmed, senderVars
    <2>5. ReadSoFar'
      BY <1>1, <1>2, <1>4, <2>1 DEF ReadSoFar, NextFrame, senderVars
    <2> QED
      BY <1>1, <2>1, <2>4, <2>5 DEF Unharmed, senderVars
  <1> QED
    BY <1>7, <1>8

LEMMA WholeStarts == Init => Whole
  <1> SUFFICES ASSUME Init PROVE Whole
    OBVIOUS
  <1>1. Len(sizes) = 0 /\ Len(delivered) = 0 /\ Len(got) = 0 /\ Len(wire) = 0 /\ Len(todo) = 0
    BY EmptyFacts DEF Init
  <1>2. StreamLen = 0 /\ stage = "length" /\ refused = 0
    BY <1>1 DEF StreamLen, Init
  <1> QED
    BY <1>1, <1>2 DEF Whole, StreamWhole, ReadSoFar

LEMMA WholeKept ==
  ASSUME Typed, Whole, [Next]_vars
  PROVE  Whole'
  <1> SUFFICES ASSUME fails' = 0 PROVE Unharmed'
    BY DEF Whole, Unharmed
  <1>1. Reopen \/ fails = 0
    <2>1. fails \in Nat
      BY BoundsAssumption DEF Typed, TypeOK
    <2> QED
      BY <2>1 DEF Next, dsspacket_send, send_all, SendFails, SendBroken, Close, recv_all,
                  TotalRead, HeaderRead, PayloadComplete, ReceiveFails, EndRead,
                  ReceiverCloses, vars
  <1>2. CASE Reopen
    <2>1. /\ sizes' = <<>> /\ todo' = <<>> /\ wire' = <<>> /\ delivered' = <<>>
          /\ got' = <<>> /\ stage' = "length" /\ refused' = 0
      BY <1>2 DEF Reopen, Restart
    <2>2. /\ Len(sizes') = 0 /\ Len(delivered') = 0
          /\ Len(got') = 0 /\ Len(wire') = 0 /\ Len(todo') = 0
      BY <2>1, EmptyFacts
    <2>3. StreamLen' = 0
      BY <2>2 DEF StreamLen
    <2> QED
      BY <2>1, <2>2, <2>3 DEF Unharmed, StreamWhole, ReadSoFar
  <1>3. CASE ~Reopen
    <2>1. Unharmed
      BY <1>1, <1>3 DEF Whole, Unharmed
    <2>2. StreamLen \in Nat
      BY DEF StreamLen, Typed
    <2>3. ASSUME NEW n \in Payload, dsspacket_send(n) PROVE Unharmed'
      <3>1. ropen => StreamWhole'
        BY <2>1, <2>3, SendExtends DEF Unharmed
      <3>2. UNCHANGED receiverVars /\ sizes' = Append(sizes, n)
        BY <2>3 DEF dsspacket_send
      <3>3. /\ Len(sizes') = Len(sizes) + 1 /\ Len(sizes) \in Nat /\ Len(delivered) \in Nat
            /\ \A f \in 1 .. Len(sizes) : sizes'[f] = sizes[f]
        BY <3>2, SentGrows DEF Typed
      <3>4. ropen => ReadSoFar'
        <4>1. CASE stage = "length"
          BY <3>2, <4>1 DEF ReadSoFar, receiverVars
        <4>2. CASE stage # "length" /\ ropen
          <5>1. NextFrame \in 1 .. Len(sizes) /\ ReadSoFar
            BY <2>1, <4>2, GotNext DEF Unharmed, ReadSoFar
          <5>2. sizes'[NextFrame] = sizes[NextFrame] /\ NextFrame' = NextFrame
            BY <3>2, <3>3, <5>1 DEF NextFrame, receiverVars
          <5> QED
            BY <3>2, <5>1, <5>2 DEF ReadSoFar, receiverVars
        <4> QED
          BY <4>1, <4>2
      <3> QED
        BY <2>1, <3>1, <3>2, <3>3, <3>4 DEF Unharmed, receiverVars
    <2>4. CASE send_all
      <3>1. UNCHANGED <<sizes, sopen, receiverVars>>
        BY <2>4 DEF send_all
      <3>2. ropen => StreamWhole'
        BY <2>1, <2>2, <2>4, <3>1, SendMoves, CutStream DEF Unharmed, receiverVars
      <3> QED
        BY <2>1, <3>1, <3>2 DEF Unharmed, ReadSoFar, NextFrame, receiverVars
    <2>5. CASE recv_all
      <3>1. UNCHANGED <<senderVars, stage, total, delivered, ropen, refused>>
        BY <2>5 DEF recv_all
      <3>2. ropen => StreamWhole'
        BY <2>1, <2>2, <2>5, <3>1, RecvMoves, CutStream DEF Unharmed, senderVars
      <3>3. ropen => ReadSoFar'
        <4>1. got # <<>> => got' # <<>>
          <5>1. PICK k \in 1 .. want - Len(got) :
                  k <= Len(wire) /\ got' = got \o SubSeq(wire, 1, k)
            BY <2>5 DEF recv_all, Missing
          <5>2. k \in 0 .. Len(wire) /\ wire \in Seq(Sent) /\ got \in Seq(Sent)
            BY <5>1 DEF Typed, TypeOK
          <5>3. SubSeq(wire, 1, k) \in Seq(Sent) /\ Len(SubSeq(wire, 1, k)) = k
            BY <5>2, CutFacts
          <5>4. Len(got') = Len(got) + k
            BY <5>1, <5>2, <5>3, JoinFacts
          <5>5. Len(got') > 0
            BY <5>2, <5>4, <5>1
          <5> QED
            BY <5>5, EmptyFacts
        <4> QED
          BY <2>1, <3>1, <4>1 DEF Unharmed, ReadSoFar, NextFrame, senderVars
      <3> QED
        BY <2>1, <3>1, <3>2, <3>3 DEF Unharmed, senderVars
    <2>6. CASE SendBroken \/ Close
      <3>1. todo' = <<>> /\ sopen' = FALSE /\ UNCHANGED <<sizes, wire, receiverVars>>
        BY <2>6 DEF SendBroken, Close
      <3>2. StreamLen' \in Nat /\ StreamLen' <= StreamLen /\ \A i \in 1 .. StreamLen' : At(i)' = At(i)
        <4>1. StreamLen' \in Nat
          BY <3>1, EmptyFacts DEF StreamLen, receiverVars, Typed
        <4> QED
          BY <3>1, <4>1, DropCuts DEF receiverVars
      <3>3. ropen => StreamWhole'
        BY <2>1, <3>1, <3>2, CutStream DEF Unharmed, receiverVars
      <3> QED
        BY <2>1, <3>1, <3>3 DEF Unharmed, ReadSoFar, NextFrame, receiverVars
    <2>7. CASE TotalRead
      BY <2>1, <2>7, TotalWhole
    <2>8. CASE HeaderRead
      BY <2>1, <2>8, HeaderWhole
    <2>9. CASE PayloadComplete
      <3>1. /\ stage = "payload" /\ Len(got) = want /\ Deliver(got)
            /\ UNCHANGED <<senderVars, wire>>
        BY <2>9 DEF PayloadComplete
      <3>2. got # <<>> /\ ropen
        BY <3>1, SizeAssumption, EmptyFacts DEF Typed, TypeOK, Stages
      <3>3. Len(got) = FrameLen(NextFrame)
        BY <2>1, <3>1, <3>2, GotNext DEF Unharmed
      <3> QED
        BY <2>1, <3>1, <3>2, <3>3, DeliverWhole
    <2>10. CASE SendFails \/ ReceiveFails
      <3>1. fails \in Nat /\ fails' = fails + 1
        BY <2>10, BoundsAssumption DEF SendFails, ReceiveFails, Typed, TypeOK
      <3> QED
        BY <3>1
    <2>11. CASE EndRead \/ ReceiverCloses
      <3>1. ropen' = FALSE /\ UNCHANGED <<senderVars, delivered, refused>>
        BY <2>11 DEF EndRead, ReceiverCloses
      <3> QED
        BY <2>1, <3>1 DEF Unharmed, senderVars
    <2>12. CASE UNCHANGED vars
      <3>1. StreamLen' = StreamLen /\ \A i \in 1 .. StreamLen : At(i)' = At(i)
        BY <2>12 DEF StreamLen, At, vars, senderVars, receiverVars
      <3>2. ropen => StreamWhole'
        BY <2>1, <2>2, <2>12, <3>1, CutStream DEF Unharmed, vars, senderVars, receiverVars
      <3> QED
        BY <2>1, <2>12, <3>2 DEF Unharmed, ReadSoFar, NextFrame, vars, senderVars, receiverVars
    <2> QED
      BY <1>3, <2>3, <2>4, <2>5, <2>6, <2>7, <2>8, <2>9, <2>10, <2>11, <2>12 DEF Next
  <1> QED
    BY <1>2, <1>3

\* Until a call fails with the connection left open, dsspacket_recv hands up what
\* dsspacket_send was given: every frame whole, in order and once, whatever parts
\* the kernel moves at a time, and refuses none for its lengths.
THEOREM FramesArriveWhole == Spec => []FramesWhole
  <1>1. Init => Typed /\ Whole
    BY TypedStarts, WholeStarts
  <1>2. Typed /\ Whole /\ [Next]_vars => (Typed /\ Whole)'
    BY TypedKept, WholeKept
  <1>3. Typed /\ Whole => FramesWhole
    <2> SUFFICES ASSUME Typed, Whole, fails = 0 PROVE FramesWhole
      BY DEF FramesWhole
    <2>1. got # <<>> => ropen
      BY DEF Typed, Stages
    <2>2. got # <<>> => InStep /\ got[1][1] = Len(delivered) + 1
      BY <2>1, GotNext DEF Whole, NextFrame
    <2> QED
      BY <2>2 DEF FramesWhole, Whole
  <1> QED
    BY <1>1, <1>2, <1>3, PTL DEF Spec

-----------------------------------------------------------------------------
(* Nothing arrives twice or late, also after calls have failed.            *)

Before(a, b) == a[1] < b[1] \/ (a[1] = b[1] /\ a[2] < b[2])

\* Every byte of the stream comes after those before it, and belongs to a frame
\* after all that were delivered.
InOrder == \A i, j \in 1 .. StreamLen : i < j => Before(At(i), At(j))

Passed ==
  \A j \in 1 .. Len(delivered) :
    /\ delivered[j] <= Len(sizes)
    /\ \A i \in 1 .. StreamLen : At(i)[1] > delivered[j]

Ordered == InOrder /\ Passed /\ NeverRepeated

\* The stream loses bytes at its beginning or at its end.
Lost(d) ==
  /\ StreamLen' \in Nat /\ StreamLen' + d <= StreamLen
  /\ \A i \in 1 .. StreamLen' : At(i)' = At(i + d)

LEMMA LostOrdered ==
  ASSUME Typed, Ordered, NEW d \in Nat, Lost(d), UNCHANGED <<sizes, delivered>>
  PROVE  Ordered'
  <1>1. StreamLen \in Nat /\ \A i \in 1 .. StreamLen' : i + d \in 1 .. StreamLen
    BY DEF StreamLen, Typed, Lost
  <1>2. InOrder'
    <2>1. ASSUME NEW i \in 1 .. StreamLen', NEW j \in 1 .. StreamLen', i < j
          PROVE  Before(At(i), At(j))'
      <3>1. i + d \in 1 .. StreamLen /\ j + d \in 1 .. StreamLen /\ i + d < j + d
        BY <1>1, <2>1 DEF Lost
      <3>2. Before(At(i + d), At(j + d))
        BY <3>1 DEF Ordered, InOrder
      <3> QED
        BY <3>2 DEF Before, Lost
    <2> QED
      BY <2>1 DEF InOrder
  <1>3. Passed'
    BY <1>1 DEF Ordered, Passed, Lost
  <1>4. NeverRepeated'
    BY DEF Ordered, NeverRepeated
  <1> QED
    BY <1>2, <1>3, <1>4 DEF Ordered

LEMMA SameLost ==
  ASSUME Typed, StreamLen' = StreamLen, \A i \in 1 .. StreamLen : At(i)' = At(i)
  PROVE  Lost(0)
  BY DEF Lost, StreamLen, Typed

LEMMA RestartLost ==
  ASSUME Typed, Restart, UNCHANGED <<senderVars, wire>>
  PROVE  Lost(Len(got))
  <1>1. /\ Len(got) \in Nat /\ Len(wire) \in Nat /\ Len(todo) \in Nat
        /\ got' = <<>> /\ Len(got') = 0 /\ todo' = todo /\ wire' = wire
    BY EmptyFacts DEF Typed, Restart, senderVars
  <1>2. StreamLen' = Len(wire) + Len(todo) /\ StreamLen = Len(got) + StreamLen'
    BY <1>1 DEF StreamLen
  <1>3. ASSUME NEW i \in 1 .. StreamLen' PROVE At(i)' = At(i + Len(got))
    BY <1>1, <1>2 DEF At
  <1> QED
    BY <1>1, <1>2, <1>3 DEF Lost

\* The frame handed up is the one the stream begins with, or none.
LEMMA DeliverOrdered ==
  ASSUME Typed, Ordered, got # <<>>, Deliver(got), UNCHANGED <<senderVars, wire>>
  PROVE  Ordered'
  <1>1. PICK v \in Nat :
          /\ delivered' = Append(delivered, v)
          /\ v # 0 => \E f \in 1 .. Len(sizes) : got = Bytes(f, 1, FrameLen(f)) /\ v = got[1][1]
    <2>1. got[1] \in Sent
      BY TailFacts DEF Typed
    <2>2. got[1][1] \in Nat
      BY <2>1 DEF Sent
    <2> QED
      BY <2>2 DEF Deliver
  <1>2. /\ Len(delivered') = Len(delivered) + 1 /\ Len(delivered) \in Nat
        /\ \A j \in 1 .. Len(delivered) : delivered'[j] = delivered[j]
        /\ delivered'[Len(delivered) + 1] = v
    BY <1>1, AppendFacts DEF Typed
  <1>3. Lost(Len(got)) /\ UNCHANGED sizes
    BY RestartLost DEF Deliver, senderVars
  <1>4. /\ Len(got) \in Nat /\ Len(got) > 0 /\ Len(got) <= StreamLen /\ StreamLen \in Nat
        /\ \A i \in 1 .. StreamLen' : i + Len(got) \in 1 .. StreamLen
    <2>1. /\ got \in Seq(Sent) /\ Len(got) \in Nat /\ Len(got) > 0
          /\ Len(wire) \in Nat /\ Len(todo) \in Nat
      BY TailFacts DEF Typed
    <2>2. Len(got) <= StreamLen /\ StreamLen \in Nat
      BY <2>1 DEF StreamLen
    <2> QED
      BY <1>3, <2>1, <2>2 DEF Lost
  <1>5. v <= Len(sizes) /\ \A j \in 1 .. Len(delivered) : v # 0 => delivered[j] < v
    <2>1. CASE v = 0
      BY <2>1 DEF Typed
    <2>2. CASE v # 0
      <3>1. 1 \in 1 .. StreamLen /\ At(1) = got[1] /\ v = got[1][1]
        BY <1>1, <1>4, <2>2 DEF At
      <3>2. v <= Len(sizes)
        BY <3>1, AtSent DEF Sent
      <3> QED
        BY <3>1, <3>2 DEF Ordered, Passed, Typed
    <2> QED
      BY <2>1, <2>2
  <1>6. ASSUME NEW i \in 1 .. StreamLen' PROVE At(i + Len(got))[1] > v
    <2>1. At(i + Len(got)) \in Sent
      BY <1>4, AtSent
    <2>2. CASE v = 0
      BY <2>1, <2>2 DEF Sent
    <2>3. CASE v # 0
      <3>1. PICK f \in 1 .. Len(sizes) : got = Bytes(f, 1, FrameLen(f)) /\ v = got[1][1]
        BY <1>1, <2>3
      <3>2. FrameLen(f) \in Nat /\ FrameLen(f) > 0
        BY FrameLens
      <3>3. PICK m \in Nat : m = FrameLen(f) /\ m > 0
        BY <3>2
      <3>4. got = [k \in 1 .. m |-> <<f, k>>] /\ Len(got) = m
        <4>1. m - 1 + 1 = m /\ \A k \in 1 .. m : 1 + k - 1 = k
          BY <3>3
        <4>2. got = [k \in 1 .. m - 1 + 1 |-> <<f, 1 + k - 1>>]
          BY <3>1, <3>3 DEF Bytes
        <4>3. got = [k \in 1 .. m |-> <<f, k>>]
          BY <4>1, <4>2
        <4> QED
          BY <4>3, <3>3
      <3>5. v = f /\ At(m) = <<f, m>> /\ m \in 1 .. StreamLen
        BY <1>4, <3>1, <3>3, <3>4 DEF At
      <3>6. i + m \in 1 .. StreamLen /\ m < i + m
        BY <1>3, <1>4, <3>3, <3>4 DEF Lost
      <3>7. Before(At(m), At(i + m))
        BY <3>5, <3>6 DEF Ordered, InOrder
      <3>8. At(i + m)[1] \in Nat /\ At(i + m)[2] \in Nat /\ At(i + m)[2] <= FrameLen(At(i + m)[1])
        <4>1. At(i + m)[1] \in 1 .. Len(sizes) /\ At(i + m)[2] \in 1 .. FrameLen(At(i + m)[1])
          BY <2>1, <3>4 DEF Sent
        <4> QED
          BY <4>1, FrameLens
      <3>9. CASE At(i + m)[1] = f
        BY <3>3, <3>5, <3>7, <3>8, <3>9 DEF Before
      <3>10. CASE At(i + m)[1] # f
        BY <3>4, <3>5, <3>7, <3>8, <3>10 DEF Before
      <3> QED
        BY <3>9, <3>10
    <2> QED
      BY <2>2, <2>3
  <1>7. InOrder'
    <2>1. ASSUME NEW i \in 1 .. StreamLen', NEW j \in 1 .. StreamLen', i < j
          PROVE  Before(At(i), At(j))'
      <3>1. /\ i + Len(got) \in 1 .. StreamLen /\ j + Len(got) \in 1 .. StreamLen
            /\ i + Len(got) < j + Len(got)
        BY <1>3, <1>4, <2>1 DEF Lost
      <3>2. Before(At(i + Len(got)), At(j + Len(got)))
        BY <3>1 DEF Ordered, InOrder
      <3> QED
        BY <1>3, <3>2 DEF Before, Lost
    <2> QED
      BY <2>1 DEF InOrder
  <1>8. Passed'
    <2>1. ASSUME NEW j \in 1 .. Len(delivered')
          PROVE  /\ delivered'[j] <= Len(sizes)
                 /\ \A i \in 1 .. StreamLen' : At(i)'[1] > delivered'[j]
      <3>1. CASE j \in 1 .. Len(delivered)
        BY <1>2, <1>3, <1>4, <3>1 DEF Ordered, Passed, Lost
      <3>2. CASE j = Len(delivered) + 1
        BY <1>2, <1>3, <1>5, <1>6, <3>2 DEF Lost
      <3> QED
        BY <1>2, <3>1, <3>2
    <2> QED
      BY <1>3, <2>1 DEF Passed
  <1>9. NeverRepeated'
    <2>1. ASSUME NEW i \in 1 .. Len(delivered'), NEW j \in 1 .. Len(delivered'),
                 i < j, delivered'[i] # 0, delivered'[j] # 0
          PROVE  delivered'[i] < delivered'[j]
      <3>1. i \in 1 .. Len(delivered)
        BY <1>2, <2>1
      <3>2. CASE j \in 1 .. Len(delivered)
        BY <1>2, <2>1, <3>1, <3>2 DEF Ordered, NeverRepeated
      <3>3. CASE j = Len(delivered) + 1
        BY <1>2, <1>5, <2>1, <3>1, <3>3
      <3> QED
        BY <1>2, <3>2, <3>3
    <2> QED
      BY <2>1 DEF NeverRepeated
  <1> QED
    BY <1>7, <1>8, <1>9 DEF Ordered

\* A new frame goes behind everything, and its number is greater than any before.
LEMMA SendOrdered ==
  ASSUME Typed, Ordered, NEW n \in Payload, dsspacket_send(n)
  PROVE  Ordered'
  <1>1. /\ n <= MaxPayload /\ sizes' = Append(sizes, n) /\ todo = <<>>
        /\ todo' = Bytes(Len(sizes) + 1, 1, LengthSize + HeaderSize + n)
        /\ UNCHANGED <<wire, got, delivered>>
    BY DEF dsspacket_send, Accepted, receiverVars
  <1>2. /\ Len(got) \in Nat /\ Len(wire) \in Nat /\ Len(todo) = 0 /\ Len(sizes) \in Nat
        /\ n \in Nat /\ Len(delivered) \in Nat
    BY <1>1, EmptyFacts, PayloadAssumption DEF Typed
  <1>3. PICK N \in Nat, m \in Nat, q \in Nat :
          /\ N = StreamLen /\ N = Len(got) + Len(wire)
          /\ m = LengthSize + HeaderSize + n
          /\ q = Len(sizes) + 1
    <2>1. StreamLen \in Nat /\ StreamLen = Len(got) + Len(wire)
      BY <1>2 DEF StreamLen
    <2>2. LengthSize + HeaderSize + n \in Nat /\ Len(sizes) + 1 \in Nat
      BY <1>2, SizeAssumption
    <2> QED
      BY <2>1, <2>2
  <1>4. Len(sizes') = q
    BY <1>1, <1>3, SentGrows
  <1>5. /\ Len(todo') = m
        /\ \A i \in 1 .. m : todo'[i] = <<q, i>>
    BY <1>1, <1>3, <1>4, FrameBytes
  <1>6. StreamLen' = N + m
    BY <1>1, <1>3, <1>5 DEF StreamLen
  <1>7. ASSUME NEW i \in 1 .. N
        PROVE  At(i)' = At(i) /\ At(i)[1] \in Nat /\ At(i)[1] < q
    <2>1. At(i)' = At(i)
      BY <1>1, <1>2, <1>3, <1>7 DEF At
    <2>2. At(i)[1] \in 1 .. Len(sizes)
      BY <1>3, AtSent DEF Sent
    <2> QED
      BY <1>2, <1>3, <2>1, <2>2
  <1>8. ASSUME NEW i \in 1 .. N + m, i \notin 1 .. N
        PROVE  At(i)' = <<q, i - N>>
    <2>1. PICK j \in 1 .. m : i = N + j /\ i - N = j
      <3>1. i - N \in 1 .. m /\ i = N + (i - N)
        BY <1>3, <1>8
      <3> QED
        BY <3>1
    <2>2. /\ ~(i <= Len(got)) /\ ~(i <= Len(got) + Len(wire))
          /\ i - Len(got) - Len(wire) = j
      BY <1>2, <1>3, <2>1
    <2>3. At(i)' = todo'[i - Len(got) - Len(wire)]
      BY <1>1, <2>2 DEF At
    <2> QED
      BY <1>5, <2>1, <2>2, <2>3
  <1>9. InOrder'
    <2>1. ASSUME NEW i \in 1 .. N + m, NEW j \in 1 .. N + m, i < j
          PROVE  Before(At(i), At(j))'
      <3>1. CASE j \in 1 .. N
        <4>1. i \in 1 .. N
          BY <1>3, <2>1, <3>1
        <4> QED
          BY <1>3, <1>7, <2>1, <3>1, <4>1 DEF Ordered, InOrder, Before
      <3>2. CASE i \in 1 .. N /\ j \notin 1 .. N
        BY <1>7, <1>8, <3>2 DEF Before
      <3>3. CASE i \notin 1 .. N /\ j \notin 1 .. N
        <4>1. i - N < j - N
          BY <1>3, <2>1
        <4> QED
          BY <1>8, <3>3, <4>1 DEF Before
      <3> QED
        BY <1>3, <2>1, <3>1, <3>2, <3>3
    <2> QED
      BY <1>6, <2>1 DEF InOrder
  <1>10. Passed'
    <2>1. ASSUME NEW j \in 1 .. Len(delivered)
          PROVE  /\ delivered[j] <= Len(sizes')
                 /\ \A i \in 1 .. N + m : At(i)'[1] > delivered[j]
      <3>1. /\ delivered[j] \in Nat /\ delivered[j] <= Len(sizes)
            /\ \A i \in 1 .. N : At(i)[1] > delivered[j]
        BY <1>3 DEF Ordered, Passed, Typed
      <3>2. delivered[j] <= q /\ q > delivered[j]
        BY <1>2, <1>3, <3>1
      <3>3. ASSUME NEW i \in 1 .. N + m PROVE At(i)'[1] > delivered[j]
        <4>1. CASE i \in 1 .. N
          BY <1>7, <3>1, <4>1
        <4>2. CASE i \notin 1 .. N
          BY <1>8, <3>2, <4>2
        <4> QED
          BY <4>1, <4>2
      <3> QED
        BY <1>4, <3>2, <3>3
    <2> QED
      BY <1>1, <1>6, <2>1 DEF Passed
  <1>11. NeverRepeated'
    BY <1>1 DEF Ordered, NeverRepeated
  <1> QED
    BY <1>9, <1>10, <1>11 DEF Ordered

LEMMA EmptyOrdered ==
  ASSUME Len(got) = 0, Len(wire) = 0, Len(todo) = 0, Len(delivered) = 0
  PROVE  Ordered
  <1>1. StreamLen = 0
    BY DEF StreamLen
  <1> QED
    BY <1>1 DEF Ordered, InOrder, Passed, NeverRepeated

\* A frame given up, or a reader that starts again, loses what was read of it.
LEMMA RestartOrdered ==
  ASSUME Typed, Ordered, Restart, UNCHANGED <<senderVars, wire, delivered>>
  PROVE  Ordered'
  <1>1. Len(got) \in Nat /\ UNCHANGED <<sizes, delivered>>
    BY DEF Typed, senderVars
  <1> QED
    BY <1>1, RestartLost, LostOrdered

LEMMA SameOrdered ==
  ASSUME Typed, Ordered, UNCHANGED <<sizes, delivered>>,
         StreamLen' = StreamLen, \A i \in 1 .. StreamLen : At(i)' = At(i)
  PROVE  Ordered'
  BY SameLost, LostOrdered

LEMMA OrderedKept ==
  ASSUME Typed, Ordered, [Next]_vars
  PROVE  Ordered'
  <1>1. ASSUME NEW n \in Payload, dsspacket_send(n) PROVE Ordered'
    BY <1>1, SendOrdered
  <1>2. CASE send_all
    <2>1. UNCHANGED <<sizes, delivered>>
      BY <1>2 DEF send_all, receiverVars
    <2> QED
      BY <1>2, <2>1, SendMoves, SameOrdered
  <1>3. CASE SendFails \/ SendBroken \/ Close
    <2>1. todo' = <<>> /\ UNCHANGED <<sizes, wire, got, delivered>>
      BY <1>3 DEF SendFails, SendBroken, Close, receiverVars
    <2>2. StreamLen' <= StreamLen /\ \A i \in 1 .. StreamLen' : At(i)' = At(i)
      BY <2>1, DropCuts
    <2>3. StreamLen' \in Nat
      BY <2>1, EmptyFacts DEF StreamLen, Typed
    <2>4. Lost(0)
      BY <2>2, <2>3 DEF Lost
    <2> QED
      BY <2>1, <2>4, LostOrdered
  <1>4. CASE recv_all
    <2>1. UNCHANGED <<sizes, delivered>>
      BY <1>4 DEF recv_all, senderVars
    <2> QED
      BY <1>4, <2>1, RecvMoves, SameOrdered
  <1>5. CASE TotalRead
    <2>1. /\ UNCHANGED <<senderVars, wire, delivered>>
          /\ Restart \/ UNCHANGED got
      BY <1>5 DEF TotalRead, GiveUp
    <2>2. CASE Restart
      BY <2>1, <2>2, RestartOrdered
    <2>3. CASE UNCHANGED got
      <3>1. StreamLen' = StreamLen /\ \A i \in 1 .. StreamLen : At(i)' = At(i)
        BY <2>1, <2>3 DEF StreamLen, At, senderVars
      <3> QED
        BY <2>1, <3>1, SameOrdered DEF senderVars
    <2> QED
      BY <2>1, <2>2, <2>3
  <1>6. CASE HeaderRead
    <2>1. /\ UNCHANGED <<senderVars, wire>>
          /\ \/ Restart /\ UNCHANGED delivered
             \/ Deliver(got)
             \/ UNCHANGED <<got, delivered>>
      BY <1>6 DEF HeaderRead, GiveUp
    <2>2. CASE Restart /\ UNCHANGED delivered
      BY <2>1, <2>2, RestartOrdered
    <2>3. CASE Deliver(got)
      <3>1. got # <<>>
        BY <1>6, SizeAssumption, EmptyFacts DEF HeaderRead, Typed, TypeOK
      <3> QED
        BY <2>1, <2>3, <3>1, DeliverOrdered
    <2>4. CASE UNCHANGED <<got, delivered>>
      <3>1. StreamLen' = StreamLen /\ \A i \in 1 .. StreamLen : At(i)' = At(i)
        BY <2>1, <2>4 DEF StreamLen, At, senderVars
      <3> QED
        BY <2>1, <2>4, <3>1, SameOrdered DEF senderVars
    <2> QED
      BY <2>1, <2>2, <2>3, <2>4
  <1>7. CASE PayloadComplete
    <2>1. Deliver(got) /\ UNCHANGED <<senderVars, wire>>
      BY <1>7 DEF PayloadComplete
    <2>2. got # <<>>
      BY <1>7, SizeAssumption, EmptyFacts DEF PayloadComplete, Typed, TypeOK
    <2> QED
      BY <2>1, <2>2, DeliverOrdered
  <1>8. CASE ReceiveFails \/ EndRead \/ ReceiverCloses
    <2>1. Restart /\ UNCHANGED <<senderVars, wire, delivered>>
      BY <1>8 DEF ReceiveFails, EndRead, ReceiverCloses
    <2> QED
      BY <2>1, RestartOrdered
  <1>9. CASE Reopen
    <2>1. Len(got') = 0 /\ Len(wire') = 0 /\ Len(todo') = 0 /\ Len(delivered') = 0
      BY <1>9, EmptyFacts DEF Reopen, Restart
    <2>2. StreamLen' = 0
      BY <2>1 DEF StreamLen
    <2> QED
      BY <2>1, <2>2 DEF Ordered, InOrder, Passed, NeverRepeated
  <1>10. CASE UNCHANGED vars
    <2>1. StreamLen' = StreamLen /\ \A i \in 1 .. StreamLen : At(i)' = At(i)
      BY <1>10 DEF StreamLen, At, vars, senderVars, receiverVars
    <2> QED
      BY <1>10, <2>1, SameOrdered DEF vars, senderVars, receiverVars
  <1> QED
    BY <1>1, <1>2, <1>3, <1>4, <1>5, <1>6, <1>7, <1>8, <1>9, <1>10 DEF Next

\* Whatever fails on either side, and wherever the two ends lose their step: no
\* frame is handed up twice, and none after a later one.
THEOREM NoFrameRepeated == Spec => []NeverRepeated
  <1>1. Init => Typed /\ Ordered
    <2>1. Init => Len(got) = 0 /\ Len(wire) = 0 /\ Len(todo) = 0 /\ Len(delivered) = 0
      BY EmptyFacts DEF Init
    <2> QED
      BY <2>1, TypedStarts, EmptyOrdered
  <1>2. Typed /\ Ordered /\ [Next]_vars => (Typed /\ Ordered)'
    BY TypedKept, OrderedKept
  <1>3. Ordered => NeverRepeated
    BY DEF Ordered
  <1> QED
    BY <1>1, <1>2, <1>3, PTL DEF Spec

=============================================================================
