------------------------------ MODULE Framing ------------------------------
(***************************************************************************)
(* A frame on its way through the byte stream: dsspacket_send and          *)
(* dsspacket_recv on top of send_all and recv_all, in one direction of a   *)
(* connection.  A byte is known by its frame and its offset there; a       *)
(* system call moves any part of what it was asked to.  A call interrupted *)
(* by a signal is made again and is no step.                               *)
(***************************************************************************)
EXTENDS Integers, Sequences

CONSTANTS
  LengthSize,  \* sizeof(uint32_t)
  HeaderSize,  \* sizeof(dss_header_t)
  MaxPayload,  \* DSSPACKET_MAX_PAYLOAD_LEN
  Payload,     \* payload lengths a caller may ask for
  Buffer,      \* bytes the kernel holds
  MaxFrames,   \* bound: frames sent
  MaxFails     \* bound: calls that fail and leave the connection open

ASSUME SizeAssumption == LengthSize \in Nat \ {0} /\ HeaderSize \in Nat \ {0}
ASSUME PayloadAssumption == MaxPayload \in Nat /\ Payload \subseteq Nat
ASSUME BoundsAssumption == Buffer \in Nat \ {0} /\ MaxFrames \in Nat /\ MaxFails \in Nat

VARIABLES
  sizes,      \* payload lengths of the frames begun so far
  todo,       \* bytes of the current frame not sent yet
  wire,       \* bytes sent and not received
  sopen,      \* the sender's end is open
  got,        \* bytes of the frame being received
  stage,      \* what is being received: "length", "header", "payload"
  want,       \* bytes the frame must have when this stage is over
  total,      \* total_len, once it is read
  delivered,  \* frames handed to the caller; 0 for one put together wrongly
  ropen,      \* the receiver's end is open
  refused,    \* history: frames given up for their lengths
  fails

senderVars == <<sizes, todo, sopen>>
receiverVars == <<got, stage, want, total, delivered, ropen, refused>>
vars == <<senderVars, wire, receiverVars, fails>>

FrameLen(f) == LengthSize + HeaderSize + sizes[f]
Bytes(f, from, to) == [i \in 1 .. to - from + 1 |-> <<f, from + i - 1>>]

Init ==
  /\ sizes = <<>> /\ todo = <<>> /\ sopen = TRUE
  /\ wire = <<>>
  /\ got = <<>> /\ stage = "length" /\ want = LengthSize /\ total = 0
  /\ delivered = <<>> /\ ropen = TRUE /\ refused = 0
  /\ fails = 0

-----------------------------------------------------------------------------
(* The sender.                                                             *)

\* A longer payload is refused before a byte is sent.
Accepted(n) == n <= MaxPayload

dsspacket_send(n) ==
  /\ sopen /\ todo = <<>>
  /\ Len(sizes) < MaxFrames
  /\ Accepted(n)
  /\ sizes' = Append(sizes, n)
  /\ todo' = Bytes(Len(sizes) + 1, 1, LengthSize + HeaderSize + n)
  /\ UNCHANGED <<sopen, wire, receiverVars, fails>>

\* Mutant: what one call did not take is forgotten.
RestForgotten(k) == <<>>

RestToSend(k) == SubSeq(todo, k + 1, Len(todo))

\* One send of send_all: a part, never more than the kernel has room for.  The
\* three buffers of a frame go out one after the other.
send_all ==
  /\ sopen /\ todo # <<>>
  /\ \E k \in 1 .. Len(todo) :
       /\ Len(wire) + k <= Buffer
       /\ wire' = wire \o SubSeq(todo, 1, k)
       /\ todo' = RestToSend(k)
  /\ UNCHANGED <<sizes, sopen, receiverVars, fails>>

\* A send fails and the client goes on to its next command.
SendFails ==
  /\ sopen /\ todo # <<>>
  /\ fails < MaxFails
  /\ fails' = fails + 1
  /\ todo' = <<>>
  /\ UNCHANGED <<sizes, sopen, wire, receiverVars>>

\* A send fails because the receiver is gone.
SendBroken ==
  /\ sopen /\ todo # <<>> /\ ~ropen
  /\ sopen' = FALSE
  /\ todo' = <<>>
  /\ UNCHANGED <<sizes, wire, receiverVars, fails>>

Close ==
  /\ sopen
  /\ sopen' = FALSE
  /\ todo' = <<>>
  /\ UNCHANGED <<sizes, wire, receiverVars, fails>>

-----------------------------------------------------------------------------
(* The receiver.                                                           *)

\* Mutant: a call that reads past the buffer it was given.
MissingPlusOne == want - Len(got) + 1

\* Mutant: the last byte is never asked for.
MissingLastOne == want - Len(got) - 1

Missing == want - Len(got)

\* One recv of recv_all.
recv_all ==
  /\ ropen /\ Len(got) < want
  /\ \E k \in 1 .. Missing :
       /\ k <= Len(wire)
       /\ got' = got \o SubSeq(wire, 1, k)
       /\ wire' = SubSeq(wire, k + 1, Len(wire))
  /\ UNCHANGED <<senderVars, stage, want, total, delivered, ropen, refused, fails>>

\* The receiver is at the start of a frame and has read it without a gap.
InStep ==
  got # <<>> /\ \A i \in 1 .. Len(got) : got[i] = <<got[1][1], i>>

\* What a length field says: the length of its frame, or anything at all when
\* the bytes are not a length field.
LengthRead == IF InStep THEN {HeaderSize + sizes[got[1][1]]} ELSE 0 .. HeaderSize + MaxPayload + 1
PayloadRead == IF InStep THEN {sizes[got[1][1]]} ELSE 0 .. MaxPayload + 1

Restart ==
  /\ got' = <<>> /\ stage' = "length" /\ want' = LengthSize /\ total' = 0

\* The server leaves its loop, the client may go on with the next command.
GiveUp ==
  /\ Restart
  /\ refused' = refused + 1
  /\ ropen' \in BOOLEAN
  /\ UNCHANGED delivered

TotalRead ==
  /\ stage = "length" /\ Len(got) = want
  /\ \E t \in LengthRead :
       IF t >= HeaderSize /\ t - HeaderSize <= MaxPayload
       THEN /\ total' = t
            /\ stage' = "header"
            /\ want' = want + HeaderSize
            /\ UNCHANGED <<got, delivered, ropen, refused>>
       ELSE GiveUp
  /\ UNCHANGED <<senderVars, wire, fails>>

Deliver(frame) ==
  /\ delivered' = Append(delivered, IF \E f \in 1 .. Len(sizes) : frame = Bytes(f, 1, FrameLen(f))
                                    THEN frame[1][1] ELSE 0)
  /\ Restart
  /\ UNCHANGED <<ropen, refused>>

\* Mutant: the return after an empty payload is missing.
HeaderReadAndOn ==
  /\ stage = "header" /\ Len(got) = want
  /\ \E p \in PayloadRead :
       IF p > MaxPayload \/ HeaderSize + p # total THEN GiveUp
       ELSE /\ stage' = "payload"
            /\ want' = want + p
            /\ delivered' = IF p = 0 THEN Append(delivered, got[1][1]) ELSE delivered
            /\ UNCHANGED <<got, total, ropen, refused>>
  /\ UNCHANGED <<senderVars, wire, fails>>

\* An empty payload is not waited for.
HeaderRead ==
  /\ stage = "header" /\ Len(got) = want
  /\ \E p \in PayloadRead :
       IF p > MaxPayload \/ HeaderSize + p # total THEN GiveUp
       ELSE IF p = 0 THEN Deliver(got)
       ELSE /\ stage' = "payload"
            /\ want' = want + p
            /\ UNCHANGED <<got, total, delivered, ropen, refused>>
  /\ UNCHANGED <<senderVars, wire, fails>>

PayloadComplete ==
  /\ stage = "payload" /\ Len(got) = want
  /\ Deliver(got)
  /\ UNCHANGED <<senderVars, wire, fails>>

\* A call fails on the client's side: no memory for the payload, or recv.
ReceiveFails ==
  /\ ropen /\ got # <<>>
  /\ fails < MaxFails
  /\ fails' = fails + 1
  /\ Restart
  /\ UNCHANGED <<senderVars, wire, delivered, ropen, refused>>

\* recv returns 0: a frame received in part is dropped with the connection.
EndRead ==
  /\ ropen /\ ~sopen /\ wire = <<>> /\ Len(got) < want
  /\ ropen' = FALSE
  /\ Restart
  /\ UNCHANGED <<senderVars, wire, delivered, refused, fails>>

ReceiverCloses ==
  /\ ropen
  /\ ropen' = FALSE
  /\ Restart
  /\ UNCHANGED <<senderVars, wire, delivered, refused, fails>>

\* The next connection.
Reopen ==
  /\ ~sopen /\ ~ropen
  /\ sizes' = <<>> /\ todo' = <<>> /\ sopen' = TRUE
  /\ wire' = <<>>
  /\ Restart
  /\ delivered' = <<>> /\ ropen' = TRUE /\ refused' = 0
  /\ fails' = 0

-----------------------------------------------------------------------------

Next ==
  \/ \E n \in Payload : dsspacket_send(n)
  \/ send_all \/ SendFails \/ SendBroken \/ Close
  \/ recv_all \/ TotalRead \/ HeaderRead \/ PayloadComplete
  \/ ReceiveFails \/ EndRead \/ ReceiverCloses \/ Reopen

Spec == Init /\ [][Next]_vars

\* The kernel moves bytes and wakes who waits for them, and both processes run: a
\* sender that is stopped in the middle of a frame would keep recv_all waiting
\* for ever, it has no timeout.
Fairness ==
  /\ WF_vars(send_all) /\ WF_vars(SendBroken)
  /\ WF_vars(recv_all) /\ WF_vars(EndRead)
  /\ WF_vars(TotalRead) /\ WF_vars(HeaderRead) /\ WF_vars(PayloadComplete)

FairSpec == Spec /\ Fairness

-----------------------------------------------------------------------------

\* The types of every variable, and how far a stage can have come.
TypeOK ==
  /\ \A f \in 1 .. Len(sizes) : sizes[f] \in Payload /\ sizes[f] <= MaxPayload
  /\ Len(sizes) <= MaxFrames
  /\ Len(wire) <= Buffer
  /\ sopen \in BOOLEAN /\ ropen \in BOOLEAN
  /\ stage \in {"length", "header", "payload"}
  /\ Len(got) <= want
  /\ want \in LengthSize .. LengthSize + HeaderSize + MaxPayload
  /\ stage # "length" => want >= LengthSize + HeaderSize
  /\ stage = "payload" => want = LengthSize + total
  /\ refused \in Nat
  /\ fails \in 0 .. MaxFails

\* As long as no call has failed with the connection left open, frames are
\* handed up whole, in order, each once, and none is refused: the limits of
\* both ends agree, and no read takes bytes of the next frame.
FramesWhole ==
  fails = 0 =>
    /\ \A i \in 1 .. Len(delivered) : delivered[i] = i
    /\ Len(delivered) <= Len(sizes)
    /\ got # <<>> => InStep /\ got[1][1] = Len(delivered) + 1
    /\ refused = 0

\* Also after failures no frame is handed up twice, or after a later one: what is
\* put together wrongly can replace frames, never repeat or reorder them.
NeverRepeated ==
  \A i, j \in 1 .. Len(delivered) :
    i < j /\ delivered[i] # 0 /\ delivered[j] # 0 => delivered[i] < delivered[j]

\* A send ends: everything is in the kernel's hands, or the call has failed.  A
\* frame that has begun to arrive is handed up, unless a call fails, the
\* connection ends, or an earlier failure has left the two ends out of step.  A
\* receiver learns that the sender has gone.
NobodyStuck ==
  /\ todo # <<>> ~> todo = <<>>
  /\ got # <<>> ~> (got = <<>> \/ fails > 0)
  /\ ~sopen ~> (~ropen \/ sopen)

=============================================================================
